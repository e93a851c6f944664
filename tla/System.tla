------------------------------- MODULE System -------------------------------
(***************************************************************************)
(* Workers and direct lives on one database: `timefork approve` sends a run *)
(* that a direct life paused to the queue of the workers, and a fork waits  *)
(* there while a test or a benchmark opens it directly.                    *)
(*                                                                         *)
(* An effect writes a row of its own, which stays locked until the          *)
(* transaction ends.  A worker has locked the runs row before (the fence);  *)
(* a direct life asks for it after, by the foreign key of its completion.   *)
(* So the two may wait for each other, and Postgres aborts one.            *)
(***************************************************************************)
EXTENDS FleetProperties, Lives

VARIABLE wrote   \* the processes whose open transaction has run its effect

systemVars == <<vars, wrote>>

SameEffect(p, q) ==
    /\ life[p].run = life[q].run
    /\ ActingOp(p).ask = ActingOp(q).ask

InTx(p) == pc[p] = "tx"

\* fn(conn): it waits for whoever has written the row and not committed.
RunEffect(p) ==
    /\ InTx(p) /\ ~life[p].found /\ p \notin wrote
    /\ \A q \in wrote : ~SameEffect(p, q)
    /\ wrote' = wrote \cup {p}
    /\ UNCHANGED vars

CommitReady(p) == InTx(p) /\ (life[p].found \/ p \in wrote)

\* p holds the runs row and waits for q's row; q waits for the runs row.
Entangled(p, q) ==
    /\ InTx(p) /\ lock[life[p].run] = p /\ ~CommitReady(p)
    /\ q \in wrote /\ lock[life[q].run] # q /\ SameEffect(p, q)

\* After deadlock_timeout one of the two gets an error and rolls back.
DeadlockVictim(p) ==
    /\ \E q \in Proc : Entangled(p, q) \/ Entangled(q, p)
    /\ Goto(p, "raised")
    /\ Release(p)
    /\ wrote' = wrote \ {p}
    /\ UNCHANGED <<tables, life, grant, stalled>> /\ NoFault

\* A worker or a direct life does what it does alone.
Ordinary(p) ==
    \/ p \in Worker /\ (WorkerStep(p) \/ Dies(p) \/ \E r \in Run : Beat(p, r))
    \/ /\ p \in Life
       /\ LifeStep(p) \/ LifeDies(p) \/ \E r \in Run : TakeUp(p, r)
       /\ UNCHANGED stalled

\* What is rolled back when a process dies is not written.
Alone(p) ==
    /\ Ordinary(p)
    /\ InTx(p) /\ pc'[p] \in {"agent", "duplicate"} => CommitReady(p)
    /\ wrote' = wrote \ {p}

Around ==
    /\ \/ \E r \in Run : Enqueue(r) \/ LapseDead(r) \/ LapseLive(r)
       \/ \E r \in Run : Create(r) /\ UNCHANGED stalled
       \/ \E h \in Human : Grant(h)
       \/ Sweep \/ Branch
    /\ UNCHANGED wrote

SystemNext ==
    \/ \E p \in Proc : RunEffect(p) \/ Alone(p) \/ DeadlockVictim(p)
    \/ Around

----------------------------------------------------------------------------
\* A run falls asleep behind a question that was answered, which nobody then
\* wakes, only by a direct life that paused before the answer and set the
\* status after the re-queue (test_approval.py:49).  A worker never does that:
\* its park looks at the token and the status.
OnlyALifeOversleeps ==
    [][\A r \in Run :
          Decided(r)' /\ runs[r].status # "paused" /\ runs'[r].status = "paused" =>
              \/ \E h \in Human : grant[h].at = "appended" /\ grant[h].run = r
              \/ \E l \in Life : pc[l] = "paused" /\ life[l].run = r]_systemVars
=============================================================================

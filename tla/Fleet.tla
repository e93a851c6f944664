------------------------------- MODULE Fleet -------------------------------
(***************************************************************************)
(* The fleet: workers (worker.py) that claim runs from the queue and run    *)
(* their agent under a lease, the sweeper, humans who grant approvals, and  *)
(* forks, all on the tables of one database.                               *)
(*                                                                         *)
(* Processes stop, stall and fail anywhere.  Each stop, each lease that     *)
(* lapses on a live worker and each exception that is not the agent's own   *)
(* counts against MaxFaults.                                               *)
(***************************************************************************)
EXTENDS Queue, Context, Approval, Fork

CONSTANTS
    StallAt,    \* where a worker may stall without dying, for ever or not
    Mortal      \* the humans whose process may stop in the middle of a grant

ASSUME FleetAssumption ==
    /\ StallAt \subseteq PC
    /\ Mortal \subseteq Human

VARIABLE stalled   \* the workers that are stopped, as by SIGSTOP

vars == <<runs, diary, keys, ledger, lock, pc, life, grant, faults, stalled>>

----------------------------------------------------------------------------
(* run_worker and _execute                                                 *)

Enqueue(r) ==
    EnqueueRun(r) /\ UNCHANGED <<pc, life, grant, stalled>> /\ NoFault

Claim(w, r) ==
    /\ pc[w] = "idle"
    /\ ClaimRun(w, r)
    /\ Goto(w, "claimed")
    /\ life' = [life EXCEPT ![w].run = r, ![w].token = runs'[r].token]
    /\ UNCHANGED <<grant, stalled>> /\ NoFault

Start(w) ==
    /\ pc[w] = "claimed"
    /\ \E c \in Code : OpenContext(w, c)
    /\ UNCHANGED <<grant, stalled>> /\ NoFault

Step(w) == ContextStep(w) /\ UNCHANGED <<grant, stalled>> /\ NoFault

\* Variant: the status is not checked.
StillOurToken(w) == runs[life[w].run].token = life[w].token

\* UPDATE ... WHERE lease_token = token AND status = 'running': the fence on
\* the row's own life cycle.
StillOurs(w) ==
    LET row == runs[life[w].run]
    IN  row.token = life[w].token /\ row.status = "running"

\* The owner and the expiry stay on a completed row.
Complete(w) ==
    LET r == life[w].run
    IN  /\ pc[w] = "returned"
        /\ IF StillOurs(w)
              THEN Unlocked(r) /\ runs' = [runs EXCEPT ![r].status = "completed"]
              ELSE UNCHANGED runs
        /\ Leave(w, "idle")
        /\ UNCHANGED <<diary, keys, ledger, lock, grant, stalled>> /\ NoFault

ParkedRow(row, status) ==
    [row EXCEPT !.status = status, !.owner = None, !.lease = "none"]

\* Variant: a pause ends the run.
ParkPauseAsDone(w) == IF pc[w] = "paused" THEN "completed" ELSE "failed"

\* A pause parks the run as paused, any exception but StaleFenceError as
\* failed.
ParkAs(w) ==
    CASE pc[w] = "paused" -> "paused"
      [] pc[w] \in {"diverged", "duplicate", "raised"} -> "failed"

Park(w) ==
    LET r == life[w].run
    IN  /\ pc[w] \in {"paused", "diverged", "duplicate", "raised"}
        /\ IF StillOurs(w)
              THEN /\ Unlocked(r)
                   /\ runs' = [runs EXCEPT ![r] = ParkedRow(@, ParkAs(w))]
              ELSE UNCHANGED runs
        /\ Leave(w, "idle")
        /\ UNCHANGED <<diary, keys, ledger, lock, grant, stalled>> /\ NoFault

\* Fenced out: another worker owns the run now.
Drop(w) ==
    /\ pc[w] = "fenced"
    /\ Leave(w, "idle")
    /\ ReadOnly
    /\ UNCHANGED <<grant, stalled>> /\ NoFault

----------------------------------------------------------------------------
(* The heartbeat thread, the passing of time, and the sweeper.             *)

\* The thread beats for the run from the claim until _execute returns.
Beating(w, r) == pc[w] # "idle" /\ life[w].run = r /\ w \notin stalled

Beat(w, r) ==
    /\ Beating(w, r)
    /\ Heartbeat(w, r)
    /\ UNCHANGED <<pc, life, grant, stalled>> /\ NoFault

Renewed(r) == \E w \in Worker : Beating(w, r) /\ CanBeat(w, r)

Lapse(r) ==
    /\ runs[r].status = "running"
    /\ runs[r].lease = "live"
    /\ runs' = [runs EXCEPT ![r].lease = "lapsed"]
    /\ UNCHANGED <<diary, keys, ledger, lock, pc, life, grant, stalled>>

\* Nobody renews the lease, so its expiry passes.
LapseDead(r) == Lapse(r) /\ ~Renewed(r) /\ NoFault

\* The beats of a live worker come too late.
LapseLive(r) == Lapse(r) /\ Renewed(r) /\ Fault

Sweep == SweepExpired /\ UNCHANGED <<pc, life, grant, stalled>> /\ NoFault

----------------------------------------------------------------------------
(* Humans and forks                                                        *)

Grant(h) == GrantStep(h) /\ UNCHANGED <<pc, life, stalled>> /\ NoFault

GranterStops(h) ==
    h \in Mortal /\ GrantStops(h) /\ UNCHANGED <<pc, life, stalled>> /\ Fault

Branch == ForkSome /\ UNCHANGED <<pc, life, grant, stalled>> /\ NoFault

----------------------------------------------------------------------------
Dies(w) == Crash(w) /\ stalled' = stalled \ {w} /\ UNCHANGED grant

Fails(w) == w \notin stalled /\ Raise(w) /\ UNCHANGED <<grant, stalled>>

\* The whole process stops, its heartbeat too, and keeps what it holds.
Stall(w) ==
    /\ w \notin stalled
    /\ pc[w] \in StallAt
    /\ stalled' = stalled \cup {w}
    /\ UNCHANGED <<runs, diary, keys, ledger, lock, pc, life, grant>> /\ Fault

\* It goes on where it stopped, not knowing that time has passed.
Thaw(w) ==
    /\ w \in stalled
    /\ stalled' = stalled \ {w}
    /\ UNCHANGED <<runs, diary, keys, ledger, lock, pc, life, grant>> /\ NoFault

----------------------------------------------------------------------------
Init == DiaryInit /\ ContextInit /\ ApprovalInit /\ stalled = {}

WorkerStep(w) ==
    /\ w \notin stalled
    /\ \/ \E r \in Run : Claim(w, r)
       \/ Start(w) \/ Step(w) \/ Complete(w) \/ Park(w) \/ Drop(w)

Next ==
    \/ \E r \in Run : Enqueue(r) \/ LapseDead(r) \/ LapseLive(r)
    \/ \E w \in Worker : WorkerStep(w) \/ Dies(w) \/ Fails(w) \/ Stall(w) \/ Thaw(w)
    \/ \E w \in Worker, r \in Run : Beat(w, r)
    \/ \E h \in Human : Grant(h) \/ GranterStops(h)
    \/ Sweep
    \/ Branch

Spec == Init /\ [][Next]_vars

\* Workers that are not stalled keep stepping, time passes, the sweeper runs,
\* and a grant that was begun goes on unless its process may stop.  Nobody
\* has to ask for a run, answer a question, or fork, and no stall has to end.
Fairness ==
    /\ \A w \in Worker : WF_vars(WorkerStep(w))
    /\ \A r \in Run : WF_vars(LapseDead(r))
    /\ WF_vars(Sweep)
    /\ \A h \in Human \ Mortal : WF_vars(grant[h].at # "idle" /\ Grant(h))

FairSpec == Spec /\ Fairness
=============================================================================

-------------------------------- MODULE Lives --------------------------------
(***************************************************************************)
(* Direct lives: an agent run without a worker, as the harness, the        *)
(* examples and the approval tests do.  A process opens a Context without a *)
(* token on any run and walks its agent; when it returns or pauses, the     *)
(* process itself sets the status.  Nothing keeps two such lives off the    *)
(* same run: only the primary keys of events and completed_keys do.        *)
(***************************************************************************)
EXTENDS DiaryProperties

livesVars == <<runs, diary, keys, ledger, lock, pc, life, grant, faults>>

Create(r) == CreateRun(r) /\ UNCHANGED <<pc, life, grant>> /\ NoFault

\* A process takes up a run: a new one, or one that an earlier life left.
TakeUp(l, r) ==
    /\ pc[l] = "idle"
    /\ Exists(r)
    /\ Goto(l, "claimed")
    /\ life' = [life EXCEPT ![l].run = r]
    /\ ReadOnly
    /\ UNCHANGED grant /\ NoFault

Open(l) ==
    /\ pc[l] = "claimed"
    /\ \E c \in Code : OpenContext(l, c)
    /\ UNCHANGED grant /\ NoFault

Walk(l) == ContextStep(l) /\ UNCHANGED grant /\ NoFault

\* set_run_status, which knows nothing of other lives.
Finish(l) ==
    /\ pc[l] = "returned"
    /\ SetRunStatus(life[l].run, "completed")
    /\ Leave(l, "idle")
    /\ UNCHANGED grant /\ NoFault

Suspend(l) ==
    /\ pc[l] = "paused"
    /\ SetRunStatus(life[l].run, "paused")
    /\ Leave(l, "idle")
    /\ UNCHANGED grant /\ NoFault

\* Any other exception ends the process; nobody marks the run.
GiveUp(l) ==
    /\ pc[l] \in {"diverged", "duplicate", "raised"}
    /\ Leave(l, "idle")
    /\ ReadOnly
    /\ UNCHANGED grant /\ NoFault

LifeDies(l) == Crash(l) /\ UNCHANGED grant

LifeFails(l) == Raise(l) /\ UNCHANGED grant

LifeStep(l) ==
    \/ Open(l) \/ Walk(l) \/ Finish(l) \/ Suspend(l) \/ GiveUp(l)

LivesInit == DiaryInit /\ ContextInit /\ ApprovalInit

LivesNext ==
    \/ \E r \in Run : Create(r)
    \/ \E l \in Life, r \in Run : TakeUp(l, r)
    \/ \E l \in Life : LifeStep(l) \/ LifeDies(l) \/ LifeFails(l)
    \/ \E h \in Human : GrantStep(h) /\ UNCHANGED <<pc, life>> /\ NoFault
    \/ ForkSome /\ UNCHANGED <<pc, life, grant>> /\ NoFault

LivesSpec == LivesInit /\ [][LivesNext]_livesVars

----------------------------------------------------------------------------
\* Every variable stays in its type when no life has a token.
LivesTypeOK == DiaryTypeOK /\ ContextTypeOK /\ ApprovalTypeOK

\* Of two lives of one run, the one that comes second to a slot stops at the
\* primary key; as the code is the same, neither is ever handed an answer to
\* another call.
LivesNeverDiverge == \A l \in Life : pc[l] # "diverged"
=============================================================================

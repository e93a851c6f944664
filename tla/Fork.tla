-------------------------------- MODULE Fork --------------------------------
(***************************************************************************)
(* fork.py: branch a new timeline off a run.  fork_run is one transaction,  *)
(* and what it reads before its inserts is never updated once committed,   *)
(* so it is one action.                                                    *)
(***************************************************************************)
EXTENDS Diary

\* Variant: any step is a fork point.
SplitsNothing(e) == FALSE

\* Cutting after one of these would split an operation.
SplitsOperation(e) == e.type \in {"TOOL_INTENT", "APPROVAL_REQUESTED"}

CanFork(r, k) ==
    LET events == ReadEvents(r)
    IN  /\ Exists(r)
        /\ k \in 1 .. Len(events)
        /\ ~SplitsOperation(diary[r][k].event)

PatchEvent(patch) == [type |-> "PATCH_APPLIED", ask |-> None, ans |-> patch]

\* Variant: seq < k instead of seq <= k.
CopiedButLast(r, k) ==
    [s \in {j \in DOMAIN diary[r] : j < k} |->
        [event |-> diary[r][s].event, token |-> 0]]

\* Rows 1..k of the parent, payloads as they are, tokens 0.
CopiedPrefix(r, k) ==
    [s \in {j \in DOMAIN diary[r] : j <= k} |->
        [event |-> diary[r][s].event, token |-> 0]]

\* A refused fork point changes nothing.
ForkRun(parent, k, child, patch) ==
    /\ CanFork(parent, k)
    /\ NewRun(child)
    /\ runs' = [runs EXCEPT ![child] = [@ EXCEPT !.status = "queued",
                                                 !.parent = parent,
                                                 !.forkSeq = k]]
    /\ diary' = [diary EXCEPT ![child] =
                    WithRow(CopiedPrefix(parent, k), k + 1, PatchEvent(patch), 0)]
    /\ UNCHANGED <<keys, ledger, lock>>

ForkSome == \E parent, child \in Run, patch \in Patch :
                \E k \in DOMAIN diary[parent] : ForkRun(parent, k, child, patch)
=============================================================================

------------------------------ MODULE Approval ------------------------------
(***************************************************************************)
(* grant_approval of context.py: a human answers the question a diary ends  *)
(* on.  It reads the diary, appends the decision, and re-queues the run, in *)
(* three transactions; its process may stop between any two of them.       *)
(***************************************************************************)
EXTENDS Diary

CONSTANT Human   \* the processes that call grant_approval

VARIABLE grant   \* per human, how far the call in progress has come

NoGrant == [at |-> "idle", run |-> None, seq |-> 0]

GrantRow == [at : {"idle", "read", "appended"},
             run : Run \cup {None}, seq : Nat]

\* Variant: a decision is accepted wherever the diary stands.
AnyDiaryAwaits(r) == ReadEvents(r) # << >>

Awaiting(r) ==
    LET events == ReadEvents(r)
    IN  events # << >> /\ events[Len(events)].type = "APPROVAL_REQUESTED"

\* Any other diary is refused with NotAwaitingApprovalError.
GrantRead(h, r) ==
    /\ grant[h].at = "idle"
    /\ Awaiting(r)
    /\ grant' = [grant EXCEPT ![h] = [at |-> "read", run |-> r,
                                      seq |-> Len(ReadEvents(r)) + 1]]
    /\ UNCHANGED <<runs, diary, keys, ledger, lock>>

DecisionEvent(approved) ==
    [type |-> "APPROVAL", ask |-> None, ans |-> approved]

\* append_event without a token.  If the slot was filled since the read, the
\* call ends in DuplicateSequenceError.
GrantAppend(h) ==
    LET r == grant[h].run
    IN  /\ grant[h].at = "read"
        /\ Unlocked(r)
        /\ IF Taken(r, grant[h].seq)
              THEN grant' = [grant EXCEPT ![h] = NoGrant] /\ UNCHANGED diary
              ELSE /\ \E approved \in {"yes", "no"} :
                        InsertEvent(r, grant[h].seq, DecisionEvent(approved), 0)
                   /\ grant' = [grant EXCEPT ![h].at = "appended"]
        /\ UNCHANGED <<runs, keys, ledger, lock>>

\* set_run_status, whatever has become of the run meanwhile.
GrantRequeue(h) ==
    /\ grant[h].at = "appended"
    /\ SetRunStatus(grant[h].run, "queued")
    /\ grant' = [grant EXCEPT ![h] = NoGrant]

GrantStep(h) ==
    \/ \E r \in Run : GrantRead(h, r)
    \/ GrantAppend(h)
    \/ GrantRequeue(h)

\* The process that grants stops in the middle of the call.
GrantStops(h) ==
    /\ grant[h].at # "idle"
    /\ grant' = [grant EXCEPT ![h] = NoGrant]
    /\ UNCHANGED <<runs, diary, keys, ledger, lock>>

ApprovalInit == grant = [h \in Human |-> NoGrant]

ApprovalTypeOK == grant \in [Human -> GrantRow]
=============================================================================

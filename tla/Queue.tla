------------------------------- MODULE Queue -------------------------------
(***************************************************************************)
(* queue.py: the runs table as a task queue with leases.                   *)
(*                                                                         *)
(* A lease is "live" until its expiry has passed and "lapsed" after; when   *)
(* it lapses is decided by the module that knows who is still beating.     *)
(* Each operation is one transaction, hence one action.                    *)
(***************************************************************************)
EXTENDS Diary

Queued(r) == runs[r].status = "queued"

\* The row SELECT ... ORDER BY created_at FOR UPDATE SKIP LOCKED LIMIT 1 picks.
NextQueued(r) ==
    /\ Queued(r) /\ Unlocked(r)
    /\ \A q \in 1 .. (r - 1) : ~(Queued(q) /\ Unlocked(q))

\* Variants of a claim: the token stays, or the expiry is left NULL.
ClaimKeepsToken(row, w) ==
    [row EXCEPT !.status = "running", !.owner = w, !.lease = "live"]

ClaimWithoutExpiry(row, w) ==
    [row EXCEPT !.status = "running", !.owner = w, !.lease = "none",
                !.token = @ + 1]

\* The row a claim leaves: the owner, a fresh lease, and the next token.
ClaimedRow(row, w) ==
    [row EXCEPT !.status = "running", !.owner = w, !.lease = "live",
                !.token = @ + 1]

EnqueueRun(r) ==
    /\ NewRun(r)
    /\ runs' = [runs EXCEPT ![r].status = "queued"]
    /\ UNCHANGED <<diary, keys, ledger, lock>>

ClaimRun(w, r) ==
    /\ NextQueued(r)
    /\ runs' = [runs EXCEPT ![r] = ClaimedRow(@, w)]
    /\ UNCHANGED <<diary, keys, ledger, lock>>

\* The owner of a running run renews its lease, lapsed or not, whatever token
\* it was claimed with.  The UPDATE waits for the row.
CanBeat(w, r) == runs[r].owner = w /\ runs[r].status = "running"

Heartbeat(w, r) ==
    /\ CanBeat(w, r)
    /\ Unlocked(r)
    /\ runs[r].lease = "lapsed"
    /\ runs' = [runs EXCEPT ![r].lease = "live"]
    /\ UNCHANGED <<diary, keys, ledger, lock>>

Expired(r) == runs[r].status = "running" /\ runs[r].lease = "lapsed"

\* Variants of a sweep: the token is cleared too, or the status is not set.
SweepClearsToken(row) ==
    [row EXCEPT !.status = "queued", !.owner = None, !.lease = "none",
                !.token = 0]

SweepKeepsStatus(row) == [row EXCEPT !.owner = None, !.lease = "none"]

\* The row sweep_expired leaves; the token stays.
SweptRow(row) ==
    [row EXCEPT !.status = "queued", !.owner = None, !.lease = "none"]

\* One UPDATE over every expired row: it waits while any of them is locked.
SweepExpired ==
    /\ \E r \in Run : Expired(r)
    /\ \A r \in Run : Expired(r) => Unlocked(r)
    /\ runs' = [r \in Run |-> IF Expired(r) THEN SweptRow(runs[r]) ELSE runs[r]]
    /\ UNCHANGED <<diary, keys, ledger, lock>>
=============================================================================

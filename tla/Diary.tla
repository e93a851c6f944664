------------------------------- MODULE Diary -------------------------------
(***************************************************************************)
(* The tables of Timefork and the short transactions of events.py.         *)
(*                                                                         *)
(* A run is one row of `runs`; its diary is the rows of `events` with its   *)
(* id, keyed by seq.  `completed_keys` holds one row per idempotency key,   *)
(* and the ledger stands for whatever table a side effect writes (the      *)
(* counters of the harness): it lists, per run, the committed effects.      *)
(* Every transaction that commits before its function returns is one       *)
(* action; the only row lock that outlives an action is the one the effect  *)
(* transaction of context.py keeps while the effect runs.                   *)
(***************************************************************************)
EXTENDS Naturals, Sequences, FiniteSets

CONSTANTS
    MaxRun,         \* bound: how many rows `runs` may ever hold
    Worker,         \* processes that run worker.py
    Life,           \* processes that run an agent directly, without a lease
    None,           \* SQL's NULL
    Prompt, Answer, \* what an agent may ask the model, and what it may answer
    Fn,             \* the effects an agent may perform
    Question,       \* what an agent may ask a human
    Patch           \* the config patches a fork may inject

ASSUME MaxRunAssumption == MaxRun \in Nat

Run  == 1 .. MaxRun       \* ids in order of created_at
Proc == Worker \cup Life

\* NULL is no id.
ASSUME NoneAssumption == None \notin Run \cup Proc

VARIABLES
    runs,   \* the runs table: one row per run id, "absent" before its INSERT
    diary,  \* the events table: per run, a partial function from seq to its row
    keys,   \* completed_keys: per run, a partial function from seq to result
    ledger, \* the effects committed for each run, oldest first
    lock    \* per run, the process that holds its runs row FOR UPDATE, or None

tables == <<runs, diary, keys, ledger>>

Status == {"absent", "queued", "running", "paused", "completed", "failed"}

RunRow == [status : Status, owner : Worker \cup {None},
           lease : {"none", "live", "lapsed"}, token : Nat,
           parent : Run \cup {None}, forkSeq : Nat]

EventType == {"LLM_CALLED", "TOOL_INTENT", "TOOL_COMPLETED",
              "APPROVAL_REQUESTED", "APPROVAL", "PATCH_APPLIED"}

\* A payload is the question it answers and the answer: prompt and response,
\* the run named by an idempotency key and the result, the approval question,
\* the decision, the patch.
Event == [type : EventType,
          ask  : Prompt \cup Question \cup Run \cup {None},
          ans  : Answer \cup Fn \cup Patch \cup {"yes", "no", None}]

EventRow == [event : Event, token : Nat]

AbsentRow == [status |-> "absent", owner |-> None, lease |-> "none",
              token |-> 0, parent |-> None, forkSeq |-> 0]

----------------------------------------------------------------------------
(* Reading and writing one run's diary.                                    *)

Exists(r) == runs[r].status # "absent"

\* A new id: uuid4 in the code, the least unused number here.
NewRun(r) == ~Exists(r) /\ \A q \in 1 .. (r - 1) : Exists(q)

\* Variant: an INSERT without the primary key.
NeverTaken(r, seq) == FALSE

Taken(r, seq) == seq \in DOMAIN diary[r]

\* The i-th smallest of a set of sequence numbers.
Nth(S, i) == CHOOSE k \in S : Cardinality({j \in S : j <= k}) = i

\* SELECT ... ORDER BY seq: the rows that exist, oldest first.
ReadEvents(r) ==
    LET seqs == DOMAIN diary[r]
    IN  [i \in 1 .. Cardinality(seqs) |-> diary[r][Nth(seqs, i)].event]

\* The rows of a diary with one more at seq.
WithRow(rows, seq, event, token) ==
    [s \in DOMAIN rows \cup {seq} |->
        IF s = seq THEN [event |-> event, token |-> token] ELSE rows[s]]

\* INSERT INTO events.  The foreign key makes it wait for the runs row.
InsertEvent(r, seq, event, token) ==
    diary' = [diary EXCEPT ![r] = WithRow(@, seq, event, token)]

\* SELECT ... FOR UPDATE and UPDATE wait while another process has the row.
Unlocked(r) == lock[r] = None

----------------------------------------------------------------------------
(* create_run, and set_run_status, which no token guards.                  *)

CreateRun(r) ==
    /\ NewRun(r)
    /\ runs' = [runs EXCEPT ![r].status = "running"]
    /\ UNCHANGED <<diary, keys, ledger, lock>>

SetRunStatus(r, status) ==
    /\ Exists(r)
    /\ Unlocked(r)
    /\ runs' = [runs EXCEPT ![r].status = status]
    /\ UNCHANGED <<diary, keys, ledger, lock>>

----------------------------------------------------------------------------
DiaryInit ==
    /\ runs = [r \in Run |-> AbsentRow]
    /\ diary = [r \in Run |-> << >>]
    /\ keys = [r \in Run |-> << >>]
    /\ ledger = [r \in Run |-> << >>]
    /\ lock = [r \in Run |-> None]

DiaryTypeOK ==
    /\ runs \in [Run -> RunRow]
    /\ DOMAIN diary = Run /\ DOMAIN keys = Run
    /\ \A r \in Run :
          /\ DOMAIN diary[r] \subseteq Nat \ {0}
          /\ \A s \in DOMAIN diary[r] : diary[r][s] \in EventRow
          /\ DOMAIN keys[r] \subseteq Nat \ {0}
          /\ \A s \in DOMAIN keys[r] : keys[r][s] \in Fn
    /\ ledger \in [Run -> Seq([seq : Nat \ {0}, fn : Fn])]
    /\ lock \in [Run -> Proc \cup {None}]
=============================================================================

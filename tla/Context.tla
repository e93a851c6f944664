------------------------------ MODULE Context ------------------------------
(***************************************************************************)
(* context.py: one life of an agent.                                       *)
(*                                                                         *)
(* A process that has opened a Context holds a snapshot of the diary       *)
(* (`history`) and a cursor.  `seen` is what the cursor has walked over,   *)
(* replayed or recorded, so the cursor is Len(seen).  What the agent does  *)
(* next is a function of its code and of what it has seen: Agent(code,     *)
(* seen), an operation of the kinds below.  Every call to a Context first  *)
(* applies the patches at the cursor, so an agent that reads its config    *)
(* decides after them.                                                     *)
(***************************************************************************)
EXTENDS Diary

CONSTANTS
    Code,         \* the versions of the agent's code that lives may run
    Agent(_, _),  \* the operation a version asks for after what it has seen
    MaxFaults     \* bound: how many faults a behaviour may have

ASSUME MaxFaultsAssumption == MaxFaults \in Nat

\* NULL is no version.
ASSUME CodeAssumption == None \notin Code

VARIABLES
    pc,    \* where each process is
    life,  \* its locals: the run, the token it is fenced with (0 for none),
           \* the code it runs, and the Context: the snapshot and what it saw
    faults \* how many faults there were so far

Op == [kind : {"llm"}, ask : Prompt]
        \cup [kind : {"effect"}, ask : Fn]
        \cup [kind : {"gate"}, ask : Question]
        \cup [kind : {"return", "raise"}, ask : {None}]

PC == {"idle", "claimed", "agent", "called", "acting", "tx", "asked",
       "returned", "paused", "fenced", "diverged", "duplicate", "raised"}

LifeRow == [run : Run \cup {None}, token : Nat, code : Code \cup {None},
            history : Seq(Event), seen : Seq(Event), found : BOOLEAN]

NoLife == [run |-> None, token |-> 0, code |-> None,
           history |-> << >>, seen |-> << >>, found |-> FALSE]

----------------------------------------------------------------------------
\* Variant: the last event of the snapshot is not replayed.
ReplayingButLast(p) == Len(life[p].seen) + 1 < Len(life[p].history)

Replaying(p) == Len(life[p].seen) < Len(life[p].history)

NextRecorded(p) == life[p].history[Len(life[p].seen) + 1]

AtPatch(p) == Replaying(p) /\ NextRecorded(p).type = "PATCH_APPLIED"

\* Variant: seq counted from 0.
NextSeqFromZero(p) == Len(life[p].seen)

\* The seq of the event about to be appended.
NextSeq(p) == Len(life[p].seen) + 1

Fenced(p) == life[p].token # 0

\* Variant: no fence.
AlwaysHolds(p) == TRUE

\* The fence: the row still carries the token this life was given.
HoldsLease(p) == Fenced(p) => runs[life[p].run].token = life[p].token

\* The agent of p is at a call of this kind, with no patch left to apply.
Asks(p, kind) ==
    LET op == Agent(life[p].code, life[p].seen)
    IN  pc[p] = "agent" /\ ~AtPatch(p) /\ op \in Op /\ op.kind = kind

Ask(p) == Agent(life[p].code, life[p].seen).ask

Fault == faults < MaxFaults /\ faults' = faults + 1

NoFault == UNCHANGED faults

Goto(p, l) == pc' = [pc EXCEPT ![p] = l]

Leave(p, l) == Goto(p, l) /\ life' = [life EXCEPT ![p] = NoLife]

See(p, e) == life' = [life EXCEPT ![p].seen = Append(@, e)]

ReadOnly == UNCHANGED <<runs, diary, keys, ledger, lock>>

\* _replay_next and the comparison the caller makes: the recorded event must
\* be the one the code asks for, else ReplayDivergenceError.
Replay(p, matches, next) ==
    /\ Replaying(p)
    /\ IF matches
          THEN Goto(p, next) /\ See(p, NextRecorded(p))
          ELSE Goto(p, "diverged") /\ UNCHANGED life
    /\ ReadOnly

\* Variants: an append that is refused is dropped, for a stale token or for a
\* taken slot, and the life goes on.
RecordUnlessStale(p, e, next) ==
    LET r == life[p].run
    IN  /\ ~Replaying(p)
        /\ HoldsLease(p) => Unlocked(r)
        /\ IF HoldsLease(p) THEN InsertEvent(r, NextSeq(p), e, life[p].token)
                            ELSE UNCHANGED diary
        /\ Goto(p, next) /\ See(p, e)
        /\ UNCHANGED <<runs, keys, ledger, lock>>

RecordUnlessTaken(p, e, next) ==
    LET r == life[p].run
    IN  /\ ~Replaying(p)
        /\ Unlocked(r)
        /\ IF Taken(r, NextSeq(p))
              THEN UNCHANGED diary
              ELSE InsertEvent(r, NextSeq(p), e, life[p].token)
        /\ Goto(p, next) /\ See(p, e)
        /\ UNCHANGED <<runs, keys, ledger, lock>>

\* _record: append_event at the cursor, fenced if this life has a token.
\* StaleFenceError and DuplicateSequenceError leave nothing behind.  A stale
\* token matches no row, so that life finds out without waiting for the lock.
Record(p, e, next) ==
    LET r == life[p].run
    IN  /\ ~Replaying(p)
        /\ HoldsLease(p) => Unlocked(r)
        /\ IF HoldsLease(p) /\ ~Taken(r, NextSeq(p))
              THEN /\ InsertEvent(r, NextSeq(p), e, life[p].token)
                   /\ Goto(p, next)
                   /\ See(p, e)
              ELSE /\ Goto(p, IF HoldsLease(p) THEN "duplicate" ELSE "fenced")
                   /\ UNCHANGED <<diary, life>>
        /\ UNCHANGED <<runs, keys, ledger, lock>>

----------------------------------------------------------------------------
(* Context.__init__ and _apply_pending_patches.                            *)

\* The snapshot is read after the claim, in a transaction of its own.
OpenContext(p, c) ==
    /\ life' = [life EXCEPT ![p].code = c,
                            ![p].history = ReadEvents(life[p].run),
                            ![p].seen = << >>]
    /\ Goto(p, "agent")
    /\ ReadOnly

ApplyPatch(p) ==
    /\ pc[p] = "agent"
    /\ AtPatch(p)
    /\ See(p, NextRecorded(p))
    /\ UNCHANGED pc
    /\ ReadOnly

(* ctx.llm                                                                 *)

LlmEvent(prompt, response) ==
    [type |-> "LLM_CALLED", ask |-> prompt, ans |-> response]

\* Variant: no divergence detector.
AnythingGoes(e, type, ask) == TRUE

IsAsked(e, type, ask) == e.type = type /\ e.ask = ask

ReplayLlm(p) ==
    /\ Asks(p, "llm")
    /\ Replay(p, IsAsked(NextRecorded(p), "LLM_CALLED", Ask(p)), "agent")

\* The model is called: from here to the append the answer is only in memory.
CallModel(p) ==
    /\ Asks(p, "llm")
    /\ ~Replaying(p)
    /\ Goto(p, "called")
    /\ UNCHANGED life
    /\ ReadOnly

RecordLlm(p) ==
    /\ pc[p] = "called"
    /\ \E response \in Answer : Record(p, LlmEvent(Ask(p), response), "agent")

(* ctx.side_effect, phase 1                                                *)

IntentEvent(r) == [type |-> "TOOL_INTENT", ask |-> r, ans |-> None]

ReplayIntent(p) ==
    /\ Asks(p, "effect")
    /\ Replay(p, NextRecorded(p).type = "TOOL_INTENT", "acting")

RecordIntent(p) ==
    /\ Asks(p, "effect")
    /\ Record(p, IntentEvent(life[p].run), "acting")

(* ctx.side_effect, phase 2                                                *)

CompletedEvent(r, result) ==
    [type |-> "TOOL_COMPLETED", ask |-> r, ans |-> result]

\* What the call asked for, now that the cursor is past its intent.
ActingOp(p) ==
    LET seen == life[p].seen
    IN  Agent(life[p].code, SubSeq(seen, 1, Len(seen) - 1))

\* Variant: the key is made from the completion's seq.
KeySeqOfCompletion(p) == Len(life[p].seen) + 1

KeySeq(p) == Len(life[p].seen)

\* Nothing compares the recorded completion with the function passed now.
ReplayCompleted(p) ==
    /\ pc[p] = "acting"
    /\ Replay(p, NextRecorded(p).type = "TOOL_COMPLETED", "agent")

\* _perform_once up to the call of fn: the fence, which keeps the row locked,
\* and the lookup of the key.
BeginEffect(p) ==
    LET r == life[p].run
    IN  /\ pc[p] = "acting"
        /\ ~Replaying(p)
        /\ Fenced(p) /\ HoldsLease(p) => Unlocked(r)
        /\ IF HoldsLease(p)
              THEN /\ Goto(p, "tx")
                   /\ life' = [life EXCEPT ![p].found = KeySeq(p) \in DOMAIN keys[r]]
                   /\ lock' = IF Fenced(p) THEN [lock EXCEPT ![r] = p] ELSE lock
              ELSE Goto(p, "fenced") /\ UNCHANGED <<life, lock>>
        /\ UNCHANGED <<runs, diary, keys, ledger>>

\* Variant: no primary key on events and completed_keys.
NoConflict(p) == FALSE

\* The key or the slot was taken meanwhile: UniqueViolation.
Conflict(p) ==
    LET r == life[p].run
    IN  Taken(r, NextSeq(p)) \/ (~life[p].found /\ KeySeq(p) \in DOMAIN keys[r])

Release(p) ==
    lock' = [r \in Run |-> IF lock[r] = p THEN None ELSE lock[r]]

\* fn, the key and the completion commit together, or none of them does.
CommitEffect(p) ==
    LET r  == life[p].run
        fn == ActingOp(p).ask
        e  == CompletedEvent(r, IF life[p].found THEN keys[r][KeySeq(p)] ELSE fn)
    IN  /\ pc[p] = "tx"
        /\ lock[r] \in {None, p}
        /\ IF Conflict(p)
              THEN Goto(p, "duplicate") /\ UNCHANGED <<diary, keys, ledger, life>>
              ELSE /\ InsertEvent(r, NextSeq(p), e, life[p].token)
                   /\ IF life[p].found
                         THEN UNCHANGED <<keys, ledger>>
                         ELSE /\ keys' = [keys EXCEPT ![r] =
                                    [s \in DOMAIN @ \cup {KeySeq(p)} |->
                                        IF s = KeySeq(p) THEN fn ELSE @[s]]]
                              /\ ledger' = [ledger EXCEPT ![r] =
                                    Append(@, [seq |-> KeySeq(p), fn |-> fn])]
                   /\ Goto(p, "agent")
                   /\ See(p, e)
        /\ Release(p)
        /\ UNCHANGED runs

(* ctx.approval                                                            *)

RequestEvent(question) ==
    [type |-> "APPROVAL_REQUESTED", ask |-> question, ans |-> None]

ReplayRequest(p) ==
    /\ Asks(p, "gate")
    /\ Replay(p, IsAsked(NextRecorded(p), "APPROVAL_REQUESTED", Ask(p)), "asked")

RecordRequest(p) ==
    /\ Asks(p, "gate")
    /\ Record(p, RequestEvent(Ask(p)), "asked")

ReplayDecision(p) ==
    /\ pc[p] = "asked"
    /\ Replay(p, NextRecorded(p).type = "APPROVAL", "agent")

\* raise PausedForApproval
Pause(p) ==
    /\ pc[p] = "asked"
    /\ ~Replaying(p)
    /\ Goto(p, "paused")
    /\ UNCHANGED life
    /\ ReadOnly

(* The agent function returns or raises.  An agent that returns early      *)
(* leaves the rest of its history unread.                                  *)

Return(p) ==
    /\ Asks(p, "return")
    /\ Goto(p, "returned")
    /\ UNCHANGED life
    /\ ReadOnly

RaiseOwn(p) ==
    /\ Asks(p, "raise")
    /\ Goto(p, "raised")
    /\ UNCHANGED life
    /\ ReadOnly

ContextStep(p) ==
    \/ ApplyPatch(p)
    \/ ReplayLlm(p) \/ CallModel(p) \/ RecordLlm(p)
    \/ ReplayIntent(p) \/ RecordIntent(p)
    \/ ReplayCompleted(p) \/ BeginEffect(p) \/ CommitEffect(p)
    \/ ReplayRequest(p) \/ RecordRequest(p) \/ ReplayDecision(p) \/ Pause(p)
    \/ Return(p) \/ RaiseOwn(p)

(* Failure                                                                 *)

\* Variant: the effect commits on a connection of its own, so it outlives
\* the transaction that should have recorded it.
CrashAfterEffect(p) ==
    /\ pc[p] # "idle"
    /\ Leave(p, "idle")
    /\ Release(p)
    /\ ledger' = IF pc[p] = "tx"
                    THEN [ledger EXCEPT ![life[p].run] =
                            Append(@, [seq |-> KeySeq(p), fn |-> ActingOp(p).ask])]
                    ELSE ledger
    /\ UNCHANGED <<runs, diary, keys>> /\ Fault

\* The process dies, and with it its transaction; its successor starts over.
Crash(p) ==
    /\ pc[p] # "idle"
    /\ Leave(p, "idle")
    /\ Release(p)
    /\ UNCHANGED <<runs, diary, keys, ledger>> /\ Fault

\* The agent, the model, the effect or the connection raises.  An open
\* transaction is rolled back.
Raise(p) ==
    /\ pc[p] \in {"claimed", "agent", "called", "acting", "tx", "returned"}
    /\ Goto(p, "raised")
    /\ Release(p)
    /\ UNCHANGED <<runs, diary, keys, ledger, life>> /\ Fault

ContextInit ==
    /\ faults = 0
    /\ pc = [p \in Proc |-> "idle"]
    /\ life = [p \in Proc |-> NoLife]

ContextTypeOK ==
    /\ pc \in [Proc -> PC]
    /\ life \in [Proc -> LifeRow]
    /\ faults \in 0 .. MaxFaults
=============================================================================

---------------------------- MODULE HistoryProofs ----------------------------
(***************************************************************************)
(* The history of a run.                                                    *)
(*                                                                         *)
(* First, every step on the tables is a step of DurableAgent or none: what  *)
(* any number of processes append is what one program per run would log.   *)
(* Then what a step may add to a diary, whoever takes it: one event after   *)
(* the last, to a run whose agent has not finished, or the whole diary of a *)
(* new child.  From it follow what stays of a run's history, what a child   *)
(* shares with its parent, and what one version of the code finds in it.   *)
(***************************************************************************)
EXTENDS DiaryProofs

\* What DurableAgent sees.
Log == [r \in Run |-> ReadEvents(r)]

RefinesStep == Durable!Next \/ UNCHANGED <<Log, ledger>>

----------------------------------------------------------------------------
(* Reading                                                                 *)

\* What ReadEvents makes of the rows of one run.
Events(rows) ==
    [i \in 1 .. Cardinality(DOMAIN rows) |-> rows[Nth(DOMAIN rows, i)].event]

LEMMA EventsDense ==
    ASSUME NEW rows, NEW n \in Nat, DOMAIN rows = 1 .. n,
           \A s \in 1 .. n : rows[s].event \in Event
    PROVE  /\ Events(rows) = [i \in 1 .. n |-> rows[i].event]
           /\ Events(rows) \in Seq(Event)
           /\ Len(Events(rows)) = n
<1>1. Cardinality(1 .. n) = n
  BY FS_Interval, 1 \in Int, n \in Int
<1>2. \A i \in 1 .. n : Nth(1 .. n, i) = i
  BY NthOfInterval
<1>3. Events(rows) = [i \in 1 .. n |-> rows[Nth(1 .. n, i)].event]
  BY <1>1 DEF Events
<1>4. Events(rows) = [i \in 1 .. n |-> rows[i].event]
  BY <1>2, <1>3
<1>5. [i \in 1 .. n |-> rows[i].event] \in Seq(Event)
  BY IsASeq
<1>6. Len([i \in 1 .. n |-> rows[i].event]) = n
  BY <1>5
<1> QED BY <1>4, <1>5, <1>6

\* A life that has walked over a whole diary has seen what it reads as.
LEMMA SeenIsLog ==
    ASSUME Sound, NEW r \in Run, NEW t \in Seq(Event), Walked(t, r),
           DOMAIN diary[r] = 1 .. Len(t)
    PROVE  ReadEvents(r) = t
<1>1. /\ ReadEvents(r) \in Seq(Event) /\ Len(ReadEvents(r)) = Len(t)
      /\ Walked(ReadEvents(r), r)
  BY ReadSound
<1>2. \A i \in 1 .. Len(t) : ReadEvents(r)[i] = t[i]
  BY <1>1 DEF Walked
<1> QED BY <1>1, <1>2, SeqEqual

LEMMA LogStands ==
    ASSUME UNCHANGED <<diary, ledger>>
    PROVE  RefinesStep
<1>1. \A r \in Run : ReadEvents(r)' = ReadEvents(r)
  BY DEF ReadEvents
<1> QED BY <1>1 DEF RefinesStep, Log

\* One more row is one more event.
LEMMA LogGrows ==
    ASSUME Sound, NEW r \in Run, NEW n \in Nat, NEW e \in Event, Appends(r, n, e)
    PROVE  Durable!Extend(r, e)
<1>1. PICK old, new : old = diary[r] /\ new = diary'[r]
  OBVIOUS
<1>2. /\ DOMAIN old = 1 .. n /\ DOMAIN new = 1 .. n + 1
      /\ new[n + 1].event = e /\ \A s \in 1 .. n : new[s] = old[s]
      /\ \A q \in Run : q # r => diary'[q] = diary[q]
  BY <1>1 DEF Appends
<1>3. \A s \in 1 .. n : old[s].event \in Event
  BY <1>1, <1>2 DEF Sound, DiaryTypeOK, EventRow
<1>4. \A s \in 1 .. n + 1 : new[s].event \in Event
  <2>1. \A s \in 1 .. n + 1 : s \in 1 .. n \/ s = n + 1
    OBVIOUS
  <2> QED BY <1>2, <1>3, <2>1
<1>5. PICK s : s = Events(old)
  OBVIOUS
<1>6. PICK t : t = Events(new)
  OBVIOUS
<1>7. /\ s = [i \in 1 .. n |-> old[i].event] /\ s \in Seq(Event) /\ Len(s) = n
  BY <1>2, <1>3, <1>5, EventsDense
<1>8. /\ t = [i \in 1 .. n + 1 |-> new[i].event]
      /\ t \in Seq(Event) /\ Len(t) = n + 1
  BY <1>2, <1>4, <1>6, EventsDense, n + 1 \in Nat
<1>9. t = Append(s, e)
  <2>1. /\ Append(s, e) \in Seq(Event) /\ Len(Append(s, e)) = n + 1
        /\ \A i \in 1 .. n : Append(s, e)[i] = s[i]
        /\ Append(s, e)[n + 1] = e
    BY <1>7, AppendFacts
  <2>2. ASSUME NEW i \in 1 .. n + 1 PROVE t[i] = Append(s, e)[i]
    <3>1. CASE i \in 1 .. n
      BY <1>2, <1>7, <1>8, <2>1, <3>1
    <3>2. CASE i = n + 1
      BY <1>2, <1>8, <2>1, <3>2
    <3>3. i \in 1 .. n \/ i = n + 1
      OBVIOUS
    <3> QED BY <3>1, <3>2, <3>3
  <2> QED BY <1>8, <2>1, <2>2, SeqEqual
<1>10. ReadEvents(r) = s /\ ReadEvents(r)' = t
  BY <1>1, <1>5, <1>6 DEF ReadEvents, Events
<1>11. \A q \in Run : q # r => ReadEvents(q)' = ReadEvents(q)
  BY <1>2 DEF ReadEvents
<1>12. \A q \in Run : Log[q]' = IF q = r THEN Append(Log[q], e) ELSE Log[q]
  BY <1>9, <1>10, <1>11 DEF Log
<1>13. Log' = [Log EXCEPT ![r] = Append(@, e)]
  BY <1>12 DEF Log
<1> QED BY <1>13 DEF Durable!Extend, Log

----------------------------------------------------------------------------
(* One life                                                                *)

\* At the end of its replay a life appends what its agent asks for after all
\* that the diary holds.
LEMMA AppendRefines ==
    ASSUME Sound, Fits, NEW p \in Proc, pc[p] \in Walking,
           NEW e \in Event, InsertEvent(life[p].run, NextSeq(p), e, life[p].token),
           ~Taken(life[p].run, NextSeq(p)), UNCHANGED runs
    PROVE  /\ life[p].run \in Run /\ life[p].code \in Code
           /\ ReadEvents(life[p].run) = life[p].seen
           /\ life[p].seen \in Seq(Event)
           /\ Appends(life[p].run, Len(life[p].seen), e)
           /\ Durable!Extend(life[p].run, e)
<1>1. /\ life[p] \in LifeRow /\ LifeOK(p) /\ CursorAt(pc[p], life[p])
      /\ pc[p] # "idle"
  BY DEF Sound, Fits, CursorOK, Walking
<1>2. PICK r \in Run, t \in Seq(Event) : r = life[p].run /\ t = life[p].seen
  BY <1>1 DEF LifeRow, LifeOK
<1>3. PICK n \in Nat : n = Len(t)
  BY <1>2
<1>4. Walked(t, r) /\ life[p].token \in Nat /\ life[p].code \in Code
  BY <1>1, <1>2 DEF LifeOK, LifeRow, CursorAt
<1>5. Appends(r, n, e)
  BY <1>2, <1>3, <1>4, InsertAppends DEF NextSeq, Walked
<1>6. ReadEvents(r) = t
  BY <1>3, <1>4, <1>5, SeenIsLog DEF Appends
<1>7. Durable!Extend(r, e)
  BY <1>5, LogGrows
<1> QED BY <1>2, <1>3, <1>4, <1>5, <1>6, <1>7

\* An append happens, or leaves nothing behind.
LEMMA RecordOutcome ==
    ASSUME NEW p, NEW e, NEW next, Record(p, e, next)
    PROVE  \/ /\ InsertEvent(life[p].run, NextSeq(p), e, life[p].token)
              /\ ~Taken(life[p].run, NextSeq(p))
              /\ UNCHANGED <<runs, ledger>>
           \/ UNCHANGED <<diary, ledger>>
BY DEF Record

\* ctx.llm asks the model, ctx.side_effect intends, ctx.approval asks.
LEMMA RecordRefines ==
    ASSUME Sound, Fits, NEW p \in Proc, NEW e \in Event, NEW next,
           NEW c, c = life[p].code, NEW s, s = life[p].seen,
           pc[p] \in {"agent", "called"}, Record(p, e, next),
           \/ /\ Agent(c, s).kind = "llm"
              /\ \E answer \in Answer : e = LlmEvent(Agent(c, s).ask, answer)
           \/ Agent(c, s).kind = "effect" /\ e = IntentEvent(life[p].run)
           \/ Agent(c, s).kind = "gate" /\ e = RequestEvent(Agent(c, s).ask)
    PROVE  RefinesStep
<1>1. CASE UNCHANGED <<diary, ledger>>
  BY <1>1, LogStands
<1>2. CASE /\ InsertEvent(life[p].run, NextSeq(p), e, life[p].token)
           /\ ~Taken(life[p].run, NextSeq(p))
           /\ UNCHANGED <<runs, ledger>>
  <2>1. PICK r : r = life[p].run
    OBVIOUS
  <2>2. /\ r \in Run /\ c \in Code /\ ReadEvents(r) = s /\ s \in Seq(Event)
        /\ Durable!Extend(r, e)
    BY <1>2, <2>1, AppendRefines DEF Walking
  <2>3. Durable!Ready(r)
    <3>1. CursorAt(pc[p], life[p])
      BY DEF Fits, CursorOK
    <3>2. s # << >> => Len(s) > 0
      BY <2>2, EmptySeq
    <3>3. s # << >> => s[Len(s)].type \notin {"TOOL_INTENT", "APPROVAL_REQUESTED"}
      BY <3>1, <3>2 DEF CursorAt
    <3> QED BY <2>2, <3>3 DEF Durable!Ready, Durable!Ends
  <2>4. Log[r] = s
    BY <2>2 DEF Log
  <2>5. Durable!AskModel(r, c) \/ Durable!Intend(r, c) \/ Durable!AskHuman(r, c)
    <3>1. CASE /\ Agent(c, s).kind = "llm"
               /\ \E answer \in Answer : e = LlmEvent(Agent(c, s).ask, answer)
      BY <1>2, <2>2, <2>3, <2>4, <3>1
         DEF Durable!AskModel, Durable!Wants, Durable!event, LlmEvent, Log
    <3>2. CASE Agent(c, s).kind = "effect" /\ e = IntentEvent(life[p].run)
      BY <1>2, <2>1, <2>2, <2>3, <2>4, <3>2
         DEF Durable!Intend, Durable!Wants, Durable!event, IntentEvent, Log
    <3>3. CASE Agent(c, s).kind = "gate" /\ e = RequestEvent(Agent(c, s).ask)
      BY <1>2, <2>2, <2>3, <2>4, <3>3
         DEF Durable!AskHuman, Durable!Wants, Durable!event, RequestEvent, Log
    <3> QED BY <3>1, <3>2, <3>3
  <2> QED BY <2>2, <2>5 DEF Durable!Next, RefinesStep
<1> QED BY <1>1, <1>2, RecordOutcome

\* _perform_once commits the effect the agent asked for before its intent.
LEMMA CommitRefines ==
    ASSUME Sound, Fits, NEW p \in Proc, CommitEffect(p)
    PROVE  RefinesStep
<1>0. /\ life[p] \in LifeRow /\ life[p].run \in Run /\ LifeOK(p)
      /\ pc[p] = "tx" /\ CursorAt("tx", life[p])
  BY DEF Sound, LifeOK, Fits, CursorOK, CommitEffect
<1>1. CASE Conflict(p)
  BY <1>1, LogStands DEF CommitEffect
<1>2. CASE ~Conflict(p)
  <2>1. PICK r, c, s : r = life[p].run /\ c = life[p].code /\ s = life[p].seen
    OBVIOUS
  <2>2. PICK n, fn : n = Len(s) /\ fn = ActingOp(p).ask
    OBVIOUS
  <2>3. /\ ActingOp(p) = Agent(c, SubSeq(s, 1, n - 1)) /\ fn \in Fn
        /\ ActingOp(p).kind = "effect" /\ KeySeq(p) = n
    BY <1>0, <2>1, <2>2 DEF ActingOp, LifeOK, Op, KeySeq
  <2>4. ~life[p].found
    <3>1. SUFFICES ASSUME life[p].found PROVE FALSE
      OBVIOUS
    <3>2. n \in DOMAIN keys[r] /\ Performed(r)
      BY <1>0, <2>1, <2>3, <3>1 DEF LifeOK, Fits
    <3>3. n + 1 \in DOMAIN diary[r]
      BY <3>2 DEF Performed, Completes
    <3> QED BY <1>2, <2>1, <2>2, <3>3 DEF Conflict, Taken, NextSeq
  <2>5. PICK e \in Event : e = CompletedEvent(r, fn)
    BY <1>0, <2>1, <2>3 DEF CompletedEvent, Event, EventType
  <2>6. /\ InsertEvent(life[p].run, NextSeq(p), e, life[p].token)
        /\ ~Taken(life[p].run, NextSeq(p)) /\ UNCHANGED runs
        /\ ledger' = [ledger EXCEPT ![r] = Append(@, [seq |-> n, fn |-> fn])]
    BY <1>2, <2>1, <2>2, <2>3, <2>4, <2>5 DEF CommitEffect, Conflict
  <2>7. /\ r \in Run /\ c \in Code /\ ReadEvents(r) = s /\ s \in Seq(Event)
        /\ Durable!Extend(r, e)
    BY <1>0, <2>1, <2>6, AppendRefines DEF Walking
  <2>8. Durable!Ends(r, "TOOL_INTENT")
    <3>1. Len(s) > 0 /\ s[Len(s)].type = "TOOL_INTENT"
      BY <1>0, <2>1 DEF CursorAt
    <3>2. s # << >>
      BY <2>7, <3>1
    <3> QED BY <2>7, <3>1, <3>2 DEF Durable!Ends
  <2>9. Durable!Perform(r, c)
    BY <2>2, <2>3, <2>5, <2>6, <2>7, <2>8
       DEF Durable!Perform, Durable!Wants, Durable!event, CompletedEvent
  <2> QED BY <2>7, <2>9 DEF Durable!Next, RefinesStep
<1> QED BY <1>1, <1>2

LEMMA ContextRefines ==
    ASSUME Sound, Fits, NEW p \in Proc, ContextStep(p)
    PROVE  RefinesStep
<1>0. LifeOK(p) /\ pc \in [Proc -> PC]
  BY DEF Sound
<1>1. PICK c, s : c = life[p].code /\ s = life[p].seen
  OBVIOUS
<1>2. CASE RecordLlm(p)
  <2>1. Agent(c, s) \in Op /\ Agent(c, s).kind = "llm" /\ Ask(p) = Agent(c, s).ask
    BY <1>0, <1>1, <1>2 DEF RecordLlm, LifeOK, Ask
  <2>2. PICK answer \in Answer : Record(p, LlmEvent(Ask(p), answer), "agent")
    BY <1>2 DEF RecordLlm
  <2>3. PICK e \in Event : e = LlmEvent(Ask(p), answer)
    BY <2>1 DEF Op, LlmEvent, Event, EventType
  <2> QED BY <1>1, <1>2, <2>1, <2>2, <2>3, RecordRefines DEF RecordLlm
<1>3. CASE RecordIntent(p)
  <2>1. pc[p] = "agent" /\ Agent(c, s).kind = "effect" /\ life[p].run \in Run
    BY <1>0, <1>1, <1>3 DEF RecordIntent, Asks, LifeOK
  <2>2. PICK e \in Event : e = IntentEvent(life[p].run)
    BY <2>1 DEF IntentEvent, Event, EventType
  <2> QED BY <1>1, <1>3, <2>1, <2>2, RecordRefines DEF RecordIntent
<1>4. CASE RecordRequest(p)
  <2>1. /\ pc[p] = "agent" /\ Agent(c, s) \in Op /\ Agent(c, s).kind = "gate"
        /\ Ask(p) = Agent(c, s).ask
    BY <1>1, <1>4 DEF RecordRequest, Asks, Ask
  <2>2. PICK e \in Event : e = RequestEvent(Ask(p))
    BY <2>1 DEF Op, RequestEvent, Event, EventType
  <2> QED BY <1>1, <1>4, <2>1, <2>2, RecordRefines DEF RecordRequest
<1>5. CASE CommitEffect(p)
  BY <1>5, CommitRefines
<1>6. \/ RecordLlm(p) \/ RecordIntent(p) \/ RecordRequest(p) \/ CommitEffect(p)
      \/ UNCHANGED <<diary, ledger>>
  BY DEF ContextStep, ApplyPatch, ReplayLlm, CallModel, ReplayIntent,
         ReplayCompleted, BeginEffect, ReplayRequest, ReplayDecision, Pause,
         Return, RaiseOwn, Replay, ReadOnly
<1> QED BY <1>2, <1>3, <1>4, <1>5, <1>6, LogStands

----------------------------------------------------------------------------
(* The humans and the forks                                                *)

LEMMA GrantRefines ==
    ASSUME Sound, Fits, NEW h \in Human, GrantStep(h) \/ GrantStops(h)
    PROVE  RefinesStep
<1>1. CASE GrantAppend(h)
  <2>0. /\ grant[h] \in GrantRow /\ grant[h].at = "read"
        /\ GrantOK(h) /\ AnswerOK(h)
    BY <1>1 DEF GrantAppend, Sound, ApprovalTypeOK, Fits
  <2>1. PICK r \in Run, seq \in Nat \ {0} : r = grant[h].run /\ seq = grant[h].seq
    BY <2>0 DEF GrantOK, GrantRow
  <2>2. PICK n \in Nat : n = seq - 1
    BY <2>1
  <2>3. /\ \A i \in 1 .. n : i \in DOMAIN diary[r]
        /\ n \in DOMAIN diary[r] /\ Ev(r, n).type = "APPROVAL_REQUESTED"
        /\ seq = n + 1
    BY <2>0, <2>1, <2>2 DEF GrantOK, AnswerOK
  <2>4. CASE Taken(r, seq)
    BY <1>1, <2>1, <2>4, LogStands DEF GrantAppend
  <2>5. CASE ~Taken(r, seq)
    <3>1. PICK approved \in {"yes", "no"} :
              InsertEvent(r, seq, DecisionEvent(approved), 0)
      BY <1>1, <2>1, <2>5 DEF GrantAppend
    <3>2. PICK e \in Event : e = DecisionEvent(approved)
      BY DEF DecisionEvent, Event, EventType
    <3>3. UNCHANGED <<runs, ledger>>
      BY <1>1 DEF GrantAppend
    <3>4. Appends(r, n, e)
      BY <2>3, <2>5, <3>1, <3>2, <3>3, InsertAppends
    <3>5. Durable!Extend(r, e)
      BY <3>4, LogGrows
    <3>6. /\ ReadEvents(r) \in Seq(Event) /\ Len(ReadEvents(r)) = n
          /\ Walked(ReadEvents(r), r)
      BY <3>4, ReadSound DEF Appends
    <3>7. n \in 1 .. n
      BY <2>3, <3>4 DEF Appends
    <3>8. ReadEvents(r) # << >> /\ ReadEvents(r)[n].type = "APPROVAL_REQUESTED"
      BY <2>3, <3>6, <3>7 DEF Walked, Ev
    <3>9. Durable!Decide(r)
      BY <3>1, <3>2, <3>3, <3>5, <3>6, <3>8
         DEF Durable!Decide, Durable!Ends, Durable!event, DecisionEvent
    <3> QED BY <3>9 DEF Durable!Next, RefinesStep
  <2> QED BY <2>4, <2>5
<1>2. CASE ~GrantAppend(h)
  <2>1. UNCHANGED <<diary, ledger>>
    BY <1>2 DEF GrantStep, GrantRead, GrantRequeue, SetRunStatus, GrantStops
  <2> QED BY <2>1, LogStands
<1> QED BY <1>1, <1>2

\* fork_run starts a run from the events of another and a patch.
LEMMA ForkRefines ==
    ASSUME Sound, ForkSome
    PROVE  RefinesStep
<1>0. PICK parent \in Run, child \in Run, patch \in Patch :
            \E k \in DOMAIN diary[parent] : ForkRun(parent, k, child, patch)
  BY DEF ForkSome
<1>1. PICK k \in DOMAIN diary[parent] : ForkRun(parent, k, child, patch)
  BY <1>0
<1>2. PICK n \in Nat : DOMAIN diary[parent] = 1 .. n
  BY DEF Sound, DenseDiary
<1>3. /\ k \in 1 .. n /\ DOMAIN diary[child] = {} /\ child # parent
      /\ diary[parent][k].event.type \notin {"TOOL_INTENT", "APPROVAL_REQUESTED"}
  BY <1>1, <1>2 DEF ForkRun, CanFork, SplitsOperation, NewRun, Sound, DenseDiary
<1>4. PICK e \in Event : e = PatchEvent(patch)
  BY DEF PatchEvent, Event, EventType
<1>5. PICK rows : rows = WithRow(CopiedPrefix(parent, k), k + 1, e, 0)
  OBVIOUS
<1>6. PICK log : log = ReadEvents(parent)
  OBVIOUS
<1>7. /\ log \in Seq(Event) /\ Len(log) = n
      /\ \A i \in 1 .. n : log[i] = diary[parent][i].event
  <2>1. log \in Seq(Event) /\ Len(log) = n /\ Walked(log, parent)
    BY <1>2, <1>6, ReadSound
  <2> QED BY <2>1 DEF Walked
<1>8. /\ DOMAIN rows = 1 .. k + 1
      /\ \A s \in 1 .. k : rows[s].event = log[s]
      /\ rows[k + 1].event = e
  <2>1. PICK copy : copy = CopiedPrefix(parent, k)
    OBVIOUS
  <2>2. /\ DOMAIN copy = 1 .. k
        /\ \A s \in 1 .. k : copy[s] = [event |-> log[s], token |-> 0]
    BY <1>2, <1>3, <1>7, <2>1 DEF CopiedPrefix
  <2>3. /\ DOMAIN rows = 1 .. k + 1
        /\ \A s \in 1 .. k : rows[s] = copy[s]
        /\ rows[k + 1] = [event |-> e, token |-> 0]
    BY <1>3, <1>5, <2>1, <2>2 DEF WithRow
  <2> QED BY <2>2, <2>3
<1>9. PICK shared : shared = SubSeq(log, 1, k)
  OBVIOUS
<1>10. /\ shared \in Seq(Event) /\ Len(shared) = k
       /\ \A i \in 1 .. k : shared[i] = log[i]
  <2>1. \A i \in 1 .. k : log[i] \in Event
    BY <1>3, <1>7
  <2>2. /\ shared \in Seq(Event)
        /\ Len(shared) = IF 1 <= k THEN k - 1 + 1 ELSE 0
        /\ \A i \in 1 .. k - 1 + 1 : shared[i] = log[1 + i - 1]
    BY <1>3, <1>7, <1>9, <2>1, SubSeqProperties
  <2> QED BY <1>3, <2>2
<1>11. Events(rows) = Append(shared, e)
  <2>1. \A s \in 1 .. k + 1 : s \in 1 .. k \/ s = k + 1
    BY <1>3
  <2>2. \A s \in 1 .. k + 1 : rows[s].event \in Event
    BY <1>3, <1>7, <1>8, <2>1
  <2>3. /\ Events(rows) = [i \in 1 .. k + 1 |-> rows[i].event]
        /\ Events(rows) \in Seq(Event) /\ Len(Events(rows)) = k + 1
    BY <1>3, <1>8, <2>2, EventsDense, k + 1 \in Nat
  <2>4. /\ Append(shared, e) \in Seq(Event) /\ Len(Append(shared, e)) = k + 1
        /\ \A i \in 1 .. k : Append(shared, e)[i] = shared[i]
        /\ Append(shared, e)[k + 1] = e
    BY <1>10, AppendFacts
  <2>5. \A i \in 1 .. k + 1 : Events(rows)[i] = Append(shared, e)[i]
    BY <1>8, <1>10, <2>1, <2>3, <2>4
  <2> QED BY <2>3, <2>4, <2>5, SeqEqual
<1>12. /\ diary'[child] = rows
       /\ \A q \in Run : q # child => diary'[q] = diary[q]
  BY <1>1, <1>4, <1>5 DEF ForkRun, Sound, DiaryTypeOK
<1>13. \A q \in Run : Log[q]' = IF q = child THEN Append(shared, e) ELSE Log[q]
  <2>1. ReadEvents(child)' = Events(rows)
    BY <1>12 DEF ReadEvents, Events
  <2>2. \A q \in Run : q # child => ReadEvents(q)' = ReadEvents(q)
    BY <1>12 DEF ReadEvents
  <2> QED BY <1>11, <2>1, <2>2 DEF Log
<1>14. Log' = [Log EXCEPT ![child] = Append(shared, e)]
  BY <1>13 DEF Log
<1>15. ReadEvents(child) = << >>
  <2>1. DOMAIN diary[child] = 1 .. 0 /\ 0 \in Nat
    BY <1>3
  <2>2. ReadEvents(child) \in Seq(Event) /\ Len(ReadEvents(child)) = 0
    BY <2>1, ReadSound
  <2> QED BY <2>2, EmptySeq
<1>16. Durable!Fork(parent, k, child, patch)
  BY <1>1, <1>3, <1>4, <1>6, <1>7, <1>9, <1>14, <1>15
     DEF Durable!Fork, Durable!event, PatchEvent, ForkRun, Log
<1>17. k \in 1 .. Len(Log[parent])
  BY <1>3, <1>6, <1>7 DEF Log
<1> QED BY <1>16, <1>17 DEF Durable!Next, RefinesStep, Log

LEMMA RefinesAtFirst ==
    ASSUME DiaryInit, Sound
    PROVE  Durable!Init
<1>1. ASSUME NEW r \in Run PROVE ReadEvents(r) = << >>
  <2>1. DOMAIN diary[r] = 1 .. 0 /\ 0 \in Nat
    BY DEF DiaryInit
  <2>2. ReadEvents(r) \in Seq(Event) /\ Len(ReadEvents(r)) = 0
    BY <2>1, ReadSound
  <2> QED BY <2>2, EmptySeq
<1> QED BY <1>1 DEF Durable!Init, DiaryInit
----------------------------------------------------------------------------
(* What a step adds                                                        *)

\* No operation of r is half way, and every version in C returns.
FinishedFor(C, r) ==
    /\ ~Midway(r)
    /\ \A c \in C : LET op == Agent(c, ReadEvents(r))
                    IN  op \in Op /\ op.kind = "return"

\* One more event, where not every version in C has finished.  Only a fork
\* writes a patch.
OneMore(C) ==
    \E r \in Run : \E n \in Nat, e \in Event :
        Appends(r, n, e) /\ e.type # "PATCH_APPLIED" /\ ~FinishedFor(C, r)

\* What a step does to the diaries when the lives it lets act run versions in C.
Adds(C) == UNCHANGED diary \/ OneMore(C) \/ ForkSome

LEMMA AddsMore ==
    ASSUME NEW C, NEW D, C \subseteq D, Adds(C)
    PROVE  Adds(D)
BY DEF Adds, OneMore, FinishedFor

----------------------------------------------------------------------------
(* Who adds                                                                *)

LEMMA RecordAdds ==
    ASSUME Sound, Fits, NEW p \in Proc, pc[p] \in {"agent", "called"},
           NEW e \in Event, e.type # "PATCH_APPLIED", NEW next, Record(p, e, next),
           Agent(life[p].code, life[p].seen).kind # "return"
    PROVE  Adds({life[p].code})
<1>1. CASE UNCHANGED diary
  BY <1>1 DEF Adds
<1>2. CASE /\ InsertEvent(life[p].run, NextSeq(p), e, life[p].token)
           /\ ~Taken(life[p].run, NextSeq(p))
           /\ UNCHANGED runs
  <2>1. PICK r, c, s : r = life[p].run /\ c = life[p].code /\ s = life[p].seen
    OBVIOUS
  <2>2. /\ r \in Run /\ c \in Code /\ ReadEvents(r) = s /\ s \in Seq(Event)
        /\ Appends(r, Len(s), e)
    BY <1>2, <2>1, AppendRefines DEF Walking
  <2>3. Len(s) \in Nat
    BY <2>2
  <2>4. ~FinishedFor({c}, r)
    BY <2>1, <2>2 DEF FinishedFor
  <2> QED BY <2>1, <2>2, <2>3, <2>4 DEF Adds, OneMore
<1> QED BY <1>1, <1>2, RecordOutcome

LEMMA CommitAdds ==
    ASSUME Sound, Fits, NEW p \in Proc, CommitEffect(p)
    PROVE  Adds({})
<1>1. CASE UNCHANGED diary
  BY <1>1 DEF Adds
<1>2. CASE ~Conflict(p)
  <2>1. /\ life[p] \in LifeRow /\ life[p].run \in Run /\ LifeOK(p)
        /\ pc[p] = "tx" /\ CursorAt("tx", life[p])
    BY DEF Sound, LifeOK, Fits, CursorOK, CommitEffect
  <2>2. PICK r, s, ans : /\ r = life[p].run /\ s = life[p].seen
                         /\ ans = IF life[p].found THEN keys[r][KeySeq(p)]
                                                   ELSE ActingOp(p).ask
    OBVIOUS
  <2>3. ans \in Fn
    BY <2>1, <2>2 DEF LifeOK, Op, Sound, DiaryTypeOK
  <2>4. PICK e \in Event : e = CompletedEvent(r, ans)
    BY <2>1, <2>2, <2>3 DEF CompletedEvent, Event, EventType
  <2>5. /\ InsertEvent(life[p].run, NextSeq(p), e, life[p].token)
        /\ ~Taken(life[p].run, NextSeq(p)) /\ UNCHANGED runs
    BY <1>2, <2>2, <2>4 DEF CommitEffect, Conflict
  <2>6. /\ r \in Run /\ ReadEvents(r) = s /\ s \in Seq(Event)
        /\ Appends(r, Len(s), e)
    BY <2>1, <2>2, <2>5, AppendRefines DEF Walking
  <2>7. Len(s) > 0 /\ s[Len(s)].type = "TOOL_INTENT"
    BY <2>1, <2>2 DEF CursorAt
  <2>8. s # << >> /\ Len(s) \in Nat
    BY <2>6, <2>7
  <2>9. ~FinishedFor({}, r)
    BY <2>6, <2>7, <2>8 DEF FinishedFor, Midway
  <2>10. e.type # "PATCH_APPLIED"
    BY <2>4 DEF CompletedEvent
  <2> QED BY <2>6, <2>8, <2>9, <2>10 DEF Adds, OneMore
<1> QED BY <1>1, <1>2 DEF CommitEffect

LEMMA ContextAdds ==
    ASSUME Sound, Fits, NEW p \in Proc, ContextStep(p)
    PROVE  Adds({life[p].code})
<1>0. LifeOK(p)
  BY DEF Sound
<1>1. PICK op : op = Agent(life[p].code, life[p].seen)
  OBVIOUS
<1>2. CASE RecordLlm(p)
  <2>1. op \in Op /\ op.kind = "llm" /\ Ask(p) = op.ask
    BY <1>0, <1>1, <1>2 DEF RecordLlm, LifeOK, Ask
  <2>2. PICK answer \in Answer : Record(p, LlmEvent(Ask(p), answer), "agent")
    BY <1>2 DEF RecordLlm
  <2>3. PICK e \in Event : e = LlmEvent(Ask(p), answer)
    BY <2>1 DEF Op, LlmEvent, Event, EventType
  <2>4. e.type # "PATCH_APPLIED"
    BY <2>3 DEF LlmEvent
  <2> QED BY <1>1, <1>2, <2>1, <2>2, <2>3, <2>4, RecordAdds DEF RecordLlm
<1>3. CASE RecordIntent(p)
  <2>1. pc[p] = "agent" /\ op.kind = "effect" /\ life[p].run \in Run
    BY <1>0, <1>1, <1>3 DEF RecordIntent, Asks, LifeOK
  <2>2. PICK e \in Event : e = IntentEvent(life[p].run)
    BY <2>1 DEF IntentEvent, Event, EventType
  <2>3. e.type # "PATCH_APPLIED"
    BY <2>2 DEF IntentEvent
  <2> QED BY <1>1, <1>3, <2>1, <2>2, <2>3, RecordAdds DEF RecordIntent
<1>4. CASE RecordRequest(p)
  <2>1. pc[p] = "agent" /\ op \in Op /\ op.kind = "gate" /\ Ask(p) = op.ask
    BY <1>1, <1>4 DEF RecordRequest, Asks, Ask
  <2>2. PICK e \in Event : e = RequestEvent(Ask(p))
    BY <2>1 DEF Op, RequestEvent, Event, EventType
  <2>3. e.type # "PATCH_APPLIED"
    BY <2>2 DEF RequestEvent
  <2> QED BY <1>1, <1>4, <2>1, <2>2, <2>3, RecordAdds DEF RecordRequest
<1>5. CASE CommitEffect(p)
  BY <1>5, CommitAdds, AddsMore
<1>6. \/ RecordLlm(p) \/ RecordIntent(p) \/ RecordRequest(p) \/ CommitEffect(p)
      \/ UNCHANGED diary
  BY DEF ContextStep, ApplyPatch, ReplayLlm, CallModel, ReplayIntent,
         ReplayCompleted, BeginEffect, ReplayRequest, ReplayDecision, Pause,
         Return, RaiseOwn, Replay, ReadOnly
<1> QED BY <1>2, <1>3, <1>4, <1>5, <1>6 DEF Adds

LEMMA GrantAdds ==
    ASSUME Sound, Fits, NEW h \in Human, GrantStep(h) \/ GrantStops(h)
    PROVE  Adds({})
<1>1. CASE GrantAppend(h)
  <2>0. /\ grant[h] \in GrantRow /\ grant[h].at = "read"
        /\ GrantOK(h) /\ AnswerOK(h)
    BY <1>1 DEF GrantAppend, Sound, ApprovalTypeOK, Fits
  <2>1. PICK r \in Run, seq \in Nat \ {0} : r = grant[h].run /\ seq = grant[h].seq
    BY <2>0 DEF GrantOK, GrantRow
  <2>2. PICK n \in Nat : n = seq - 1
    BY <2>1
  <2>3. /\ \A i \in 1 .. n : i \in DOMAIN diary[r]
        /\ n \in DOMAIN diary[r] /\ Ev(r, n).type = "APPROVAL_REQUESTED"
        /\ seq = n + 1
    BY <2>0, <2>1, <2>2 DEF GrantOK, AnswerOK
  <2>4. CASE Taken(r, seq)
    BY <1>1, <2>1, <2>4 DEF GrantAppend, Adds
  <2>5. CASE ~Taken(r, seq)
    <3>1. PICK approved \in {"yes", "no"} :
              InsertEvent(r, seq, DecisionEvent(approved), 0)
      BY <1>1, <2>1, <2>5 DEF GrantAppend
    <3>2. PICK e \in Event : e = DecisionEvent(approved)
      BY DEF DecisionEvent, Event, EventType
    <3>3. Appends(r, n, e)
      BY <1>1, <2>3, <2>5, <3>1, <3>2, InsertAppends DEF GrantAppend
    <3>4. /\ Len(ReadEvents(r)) = n /\ ReadEvents(r) \in Seq(Event)
          /\ Walked(ReadEvents(r), r)
      BY <3>3, ReadSound DEF Appends
    <3>5. n \in 1 .. n
      BY <2>3, <3>3 DEF Appends
    <3>6. ReadEvents(r) # << >> /\ ReadEvents(r)[n].type = "APPROVAL_REQUESTED"
      BY <2>3, <3>4, <3>5 DEF Walked, Ev
    <3>7. ~FinishedFor({}, r)
      BY <3>4, <3>6 DEF FinishedFor, Midway
    <3>8. e.type # "PATCH_APPLIED"
      BY <3>2 DEF DecisionEvent
    <3> QED BY <3>3, <3>7, <3>8 DEF Adds, OneMore
  <2> QED BY <2>4, <2>5
<1>2. CASE ~GrantAppend(h)
  BY <1>2 DEF GrantStep, GrantRead, GrantRequeue, SetRunStatus, GrantStops, Adds
<1> QED BY <1>1, <1>2

LEMMA ContextWalks ==
    ASSUME NEW p, ContextStep(p)
    PROVE  pc[p] \in Walking
BY DEF ContextStep, ApplyPatch, ReplayLlm, CallModel, RecordLlm, ReplayIntent,
       RecordIntent, ReplayCompleted, BeginEffect, CommitEffect, ReplayRequest,
       RecordRequest, ReplayDecision, Pause, Return, RaiseOwn, Asks, Walking

\* A step goes on walking, or finds an error, or it is one of the three that
\* end a walk.
LEMMA HowItEnds ==
    ASSUME Sound, NEW p \in Proc, ContextStep(p),
           pc'[p] \notin Walking \cup {"diverged", "duplicate", "fenced"}
    PROVE  Pause(p) \/ Return(p) \/ RaiseOwn(p)
<1>0. pc \in [Proc -> PC]
  BY DEF Sound
<1>1. ASSUME NEW l \in Walking \cup {"diverged", "duplicate", "fenced"}, Goto(p, l)
      PROVE  FALSE
  BY <1>0, <1>1 DEF Goto
<1>2. ~ApplyPatch(p)
  BY DEF ApplyPatch, Walking
<1>3. ASSUME NEW matches, NEW next \in Walking, Replay(p, matches, next)
      PROVE  FALSE
  BY <1>1, <1>3 DEF Replay
<1>4. ~(\/ ReplayLlm(p) \/ ReplayIntent(p) \/ ReplayCompleted(p)
        \/ ReplayRequest(p) \/ ReplayDecision(p))
  BY <1>3 DEF ReplayLlm, ReplayIntent, ReplayCompleted, ReplayRequest,
              ReplayDecision, Walking
<1>5. ASSUME NEW e, NEW next \in Walking, Record(p, e, next) PROVE FALSE
  <2>1. Goto(p, next) \/ Goto(p, "duplicate") \/ Goto(p, "fenced")
    BY <1>5 DEF Record
  <2> QED BY <1>1, <1>5, <2>1
<1>6. ~(RecordLlm(p) \/ RecordIntent(p) \/ RecordRequest(p))
  BY <1>5 DEF RecordLlm, RecordIntent, RecordRequest, Walking
<1>7. ~CallModel(p)
  BY <1>1 DEF CallModel, Walking
<1>8. ~(BeginEffect(p) \/ CommitEffect(p))
  <2>1. BeginEffect(p) \/ CommitEffect(p) =>
            \E l \in {"tx", "agent", "duplicate", "fenced"} : Goto(p, l)
    BY DEF BeginEffect, CommitEffect
  <2> QED BY <1>1, <2>1 DEF Walking
<1> QED BY <1>2, <1>4, <1>6, <1>7, <1>8 DEF ContextStep

LEMMA ContextAddsSome ==
    ASSUME Sound, Fits, NEW p \in Proc, ContextStep(p)
    PROVE  Adds(Code)
<1>1. life[p].code \in Code
  BY ContextWalks DEF Fits, CursorOK, CursorAt
<1>2. PICK C : C = {life[p].code}
  OBVIOUS
<1>3. Adds(C) /\ C \subseteq Code
  BY <1>1, <1>2, ContextAdds
<1> QED BY <1>3, AddsMore

----------------------------------------------------------------------------
(* What a step of one life leaves alone                                    *)

\* Locks of other processes stay.
KeepsLocks(p) ==
    \A q \in Proc : \A r \in Run : q # p /\ lock[r] = q => lock'[r] = q

\* p moves on in the run and with the token it has, no other process moves,
\* and it enters the transaction only through the fence.  What it wrote, it
\* wrote with a current token.
CarriesOn(p) ==
    /\ life'[p].run = life[p].run /\ life'[p].token = life[p].token
    /\ \A q \in Proc : q # p => pc'[q] = pc[q] /\ life'[q] = life[q]
    /\ KeepsLocks(p)
    /\ pc'[p] = "tx" => /\ HoldsLease(p)
                        /\ Fenced(p) => lock'[life[p].run] = p
    /\ UNCHANGED runs
    /\ pc[p] # "tx" /\ ~HoldsLease(p) => UNCHANGED tables

\* A step without a write and without a lock.
LEMMA LookCarries ==
    ASSUME Sound, NEW p \in Proc, NEW l, l # "tx", Goto(p, l),
           UNCHANGED life \/ \E e : See(p, e), ReadOnly
    PROVE  CarriesOn(p)
<1>1. life[p] \in LifeRow /\ life \in [Proc -> LifeRow] /\ pc \in [Proc -> PC]
  BY DEF Sound
<1>2. life'[p].run = life[p].run /\ life'[p].token = life[p].token
  BY <1>1 DEF See, LifeRow
<1>3. \A q \in Proc : q # p => pc'[q] = pc[q] /\ life'[q] = life[q]
  BY <1>1 DEF See, Goto
<1>4. pc'[p] # "tx"
  BY <1>1 DEF Goto
<1> QED BY <1>2, <1>3, <1>4 DEF CarriesOn, KeepsLocks, ReadOnly, tables

LEMMA ReplayCarries ==
    ASSUME Sound, NEW p \in Proc, NEW matches, NEW next, next # "tx",
           Replay(p, matches, next)
    PROVE  CarriesOn(p)
BY LookCarries DEF Replay

LEMMA RecordCarries ==
    ASSUME Sound, NEW p \in Proc, NEW e, NEW next, next # "tx",
           Record(p, e, next)
    PROVE  CarriesOn(p)
<1>1. life[p] \in LifeRow /\ life \in [Proc -> LifeRow] /\ pc \in [Proc -> PC]
  BY DEF Sound
<1>2. PICK l : l # "tx" /\ Goto(p, l)
  BY DEF Record
<1>3. UNCHANGED life \/ See(p, e)
  BY DEF Record
<1>4. life'[p].run = life[p].run /\ life'[p].token = life[p].token
  BY <1>1, <1>3 DEF See, LifeRow
<1>5. /\ \A q \in Proc : q # p => pc'[q] = pc[q] /\ life'[q] = life[q]
      /\ pc'[p] # "tx"
  BY <1>1, <1>2, <1>3 DEF See, Goto
<1>6. UNCHANGED <<runs, keys, ledger, lock>> /\ (~HoldsLease(p) => UNCHANGED diary)
  BY DEF Record
<1> QED BY <1>4, <1>5, <1>6 DEF CarriesOn, KeepsLocks, tables

LEMMA BeginCarries ==
    ASSUME Sound, NEW p \in Proc, BeginEffect(p)
    PROVE  CarriesOn(p)
<1>1. /\ life[p] \in LifeRow /\ life \in [Proc -> LifeRow] /\ pc \in [Proc -> PC]
      /\ lock \in [Run -> Proc \cup {None}] /\ life[p].run \in Run
  BY DEF Sound, DiaryTypeOK, LifeOK, BeginEffect
<1>2. life'[p].run = life[p].run /\ life'[p].token = life[p].token
  BY <1>1 DEF BeginEffect, LifeRow
<1>3. \A q \in Proc : q # p => pc'[q] = pc[q] /\ life'[q] = life[q]
  BY <1>1 DEF BeginEffect, Goto
<1>4. KeepsLocks(p)
  BY <1>1, NoneAssumption DEF BeginEffect, KeepsLocks, Unlocked
<1>5. pc'[p] = "tx" => HoldsLease(p) /\ (Fenced(p) => lock'[life[p].run] = p)
  BY <1>1 DEF BeginEffect, Goto
<1>6. UNCHANGED tables
  BY DEF BeginEffect, tables
<1> QED BY <1>2, <1>3, <1>4, <1>5, <1>6 DEF CarriesOn, tables

LEMMA CommitCarries ==
    ASSUME Sound, NEW p \in Proc, CommitEffect(p)
    PROVE  CarriesOn(p)
<1>1. /\ life[p] \in LifeRow /\ life \in [Proc -> LifeRow] /\ pc \in [Proc -> PC]
      /\ lock \in [Run -> Proc \cup {None}]
  BY DEF Sound, DiaryTypeOK
<1>2. PICK l : l # "tx" /\ Goto(p, l)
  BY DEF CommitEffect
<1>3. UNCHANGED life \/ \E e : See(p, e)
  BY DEF CommitEffect
<1>4. life'[p].run = life[p].run /\ life'[p].token = life[p].token
  BY <1>1, <1>3 DEF See, LifeRow
<1>5. /\ \A q \in Proc : q # p => pc'[q] = pc[q] /\ life'[q] = life[q]
      /\ pc'[p] # "tx"
  BY <1>1, <1>2, <1>3 DEF See, Goto
<1>6. KeepsLocks(p)
  BY <1>1 DEF CommitEffect, Release, KeepsLocks
<1>7. UNCHANGED runs /\ pc[p] = "tx"
  BY DEF CommitEffect
<1> QED BY <1>4, <1>5, <1>6, <1>7 DEF CarriesOn

LEMMA ContextCarries ==
    ASSUME Sound, NEW p \in Proc, ContextStep(p)
    PROVE  CarriesOn(p)
<1>1. CASE ApplyPatch(p)
  <2>1. Goto(p, "agent") /\ See(p, NextRecorded(p)) /\ ReadOnly
    BY <1>1 DEF ApplyPatch, Goto, Sound
  <2> QED BY <2>1, LookCarries
<1>2. CASE ReplayLlm(p)
  BY <1>2, ReplayCarries DEF ReplayLlm
<1>3. CASE CallModel(p)
  BY <1>3, LookCarries DEF CallModel
<1>4. CASE RecordLlm(p)
  BY <1>4, RecordCarries DEF RecordLlm
<1>5. CASE ReplayIntent(p)
  BY <1>5, ReplayCarries DEF ReplayIntent
<1>6. CASE RecordIntent(p)
  BY <1>6, RecordCarries DEF RecordIntent
<1>7. CASE ReplayCompleted(p)
  BY <1>7, ReplayCarries DEF ReplayCompleted
<1>8. CASE BeginEffect(p)
  BY <1>8, BeginCarries
<1>9. CASE CommitEffect(p)
  BY <1>9, CommitCarries
<1>10. CASE ReplayRequest(p)
  BY <1>10, ReplayCarries DEF ReplayRequest
<1>11. CASE RecordRequest(p)
  BY <1>11, RecordCarries DEF RecordRequest
<1>12. CASE ReplayDecision(p)
  BY <1>12, ReplayCarries DEF ReplayDecision
<1>13. CASE Pause(p)
  BY <1>13, LookCarries DEF Pause
<1>14. CASE Return(p)
  BY <1>14, LookCarries DEF Return
<1>15. CASE RaiseOwn(p)
  BY <1>15, LookCarries DEF RaiseOwn
<1> QED BY <1>1, <1>2, <1>3, <1>4, <1>5, <1>6, <1>7, <1>8, <1>9, <1>10, <1>11,
           <1>12, <1>13, <1>14, <1>15 DEF ContextStep

----------------------------------------------------------------------------
(* What a life that adds has seen                                          *)

\* p sees nothing new, or the next event of its snapshot, or, having seen all
\* of that and of the diary, the event it has just added.
SeesOn(p) ==
    LET r == life[p].run
        n == Len(life[p].seen)
        m == Len(life[p].history)
    IN  /\ life'[p].run = r /\ Len(life'[p].history) = m
        /\ \A q \in Run : q # r => diary'[q] = diary[q]
        /\ \/ /\ UNCHANGED diary
              /\ Len(life'[p].seen) = n
              /\ pc'[p] = "called" => n >= m
           \/ /\ UNCHANGED diary
              /\ n < m /\ Len(life'[p].seen) = n + 1
              /\ pc'[p] # "called"
           \/ /\ n >= m /\ Len(life'[p].seen) = n + 1
              /\ DOMAIN diary'[r] = 1 .. n + 1
              /\ pc'[p] # "called"

LEMMA SeeLonger ==
    ASSUME Sound, NEW p \in Proc, NEW e, See(p, e)
    PROVE  /\ life'[p].run = life[p].run
           /\ life'[p].history = life[p].history
           /\ Len(life'[p].seen) = Len(life[p].seen) + 1
<1>1. life[p] \in LifeRow /\ life \in [Proc -> LifeRow]
  BY DEF Sound
<1>2. PICK s \in Seq(Event) : s = life[p].seen
  BY <1>1 DEF LifeRow
<1>3. life'[p] = [life[p] EXCEPT !.seen = Append(s, e)]
  BY <1>1, <1>2 DEF See
<1>4. Len(Append(s, e)) = Len(s) + 1
  BY <1>2
<1> QED BY <1>1, <1>2, <1>3, <1>4 DEF LifeRow

\* A step without a write, to somewhere else than the call of the model.
LEMMA LookSeesOn ==
    ASSUME Sound, NEW p \in Proc, NEW l, Goto(p, l), l = "called" => ~Replaying(p),
           UNCHANGED diary,
           UNCHANGED life \/ (l # "called" /\ Replaying(p) /\ \E e : See(p, e))
    PROVE  SeesOn(p)
<1>1. pc'[p] = l
  BY DEF Goto, Sound
<1>2. Len(life[p].seen) \in Nat /\ Len(life[p].history) \in Nat
  BY DEF Sound, LifeRow
<1>3. CASE UNCHANGED life
  BY <1>1, <1>2, <1>3 DEF SeesOn, Replaying
<1>4. CASE l # "called" /\ Replaying(p) /\ \E e : See(p, e)
  BY <1>1, <1>2, <1>4, SeeLonger DEF SeesOn, Replaying
<1> QED BY <1>3, <1>4

LEMMA AddSeesOn ==
    ASSUME Sound, Fits, NEW p \in Proc, pc[p] \in Walking, ~Replaying(p),
           NEW e \in Event, InsertEvent(life[p].run, NextSeq(p), e, life[p].token),
           ~Taken(life[p].run, NextSeq(p)), UNCHANGED runs,
           See(p, e), NEW l, l # "called", Goto(p, l)
    PROVE  SeesOn(p)
<1>1. pc'[p] = l
  BY DEF Goto, Sound
<1>2. Len(life[p].seen) \in Nat /\ Len(life[p].history) \in Nat
  BY DEF Sound, LifeRow
<1>3. Appends(life[p].run, Len(life[p].seen), e)
  BY AppendRefines
<1> QED BY <1>1, <1>2, <1>3, SeeLonger DEF SeesOn, Replaying, Appends

LEMMA RecordSeesOn ==
    ASSUME Sound, Fits, NEW p \in Proc, pc[p] \in {"agent", "called"},
           NEW e \in Event, NEW next, next # "called", Record(p, e, next)
    PROVE  SeesOn(p)
<1>1. CASE HoldsLease(p) /\ ~Taken(life[p].run, NextSeq(p))
  BY <1>1, AddSeesOn DEF Record, Walking
<1>2. CASE ~(HoldsLease(p) /\ ~Taken(life[p].run, NextSeq(p)))
  <2>1. PICK l \in {"duplicate", "fenced"} : Goto(p, l)
    BY <1>2 DEF Record
  <2>2. UNCHANGED <<diary, life>>
    BY <1>2 DEF Record
  <2> QED BY <2>1, <2>2, LookSeesOn
<1> QED BY <1>1, <1>2

LEMMA CommitSeesOn ==
    ASSUME Sound, Fits, NEW p \in Proc, CommitEffect(p)
    PROVE  SeesOn(p)
<1>0. /\ life[p] \in LifeRow /\ life[p].run \in Run /\ LifeOK(p)
      /\ pc[p] = "tx" /\ CursorAt("tx", life[p])
  BY DEF Sound, LifeOK, Fits, CursorOK, CommitEffect
<1>1. CASE Conflict(p)
  <2>1. Goto(p, "duplicate") /\ UNCHANGED <<diary, life>>
    BY <1>1 DEF CommitEffect
  <2> QED BY <2>1, LookSeesOn
<1>2. CASE ~Conflict(p)
  <2>1. PICK ans : ans = IF life[p].found THEN keys[life[p].run][KeySeq(p)]
                                          ELSE ActingOp(p).ask
    OBVIOUS
  <2>2. ans \in Fn
    BY <1>0, <2>1 DEF LifeOK, Op, Sound, DiaryTypeOK
  <2>3. PICK e \in Event : e = CompletedEvent(life[p].run, ans)
    BY <1>0, <2>2 DEF CompletedEvent, Event, EventType
  <2>4. ~Replaying(p)
    BY <1>0 DEF CursorAt, Replaying, LifeRow
  <2>5. /\ InsertEvent(life[p].run, NextSeq(p), e, life[p].token)
        /\ ~Taken(life[p].run, NextSeq(p)) /\ UNCHANGED runs
        /\ See(p, e) /\ Goto(p, "agent")
    BY <1>2, <2>1, <2>3 DEF CommitEffect, Conflict
  <2> QED BY <1>0, <2>4, <2>5, AddSeesOn DEF Walking
<1> QED BY <1>1, <1>2

LEMMA ReplaySeesOn ==
    ASSUME Sound, NEW p \in Proc, NEW matches, NEW next, next # "called",
           Replay(p, matches, next)
    PROVE  SeesOn(p)
<1>1. CASE matches
  BY <1>1, LookSeesOn DEF Replay, ReadOnly
<1>2. CASE ~matches
  BY <1>2, LookSeesOn DEF Replay, ReadOnly
<1> QED BY <1>1, <1>2

LEMMA ContextSeesOn ==
    ASSUME Sound, Fits, NEW p \in Proc, ContextStep(p)
    PROVE  SeesOn(p)
<1>0. LifeOK(p) /\ pc \in [Proc -> PC] /\ life \in [Proc -> LifeRow]
  BY DEF Sound
<1>1. PICK op : op = Agent(life[p].code, life[p].seen)
  OBVIOUS
<1>2. CASE RecordLlm(p)
  <2>1. op \in Op /\ op.kind = "llm" /\ Ask(p) = op.ask
    BY <1>0, <1>1, <1>2 DEF RecordLlm, LifeOK, Ask
  <2>2. PICK answer \in Answer : Record(p, LlmEvent(Ask(p), answer), "agent")
    BY <1>2 DEF RecordLlm
  <2>3. PICK e \in Event : e = LlmEvent(Ask(p), answer)
    BY <2>1 DEF Op, LlmEvent, Event, EventType
  <2> QED BY <1>2, <2>2, <2>3, RecordSeesOn DEF RecordLlm
<1>3. CASE RecordIntent(p)
  <2>1. PICK e \in Event : e = IntentEvent(life[p].run)
    BY <1>0, <1>3 DEF RecordIntent, Asks, LifeOK, IntentEvent, Event, EventType
  <2> QED BY <1>3, <2>1, RecordSeesOn DEF RecordIntent, Asks
<1>4. CASE RecordRequest(p)
  <2>1. op \in Op /\ op.kind = "gate" /\ Ask(p) = op.ask
    BY <1>1, <1>4 DEF RecordRequest, Asks, Ask
  <2>2. PICK e \in Event : e = RequestEvent(Ask(p))
    BY <2>1 DEF Op, RequestEvent, Event, EventType
  <2> QED BY <1>4, <2>2, RecordSeesOn DEF RecordRequest, Asks
<1>5. CASE CommitEffect(p)
  BY <1>5, CommitSeesOn
<1>6. CASE ApplyPatch(p)
  <2>1. Goto(p, "agent") /\ Replaying(p)
    BY <1>0, <1>6 DEF ApplyPatch, Goto, AtPatch
  <2> QED BY <1>6, <2>1, LookSeesOn DEF ApplyPatch, ReadOnly
<1>7. CASE \/ ReplayLlm(p) \/ ReplayIntent(p) \/ ReplayCompleted(p)
           \/ ReplayRequest(p) \/ ReplayDecision(p)
  BY <1>7, ReplaySeesOn DEF ReplayLlm, ReplayIntent, ReplayCompleted,
                            ReplayRequest, ReplayDecision
<1>8. CASE CallModel(p) \/ Pause(p) \/ Return(p) \/ RaiseOwn(p)
  BY <1>8, LookSeesOn DEF CallModel, Pause, Return, RaiseOwn, ReadOnly
<1>9. CASE BeginEffect(p)
  <2>1. Len(life[p].seen) \in Nat /\ Len(life[p].history) \in Nat /\ ~Replaying(p)
    BY <1>0, <1>9 DEF LifeRow, BeginEffect
  <2>2. /\ life'[p].run = life[p].run /\ life'[p].history = life[p].history
        /\ life'[p].seen = life[p].seen /\ UNCHANGED diary
    BY <1>0, <1>9 DEF BeginEffect, LifeRow
  <2> QED BY <2>1, <2>2 DEF SeesOn, Replaying
<1> QED BY <1>2, <1>3, <1>4, <1>5, <1>6, <1>7, <1>8, <1>9 DEF ContextStep

----------------------------------------------------------------------------
(* What stays                                                              *)

RowsKept ==
    \A r \in Run : \A s \in DOMAIN diary[r] :
        s \in DOMAIN diary'[r] /\ diary'[r][s] = diary[r][s]

\* A child's diary did not exist before.
LEMMA ForkKeeps ==
    ASSUME Sound, ForkSome
    PROVE  /\ RowsKept
           /\ \A r \in Run : Exists(r) => diary'[r] = diary[r]
<1>0. PICK parent \in Run, child \in Run, patch \in Patch :
            \E k \in DOMAIN diary[parent] : ForkRun(parent, k, child, patch)
  BY DEF ForkSome
<1>1. PICK k \in DOMAIN diary[parent] : ForkRun(parent, k, child, patch)
  BY <1>0
<1>2. ~Exists(child) /\ DOMAIN diary[child] = {}
  BY <1>1 DEF ForkRun, NewRun, Sound, DenseDiary
<1>3. \A r \in Run : r # child => diary'[r] = diary[r]
  BY <1>1 DEF ForkRun, Sound, DiaryTypeOK
<1> QED BY <1>2, <1>3 DEF RowsKept

LEMMA AddsKeep ==
    ASSUME Sound, NEW C, Adds(C)
    PROVE  /\ RowsKept
           /\ \A r \in Run : Exists(r) /\ FinishedFor(C, r) => diary'[r] = diary[r]
<1>1. CASE UNCHANGED diary
  BY <1>1 DEF RowsKept
<1>2. CASE OneMore(C)
  <2>1. PICK r \in Run, n \in Nat :
            \E e \in Event : Appends(r, n, e) /\ ~FinishedFor(C, r)
    BY <1>2 DEF OneMore
  <2>2. PICK e \in Event : Appends(r, n, e) /\ ~FinishedFor(C, r)
    BY <2>1
  <2>3. ASSUME NEW q \in Run, NEW s \in DOMAIN diary[q]
        PROVE  s \in DOMAIN diary'[q] /\ diary'[q][s] = diary[q][s]
    <3>1. CASE q # r
      BY <2>2, <3>1 DEF Appends
    <3>2. CASE q = r
      BY <2>2, <3>2 DEF Appends
    <3> QED BY <3>1, <3>2
  <2>4. \A q \in Run : q # r => diary'[q] = diary[q]
    BY <2>2 DEF Appends
  <2> QED BY <2>2, <2>3, <2>4 DEF RowsKept
<1>3. CASE ForkSome
  BY <1>3, ForkKeeps
<1> QED BY <1>1, <1>2, <1>3 DEF Adds

\* What a diary reads as is a prefix of what it reads as later.
LEMMA KeptReads ==
    ASSUME Sound, Sound', RowsKept, NEW r \in Run
    PROVE  Prefix(ReadEvents(r), ReadEvents(r)')
<1>1. PICK n \in Nat : DOMAIN diary[r] = 1 .. n
  BY DEF Sound, DenseDiary
<1>2. PICK m \in Nat : DOMAIN diary'[r] = 1 .. m
  BY DEF Sound, DenseDiary
<1>3. n <= m
  <2>1. n > 0 => n \in 1 .. n
    OBVIOUS
  <2>2. \A s \in 1 .. n : s \in 1 .. m
    BY <1>1, <1>2 DEF RowsKept
  <2> QED BY <2>1, <2>2
<1>4. PICK old, new : old = diary[r] /\ new = diary'[r]
  OBVIOUS
<1>5. /\ \A s \in 1 .. n : old[s].event \in Event
      /\ \A s \in 1 .. m : new[s].event \in Event
  BY <1>1, <1>2, <1>4 DEF Sound, DiaryTypeOK, EventRow
<1>6. PICK s, t : s = Events(old) /\ t = Events(new)
  OBVIOUS
<1>7. /\ s = [i \in 1 .. n |-> old[i].event] /\ Len(s) = n
      /\ t = [i \in 1 .. m |-> new[i].event] /\ Len(t) = m
  <2>1. DOMAIN old = 1 .. n /\ DOMAIN new = 1 .. m
    BY <1>1, <1>2, <1>4
  <2>2. s = [i \in 1 .. n |-> old[i].event] /\ Len(s) = n
    BY <1>5, <1>6, <2>1, EventsDense
  <2>3. t = [i \in 1 .. m |-> new[i].event] /\ Len(t) = m
    BY <1>5, <1>6, <2>1, EventsDense
  <2> QED BY <2>2, <2>3
<1>8. ASSUME NEW i \in 1 .. n PROVE s[i] = t[i]
  <2>1. i \in 1 .. m
    BY <1>3
  <2>2. old[i] = new[i]
    BY <1>1, <1>4 DEF RowsKept
  <2> QED BY <1>7, <2>1, <2>2
<1>9. ReadEvents(r) = s /\ ReadEvents(r)' = t
  BY <1>4, <1>6 DEF ReadEvents, Events
<1> QED BY <1>3, <1>7, <1>8, <1>9 DEF Prefix

\* HistoryStands, for one step.
LEMMA AddsStand ==
    ASSUME Sound, Sound', Adds(Code)
    PROVE  \A r \in Run :
              /\ Prefix(ReadEvents(r), ReadEvents(r)')
              /\ Exists(r) /\ Finished(r) => diary'[r] = diary[r]
<1>1. RowsKept /\ \A r \in Run : Exists(r) /\ FinishedFor(Code, r) => diary'[r] = diary[r]
  BY AddsKeep
<1>2. \A r \in Run : Finished(r) => FinishedFor(Code, r)
  BY DEF Finished, FinishedFor
<1> QED BY <1>1, <1>2, KeptReads

----------------------------------------------------------------------------
(* Parents and children                                                    *)

\* Nobody gets another parent, or another fork point.
SameKin ==
    \A r \in Run : /\ runs'[r].parent = runs[r].parent
                   /\ runs'[r].forkSeq = runs[r].forkSeq

\* ForkSharesPrefix for one child.
SharesWith(r, p, k) ==
    /\ k + 1 \in DOMAIN diary[r] /\ Type(r, k + 1) = "PATCH_APPLIED"
    /\ \A s \in 1 .. k :
          /\ s \in DOMAIN diary[p]
          /\ diary[r][s].event = diary[p][s].event

\* In a dense diary it is the same to have more than k rows and to have row k + 1.
LEMMA SharesDense ==
    ASSUME Sound
    PROVE  ForkSharesPrefix <=>
              \A r \in Run : runs[r].parent # None =>
                  SharesWith(r, runs[r].parent, runs[r].forkSeq)
<1>1. ASSUME NEW r \in Run
      PROVE  runs[r].forkSeq < Last(r) <=> runs[r].forkSeq + 1 \in DOMAIN diary[r]
  <2>1. PICK n \in Nat : DOMAIN diary[r] = 1 .. n
    BY DEF Sound, DenseDiary
  <2>2. Last(r) = n
    BY <2>1, FS_Interval, 1 \in Int, n \in Int DEF Last
  <2>3. runs[r].forkSeq \in Nat
    BY DEF Sound, DiaryTypeOK, RunRow
  <2> QED BY <2>1, <2>2, <2>3
<1> QED BY <1>1 DEF ForkSharesPrefix, SharesWith

\* What a child shares, it goes on sharing.
LEMMA KeptShares ==
    ASSUME Sound, RowsKept, NEW r \in Run, NEW p \in Run, NEW k \in Nat,
           SharesWith(r, p, k)
    PROVE  SharesWith(r, p, k)'
<1>1. PICK n \in Nat : DOMAIN diary[r] = 1 .. n
  BY DEF Sound, DenseDiary
<1>2. \A s \in 1 .. k : s \in DOMAIN diary[r]
  BY <1>1 DEF SharesWith
<1> QED BY <1>2 DEF SharesWith, RowsKept, Type

LEMMA KinShare ==
    ASSUME Sound, Sound', ForkSharesPrefix, RowsKept, SameKin
    PROVE  ForkSharesPrefix'
<1>1. ASSUME NEW r \in Run, runs'[r].parent # None
      PROVE  SharesWith(r, runs[r].parent, runs[r].forkSeq)'
  <2>1. PICK p, k : p = runs[r].parent /\ k = runs[r].forkSeq
    OBVIOUS
  <2>2. /\ p \in Run /\ k \in Nat /\ runs'[r].parent = p /\ runs'[r].forkSeq = k
        /\ runs[r].parent # None
    BY <1>1, <2>1 DEF SameKin, Sound, DiaryTypeOK, RunRow
  <2>3. SharesWith(r, p, k)
    BY <2>1, <2>2, SharesDense
  <2>4. SharesWith(r, p, k)'
    BY <2>2, <2>3, KeptShares
  <2> QED BY <2>2, <2>4 DEF SharesWith, Type
<1>2. (\A r \in Run : runs[r].parent # None =>
                  SharesWith(r, runs[r].parent, runs[r].forkSeq))'
  BY <1>1
<1>3. Sound' => (ForkSharesPrefix' <=>
              (\A r \in Run : runs[r].parent # None =>
                  SharesWith(r, runs[r].parent, runs[r].forkSeq))')
  BY SharesDense, PTL
<1> QED BY <1>2, <1>3

\* What fork_run inserts: the steps up to the fork point, and the patch.
LEMMA ForkedRows ==
    ASSUME NEW parent \in Run, NEW n \in Nat, DOMAIN diary[parent] = 1 .. n,
           NEW k \in 1 .. n, NEW patch \in Patch, NEW rows,
           rows = WithRow(CopiedPrefix(parent, k), k + 1, PatchEvent(patch), 0)
    PROVE  /\ DOMAIN rows = 1 .. k + 1
           /\ \A s \in 1 .. k : rows[s].event = diary[parent][s].event
           /\ rows[k + 1].event = PatchEvent(patch)
<1>1. PICK copy : copy = CopiedPrefix(parent, k)
  OBVIOUS
<1>2. /\ DOMAIN copy = 1 .. k
      /\ \A s \in 1 .. k :
            copy[s] = [event |-> diary[parent][s].event, token |-> 0]
  BY <1>1 DEF CopiedPrefix
<1>3. /\ DOMAIN rows = 1 .. k + 1
      /\ \A s \in 1 .. k : rows[s] = copy[s]
      /\ rows[k + 1] = [event |-> PatchEvent(patch), token |-> 0]
  BY <1>1, <1>2 DEF WithRow
<1> QED BY <1>2, <1>3

\* A fork starts with what it shares.
LEMMA ForkShares ==
    ASSUME Sound, Sound', ForkSharesPrefix, ForkSome
    PROVE  ForkSharesPrefix'
<1>0. PICK parent \in Run, child \in Run, patch \in Patch :
            \E k \in DOMAIN diary[parent] : ForkRun(parent, k, child, patch)
  BY DEF ForkSome
<1>1. PICK k \in DOMAIN diary[parent] : ForkRun(parent, k, child, patch)
  BY <1>0
<1>2. PICK n \in Nat : DOMAIN diary[parent] = 1 .. n
  BY DEF Sound, DenseDiary
<1>3. k \in 1 .. n /\ k \in Nat /\ child # parent
  BY <1>1, <1>2 DEF ForkRun, CanFork, NewRun
<1>4. PICK rows : rows = WithRow(CopiedPrefix(parent, k), k + 1,
                                 PatchEvent(patch), 0)
  OBVIOUS
<1>5. /\ DOMAIN rows = 1 .. k + 1
      /\ \A s \in 1 .. k : rows[s].event = diary[parent][s].event
      /\ rows[k + 1].event = PatchEvent(patch)
  BY <1>2, <1>3, <1>4, ForkedRows
<1>6. /\ diary'[child] = rows
      /\ \A q \in Run : q # child => diary'[q] = diary[q]
  BY <1>1, <1>4 DEF ForkRun, Sound, DiaryTypeOK
<1>7. /\ runs'[child].parent = parent /\ runs'[child].forkSeq = k
      /\ \A q \in Run : q # child => runs'[q] = runs[q]
  <2>1. PICK row : row = [runs[child] EXCEPT !.status = "queued",
                                             !.parent = parent, !.forkSeq = k]
    OBVIOUS
  <2>2. runs' = [runs EXCEPT ![child] = row]
    BY <1>1, <2>1 DEF ForkRun
  <2>3. runs \in [Run -> RunRow]
    BY DEF Sound, DiaryTypeOK
  <2>4. row.parent = parent /\ row.forkSeq = k
    BY <2>1, <2>3 DEF RunRow
  <2> QED BY <2>2, <2>3, <2>4
<1>8. RowsKept
  BY ForkKeeps
<1>9. ASSUME NEW r \in Run, runs'[r].parent # None
      PROVE  SharesWith(r, runs[r].parent, runs[r].forkSeq)'
  <2>1. CASE r = child
    <3>1. /\ k + 1 \in DOMAIN diary'[r]
          /\ diary'[r][k + 1].event.type = "PATCH_APPLIED"
      BY <1>3, <1>5, <1>6, <2>1 DEF PatchEvent
    <3>2. ASSUME NEW s \in 1 .. k
          PROVE  /\ s \in DOMAIN diary'[parent]
                 /\ diary'[r][s].event = diary'[parent][s].event
      <4>1. s \in DOMAIN diary[parent]
        BY <1>2, <1>3
      <4> QED BY <1>3, <1>5, <1>6, <2>1, <4>1
    <3> QED BY <1>7, <2>1, <3>1, <3>2 DEF SharesWith, Type
  <2>2. CASE r # child
    <3>1. PICK p, j : p = runs[r].parent /\ j = runs[r].forkSeq
      OBVIOUS
    <3>2. /\ p \in Run /\ j \in Nat
          /\ runs'[r].parent = p /\ runs'[r].forkSeq = j /\ runs[r].parent # None
      <4>1. runs'[r] = runs[r] /\ runs[r].parent # None
        BY <1>7, <1>9, <2>2
      <4>2. runs[r] \in RunRow
        BY DEF Sound, DiaryTypeOK
      <4> QED BY <3>1, <4>1, <4>2 DEF RunRow
    <3>3. SharesWith(r, p, j)
      BY <3>1, <3>2, SharesDense
    <3>4. SharesWith(r, p, j)'
      BY <1>8, <3>2, <3>3, KeptShares
    <3> QED BY <3>2, <3>4 DEF SharesWith, Type
  <2> QED BY <2>1, <2>2
<1>10. (\A r \in Run : runs[r].parent # None =>
                  SharesWith(r, runs[r].parent, runs[r].forkSeq))'
  BY <1>9
<1>11. Sound' => (ForkSharesPrefix' <=>
              (\A r \in Run : runs[r].parent # None =>
                  SharesWith(r, runs[r].parent, runs[r].forkSeq))')
  BY SharesDense, PTL
<1> QED BY <1>10, <1>11

----------------------------------------------------------------------------
(* One version of the code                                                 *)

Calls == {"LLM_CALLED", "TOOL_INTENT", "APPROVAL_REQUESTED"}

\* The event is what a call records.
Requested(op, e) ==
    /\ op \in Op
    /\ e.type = "LLM_CALLED" => op.kind = "llm" /\ op.ask = e.ask
    /\ e.type = "TOOL_INTENT" => op.kind = "effect" /\ e.ans = None
    /\ e.type = "APPROVAL_REQUESTED" =>
          op.kind = "gate" /\ op.ask = e.ask /\ e.ans = None

Before(rows, s) == [i \in 1 .. s - 1 |-> rows[i].event]

\* Every call in the diary is one c makes after the events before it, and every
\* result is that of the effect it asked for.
PlayedAt(c, rows, s) ==
    LET e == rows[s].event
    IN  /\ e.type \in Calls => Requested(Agent(c, Before(rows, s)), e)
        /\ e.type = "TOOL_COMPLETED" => e.ans = Agent(c, Before(rows, s - 1)).ask

Played(c, rows) == \A s \in DOMAIN rows : PlayedAt(c, rows, s)

AllPlayed(c) == \A r \in Run : Played(c, diary[r])

\* No other version is at work.
RunsOnly(c) == \A p \in Proc : pc[p] \in Walking => life[p].code = c

LEMMA OnlyVersion ==
    ASSUME Fits, NEW c, Code = {c}
    PROVE  RunsOnly(c)
BY DEF Fits, CursorOK, CursorAt, RunsOnly

LEMMA SeenIsBefore ==
    ASSUME NEW r, NEW t \in Seq(Event), Walked(t, r)
    PROVE  t = Before(diary[r], Len(t) + 1)
<1>1. Len(t) \in Nat /\ t = [i \in 1 .. Len(t) |-> t[i]]
  OBVIOUS
<1>2. Len(t) + 1 - 1 = Len(t)
  BY <1>1
<1>3. Before(diary[r], Len(t) + 1) = [i \in 1 .. Len(t) |-> diary[r][i].event]
  BY <1>2 DEF Before
<1>4. \A i \in 1 .. Len(t) : diary[r][i].event = t[i]
  BY DEF Walked
<1> QED BY <1>1, <1>3, <1>4

\* Of two diaries that agree on the first rows, what comes before is the same.
LEMMA SameBefore ==
    ASSUME NEW n \in Nat, NEW old, NEW new,
           \A i \in 1 .. n : new[i].event = old[i].event,
           NEW s \in 0 .. n + 1
    PROVE  Before(new, s) = Before(old, s)
<1>1. \A i \in 1 .. s - 1 : i \in 1 .. n
  OBVIOUS
<1> QED BY <1>1 DEF Before

LEMMA AppendPlays ==
    ASSUME NEW c, AllPlayed(c), NEW r \in Run, NEW n \in Nat, NEW e,
           Appends(r, n, e),
           e.type \in Calls => Requested(Agent(c, Before(diary[r], n + 1)), e),
           e.type = "TOOL_COMPLETED" => e.ans = Agent(c, Before(diary[r], n)).ask
    PROVE  AllPlayed(c)'
<1>1. PICK old, new : old = diary[r] /\ new = diary'[r]
  OBVIOUS
<1>2. /\ DOMAIN old = 1 .. n /\ DOMAIN new = 1 .. n + 1
      /\ new[n + 1].event = e /\ \A s \in 1 .. n : new[s] = old[s]
      /\ \A q \in Run : q # r => diary'[q] = diary[q]
  BY <1>1 DEF Appends
<1>3. ASSUME NEW s \in 1 .. n + 1
      PROVE  PlayedAt(c, new, s)
  <2>1. Before(new, s) = Before(old, s) /\ Before(new, s - 1) = Before(old, s - 1)
    <3>1. \A i \in 1 .. n : new[i].event = old[i].event
      BY <1>2
    <3>2. s \in 0 .. n + 1 /\ s - 1 \in 0 .. n + 1
      OBVIOUS
    <3> QED BY <3>1, <3>2, SameBefore
  <2>2. CASE s \in 1 .. n
    <3>1. PlayedAt(c, old, s) /\ new[s] = old[s]
      BY <1>1, <1>2, <2>2 DEF AllPlayed, Played
    <3> QED BY <2>1, <3>1 DEF PlayedAt
  <2>3. CASE s = n + 1
    <3>1. s - 1 = n
      BY <2>3
    <3> QED BY <1>1, <1>2, <2>1, <2>3, <3>1 DEF PlayedAt
  <2>4. s \in 1 .. n \/ s = n + 1
    OBVIOUS
  <2> QED BY <2>2, <2>3, <2>4
<1>4. Played(c, new)
  BY <1>2, <1>3 DEF Played
<1> QED BY <1>1, <1>2, <1>4 DEF AllPlayed

LEMMA StandingPlays ==
    ASSUME NEW c, AllPlayed(c), UNCHANGED diary
    PROVE  AllPlayed(c)'
BY DEF AllPlayed

\* A life of this version records what it asks for.
LEMMA RecordPlays ==
    ASSUME Sound, Fits, NEW c, RunsOnly(c), AllPlayed(c),
           NEW p \in Proc, pc[p] \in {"agent", "called"},
           NEW e \in Event, NEW next, Record(p, e, next), e.type \in Calls,
           Requested(Agent(life[p].code, life[p].seen), e)
    PROVE  AllPlayed(c)'
<1>1. CASE UNCHANGED diary
  BY <1>1, StandingPlays
<1>2. CASE /\ InsertEvent(life[p].run, NextSeq(p), e, life[p].token)
           /\ ~Taken(life[p].run, NextSeq(p))
           /\ UNCHANGED runs
  <2>1. PICK r, s : r = life[p].run /\ s = life[p].seen
    OBVIOUS
  <2>2. /\ r \in Run /\ life[p].code = c /\ s \in Seq(Event)
        /\ Appends(r, Len(s), e)
    BY <1>2, <2>1, AppendRefines DEF Walking, RunsOnly
  <2>3. Walked(s, r)
    BY <2>1, <2>2 DEF Sound, LifeOK
  <2>4. s = Before(diary[r], Len(s) + 1)
    BY <2>2, <2>3, SeenIsBefore
  <2>5. Requested(Agent(c, Before(diary[r], Len(s) + 1)), e) /\ Len(s) \in Nat
    BY <2>1, <2>2, <2>4
  <2>6. e.type # "TOOL_COMPLETED"
    BY DEF Calls
  <2> QED BY <2>2, <2>5, <2>6, AppendPlays
<1> QED BY <1>1, <1>2, RecordOutcome

\* The effect that c asked for before the last event of r is performed, and its
\* completion is appended.
Results(c, r, n, e) ==
    /\ Appends(r, n, e) /\ n > 0
    /\ e = CompletedEvent(r, e.ans)
    /\ e.ans = Agent(c, Before(diary[r], n)).ask
    /\ ledger' = [ledger EXCEPT ![r] = Append(@, [seq |-> n, fn |-> e.ans])]

\* What is committed is the result of the effect the agent asked for: a key
\* that was found would have its completion.
LEMMA CommitAnswers ==
    ASSUME Sound, Fits, NEW c, RunsOnly(c), NEW p \in Proc, CommitEffect(p),
           ~Conflict(p)
    PROVE  \E r \in Run, n \in Nat, e \in Event :
              r = life[p].run /\ Results(c, r, n, e)
<1>0. /\ life[p] \in LifeRow /\ life[p].run \in Run /\ LifeOK(p)
      /\ pc[p] = "tx" /\ life[p].code = c
  BY DEF Sound, LifeOK, RunsOnly, Walking, CommitEffect
<1>1. PICK r \in Run, s \in Seq(Event) : r = life[p].run /\ s = life[p].seen
  BY <1>0 DEF LifeRow
<1>2. PICK n \in Nat : n = Len(s)
  BY <1>1
<1>3. PICK t : t = SubSeq(s, 1, n - 1)
  OBVIOUS
<1>4. PICK fn : fn = Agent(c, t).ask
  OBVIOUS
<1>5. /\ ActingOp(p) = Agent(c, t) /\ fn \in Fn /\ KeySeq(p) = n /\ n > 0
      /\ Walked(s, r)
  BY <1>0, <1>1, <1>2, <1>3, <1>4 DEF ActingOp, LifeOK, Op, KeySeq
<1>6. ~life[p].found
  <2>1. SUFFICES ASSUME life[p].found PROVE FALSE
    OBVIOUS
  <2>2. n \in DOMAIN keys[r] /\ Performed(r)
    BY <1>0, <1>1, <1>5, <2>1 DEF LifeOK, Fits
  <2>3. n + 1 \in DOMAIN diary[r]
    BY <2>2 DEF Performed, Completes
  <2> QED BY <1>1, <1>2, <2>3 DEF Conflict, Taken, NextSeq
<1>7. PICK e \in Event : e = CompletedEvent(r, fn)
  BY <1>1, <1>5 DEF CompletedEvent, Event, EventType
<1>8. /\ InsertEvent(life[p].run, NextSeq(p), e, life[p].token)
      /\ ~Taken(life[p].run, NextSeq(p)) /\ UNCHANGED runs
      /\ ledger' = [ledger EXCEPT ![r] = Append(@, [seq |-> n, fn |-> fn])]
  BY <1>1, <1>4, <1>5, <1>6, <1>7 DEF CommitEffect, Conflict
<1>9. Appends(r, n, e)
  BY <1>0, <1>1, <1>2, <1>8, AppendRefines DEF Walking
<1>10. t = Before(diary[r], n)
  <2>1. t \in Seq(Event) /\ Len(t) = n - 1 /\ \A i \in 1 .. n - 1 : t[i] = s[i]
    BY <1>1, <1>2, <1>3, <1>5
  <2>2. Walked(t, r)
    BY <1>2, <1>5, <2>1 DEF Walked
  <2>3. Len(t) + 1 = n
    BY <2>1
  <2> QED BY <2>1, <2>2, <2>3, SeenIsBefore
<1>11. e.ans = fn
  BY <1>7 DEF CompletedEvent
<1> QED BY <1>1, <1>4, <1>5, <1>7, <1>8, <1>9, <1>10, <1>11 DEF Results

LEMMA CommitPlays ==
    ASSUME Sound, Fits, NEW c, RunsOnly(c), AllPlayed(c), NEW p \in Proc,
           CommitEffect(p)
    PROVE  AllPlayed(c)'
<1>1. CASE UNCHANGED diary
  BY <1>1, StandingPlays
<1>2. CASE ~Conflict(p)
  <2>1. PICK r \in Run, n \in Nat, e \in Event : r = life[p].run /\ Results(c, r, n, e)
    BY <1>2, CommitAnswers
  <2>2. /\ Appends(r, n, e) /\ e = CompletedEvent(r, e.ans)
        /\ e.ans = Agent(c, Before(diary[r], n)).ask
    BY <2>1 DEF Results
  <2>3. e.type \notin Calls
    BY <2>2 DEF CompletedEvent, Calls
  <2> QED BY <2>2, <2>3, AppendPlays
<1> QED BY <1>1, <1>2 DEF CommitEffect

LEMMA ContextPlays ==
    ASSUME Sound, Fits, NEW c, RunsOnly(c), AllPlayed(c),
           NEW p \in Proc, ContextStep(p)
    PROVE  AllPlayed(c)'
<1>0. LifeOK(p)
  BY DEF Sound
<1>1. PICK op : op = Agent(life[p].code, life[p].seen)
  OBVIOUS
<1>2. CASE RecordLlm(p)
  <2>1. op \in Op /\ op.kind = "llm" /\ Ask(p) = op.ask
    BY <1>0, <1>1, <1>2 DEF RecordLlm, LifeOK, Ask
  <2>2. PICK answer \in Answer : Record(p, LlmEvent(Ask(p), answer), "agent")
    BY <1>2 DEF RecordLlm
  <2>3. PICK e \in Event : e = LlmEvent(Ask(p), answer)
    BY <2>1 DEF Op, LlmEvent, Event, EventType
  <2>4. Requested(op, e) /\ e.type \in Calls
    BY <2>1, <2>3 DEF Requested, LlmEvent, Calls
  <2> QED BY <1>1, <1>2, <2>2, <2>3, <2>4, RecordPlays DEF RecordLlm
<1>3. CASE RecordIntent(p)
  <2>1. pc[p] = "agent" /\ op \in Op /\ op.kind = "effect" /\ life[p].run \in Run
    BY <1>0, <1>1, <1>3 DEF RecordIntent, Asks, LifeOK
  <2>2. PICK e \in Event : e = IntentEvent(life[p].run)
    BY <2>1 DEF IntentEvent, Event, EventType
  <2>3. Requested(op, e) /\ e.type \in Calls
    BY <2>1, <2>2 DEF Requested, IntentEvent, Calls
  <2> QED BY <1>1, <1>3, <2>1, <2>2, <2>3, RecordPlays DEF RecordIntent
<1>4. CASE RecordRequest(p)
  <2>1. pc[p] = "agent" /\ op \in Op /\ op.kind = "gate" /\ Ask(p) = op.ask
    BY <1>1, <1>4 DEF RecordRequest, Asks, Ask
  <2>2. PICK e \in Event : e = RequestEvent(Ask(p))
    BY <2>1 DEF Op, RequestEvent, Event, EventType
  <2>3. Requested(op, e) /\ e.type \in Calls
    BY <2>1, <2>2 DEF Requested, RequestEvent, Calls
  <2> QED BY <1>1, <1>4, <2>1, <2>2, <2>3, RecordPlays DEF RecordRequest
<1>5. CASE CommitEffect(p)
  BY <1>5, CommitPlays
<1>6. \/ RecordLlm(p) \/ RecordIntent(p) \/ RecordRequest(p) \/ CommitEffect(p)
      \/ UNCHANGED diary
  BY DEF ContextStep, ApplyPatch, ReplayLlm, CallModel, ReplayIntent,
         ReplayCompleted, BeginEffect, ReplayRequest, ReplayDecision, Pause,
         Return, RaiseOwn, Replay, ReadOnly
<1> QED BY <1>2, <1>3, <1>4, <1>5, <1>6, StandingPlays

\* A decision is no call.
LEMMA GrantPlays ==
    ASSUME Sound, Fits, NEW c, AllPlayed(c),
           NEW h \in Human, GrantStep(h) \/ GrantStops(h)
    PROVE  AllPlayed(c)'
<1>1. CASE GrantAppend(h)
  <2>0. /\ grant[h] \in GrantRow /\ grant[h].at = "read"
        /\ GrantOK(h) /\ AnswerOK(h)
    BY <1>1 DEF GrantAppend, Sound, ApprovalTypeOK, Fits
  <2>1. PICK r \in Run, seq \in Nat \ {0} : r = grant[h].run /\ seq = grant[h].seq
    BY <2>0 DEF GrantOK, GrantRow
  <2>2. PICK n \in Nat : n = seq - 1
    BY <2>1
  <2>3. \A i \in 1 .. n : i \in DOMAIN diary[r]
    BY <2>0, <2>1, <2>2 DEF GrantOK
  <2>4. CASE Taken(r, seq)
    BY <1>1, <2>1, <2>4, StandingPlays DEF GrantAppend
  <2>5. CASE ~Taken(r, seq)
    <3>1. PICK approved \in {"yes", "no"} :
              InsertEvent(r, seq, DecisionEvent(approved), 0)
      BY <1>1, <2>1, <2>5 DEF GrantAppend
    <3>2. PICK e \in Event : e = DecisionEvent(approved)
      BY DEF DecisionEvent, Event, EventType
    <3>3. seq = n + 1
      BY <2>1, <2>2
    <3>4. Appends(r, n, e)
      BY <1>1, <2>3, <2>5, <3>1, <3>2, <3>3, InsertAppends DEF GrantAppend
    <3>5. e.type \notin Calls /\ e.type # "TOOL_COMPLETED"
      BY <3>2 DEF DecisionEvent, Calls
    <3> QED BY <3>4, <3>5, AppendPlays
  <2> QED BY <2>4, <2>5
<1>2. CASE ~GrantAppend(h)
  BY <1>2, StandingPlays
     DEF GrantStep, GrantRead, GrantRequeue, SetRunStatus, GrantStops
<1> QED BY <1>1, <1>2

\* Nor is a patch, and the steps before it are those of the parent.
LEMMA ForkPlays ==
    ASSUME Sound, NEW c, AllPlayed(c), ForkSome
    PROVE  AllPlayed(c)'
<1>0. PICK parent \in Run, child \in Run, patch \in Patch :
            \E k \in DOMAIN diary[parent] : ForkRun(parent, k, child, patch)
  BY DEF ForkSome
<1>1. PICK k \in DOMAIN diary[parent] : ForkRun(parent, k, child, patch)
  BY <1>0
<1>2. PICK n \in Nat : DOMAIN diary[parent] = 1 .. n
  BY DEF Sound, DenseDiary
<1>3. PICK old, new : /\ old = diary[parent]
                      /\ new = WithRow(CopiedPrefix(parent, k), k + 1,
                                       PatchEvent(patch), 0)
  OBVIOUS
<1>4. /\ DOMAIN old = 1 .. n /\ k \in 1 .. n /\ k \in Nat
      /\ DOMAIN new = 1 .. k + 1
      /\ \A s \in 1 .. k : new[s].event = old[s].event
      /\ new[k + 1].event = PatchEvent(patch)
  <2>1. k \in 1 .. n /\ k \in Nat
    BY <1>1, <1>2
  <2>2. /\ DOMAIN new = 1 .. k + 1
        /\ \A s \in 1 .. k : new[s].event = diary[parent][s].event
        /\ new[k + 1].event = PatchEvent(patch)
    BY <1>2, <1>3, <2>1, ForkedRows
  <2> QED BY <1>2, <1>3, <2>1, <2>2
<1>5. /\ diary'[child] = new
      /\ \A q \in Run : q # child => diary'[q] = diary[q]
  BY <1>1, <1>3 DEF ForkRun, Sound, DiaryTypeOK
<1>6. ASSUME NEW s \in 1 .. k + 1
      PROVE  PlayedAt(c, new, s)
  <2>1. CASE s = k + 1
    BY <1>4, <2>1 DEF PatchEvent, Calls, PlayedAt
  <2>2. CASE s \in 1 .. k
    <3>1. Before(new, s) = Before(old, s) /\ Before(new, s - 1) = Before(old, s - 1)
      <4>1. PICK j \in Nat : j = k /\ \A i \in 1 .. j : new[i].event = old[i].event
        BY <1>4
      <4>2. s \in 0 .. j + 1 /\ s - 1 \in 0 .. j + 1
        BY <4>1
      <4>3. ASSUME NEW i \in 0 .. j + 1 PROVE Before(new, i) = Before(old, i)
        <5>1. j \in Nat /\ \A t \in 1 .. j : new[t].event = old[t].event
          BY <4>1
        <5> QED BY <5>1, SameBefore, Zenon
      <4> QED BY <4>2, <4>3
    <3>2. PlayedAt(c, old, s) /\ new[s].event = old[s].event
      BY <1>3, <1>4, <2>2 DEF AllPlayed, Played
    <3> QED BY <3>1, <3>2 DEF PlayedAt
  <2>3. s = k + 1 \/ s \in 1 .. k
    BY <1>4
  <2> QED BY <2>1, <2>2, <2>3
<1>7. Played(c, new)
  BY <1>4, <1>6 DEF Played
<1> QED BY <1>5, <1>7 DEF AllPlayed

\* What a life is about to replay is what its code asked for there, or what
\* another part of the same operation recorded.
LEMMA NextIsPlayed ==
    ASSUME Sound, Fits, NEW c, RunsOnly(c), AllPlayed(c),
           NEW p \in Proc, pc[p] \in Walking, Replaying(p),
           NEW s, s = life[p].seen, NEW e, e = NextRecorded(p)
    PROVE  /\ e.type \in EventType
           /\ e.type \in Calls => Requested(Agent(life[p].code, s), e)
           /\ e.type = "TOOL_COMPLETED" <=>
                  Len(s) > 0 /\ s[Len(s)].type = "TOOL_INTENT"
           /\ e.type = "APPROVAL" <=>
                  Len(s) > 0 /\ s[Len(s)].type = "APPROVAL_REQUESTED"
<1>1. /\ life[p] \in LifeRow /\ life[p].run \in Run /\ LifeOK(p)
      /\ CursorAt(pc[p], life[p])
  BY DEF Sound, LifeOK, Fits, CursorOK, Walking
<1>2. PICK r, h, n : r = life[p].run /\ h = life[p].history /\ n = Len(s)
  OBVIOUS
<1>3. /\ r \in Run /\ h \in Seq(Event) /\ s \in Seq(Event) /\ n \in Nat
      /\ Walked(h, r) /\ Walked(s, r) /\ life[p].code = c
      /\ n < Len(h) /\ e = h[n + 1]
  BY <1>1, <1>2 DEF LifeRow, LifeOK, RunsOnly, Replaying, NextRecorded
<1>4. n + 1 \in 1 .. Len(h)
  BY <1>3
<1>5. n + 1 \in DOMAIN diary[r] /\ Ev(r, n + 1) = e /\ e \in Event
  BY <1>3, <1>4 DEF Walked, Ev
<1>6. s = Before(diary[r], n + 1)
  BY <1>2, <1>3, SeenIsBefore
<1>7. e.type \in Calls => Requested(Agent(c, s), e)
  BY <1>3, <1>5, <1>6 DEF AllPlayed, Played, PlayedAt, Ev
<1>8. Walkable(r)
  BY <1>3 DEF Fits
<1>9. CASE n = 0
  BY <1>2, <1>3, <1>5, <1>7, <1>8, <1>9 DEF Walkable, Event
<1>10. CASE n > 0
  <2>1. n \in 1 .. Len(s)
    BY <1>2, <1>3, <1>10
  <2>2. n \in DOMAIN diary[r] /\ Ev(r, n) = s[n]
    BY <1>3, <2>1 DEF Walked, Ev
  <2>3. Follows(s[n], e)
    BY <1>5, <1>8, <2>2 DEF Walkable
  <2> QED BY <1>2, <1>3, <1>5, <1>7, <1>10, <2>3 DEF Follows, Event
<1> QED BY <1>3, <1>9, <1>10

\* No step of a life finds the code at odds with the diary.
LEMMA ContextAgrees ==
    ASSUME Sound, Fits, NEW c, RunsOnly(c), AllPlayed(c),
           NEW p \in Proc, ContextStep(p), NEW q \in Proc, pc'[q] = "diverged"
    PROVE  pc[q] = "diverged"
<1>0. pc \in [Proc -> PC] /\ life[p] \in LifeRow /\ LifeOK(p)
      /\ CursorAt(pc[p], life[p])
  BY DEF Sound, Fits, CursorOK
<1>1. ASSUME NEW l, l # "diverged", Goto(p, l) PROVE pc[q] = "diverged"
  BY <1>0, <1>1 DEF Goto
<1>2. PICK op, s, e : /\ op = Agent(life[p].code, life[p].seen)
                      /\ s = life[p].seen /\ e = NextRecorded(p)
  OBVIOUS
<1>3. ASSUME NEW matches \in BOOLEAN, matches, NEW l, l # "diverged",
             Replay(p, matches, l)
      PROVE  pc[q] = "diverged"
  BY <1>1, <1>3 DEF Replay
<1>4. ASSUME Replaying(p), NEW kind, Asks(p, kind)
      PROVE  /\ Requested(op, e) /\ op.kind = kind /\ op.ask = Ask(p)
             /\ e.type \in Calls
  <2>1. pc[p] = "agent" /\ ~AtPatch(p) /\ op \in Op /\ op.kind = kind
    BY <1>2, <1>4 DEF Asks
  <2>2. e.type # "PATCH_APPLIED"
    BY <1>2, <1>4, <2>1 DEF AtPatch
  <2>3. /\ e.type \in EventType
        /\ e.type \in Calls => Requested(op, e)
        /\ e.type = "TOOL_COMPLETED" <=>
               Len(s) > 0 /\ s[Len(s)].type = "TOOL_INTENT"
        /\ e.type = "APPROVAL" <=>
               Len(s) > 0 /\ s[Len(s)].type = "APPROVAL_REQUESTED"
    BY <1>2, <1>4, <2>1, NextIsPlayed DEF Walking
  <2>4. Len(s) > 0 => s[Len(s)].type \notin {"TOOL_INTENT", "APPROVAL_REQUESTED"}
    BY <1>0, <1>2, <2>1 DEF CursorAt
  <2>5. e.type \in Calls
    BY <2>2, <2>3, <2>4 DEF EventType, Calls
  <2> QED BY <1>2, <2>1, <2>3, <2>5 DEF Ask
<1>5. CASE ReplayLlm(p)
  <2>1. Replaying(p) /\ Asks(p, "llm")
    BY <1>5 DEF ReplayLlm, Replay
  <2>2. Requested(op, e) /\ op.kind = "llm" /\ op.ask = Ask(p) /\ e.type \in Calls
    BY <1>4, <2>1
  <2>3. IsAsked(e, "LLM_CALLED", Ask(p))
    BY <2>2 DEF Requested, Calls, IsAsked
  <2> QED BY <1>2, <1>3, <1>5, <2>3 DEF ReplayLlm, IsAsked
<1>6. CASE ReplayIntent(p)
  <2>1. Replaying(p) /\ Asks(p, "effect")
    BY <1>6 DEF ReplayIntent, Replay
  <2>2. Requested(op, e) /\ op.kind = "effect" /\ e.type \in Calls
    BY <1>4, <2>1
  <2>3. e.type = "TOOL_INTENT"
    BY <2>2 DEF Requested, Calls
  <2> QED BY <1>2, <1>3, <1>6, <2>3 DEF ReplayIntent
<1>7. CASE ReplayRequest(p)
  <2>1. Replaying(p) /\ Asks(p, "gate")
    BY <1>7 DEF ReplayRequest, Replay
  <2>2. Requested(op, e) /\ op.kind = "gate" /\ op.ask = Ask(p) /\ e.type \in Calls
    BY <1>4, <2>1
  <2>3. IsAsked(e, "APPROVAL_REQUESTED", Ask(p))
    BY <2>2 DEF Requested, Calls, IsAsked
  <2> QED BY <1>2, <1>3, <1>7, <2>3 DEF ReplayRequest, IsAsked
<1>8. CASE ReplayCompleted(p)
  <2>1. pc[p] = "acting" /\ Replaying(p)
    BY <1>8 DEF ReplayCompleted, Replay
  <2>2. e.type = "TOOL_COMPLETED"
    <3>1. Len(s) > 0 /\ s[Len(s)].type = "TOOL_INTENT"
      BY <1>0, <1>2, <2>1 DEF CursorAt
    <3> QED BY <1>2, <2>1, <3>1, NextIsPlayed DEF Walking
  <2> QED BY <1>2, <1>3, <1>8, <2>2 DEF ReplayCompleted
<1>9. CASE ReplayDecision(p)
  <2>1. pc[p] = "asked" /\ Replaying(p)
    BY <1>9 DEF ReplayDecision, Replay
  <2>2. e.type = "APPROVAL"
    <3>1. Len(s) > 0 /\ s[Len(s)].type = "APPROVAL_REQUESTED"
      BY <1>0, <1>2, <2>1 DEF CursorAt
    <3> QED BY <1>2, <2>1, <3>1, NextIsPlayed DEF Walking
  <2> QED BY <1>2, <1>3, <1>9, <2>2 DEF ReplayDecision
<1>10. CASE RecordLlm(p) \/ RecordIntent(p) \/ RecordRequest(p)
  <2>1. PICK l \in {"agent", "acting", "asked", "duplicate", "fenced"} : Goto(p, l)
    BY <1>10 DEF RecordLlm, RecordIntent, RecordRequest, Record
  <2> QED BY <1>1, <2>1
<1>11. CASE BeginEffect(p) \/ CommitEffect(p)
  <2>1. PICK l \in {"tx", "agent", "duplicate", "fenced"} : Goto(p, l)
    BY <1>11 DEF BeginEffect, CommitEffect
  <2> QED BY <1>1, <2>1
<1>12. CASE CallModel(p) \/ Pause(p) \/ Return(p) \/ RaiseOwn(p) \/ ApplyPatch(p)
  BY <1>1, <1>12 DEF CallModel, Pause, Return, RaiseOwn, ApplyPatch
<1> QED BY <1>5, <1>6, <1>7, <1>8, <1>9, <1>10, <1>11, <1>12 DEF ContextStep

----------------------------------------------------------------------------
(* How a run ends                                                          *)

\* A life that walks has in its snapshot every patch of its run: only a fork
\* writes one, before anybody opens the child.
KnowsPatches(p) ==
    LET r == life[p].run
    IN  pc[p] \in Walking =>
            \A s \in DOMAIN diary[r] :
                Ev(r, s).type = "PATCH_APPLIED" => s <= Len(life[p].history)

\* Where a life has returned, and where a run is marked completed, the agent
\* has finished.
EndsWell(c) ==
    /\ \A p \in Proc :
          /\ KnowsPatches(p)
          /\ pc[p] = "returned" => FinishedFor({c}, life[p].run)
    /\ \A r \in Run : runs[r].status = "completed" => FinishedFor({c}, r)

\* An agent returns when it has seen the whole diary.
LEMMA ReturnFinishes ==
    ASSUME Sound, Fits, NEW c, RunsOnly(c), AllPlayed(c),
           NEW p \in Proc, KnowsPatches(p), Return(p)
    PROVE  FinishedFor({c}, life[p].run)
<1>1. /\ life[p] \in LifeRow /\ life[p].run \in Run /\ LifeOK(p)
      /\ CursorAt("agent", life[p]) /\ life[p].code = c
      /\ pc[p] = "agent" /\ ~AtPatch(p)
  BY DEF Sound, LifeOK, Fits, CursorOK, Return, Asks, RunsOnly, Walking
<1>2. PICK r, h, s, op : /\ r = life[p].run /\ h = life[p].history
                         /\ s = life[p].seen /\ op = Agent(c, s)
  OBVIOUS
<1>3. /\ r \in Run /\ h \in Seq(Event) /\ s \in Seq(Event)
      /\ Walked(h, r) /\ Walked(s, r) /\ Len(s) \in Nat /\ Len(h) \in Nat
      /\ op \in Op /\ op.kind = "return"
  BY <1>1, <1>2 DEF LifeRow, LifeOK, Return, Asks
<1>4. Len(s) > 0 => s[Len(s)].type \notin {"TOOL_INTENT", "APPROVAL_REQUESTED"}
  BY <1>1, <1>2 DEF CursorAt
<1>5. Len(s) + 1 \notin DOMAIN diary[r]
  <2>1. SUFFICES ASSUME Len(s) + 1 \in DOMAIN diary[r] PROVE FALSE
    OBVIOUS
  <2>2. PICK n, e : n = Len(s) /\ e = Ev(r, n + 1)
    OBVIOUS
  <2>3. e.type \in EventType
    BY <1>3, <2>1, <2>2 DEF Sound, DiaryTypeOK, EventRow, Event, Ev
  <2>4. e.type \notin Calls
    <3>1. s = Before(diary[r], n + 1)
      BY <1>3, <2>2, SeenIsBefore
    <3> QED BY <1>2, <1>3, <2>1, <2>2, <3>1
            DEF AllPlayed, Played, PlayedAt, Requested, Calls, Ev
  <2>5. e.type \notin {"TOOL_COMPLETED", "APPROVAL"}
    <3>1. Walkable(r)
      BY <1>3 DEF Fits
    <3>2. CASE n = 0
      BY <2>1, <2>2, <3>1, <3>2 DEF Walkable
    <3>3. CASE n > 0
      <4>1. n \in DOMAIN diary[r] /\ Ev(r, n) = s[n]
        <5>1. n \in 1 .. Len(s)
          BY <1>3, <2>2, <3>3
        <5> QED BY <1>3, <5>1 DEF Walked, Ev
      <4> QED BY <1>4, <2>1, <2>2, <3>1, <3>3, <4>1 DEF Walkable, Follows
    <3> QED BY <1>3, <2>2, <3>2, <3>3
  <2>6. CASE e.type = "PATCH_APPLIED"
    <3>1. n + 1 <= Len(h)
      BY <1>1, <1>2, <2>1, <2>2, <2>6 DEF KnowsPatches, Walking
    <3>2. n + 1 \in 1 .. Len(h)
      BY <1>3, <2>2, <3>1
    <3>3. h[n + 1] = e
      BY <1>3, <2>2, <3>2 DEF Walked, Ev
    <3> QED BY <1>1, <1>2, <1>3, <2>2, <2>6, <3>1, <3>3
            DEF AtPatch, Replaying, NextRecorded
  <2> QED BY <2>3, <2>4, <2>5, <2>6 DEF EventType, Calls
<1>6. ReadEvents(r) = s
  <2>1. PICK m \in Nat : DOMAIN diary[r] = 1 .. m
    BY <1>3 DEF Sound, DenseDiary
  <2>2. Len(s) > 0 => Len(s) \in 1 .. m
    <3>1. Len(s) > 0 => Len(s) \in 1 .. Len(s)
      BY <1>3
    <3> QED BY <1>3, <2>1, <3>1 DEF Walked
  <2>3. m = Len(s)
    BY <1>3, <1>5, <2>1, <2>2
  <2> QED BY <1>3, <2>1, <2>3, SeenIsLog
<1> QED BY <1>2, <1>3, <1>4, <1>6 DEF FinishedFor, Midway

\* Where the agent has finished, it goes on being finished.
LEMMA FinishStands ==
    ASSUME Sound, NEW C, Adds(C), NEW r \in Run, Exists(r), FinishedFor(C, r)
    PROVE  FinishedFor(C, r)'
<1>1. diary'[r] = diary[r]
  BY AddsKeep
<1> QED BY <1>1 DEF FinishedFor, Midway, ReadEvents

\* What is added while a life walks is no patch.
LEMMA PatchesFrame ==
    ASSUME Sound, NEW C, Adds(C), NEW p \in Proc, KnowsPatches(p),
           pc'[p] \in Walking =>
              /\ pc[p] \in Walking
              /\ life'[p].run = life[p].run
              /\ Len(life'[p].history) = Len(life[p].history)
    PROVE  KnowsPatches(p)'
<1> SUFFICES ASSUME pc'[p] \in Walking PROVE KnowsPatches(p)'
  BY DEF KnowsPatches
<1>1. pc[p] \in Walking /\ life[p].run \in Run /\ LifeOK(p)
  BY DEF Sound, LifeOK, Walking
<1>2. PICK r, m : r = life[p].run /\ m = Len(life[p].history)
  OBVIOUS
<1>3. /\ r \in Run /\ Exists(r) /\ life'[p].run = r /\ Len(life'[p].history) = m
      /\ \A s \in DOMAIN diary[r] : Ev(r, s).type = "PATCH_APPLIED" => s <= m
  BY <1>1, <1>2 DEF LifeOK, KnowsPatches
<1>4. \A s \in DOMAIN diary'[r] :
          diary'[r][s].event.type = "PATCH_APPLIED" => s <= m
  <2>1. CASE diary'[r] = diary[r]
    BY <1>3, <2>1 DEF Ev
  <2>2. CASE OneMore(C) /\ diary'[r] # diary[r]
    <3>1. PICK q \in Run, n \in Nat, e \in Event :
              Appends(q, n, e) /\ e.type # "PATCH_APPLIED"
      BY <2>2 DEF OneMore
    <3>2. q = r
      BY <1>3, <2>2, <3>1 DEF Appends
    <3>3. ASSUME NEW s \in DOMAIN diary'[r],
                 diary'[r][s].event.type = "PATCH_APPLIED"
          PROVE  s \in DOMAIN diary[r] /\ Ev(r, s).type = "PATCH_APPLIED"
      BY <3>1, <3>2, <3>3 DEF Appends, Ev
    <3> QED BY <1>3, <3>3
  <2>3. CASE ForkSome
    BY <1>3, <2>1, <2>3, ForkKeeps
  <2> QED BY <2>1, <2>2, <2>3 DEF Adds
<1> QED BY <1>3, <1>4 DEF KnowsPatches, Ev

\* A new snapshot has every row.
LEMMA OpenKnows ==
    ASSUME Sound, NEW p \in Proc, life[p].run \in Run, NEW c, OpenContext(p, c)
    PROVE  KnowsPatches(p)'
<1>1. PICK r, h : r = life[p].run /\ h = ReadEvents(r)
  OBVIOUS
<1>2. PICK n \in Nat : DOMAIN diary[r] = 1 .. n
  BY <1>1 DEF Sound, DenseDiary
<1>3. Len(h) = n
  BY <1>1, <1>2, ReadSound
<1>4. life'[p].run = r /\ life'[p].history = h /\ diary' = diary
  BY <1>1 DEF OpenContext, Sound, LifeRow, ReadOnly
<1> QED BY <1>2, <1>3, <1>4 DEF KnowsPatches

\* At most one process moves, and only one that has returned marks its run.
LEMMA EndsOn ==
    ASSUME Sound, Sound', NEW c, EndsWell(c), Adds({c}), NEW p \in Proc,
           \A q \in Proc : q # p => pc'[q] = pc[q] /\ life'[q] = life[q],
           KnowsPatches(p)',
           pc'[p] = "returned" => FinishedFor({c}, life[p].run)',
           \A r \in Run : runs'[r].status = "completed" =>
               \/ runs[r].status = "completed"
               \/ pc[p] = "returned" /\ r = life[p].run
    PROVE  EndsWell(c)'
<1>1. ASSUME NEW r \in Run, Exists(r), FinishedFor({c}, r)
      PROVE  FinishedFor({c}, r)'
  <2>1. PICK C : C = {c}
    OBVIOUS
  <2>2. FinishedFor(C, r)'
    BY <1>1, <2>1, FinishStands
  <2> QED BY <2>1, <2>2
<1>2. ASSUME NEW q \in Proc, q # p
      PROVE  KnowsPatches(q)' /\ (pc'[q] = "returned" => FinishedFor({c}, life[q].run)')
  <2>1. PICK C : C = {c}
    OBVIOUS
  <2>2. KnowsPatches(q)'
    BY <1>2, <2>1, PatchesFrame DEF EndsWell
  <2>3. ASSUME pc'[q] = "returned" PROVE FinishedFor({c}, life[q].run)'
    <3>1. /\ pc[q] = "returned" /\ life[q].run \in Run /\ Exists(life[q].run)
          /\ FinishedFor({c}, life[q].run)
      BY <1>2, <2>3 DEF EndsWell, Sound, LifeOK
    <3>2. PICK r \in Run : r = life[q].run
      BY <3>1
    <3>3. FinishedFor({c}, r)' /\ life'[q].run = r
      BY <1>1, <1>2, <3>1, <3>2
    <3> QED BY <3>3
  <2> QED BY <2>2, <2>3
<1>3. ASSUME NEW q \in Proc
      PROVE  KnowsPatches(q)' /\ (pc'[q] = "returned" => FinishedFor({c}, life[q].run)')
  BY <1>2
<1>4. ASSUME NEW r \in Run, runs'[r].status = "completed"
      PROVE  FinishedFor({c}, r)'
  <2>1. CASE runs[r].status = "completed"
    BY <1>1, <2>1 DEF EndsWell, Exists
  <2>2. CASE pc[p] = "returned" /\ r = life[p].run
    BY <1>1, <2>2 DEF EndsWell, Sound, LifeOK
  <2> QED BY <1>4, <2>1, <2>2
<1> QED BY <1>3, <1>4 DEF EndsWell

\* Nobody moves, and no run is marked.
LEMMA TablesEnd ==
    ASSUME Sound, Sound', NEW c, EndsWell(c), Adds({c}), UNCHANGED <<pc, life>>,
           \A r \in Run : runs'[r].status = "completed" =>
               runs[r].status = "completed"
    PROVE  EndsWell(c)'
<1>1. PICK C : C = {c}
  OBVIOUS
<1>2. ASSUME NEW r \in Run, Exists(r), FinishedFor(C, r)
      PROVE  FinishedFor(C, r)'
  BY <1>1, <1>2, FinishStands
<1>3. ASSUME NEW q \in Proc
      PROVE  KnowsPatches(q)' /\ (pc'[q] = "returned" => FinishedFor(C, life[q].run)')
  <2>1. KnowsPatches(q)'
    BY <1>1, PatchesFrame DEF EndsWell
  <2>2. ASSUME pc[q] = "returned" PROVE FinishedFor(C, life[q].run)'
    <3>1. PICK r : r = life[q].run
      OBVIOUS
    <3>2. r \in Run /\ Exists(r) /\ FinishedFor(C, r)
      BY <1>1, <2>2, <3>1 DEF EndsWell, Sound, LifeOK
    <3> QED BY <1>2, <3>1, <3>2
  <2> QED BY <2>1, <2>2
<1>4. ASSUME NEW r \in Run, runs'[r].status = "completed"
      PROVE  FinishedFor(C, r)'
  BY <1>1, <1>2, <1>4 DEF EndsWell, Exists
<1> QED BY <1>1, <1>3, <1>4 DEF EndsWell

\* The steps of an agent, and the opening of its snapshot.
LEMMA ContextEnds ==
    ASSUME Sound, Sound', Fits, NEW c, RunsOnly(c), AllPlayed(c), EndsWell(c),
           NEW p \in Proc, ContextStep(p)
    PROVE  EndsWell(c)'
<1>1. pc[p] \in Walking /\ life[p].code = c
  BY ContextWalks DEF RunsOnly
<1>2. Adds({c}) /\ CarriesOn(p) /\ SeesOn(p)
  BY <1>1, ContextAdds, ContextCarries, ContextSeesOn
<1>3. KnowsPatches(p)'
  BY <1>1, <1>2, PatchesFrame DEF EndsWell, SeesOn
<1>4. ASSUME pc'[p] = "returned" PROVE FinishedFor({c}, life[p].run)'
  <2>1. Return(p)
    <3>1. pc'[p] \notin Walking \cup {"diverged", "duplicate", "fenced"}
      BY <1>4 DEF Walking
    <3>2. pc \in [Proc -> PC]
      BY DEF Sound
    <3> QED BY <1>4, <3>1, <3>2, HowItEnds DEF Pause, RaiseOwn, Goto
  <2>2. FinishedFor({c}, life[p].run)
    BY <2>1, ReturnFinishes DEF EndsWell
  <2>3. UNCHANGED <<life, diary>>
    BY <2>1 DEF Return, ReadOnly
  <2> QED BY <2>2, <2>3 DEF FinishedFor, Midway, ReadEvents
<1> QED BY <1>2, <1>3, <1>4, EndsOn DEF CarriesOn

LEMMA OpenEnds ==
    ASSUME Sound, Sound', NEW c, EndsWell(c),
           NEW p \in Proc, life[p].run \in Run, NEW d, OpenContext(p, d)
    PROVE  EndsWell(c)'
<1>1. KnowsPatches(p)' /\ Adds({c})
  BY OpenKnows DEF Adds, OpenContext, ReadOnly
<1>2. /\ \A q \in Proc : q # p => pc'[q] = pc[q] /\ life'[q] = life[q]
      /\ pc'[p] # "returned"
  BY DEF Sound, OpenContext, Goto
<1> QED BY <1>1, <1>2, EndsOn DEF OpenContext, ReadOnly

\* A process that goes where nobody walks, or ends.
LEMMA StopEnds ==
    ASSUME Sound, Sound', NEW c, EndsWell(c), NEW p \in Proc,
           NEW l \in PC, l \notin Walking, l # "returned", Goto(p, l),
           \A q \in Proc : q # p => life'[q] = life[q],
           UNCHANGED diary,
           \A r \in Run : runs'[r].status = "completed" =>
               \/ runs[r].status = "completed"
               \/ pc[p] = "returned" /\ r = life[p].run
    PROVE  EndsWell(c)'
<1>1. /\ \A q \in Proc : q # p => pc'[q] = pc[q] /\ life'[q] = life[q]
      /\ pc'[p] = l
  BY DEF Sound, Goto
<1>2. KnowsPatches(p)' /\ Adds({c})
  BY <1>1 DEF KnowsPatches, Adds
<1> QED BY <1>1, <1>2, EndsOn
=============================================================================

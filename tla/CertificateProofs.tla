-------------------------- MODULE CertificateProofs --------------------------
(***************************************************************************)
(* Theorems of what the scripts of harness/ assert and print, each about   *)
(* the agent of its script (a hypothesis of the theorem): chaos.py,        *)
(* refund_chaos.py, and the certificates of the fleet scripts. Where lives *)
(* come one at a time, the invariant is what each leaves in the diary; of  *)
(* a fleet script it is what its jobs write, and what becomes of one token.*)
(***************************************************************************)
EXTENDS ProgramsProofs

----------------------------------------------------------------------------
(* One life at a time                                                      *)

NobodyLives == \A p \in Proc : pc[p] = "idle"

LEMMA LifeLengths ==
    ASSUME NEW x \in LifeRow
    PROVE  \E n \in Nat, m \in Nat : n = Len(x.seen) /\ m = Len(x.history)
<1>1. x.seen \in Seq(Event) /\ x.history \in Seq(Event)
  BY DEF LifeRow
<1> QED BY <1>1

\* Nobody but p acts, and p has no token; what its diary holds, it has seen or
\* has in its snapshot.
Sole(p) ==
    LET r == life[p].run
        n == Len(life[p].seen)
        m == Len(life[p].history)
    IN  /\ \A q \in Proc : pc[q] # "idle" => q = p
        /\ life[p].token = 0
        /\ pc[p] = "claimed" => life[p].seen = << >>
        /\ pc[p] \in Walking => DOMAIN diary[r] = 1 .. (IF n > m THEN n ELSE m)

\* Nothing refuses the append of a life that is alone.
LEMMA RecordAlone ==
    ASSUME Sound, NEW p \in Proc, pc[p] \in Walking, Sole(p),
           NEW e, NEW next, Record(p, e, next)
    PROVE  /\ InsertEvent(life[p].run, NextSeq(p), e, life[p].token)
           /\ ~Taken(life[p].run, NextSeq(p))
           /\ Goto(p, next) /\ See(p, e)
           /\ UNCHANGED <<runs, keys, ledger, lock>>
<1>1. life[p] \in LifeRow
  BY DEF Sound
<1>2. PICK n \in Nat, m \in Nat : n = Len(life[p].seen) /\ m = Len(life[p].history)
  BY <1>1 DEF LifeRow
<1>3. n >= m
  BY <1>2 DEF Record, Replaying
<1>4. DOMAIN diary[life[p].run] = 1 .. n
  BY <1>2, <1>3 DEF Sole
<1>5. n + 1 \notin 1 .. n
  BY <1>2
<1>6. ~Taken(life[p].run, NextSeq(p))
  BY <1>2, <1>4, <1>5 DEF Taken, NextSeq
<1>7. HoldsLease(p)
  BY DEF HoldsLease, Fenced, Sole
<1> QED BY <1>6, <1>7 DEF Record

\* While a life walks alone it goes on knowing its diary.
LEMMA SoleWalks ==
    ASSUME Sound, Fits, NEW p \in Proc, Sole(p), ContextStep(p)
    PROVE  Sole(p)' /\ \A q \in Proc : pc'[q] # "idle" => q = p
<1>0. life[p] \in LifeRow /\ pc[p] \in Walking
  BY ContextWalks DEF Sound
<1>1. CarriesOn(p) /\ SeesOn(p)
  BY ContextCarries, ContextSeesOn
<1>2. PICK n \in Nat, m \in Nat : n = Len(life[p].seen) /\ m = Len(life[p].history)
  BY <1>0 DEF LifeRow
<1>3. \A q \in Proc : pc'[q] # "idle" => q = p
  BY <1>1 DEF CarriesOn, Sole
<1>4. life'[p].token = 0 /\ life'[p].run = life[p].run
  BY <1>1 DEF CarriesOn, Sole
<1>5. pc'[p] # "claimed"
  <2>1. pc \in [Proc -> PC]
    BY DEF Sound
  <2> QED BY <1>0, <2>1
       DEF ContextStep, ApplyPatch, ReplayLlm, CallModel, RecordLlm, ReplayIntent,
           RecordIntent, ReplayCompleted, BeginEffect, CommitEffect, ReplayRequest,
           RecordRequest, ReplayDecision, Pause, Return, RaiseOwn, Replay, Record,
           Goto, Walking
<1>6. DOMAIN diary[life[p].run] = 1 .. (IF n > m THEN n ELSE m)
  BY <1>0, <1>2 DEF Sole
<1>7. Len(life'[p].history) = m
  BY <1>1, <1>2 DEF SeesOn
<1>8. PICK k : k = Len(life'[p].seen)
  OBVIOUS
<1>9. DOMAIN diary'[life[p].run] = 1 .. (IF k > m THEN k ELSE m)
  <2>1. CASE UNCHANGED diary /\ k = n
    BY <1>6, <2>1
  <2>2. CASE UNCHANGED diary /\ n < m /\ k = n + 1
    <3>1. (IF k > m THEN k ELSE m) = (IF n > m THEN n ELSE m)
      BY <1>2, <2>2
    <3> QED BY <1>6, <2>2, <3>1
  <2>3. CASE n >= m /\ k = n + 1 /\ DOMAIN diary'[life[p].run] = 1 .. n + 1
    BY <1>2, <2>3
  <2> QED BY <1>1, <1>2, <1>8, <2>1, <2>2, <2>3 DEF SeesOn
<1> QED BY <1>3, <1>4, <1>5, <1>7, <1>8, <1>9 DEF Sole

\* Its end, and its beginning.
LEMMA SoleOpens ==
    ASSUME Sound, NEW l \in Life, Sole(l), Open(l)
    PROVE  Sole(l)' /\ \A q \in Proc : pc'[q] # "idle" => q = l
<1>0. /\ life \in [Proc -> LifeRow] /\ pc \in [Proc -> PC]
      /\ l \in Proc /\ life[l].run \in Run
  BY DEF Sound, LifeOK, Proc, Open
<1>1. PICK c \in Code : OpenContext(l, c)
  BY DEF Open
<1>2. PICK n \in Nat : DOMAIN diary[life[l].run] = 1 .. n
  BY <1>0 DEF Sound, DenseDiary
<1>3. Len(ReadEvents(life[l].run)) = n
  BY <1>0, <1>2, ReadSound
<1>4. PICK s : s = ReadEvents(life[l].run)
  OBVIOUS
<1>5. /\ life'[l].run = life[l].run /\ life'[l].token = life[l].token
      /\ life'[l].history = s /\ life'[l].seen = << >>
  BY <1>0, <1>1, <1>4 DEF OpenContext, LifeRow
<1>6. /\ pc'[l] = "agent" /\ UNCHANGED diary
      /\ \A q \in Proc : q # l => pc'[q] = pc[q]
  BY <1>0, <1>1 DEF OpenContext, Goto, ReadOnly
<1>7. Len(<< >>) = 0
  OBVIOUS
<1>8. (IF 0 > n THEN 0 ELSE n) = n
  BY <1>2
<1> QED BY <1>2, <1>3, <1>4, <1>5, <1>6, <1>7, <1>8 DEF Sole

LEMMA SoleSteps ==
    ASSUME Sound, Fits, NEW l \in Life, Sole(l), LifeStep(l)
    PROVE  /\ \A q \in Proc : pc'[q] # "idle" => q = l
           /\ Sole(l)'
<1>0. life \in [Proc -> LifeRow] /\ pc \in [Proc -> PC] /\ l \in Proc
  BY DEF Sound, Proc
<1>1. CASE Open(l)
  BY <1>1, SoleOpens
<1>2. CASE Walk(l)
  BY <1>0, <1>2, SoleWalks DEF Walk
<1>3. CASE Finish(l) \/ Suspend(l) \/ GiveUp(l)
  <2>1. Leave(l, "idle")
    BY <1>3 DEF Finish, Suspend, GiveUp
  <2>2. pc'[l] = "idle" /\ life'[l] = NoLife /\ \A q \in Proc : q # l => pc'[q] = pc[q]
    BY <1>0, <2>1 DEF Leave, Goto
  <2>3. life'[l].token = 0
    BY <2>2 DEF NoLife
  <2> QED BY <2>2, <2>3 DEF Sole, Walking
<1> QED BY <1>1, <1>2, <1>3 DEF LifeStep

LEMMA SoleTakes ==
    ASSUME Sound, NobodyLives, NEW l \in Life, NEW r \in Run, TakeUp(l, r)
    PROVE  /\ \A q \in Proc : pc'[q] # "idle" => q = l
           /\ Sole(l)' /\ pc'[l] = "claimed" /\ life'[l].run = r
<1>0. life \in [Proc -> LifeRow] /\ pc \in [Proc -> PC] /\ l \in Proc
  BY DEF Sound, Proc
<1>1. life[l] = NoLife
  BY <1>0 DEF NobodyLives, Sound, LifeOK
<1>2. life'[l].token = 0 /\ life'[l].seen = << >> /\ life'[l].run = r
  BY <1>0, <1>1 DEF TakeUp, NoLife
<1>3. pc'[l] = "claimed" /\ \A q \in Proc : q # l => pc'[q] = pc[q]
  BY <1>0 DEF TakeUp, Goto
<1> QED BY <1>2, <1>3 DEF Sole, NobodyLives, Walking

LEMMA SoleDies ==
    ASSUME Sound, NEW l \in Life, Sole(l), LifeDies(l)
    PROVE  NobodyLives'
BY DEF Sound, Proc, LifeDies, Crash, Leave, Goto, NobodyLives, Sole

----------------------------------------------------------------------------
(* The bill                                                                *)

\* The answers that p has recorded itself.
Paid(p) == {i \in Len(life[p].history) + 1 .. Len(life[p].seen) :
               life[p].seen[i].type = "LLM_CALLED"}

LEMMA PaidFrame ==
    ASSUME NEW p, life'[p].history = life[p].history, life'[p].seen = life[p].seen
    PROVE  Paid(p)' = Paid(p)
BY DEF Paid

\* A step to the next event: only an answer that the model just gave is new.
LEMMA PaidSees ==
    ASSUME Sound, NEW p \in Proc, NEW e, See(p, e),
           NEW n \in Nat, n = Len(life[p].seen), NEW m \in Nat, m = Len(life[p].history)
    PROVE  /\ n < m \/ e.type # "LLM_CALLED" => Paid(p)' = Paid(p)
           /\ n >= m /\ e.type = "LLM_CALLED" =>
                 Paid(p)' = Paid(p) \cup {n + 1} /\ n + 1 \notin Paid(p)
<1>0. life \in [Proc -> LifeRow] /\ life[p] \in LifeRow
  BY DEF Sound
<1>1. PICK s \in Seq(Event) : s = life[p].seen
  BY <1>0 DEF LifeRow
<1>2. PICK t : t = Append(s, e)
  OBVIOUS
<1>3. life'[p].seen = t /\ life'[p].history = life[p].history
  BY <1>0, <1>1, <1>2 DEF See, LifeRow
<1>4. /\ Len(t) = n + 1 /\ t[n + 1] = e
      /\ \A i \in 1 .. n : t[i] = s[i]
  BY <1>1, <1>2
<1>5. Paid(p) = {i \in m + 1 .. n : s[i].type = "LLM_CALLED"}
  BY <1>1 DEF Paid
<1>6. Paid(p)' = {i \in m + 1 .. n + 1 : t[i].type = "LLM_CALLED"}
  BY <1>3, <1>4 DEF Paid
<1>7. ASSUME NEW i \in m + 1 .. n + 1 PROVE i = n + 1 \/ (i \in m + 1 .. n /\ t[i] = s[i])
  BY <1>4, <1>7
<1>8. CASE n < m
  <2>1. m + 1 .. n + 1 = {} /\ m + 1 .. n = {}
    BY <1>8
  <2> QED BY <1>5, <1>6, <1>8, <2>1
<1>9. CASE n >= m /\ e.type # "LLM_CALLED"
  <2>1. m + 1 .. n \subseteq m + 1 .. n + 1
    OBVIOUS
  <2>2. n + 1 \notin Paid(p)'
    BY <1>4, <1>6, <1>9
  <2>3. Paid(p)' = Paid(p)
    BY <1>4, <1>5, <1>6, <1>7, <2>1, <2>2
  <2> QED BY <1>9, <2>3
<1>10. CASE n >= m /\ e.type = "LLM_CALLED"
  <2>1. m + 1 .. n \subseteq m + 1 .. n + 1 /\ n + 1 \in m + 1 .. n + 1 /\ n + 1 \notin m + 1 .. n
    BY <1>10
  <2>2. n + 1 \in Paid(p)' /\ n + 1 \notin Paid(p)
    BY <1>4, <1>5, <1>6, <1>10, <2>1
  <2>3. \A i \in m + 1 .. n : t[i] = s[i]
    BY <1>4
  <2>4. Paid(p)' = Paid(p) \cup {n + 1}
    BY <1>5, <1>6, <1>7, <2>1, <2>2, <2>3
  <2> QED BY <1>10, <2>2, <2>4
<1> QED BY <1>8, <1>9, <1>10

LEMMA PaidReplays ==
    ASSUME Sound, NEW p \in Proc, NEW matches, NEW next, Replay(p, matches, next)
    PROVE  Paid(p)' = Paid(p)
<1>0. life[p] \in LifeRow
  BY DEF Sound
<1>1. PICK n \in Nat, m \in Nat : n = Len(life[p].seen) /\ m = Len(life[p].history)
  BY <1>0 DEF LifeRow
<1>2. CASE See(p, NextRecorded(p))
  <2>1. n < m
    BY <1>1 DEF Replay, Replaying
  <2> QED BY <1>1, <1>2, <2>1, PaidSees
<1>3. CASE UNCHANGED life
  BY <1>3, PaidFrame
<1> QED BY <1>2, <1>3 DEF Replay

LEMMA PaidRecords ==
    ASSUME Sound, NEW p \in Proc, NEW e, e.type # "LLM_CALLED", NEW next,
           Record(p, e, next)
    PROVE  Paid(p)' = Paid(p)
<1>0. life[p] \in LifeRow
  BY DEF Sound
<1>1. PICK n \in Nat, m \in Nat : n = Len(life[p].seen) /\ m = Len(life[p].history)
  BY <1>0 DEF LifeRow
<1>2. CASE See(p, e)
  BY <1>1, <1>2, PaidSees
<1>3. CASE UNCHANGED life
  BY <1>3, PaidFrame
<1> QED BY <1>2, <1>3 DEF Record

LEMMA PaidCommits ==
    ASSUME Sound, NEW p \in Proc, CommitEffect(p)
    PROVE  Paid(p)' = Paid(p)
<1>0. life[p] \in LifeRow
  BY DEF Sound
<1>1. PICK n \in Nat, m \in Nat : n = Len(life[p].seen) /\ m = Len(life[p].history)
  BY <1>0 DEF LifeRow
<1>2. PICK result : See(p, CompletedEvent(life[p].run, result)) \/ UNCHANGED life
  BY DEF CommitEffect
<1>3. PICK e : e = CompletedEvent(life[p].run, result)
  OBVIOUS
<1>4. e.type # "LLM_CALLED"
  BY <1>3 DEF CompletedEvent
<1>5. CASE See(p, e)
  BY <1>1, <1>4, <1>5, PaidSees
<1>6. CASE UNCHANGED life
  BY <1>6, PaidFrame
<1> QED BY <1>2, <1>3, <1>5, <1>6

\* No step but the return of a model call changes the bill.
LEMMA PaidStands ==
    ASSUME Sound, NEW p \in Proc, ContextStep(p), pc[p] # "called"
    PROVE  Paid(p)' = Paid(p)
<1>0. life \in [Proc -> LifeRow] /\ life[p] \in LifeRow
  BY DEF Sound
<1>1. CASE UNCHANGED life
  BY <1>1, PaidFrame
<1>2. CASE ApplyPatch(p)
  <2>1. PICK n \in Nat, m \in Nat : n = Len(life[p].seen) /\ m = Len(life[p].history)
    BY <1>0 DEF LifeRow
  <2>2. n < m /\ See(p, NextRecorded(p))
    BY <1>2, <2>1 DEF ApplyPatch, AtPatch, Replaying
  <2> QED BY <2>1, <2>2, PaidSees
<1>3. CASE \/ ReplayLlm(p) \/ ReplayIntent(p) \/ ReplayCompleted(p)
           \/ ReplayRequest(p) \/ ReplayDecision(p)
  BY <1>3, PaidReplays DEF ReplayLlm, ReplayIntent, ReplayCompleted, ReplayRequest,
                           ReplayDecision
<1>4. CASE RecordIntent(p)
  <2>1. IntentEvent(life[p].run).type # "LLM_CALLED"
    BY DEF IntentEvent
  <2> QED BY <1>4, <2>1, PaidRecords DEF RecordIntent
<1>5. CASE RecordRequest(p)
  <2>1. RequestEvent(Ask(p)).type # "LLM_CALLED"
    BY DEF RequestEvent
  <2> QED BY <1>5, <2>1, PaidRecords DEF RecordRequest
<1>6. CASE BeginEffect(p)
  <2>1. life'[p].history = life[p].history /\ life'[p].seen = life[p].seen
    BY <1>0, <1>6 DEF BeginEffect, LifeRow
  <2> QED BY <2>1, PaidFrame
<1>7. CASE CommitEffect(p)
  BY <1>7, PaidCommits
<1> QED BY <1>1, <1>2, <1>3, <1>4, <1>5, <1>6, <1>7
       DEF ContextStep, RecordLlm, CallModel, Pause, Return, RaiseOwn

\* The one life there is, and what its brain counted.
Billed(p) == Sole(p) /\ brain.calls = Cardinality(Paid(p))

LEMMA PaidFinite ==
    ASSUME Sound, NEW p \in Proc
    PROVE  IsFiniteSet(Paid(p))
<1>0. life[p] \in LifeRow
  BY DEF Sound
<1>1. PICK n \in Nat, m \in Nat : n = Len(life[p].seen) /\ m = Len(life[p].history)
  BY <1>0 DEF LifeRow
<1>2. IsFiniteSet(m + 1 .. n)
  <2>1. PICK a \in Int, b \in Int : a = m + 1 /\ b = n
    BY <1>1
  <2> QED BY <2>1, FS_Interval
<1>3. Paid(p) \subseteq m + 1 .. n
  BY <1>1 DEF Paid
<1> QED BY <1>2, <1>3, FS_Subset

\* The answer to a call is counted where it is recorded.
LEMMA CallBills ==
    ASSUME Sound, NEW p \in Proc, Sole(p), pc[p] = "called", RecordLlm(p)
    PROVE  Cardinality(Paid(p)') = Cardinality(Paid(p)) + 1
<1>0. life[p] \in LifeRow
  BY DEF Sound
<1>1. PICK n \in Nat, m \in Nat : n = Len(life[p].seen) /\ m = Len(life[p].history)
  BY <1>0 DEF LifeRow
<1>2. PICK response \in Answer : Record(p, LlmEvent(Ask(p), response), "agent")
  BY DEF RecordLlm
<1>3. PICK e : e = LlmEvent(Ask(p), response)
  OBVIOUS
<1>4. e.type = "LLM_CALLED" /\ n >= m
  BY <1>1, <1>2, <1>3 DEF LlmEvent, Record, Replaying
<1>5. See(p, e)
  BY <1>2, <1>3, RecordAlone DEF Walking
<1>6. Paid(p)' = Paid(p) \cup {n + 1} /\ n + 1 \notin Paid(p)
  BY <1>1, <1>4, <1>5, PaidSees
<1> QED BY <1>6, PaidFinite, FS_AddElement

\* A life that steps on goes on being billed.
LEMMA StepBills ==
    ASSUME Sound, Fits, BrainOK, NEW l \in Life, Billed(l), LifeStep(l), BrainAnswers(l)
    PROVE  pc'[l] # "idle" => Billed(l)'
<1>0. l \in Proc /\ life \in [Proc -> LifeRow]
  BY DEF Proc, Sound
<1>1. Sole(l)' /\ Sole(l)
  BY SoleSteps DEF Billed
<1>2. CASE pc[l] = "called"
  <2>1. RecordLlm(l)
    BY <1>2 DEF LifeStep, Open, Walk, Finish, Suspend, GiveUp, ContextStep, ApplyPatch,
                ReplayLlm, CallModel, ReplayIntent, RecordIntent, ReplayCompleted,
                BeginEffect, CommitEffect, ReplayRequest, RecordRequest,
                ReplayDecision, Pause, Return, RaiseOwn, Asks
  <2>2. brain'.calls = brain.calls + 1
    BY <1>2 DEF BrainAnswers, Counted, BrainOK, NoBrain, Brain
  <2>3. Cardinality(Paid(l)') = Cardinality(Paid(l)) + 1
    BY <1>0, <1>1, <1>2, <2>1, CallBills
  <2>4. brain'.calls = Cardinality(Paid(l)')
    BY <2>2, <2>3 DEF Billed
  <2> QED BY <1>1, <2>4 DEF Billed
<1>3. CASE pc[l] # "called" /\ Walk(l)
  <2>1. Paid(l)' = Paid(l)
    BY <1>0, <1>3, PaidStands DEF Walk
  <2>2. UNCHANGED brain
    BY <1>3 DEF BrainAnswers
  <2> QED BY <1>1, <2>1, <2>2 DEF Billed
<1>4. CASE Open(l)
  <2>1. life[l].seen = << >>
    BY <1>1, <1>4 DEF Sole, Open
  <2>2. life'[l].seen = << >>
    BY <1>0, <1>4 DEF Open, OpenContext, LifeRow
  <2>3. Paid(l) = {} /\ Paid(l)' = {}
    <3>0. life[l] \in LifeRow
      BY <1>0
    <3>1. PICK m \in Nat : m = Len(life[l].history)
      BY <3>0 DEF LifeRow
    <3>2. Sound'
      BY <1>4, LifeSound DEF LifeStep
    <3>3. life'[l] \in LifeRow
      BY <1>0, <3>2 DEF Sound
    <3>4. PICK k \in Nat : k = Len(life'[l].history)
      BY <3>3 DEF LifeRow
    <3>5. m + 1 .. 0 = {} /\ k + 1 .. 0 = {} /\ Len(<< >>) = 0
      OBVIOUS
    <3> QED BY <2>1, <2>2, <3>1, <3>4, <3>5 DEF Paid
  <2>4. UNCHANGED brain
    BY <1>4 DEF BrainAnswers, Open
  <2> QED BY <1>1, <2>3, <2>4 DEF Billed
<1>5. CASE Finish(l) \/ Suspend(l) \/ GiveUp(l)
  BY <1>0, <1>5 DEF Finish, Suspend, GiveUp, Leave, Goto, Sound
<1> QED BY <1>2, <1>3, <1>4, <1>5 DEF LifeStep, Open, Walk, Finish, Suspend, GiveUp

LEMMA TakeBills ==
    ASSUME Sound, NobodyLives, NEW l \in Life, NEW r \in Run, TakeUp(l, r),
           brain'.calls = 0
    PROVE  Billed(l)'
<1>0. life \in [Proc -> LifeRow] /\ pc \in [Proc -> PC] /\ l \in Proc
  BY DEF Sound, Proc
<1>1. Sole(l)'
  BY SoleTakes
<1>2. life[l] = NoLife
  BY <1>0 DEF NobodyLives, Sound, LifeOK
<1>3. life'[l].seen = << >> /\ life'[l].history = << >>
  BY <1>0, <1>2 DEF TakeUp, NoLife
<1>4. Paid(l)' = {}
  <2>1. 1 .. 0 = {} /\ Len(<< >>) = 0
    OBVIOUS
  <2> QED BY <1>3, <2>1 DEF Paid
<1>5. Cardinality({}) = 0
  BY FS_EmptySet
<1> QED BY <1>1, <1>4, <1>5 DEF Billed

----------------------------------------------------------------------------
(* chaos.py and refund_chaos.py                                            *)

Certifying == {"chaos", "refund_chaos"}

\* Between its lives a script is alone with the database, and each has a brain
\* that was new with it.
CertLives ==
    /\ program \notin Certifying => cert.at = "fresh"
    /\ program \in Certifying =>
          \/ NobodyLives
          \/ At("life") /\ \E l \in Life : pc[l] # "idle" /\ Billed(l)

LEMMA CertBills ==
    ASSUME Sound, Fits, BrainOK, CertOK, CertNext,
           \/ NobodyLives
           \/ At("life") /\ \E l \in Life : pc[l] # "idle" /\ Billed(l)
    PROVE  (\/ NobodyLives
            \/ At("life") /\ \E l \in Life : pc[l] # "idle" /\ Billed(l))'
<1>0. pc \in [Proc -> PC] /\ Life \subseteq Proc
  BY DEF Sound, Proc
<1>1. CASE FreshRun \/ Poll \/ Verdict
  <2>1. ~At("life")
    BY <1>1 DEF FreshRun, Poll, Verdict, At
  <2>2. UNCHANGED pc
    BY <1>1 DEF FreshRun, Poll, Verdict, Quiet, livesVars, Create
  <2> QED BY <2>1, <2>2 DEF NobodyLives
<1>2. ASSUME NEW l \in Life, Launch(l)
      PROVE  (At("life") /\ \E q \in Life : pc[q] # "idle" /\ Billed(q))'
  <2>1. NobodyLives
    BY <1>2 DEF Launch, At
  <2>2. cert.run \in Run /\ cert'.at = "life" /\ brain'.calls = 0
    <3>1. cert.run \in 1 .. Runs
      BY <1>2 DEF CertOK, Launch, At, CertificatesAssumption
    <3> QED BY <1>2, <3>1, CertificatesAssumption, MaxRunAssumption
         DEF Launch, CertOK, Script, Brain, Run
  <2>3. Billed(l)'
    BY <1>2, <2>1, <2>2, TakeBills DEF Launch
  <2>4. pc'[l] = "claimed"
    BY <1>2, <2>1, <2>2, SoleTakes DEF Launch
  <2> QED BY <2>2, <2>3, <2>4 DEF At
<1>3. ASSUME NEW l \in Life, Killed(l) PROVE NobodyLives'
  <2>1. pc[l] # "idle"
    BY <1>3 DEF Killed, LifeDies, Crash
  <2>2. Sole(l)
    BY <1>0, <2>1 DEF NobodyLives, Billed, Sole
  <2> QED BY <1>3, <2>2, SoleDies DEF Killed
<1>4. ASSUME NEW l \in Life, LivesOn(l)
      PROVE  (\/ NobodyLives
              \/ At("life") /\ \E q \in Life : pc[q] # "idle" /\ Billed(q))'
  <2>1. LifeStep(l) /\ BrainAnswers(l)
    BY <1>4 DEF LivesOn
  <2>2. pc[l] # "idle"
    BY <2>1, ContextWalks DEF LifeStep, Open, Walk, Finish, Suspend, GiveUp, Walking
  <2>3. Billed(l)
    BY <1>0, <2>2 DEF NobodyLives, Billed, Sole
  <2>4. \A q \in Proc : pc'[q] # "idle" => q = l
    BY <2>1, <2>3, SoleSteps DEF Billed
  <2>5. CASE pc'[l] = "idle"
    BY <2>4, <2>5 DEF NobodyLives
  <2>6. CASE pc'[l] # "idle"
    <3>1. Billed(l)'
      BY <2>1, <2>3, <2>6, StepBills
    <3>2. cert'.at = "life"
      BY <1>4, <2>6 DEF LivesOn, At
    <3> QED BY <2>6, <3>1, <3>2 DEF At
  <2> QED BY <2>5, <2>6
<1> QED BY <1>1, <1>2, <1>3, <1>4 DEF CertNext

LEMMA CertLivesNext ==
    ASSUME ProgramOK, CertLives, [ProgramsNext]_programsVars
    PROVE  CertLives'
<1>0. UNCHANGED program
  BY ProgramFrame DEF ProgramOK
<1>1. CASE program \in Certifying /\ CertNext
  BY <1>0, <1>1, CertBills DEF CertLives, ProgramOK, ScriptsOK
<1>2. CASE UNCHANGED programsVars
  BY <1>2 DEF CertLives, At, NobodyLives, Billed, Sole, Paid, programsVars, vars
<1>3. CASE program \notin Certifying /\ UNCHANGED cert
  BY <1>0, <1>3 DEF CertLives
<1> QED BY <1>1, <1>2, <1>3
       DEF ProgramsNext, Browse, Certify, Demonstrate, DriveFleet, Mix, GatherCalls,
           Plays, Fleets, Certifying

----------------------------------------------------------------------------
(* What a life writes                                                      *)

\* r gets the call that c makes after what it holds.
Recalls(c, r, n, e) ==
    /\ Appends(r, n, e) /\ e.type \in Calls
    /\ Requested(Agent(c, Before(diary[r], n + 1)), e)
    /\ UNCHANGED ledger

\* Where e is the answer of a model call, it is that of the brain.
AnsweredBy(b, c, r, n, e) ==
    e.type = "LLM_CALLED" => e.ans \in Answers(b, Agent(c, Before(diary[r], n + 1)).ask)

LEMMA RecordWrites ==
    ASSUME Sound, Fits, NEW c, RunsOnly(c), NEW l \in Proc,
           NEW r \in Run, r = life[l].run,
           pc[l] \in {"agent", "called"}, NEW e \in Event, NEW next, Record(l, e, next),
           e.type \in Calls, Requested(Agent(life[l].code, life[l].seen), e)
    PROVE  \/ UNCHANGED <<diary, ledger>>
           \/ /\ See(l, e) /\ Goto(l, next)
              /\ \E n \in Nat : /\ n = Len(life[l].seen) /\ Recalls(c, r, n, e)
                                /\ life[l].seen = Before(diary[r], n + 1)
<1>1. CASE UNCHANGED <<diary, ledger>>
  BY <1>1
<1>2. CASE /\ InsertEvent(life[l].run, NextSeq(l), e, life[l].token)
           /\ ~Taken(life[l].run, NextSeq(l))
           /\ UNCHANGED <<runs, ledger>>
           /\ See(l, e) /\ Goto(l, next)
  <2>1. PICK s : s = life[l].seen
    OBVIOUS
  <2>2. /\ life[l].code = c /\ s \in Seq(Event) /\ Appends(r, Len(s), e)
    BY <1>2, <2>1, AppendRefines DEF Walking, RunsOnly
  <2>3. Walked(s, r)
    BY <2>1, <2>2 DEF Sound, LifeOK
  <2>4. PICK n \in Nat : n = Len(s)
    BY <2>2
  <2>5. s = Before(diary[r], n + 1)
    BY <2>2, <2>3, <2>4, SeenIsBefore
  <2>6. Recalls(c, r, n, e)
    BY <1>2, <2>1, <2>2, <2>4, <2>5 DEF Recalls
  <2> QED BY <1>2, <2>1, <2>4, <2>5, <2>6
<1> QED BY <1>1, <1>2 DEF Record

\* A life adds the call it makes, or the result of the effect it asked for.
LEMMA StepWrites ==
    ASSUME Sound, Fits, NEW c, RunsOnly(c), NEW l \in Proc,
           NEW r \in Run, r = life[l].run, ContextStep(l),
           pc[l] = "called" => BrainAnswers(l)
    PROVE  \/ UNCHANGED <<diary, ledger>>
           \/ \E n \in Nat, e \in Event :
                 /\ Recalls(c, r, n, e) \/ Results(c, r, n, e)
                 /\ AnsweredBy(brain, c, r, n, e)
<1>0. /\ LifeOK(l) /\ pc \in [Proc -> PC] /\ life \in [Proc -> LifeRow]
      /\ life[l] \in LifeRow
  BY DEF Sound
<1>1. PICK op : op = Agent(life[l].code, life[l].seen)
  OBVIOUS
<1>2. CASE RecordLlm(l)
  <2>1. /\ op \in Op /\ op.kind = "llm" /\ Ask(l) = op.ask /\ pc[l] = "called"
        /\ life[l].code = c
    BY <1>0, <1>1, <1>2 DEF RecordLlm, LifeOK, Ask, RunsOnly, Walking
  <2>2. PICK answer \in Answer : Record(l, LlmEvent(Ask(l), answer), "agent")
    BY <1>2 DEF RecordLlm
  <2>3. PICK e \in Event : e = LlmEvent(Ask(l), answer)
    BY <2>1 DEF Op, LlmEvent, Event, EventType
  <2>4. Requested(op, e) /\ e.type \in Calls
    BY <2>1, <2>3 DEF Requested, LlmEvent, Calls
  <2>5. CASE UNCHANGED <<diary, ledger>>
    BY <2>5
  <2>6. CASE /\ See(l, e) /\ Goto(l, "agent")
             /\ \E n \in Nat : /\ n = Len(life[l].seen) /\ Recalls(c, r, n, e)
                               /\ life[l].seen = Before(diary[r], n + 1)
    <3>1. PICK s \in Seq(Event) : s = life[l].seen
      BY <1>0 DEF LifeRow
    <3>2. PICK n \in Nat : /\ n = Len(s) /\ Recalls(c, r, n, e)
                           /\ s = Before(diary[r], n + 1)
      BY <2>6, <3>1
    <3>3. PICK t : t = Append(s, e)
      OBVIOUS
    <3>4. life'[l].seen = t /\ Len(t) = n + 1 /\ t[n + 1] = e
      <4>1. life'[l].seen = t
        BY <1>0, <2>6, <3>1, <3>3 DEF See, LifeRow
      <4>2. Len(t) = n + 1 /\ t[n + 1] = e
        BY <3>1, <3>2, <3>3
      <4> QED BY <4>1, <4>2
    <3>5. pc'[l] = "agent"
      BY <1>0, <2>6 DEF Goto
    <3>6. e.ans \in Answers(brain, op.ask)
      BY <2>1, <3>4, <3>5 DEF BrainAnswers
    <3>7. AnsweredBy(brain, c, r, n, e)
      BY <1>1, <2>1, <3>1, <3>2, <3>6 DEF AnsweredBy
    <3> QED BY <3>2, <3>7
  <2> QED BY <1>1, <2>1, <2>2, <2>3, <2>4, <2>5, <2>6, RecordWrites
<1>3. CASE RecordIntent(l)
  <2>1. pc[l] = "agent" /\ op \in Op /\ op.kind = "effect"
    BY <1>0, <1>1, <1>3 DEF RecordIntent, Asks
  <2>2. PICK e \in Event : e = IntentEvent(life[l].run)
    BY DEF IntentEvent, Event, EventType
  <2>3. Requested(op, e) /\ e.type \in Calls /\ e.type # "LLM_CALLED"
    BY <2>1, <2>2 DEF Requested, IntentEvent, Calls
  <2>4. Record(l, e, "acting")
    BY <1>3, <2>2 DEF RecordIntent
  <2>5. UNCHANGED <<diary, ledger>> \/ \E n \in Nat : Recalls(c, r, n, e)
    BY <1>1, <2>1, <2>3, <2>4, RecordWrites
  <2> QED BY <2>3, <2>5 DEF AnsweredBy
<1>4. CASE RecordRequest(l)
  <2>1. pc[l] = "agent" /\ op \in Op /\ op.kind = "gate" /\ Ask(l) = op.ask
    BY <1>1, <1>4 DEF RecordRequest, Asks, Ask
  <2>2. PICK e \in Event : e = RequestEvent(Ask(l))
    BY <2>1 DEF Op, RequestEvent, Event, EventType
  <2>3. Requested(op, e) /\ e.type \in Calls /\ e.type # "LLM_CALLED"
    BY <2>1, <2>2 DEF Requested, RequestEvent, Calls
  <2>4. Record(l, e, "asked")
    BY <1>4, <2>2 DEF RecordRequest
  <2>5. UNCHANGED <<diary, ledger>> \/ \E n \in Nat : Recalls(c, r, n, e)
    BY <1>1, <2>1, <2>3, <2>4, RecordWrites
  <2> QED BY <2>3, <2>5 DEF AnsweredBy
<1>5. CASE CommitEffect(l) /\ ~Conflict(l)
  <2>1. PICK n \in Nat, e \in Event : Results(c, r, n, e)
    BY <1>5, CommitAnswers
  <2>2. e.type # "LLM_CALLED"
    BY <2>1 DEF Results, CompletedEvent
  <2> QED BY <2>1, <2>2 DEF AnsweredBy
<1>6. CASE CommitEffect(l) /\ Conflict(l)
  BY <1>6 DEF CommitEffect
<1>7. \/ RecordLlm(l) \/ RecordIntent(l) \/ RecordRequest(l) \/ CommitEffect(l)
      \/ UNCHANGED <<diary, ledger>>
  BY DEF ContextStep, ApplyPatch, ReplayLlm, CallModel, ReplayIntent,
         ReplayCompleted, BeginEffect, ReplayRequest, ReplayDecision, Pause,
         Return, RaiseOwn, Replay, ReadOnly
<1> QED BY <1>2, <1>3, <1>4, <1>5, <1>6, <1>7

\* A life that is alone meets no error; it comes to a question, an end or an
\* exception only where its agent asks for that.
LEMMA SoleGoes ==
    ASSUME Sound, Fits, NEW c, RunsOnly(c), AllPlayed(c), NEW p \in Proc, Sole(p),
           ContextStep(p)
    PROVE  /\ pc'[p] \in Walking \/ Pause(p) \/ Return(p) \/ RaiseOwn(p)
           /\ pc'[p] = "asked" => Asks(p, "gate")
<1>0. /\ pc \in [Proc -> PC] /\ life \in [Proc -> LifeRow] /\ pc[p] \in Walking
      /\ life[p] \in LifeRow /\ LifeOK(p) /\ CursorAt(pc[p], life[p])
  BY ContextWalks DEF Sound, Fits, CursorOK
<1>1. pc'[p] # "diverged"
  BY <1>0, ContextAgrees DEF Walking
<1>2. PICK n \in Nat, m \in Nat : n = Len(life[p].seen) /\ m = Len(life[p].history)
  <2>1. life[p] \in LifeRow
    BY <1>0
  <2> QED BY <2>1, LifeLengths
<1>3. ASSUME NEW e, NEW next, Record(p, e, next) PROVE pc'[p] = next
  BY <1>0, <1>3, RecordAlone DEF Goto
<1>4. HoldsLease(p)
  BY DEF HoldsLease, Fenced, Sole
<1>5. CommitEffect(p) => ~Conflict(p)
  <2>1. SUFFICES ASSUME CommitEffect(p), Conflict(p) PROVE FALSE
    OBVIOUS
  <2>2. PICK r \in Run : r = life[p].run
    BY <1>0 DEF LifeOK, Walking
  <2>3. n >= m /\ DOMAIN diary[r] = 1 .. n
    <3>1. n >= m
      BY <1>0, <1>2, <2>1 DEF CursorAt, CommitEffect
    <3> QED BY <1>0, <1>2, <2>2, <3>1 DEF Sole
  <2>4. n + 1 \notin DOMAIN diary[r]
    BY <1>2, <2>3
  <2>5. n \in DOMAIN keys[r]
    BY <1>2, <2>1, <2>2, <2>4 DEF Conflict, Taken, NextSeq, KeySeq
  <2>6. Performed(r)
    BY DEF Fits
  <2>7. n + 1 \in DOMAIN diary[r]
    BY <2>5, <2>6 DEF Performed, Completes
  <2> QED BY <2>4, <2>7
<1>6. pc'[p] \notin {"duplicate", "fenced"}
  <2>1. CASE RecordLlm(p) \/ RecordIntent(p) \/ RecordRequest(p)
    <3>1. \E e, next : Record(p, e, next) /\ next \in {"agent", "acting", "asked"}
      BY <2>1 DEF RecordLlm, RecordIntent, RecordRequest
    <3> QED BY <1>3, <3>1
  <2>2. CASE BeginEffect(p)
    BY <1>0, <1>4, <2>2 DEF BeginEffect, Goto
  <2>3. CASE CommitEffect(p)
    BY <1>0, <1>5, <2>3 DEF CommitEffect, Goto
  <2>4. CASE ApplyPatch(p)
    BY <1>0, <2>4 DEF ApplyPatch
  <2>5. ASSUME NEW matches, NEW next \in {"agent", "acting", "asked"},
               Replay(p, matches, next)
        PROVE  pc'[p] \notin {"duplicate", "fenced"}
    BY <1>0, <2>5 DEF Replay, Goto
  <2>6. CASE \/ ReplayLlm(p) \/ ReplayIntent(p) \/ ReplayCompleted(p)
             \/ ReplayRequest(p) \/ ReplayDecision(p)
    BY <2>5, <2>6 DEF ReplayLlm, ReplayIntent, ReplayCompleted, ReplayRequest,
                      ReplayDecision
  <2>7. CASE CallModel(p) \/ Pause(p) \/ Return(p) \/ RaiseOwn(p)
    BY <1>0, <2>7 DEF CallModel, Pause, Return, RaiseOwn, Goto
  <2> QED BY <2>1, <2>2, <2>3, <2>4, <2>6, <2>7 DEF ContextStep
<1>7. pc'[p] \in Walking \/ Pause(p) \/ Return(p) \/ RaiseOwn(p)
  BY <1>1, <1>6, HowItEnds
<1>8. pc'[p] = "asked" => Asks(p, "gate")
  <2>1. SUFFICES ASSUME pc'[p] = "asked" PROVE Asks(p, "gate")
    OBVIOUS
  <2>2. CASE RecordLlm(p) \/ RecordIntent(p)
    <3>1. \E e, next : Record(p, e, next) /\ next \in {"agent", "acting"}
      BY <2>2 DEF RecordLlm, RecordIntent
    <3> QED BY <1>3, <2>1, <3>1
  <2>3. CASE BeginEffect(p) \/ CommitEffect(p)
    BY <1>0, <2>1, <2>3 DEF BeginEffect, CommitEffect, Goto
  <2>4. CASE ApplyPatch(p)
    BY <1>0, <2>1, <2>4 DEF ApplyPatch
  <2>5. ASSUME NEW matches, NEW next \in {"agent", "acting"}, Replay(p, matches, next)
        PROVE  FALSE
    BY <1>0, <2>1, <2>5 DEF Replay, Goto
  <2>6. CASE ReplayLlm(p) \/ ReplayIntent(p) \/ ReplayCompleted(p) \/ ReplayDecision(p)
    BY <2>5, <2>6 DEF ReplayLlm, ReplayIntent, ReplayCompleted, ReplayDecision
  <2>7. CASE CallModel(p) \/ Pause(p) \/ Return(p) \/ RaiseOwn(p)
    BY <1>0, <2>1, <2>7 DEF CallModel, Pause, Return, RaiseOwn, Goto
  <2>8. CASE RecordRequest(p) \/ ReplayRequest(p)
    BY <2>8 DEF RecordRequest, ReplayRequest
  <2> QED BY <2>2, <2>3, <2>4, <2>6, <2>7, <2>8 DEF ContextStep
<1> QED BY <1>7, <1>8

----------------------------------------------------------------------------
(* The agents of the scripts                                               *)

\* An agent is handed answers and results, never the id of its run.
Alike(g, h) ==
    /\ Len(g) = Len(h)
    /\ \A i \in 1 .. Len(g) : g[i].type = h[i].type /\ g[i].ans = h[i].ans

Blind(c) == \A g, h \in Seq(Event) : Alike(g, h) => Agent(c, g) = Agent(c, h)

\* It makes calls of these kinds and then returns.
Makes(c, kinds) ==
    \A h \in Seq(Event) : Agent(c, h) \in Op /\ Agent(c, h).kind \in kinds \cup {"return"}

\* The calls in h are those of c, and the results are of the effects it asked
\* for.
Lived(c, h) ==
    \A i \in 1 .. Len(h) :
        /\ h[i].type \in Calls => Requested(Agent(c, SubSeq(h, 1, i - 1)), h[i])
        /\ h[i].type = "TOOL_COMPLETED" =>
              /\ i > 1 /\ h[i - 1].type = "TOOL_INTENT"
              /\ h[i].ans = Agent(c, SubSeq(h, 1, i - 2)).ask

\* It asks for no effect that it has the result of.
NeverTwice(c) ==
    \A h \in Seq(Event) : Lived(c, h) /\ Agent(c, h).kind = "effect" =>
        \A i \in 1 .. Len(h) : h[i].type = "TOOL_COMPLETED" => h[i].ans # Agent(c, h).ask

\* harness/agent.py asks the model, harness/refund.py charges each counter once;
\* the brains of chaos.py have a seed.
ScriptAgents ==
    /\ Seed # Unset
    /\ "chaos" \in DOMAIN Bounds =>
          LET c == Bounds["chaos"].code
          IN  Blind(c) /\ Makes(c, {"llm"})
    /\ "refund_chaos" \in DOMAIN Bounds =>
          LET c == Bounds["refund_chaos"].code
          IN  Blind(c) /\ Makes(c, {"effect"}) /\ NeverTwice(c)

----------------------------------------------------------------------------
(* What the scripts leave in the database                                  *)

\* Nothing but answers, intents and results; the answers are the brain's, the
\* effects those of this run.
WorkType == {"LLM_CALLED", "TOOL_INTENT", "TOOL_COMPLETED"}

OnlyWork(r) ==
    \A s \in DOMAIN diary[r] :
        LET e == Ev(r, s)
        IN  /\ e.type \in WorkType
            /\ IF e.type = "LLM_CALLED" THEN e.ans = Reply(Seed, e.ask) ELSE e.ask = r

\* r goes as run q went.
Echoes(q, r) ==
    \A s \in DOMAIN diary[r] :
        /\ s \in DOMAIN diary[q]
        /\ Type(r, s) = Type(q, s) /\ Ev(r, s).ans = Ev(q, s).ans

LEMMA BeforeIsSeq ==
    ASSUME Sound, NEW r \in Run, NEW n \in Nat, \A i \in 1 .. n : i \in DOMAIN diary[r],
           NEW g, g = Before(diary[r], n + 1)
    PROVE  /\ g \in Seq(Event) /\ Len(g) = n
           /\ \A i \in 1 .. n : g[i] = Ev(r, i)
<1>1. \A i \in 1 .. n : Ev(r, i) \in Event
  BY DEF Sound, DiaryTypeOK, EventRow, Ev
<1>2. n + 1 - 1 = n
  OBVIOUS
<1>3. g = [i \in 1 .. n |-> Ev(r, i)]
  BY <1>2 DEF Before, Ev
<1>4. g \in Seq(Event)
  BY <1>1, <1>3, IsASeq
<1> QED BY <1>3, <1>4

\* As long as they go alike, the agent asks the same in both.
LEMMA EchoesAlike ==
    ASSUME Sound, NEW c, Blind(c), NEW q \in Run, NEW r \in Run, Echoes(q, r),
           NEW n \in Nat, \A i \in 1 .. n : i \in DOMAIN diary[r]
    PROVE  Agent(c, Before(diary[q], n + 1)) = Agent(c, Before(diary[r], n + 1))
<1>1. PICK g, h : g = Before(diary[q], n + 1) /\ h = Before(diary[r], n + 1)
  OBVIOUS
<1>2. \A i \in 1 .. n : i \in DOMAIN diary[q]
  BY DEF Echoes
<1>3. /\ g \in Seq(Event) /\ Len(g) = n /\ \A i \in 1 .. n : g[i] = Ev(q, i)
      /\ h \in Seq(Event) /\ Len(h) = n /\ \A i \in 1 .. n : h[i] = Ev(r, i)
  BY <1>1, <1>2, BeforeIsSeq
<1>4. Alike(g, h)
  BY <1>3 DEF Alike, Echoes, Type, Ev
<1> QED BY <1>1, <1>3, <1>4 DEF Blind

\* A diary that reads as finished has nothing after it that c would add.
LEMMA FinishedReads ==
    ASSUME Sound, NEW c, NEW r \in Run, FinishedFor({c}, r),
           NEW n \in Nat, DOMAIN diary[r] = 1 .. n
    PROVE  /\ Agent(c, Before(diary[r], n + 1)).kind = "return"
           /\ n > 0 => Type(r, n) \notin {"TOOL_INTENT", "APPROVAL_REQUESTED"}
<1>1. PICK g : g = Before(diary[r], n + 1)
  OBVIOUS
<1>2. /\ g \in Seq(Event) /\ Len(g) = n
      /\ \A i \in 1 .. n : g[i] = Ev(r, i)
  BY <1>1, BeforeIsSeq
<1>3. PICK t : t = ReadEvents(r)
  OBVIOUS
<1>4. t = [i \in 1 .. n |-> Ev(r, i)]
  BY <1>3, ReadDense DEF Ev
<1>5. n + 1 - 1 = n
  OBVIOUS
<1>6. t = g
  BY <1>1, <1>4, <1>5 DEF Before, Ev
<1>7. n > 0 => g # << >> /\ g[Len(g)] = Ev(r, n)
  BY <1>2
<1> QED BY <1>1, <1>2, <1>3, <1>6, <1>7 DEF FinishedFor, Midway, Type, Ev

\* c adds a call or a result to r.
AddsWork(c, r, n, e) ==
    /\ Recalls(c, r, n, e) \/ Results(c, r, n, e)
    /\ e.type \in WorkType
    /\ e.type = "LLM_CALLED" => e.ans = Reply(Seed, e.ask)

LEMMA WorkAppends ==
    ASSUME NEW c, NEW r \in Run, NEW n \in Nat, NEW e, AddsWork(c, r, n, e)
    PROVE  Appends(r, n, e)
  BY DEF AddsWork, Recalls, Results

\* A result follows an intent, and nothing else does.
LEMMA WorkFollows ==
    ASSUME Fits', NEW c, NEW r \in Run, NEW n \in Nat, NEW e, AddsWork(c, r, n, e)
    PROVE  /\ n > 0 => (e.type = "TOOL_COMPLETED" <=> Type(r, n) = "TOOL_INTENT")
           /\ n = 0 => e.type # "TOOL_COMPLETED"
           /\ e.type \in {"TOOL_INTENT", "TOOL_COMPLETED"} => e.ask = r
<1>1. /\ DOMAIN diary'[r] = 1 .. n + 1 /\ diary'[r][n + 1].event = e
      /\ n > 0 => diary'[r][n].event = Ev(r, n)
  <2>1. n > 0 => n \in 1 .. n
    OBVIOUS
  <2>2. Appends(r, n, e)
    BY WorkAppends
  <2> QED BY <2>1, <2>2 DEF Appends, Ev
<1>2. Walkable(r)'
  BY DEF Fits
<1>3. n > 0 => Follows(Ev(r, n), e)
  <2>1. n > 0 => n \in DOMAIN diary'[r] /\ n + 1 \in DOMAIN diary'[r]
    BY <1>1
  <2> QED BY <1>1, <1>2, <2>1 DEF Walkable, Ev
<1>4. n = 0 => e.type # "TOOL_COMPLETED"
  <2>1. n = 0 => 1 \in DOMAIN diary'[r] /\ diary'[r][1].event = e
    BY <1>1
  <2> QED BY <1>2, <2>1 DEF Walkable, Ev
<1>5. e.type = "TOOL_INTENT" => e.ask = r
  <2>1. n + 1 \in DOMAIN diary'[r] /\ n + 1 + 1 \notin DOMAIN diary'[r]
    BY <1>1
  <2> QED BY <1>1, <1>2, <2>1 DEF Walkable, Ev
<1>6. e.type = "TOOL_COMPLETED" => e.ask = r
  BY DEF AddsWork, Recalls, Results, Calls, CompletedEvent
<1> QED BY <1>3, <1>4, <1>5, <1>6 DEF Follows, Type, Ev

LEMMA WorkIsOnly ==
    ASSUME Fits', NEW c, NEW r \in Run, NEW n \in Nat, NEW e, AddsWork(c, r, n, e),
           NEW q \in Run, OnlyWork(q)
    PROVE  OnlyWork(q)'
<1>0. Appends(r, n, e)
  BY WorkAppends
<1>1. CASE q # r
  BY <1>0, <1>1 DEF Appends, OnlyWork, Ev
<1>2. CASE q = r
  <2>1. DOMAIN diary[r] = 1 .. n /\ DOMAIN diary'[r] = 1 .. n + 1
    BY <1>0 DEF Appends
  <2>2. ASSUME NEW s \in 1 .. n
        PROVE  /\ diary'[r][s].event = Ev(r, s)
               /\ Ev(r, s).type \in WorkType
               /\ IF Ev(r, s).type = "LLM_CALLED"
                     THEN Ev(r, s).ans = Reply(Seed, Ev(r, s).ask)
                     ELSE Ev(r, s).ask = r
    BY <1>0, <1>2, <2>1 DEF Appends, OnlyWork, Ev
  <2>3. /\ diary'[r][n + 1].event = e /\ e.type \in WorkType
        /\ IF e.type = "LLM_CALLED" THEN e.ans = Reply(Seed, e.ask) ELSE e.ask = r
    BY <1>0, WorkFollows DEF Appends, AddsWork, WorkType
  <2>4. \A s \in 1 .. n + 1 : s \in 1 .. n \/ s = n + 1
    OBVIOUS
  <2>5. ASSUME NEW s \in DOMAIN diary'[r]
        PROVE  /\ diary'[r][s].event.type \in WorkType
               /\ IF diary'[r][s].event.type = "LLM_CALLED"
                     THEN diary'[r][s].event.ans = Reply(Seed, diary'[r][s].event.ask)
                     ELSE diary'[r][s].event.ask = r
    BY <2>1, <2>2, <2>3, <2>4
  <2> QED BY <1>2, <2>5 DEF OnlyWork, Ev
<1> QED BY <1>1, <1>2

\* The baseline may go on; what has gone alike so far has gone alike.
LEMMA EchoesKept ==
    ASSUME Sound, NEW c, NEW p \in Run, NEW n \in Nat, NEW e, AddsWork(c, p, n, e),
           NEW q \in Run, NEW r \in Run, r # p, Echoes(q, r)
    PROVE  Echoes(q, r)'
<1>0. Appends(p, n, e)
  BY WorkAppends
<1>1. diary'[r] = diary[r] /\ (q # p => diary'[q] = diary[q])
  BY <1>0 DEF Appends
<1>2. q = p => /\ DOMAIN diary[q] = 1 .. n /\ DOMAIN diary'[q] = 1 .. n + 1
               /\ \A s \in 1 .. n : diary'[q][s].event = Ev(q, s)
  BY <1>0 DEF Appends, Ev
<1>3. ASSUME NEW s \in DOMAIN diary[r]
      PROVE  /\ s \in DOMAIN diary'[q]
             /\ diary'[q][s].event = Ev(q, s) /\ diary'[r][s].event = Ev(r, s)
  <2>1. s \in DOMAIN diary[q]
    BY DEF Echoes
  <2>2. 1 .. n \subseteq 1 .. n + 1
    OBVIOUS
  <2> QED BY <1>1, <1>2, <2>1, <2>2 DEF Ev
<1> QED BY <1>1, <1>3 DEF Echoes, Type, Ev

\* Where the baseline is finished, a run that has gone like it does what it did
\* there.
LEMMA EchoesGrow ==
    ASSUME Sound, Fits, Fits', NEW c, Blind(c), AllPlayed(c),
           NEW q \in Run, OnlyWork(q), FinishedFor({c}, q),
           NEW r \in Run, r # q, Echoes(q, r),
           NEW n \in Nat, NEW e, AddsWork(c, r, n, e)
    PROVE  Echoes(q, r)'
<1>0. Appends(r, n, e)
  BY WorkAppends
<1>1. /\ DOMAIN diary[r] = 1 .. n /\ DOMAIN diary'[r] = 1 .. n + 1
      /\ \A s \in 1 .. n : diary'[r][s].event = Ev(r, s)
      /\ diary'[r][n + 1].event = e
      /\ diary'[q] = diary[q]
  BY <1>0 DEF Appends, Ev
<1>2. PICK m \in Nat : DOMAIN diary[q] = 1 .. m
  BY DEF Sound, DenseDiary
<1>3. n <= m
  <2>1. n > 0 => n \in DOMAIN diary[q]
    BY <1>1 DEF Echoes
  <2> QED BY <1>2, <2>1
<1>4. n > 0 => n \in DOMAIN diary[q] /\ Type(r, n) = Type(q, n)
  <2>1. n > 0 => n \in DOMAIN diary[r]
    BY <1>1
  <2> QED BY <2>1 DEF Echoes
<1>5. PICK op : op = Agent(c, Before(diary[r], n + 1))
  OBVIOUS
<1>6. Agent(c, Before(diary[q], n + 1)) = op
  BY <1>1, <1>5, EchoesAlike
<1>7. e.type \in Calls => Requested(op, e)
  BY <1>5 DEF AddsWork, Recalls, Results, CompletedEvent, Calls
<1>8. e.type = "TOOL_COMPLETED" =>
         n > 0 /\ e.ans = Agent(c, Before(diary[r], n)).ask
  BY DEF AddsWork, Recalls, Results, Calls
<1>9. n # m
  <2>1. SUFFICES ASSUME n = m PROVE FALSE
    OBVIOUS
  <2>2. /\ op.kind = "return"
        /\ n > 0 => Type(q, n) # "TOOL_INTENT"
    BY <1>2, <1>6, <2>1, FinishedReads
  <2>3. e.type # "TOOL_COMPLETED"
    BY <1>4, <1>8, <2>2, WorkFollows
  <2> QED BY <1>7, <2>2, <2>3 DEF AddsWork, WorkType, Calls, Requested
<1>10. PICK f : f = Ev(q, n + 1)
  OBVIOUS
<1>11. n + 1 \in DOMAIN diary[q] /\ f.type \in WorkType
  <2>1. n + 1 \in DOMAIN diary[q]
    BY <1>2, <1>3, <1>9
  <2> QED BY <1>10, <2>1 DEF OnlyWork
<1>12. PlayedAt(c, diary[q], n + 1)
  BY <1>11 DEF AllPlayed, Played
<1>13. f.type \in Calls => Requested(op, f)
  BY <1>6, <1>10, <1>12 DEF PlayedAt, Ev
<1>14. f.type = "TOOL_COMPLETED" <=> e.type = "TOOL_COMPLETED"
  <2>1. Walkable(q)
    BY DEF Fits
  <2>2. n > 0 => (f.type = "TOOL_COMPLETED" <=> Type(q, n) = "TOOL_INTENT")
    BY <1>4, <1>10, <1>11, <2>1 DEF Walkable, Follows, Type, Ev
  <2>3. n = 0 => f.type # "TOOL_COMPLETED"
    BY <1>10, <1>11, <2>1 DEF Walkable, Ev
  <2> QED BY <1>4, <2>2, <2>3, WorkFollows
<1>15. f.type = e.type /\ f.ans = e.ans
  <2>1. CASE e.type = "TOOL_COMPLETED"
    <3>1. PICK k \in Nat : n = k + 1
      <4>1. n - 1 \in Nat /\ n = n - 1 + 1
        BY <1>8, <2>1
      <4> QED BY <4>1
    <3>2. Agent(c, Before(diary[q], k + 1)) = Agent(c, Before(diary[r], k + 1))
      <4>1. \A i \in 1 .. k : i \in DOMAIN diary[r]
        BY <1>1, <3>1
      <4> QED BY <4>1, EchoesAlike
    <3>3. f.ans = Agent(c, Before(diary[q], n)).ask
      <4>1. n + 1 - 1 = n
        OBVIOUS
      <4> QED BY <1>10, <1>12, <1>14, <2>1, <4>1 DEF PlayedAt, Ev
    <3> QED BY <1>8, <1>14, <2>1, <3>1, <3>2, <3>3
  <2>2. CASE e.type = "LLM_CALLED"
    <3>1. op.kind = "llm" /\ op.ask = e.ask
      BY <1>7, <2>2 DEF Calls, Requested
    <3>2. f.type = "LLM_CALLED"
      BY <1>11, <1>13, <1>14, <2>2, <3>1 DEF WorkType, Calls, Requested
    <3>3. f.ask = e.ask
      BY <1>13, <3>1, <3>2 DEF Calls, Requested
    <3>4. e.ans = Reply(Seed, e.ask) /\ f.ans = Reply(Seed, f.ask)
      BY <1>10, <1>11, <2>2, <3>2 DEF AddsWork, OnlyWork
    <3> QED BY <2>2, <3>2, <3>3, <3>4
  <2>3. CASE e.type = "TOOL_INTENT"
    <3>1. op.kind = "effect" /\ e.ans = None
      BY <1>7, <2>3 DEF Calls, Requested
    <3>2. f.type = "TOOL_INTENT"
      BY <1>11, <1>13, <1>14, <2>3, <3>1 DEF WorkType, Calls, Requested
    <3> QED BY <1>13, <2>3, <3>1, <3>2 DEF Calls, Requested
  <2> QED BY <2>1, <2>2, <2>3 DEF AddsWork, WorkType
<1>16. ASSUME NEW s \in DOMAIN diary'[r]
       PROVE  /\ s \in DOMAIN diary[q]
              /\ diary'[r][s].event.type = Ev(q, s).type
              /\ diary'[r][s].event.ans = Ev(q, s).ans
  <2>1. s \in 1 .. n \/ s = n + 1
    BY <1>1
  <2>2. CASE s \in 1 .. n
    BY <1>1, <2>2 DEF Echoes, Type, Ev
  <2> QED BY <1>1, <1>10, <1>11, <1>15, <2>1, <2>2
<1> QED BY <1>1, <1>16 DEF Echoes, Type, Ev

\* A run that went like a finished one and is finished went all the way.
LEMMA EchoesEnd ==
    ASSUME Sound, Fits, NEW c, Blind(c), AllPlayed(c),
           NEW q \in Run, OnlyWork(q), NEW r \in Run, Echoes(q, r),
           FinishedFor({c}, q), FinishedFor({c}, r)
    PROVE  DOMAIN diary[r] = DOMAIN diary[q]
<1>1. PICK n \in Nat, m \in Nat : DOMAIN diary[r] = 1 .. n /\ DOMAIN diary[q] = 1 .. m
  BY DEF Sound, DenseDiary
<1>2. n <= m
  <2>1. n > 0 => n \in DOMAIN diary[q]
    BY <1>1 DEF Echoes
  <2> QED BY <1>1, <2>1
<1>3. SUFFICES ASSUME n < m PROVE FALSE
  BY <1>1, <1>2
<1>4. /\ Agent(c, Before(diary[r], n + 1)).kind = "return"
      /\ n > 0 => Type(r, n) # "TOOL_INTENT"
  BY <1>1, FinishedReads
<1>5. Agent(c, Before(diary[q], n + 1)).kind = "return"
  BY <1>1, <1>4, EchoesAlike
<1>6. n + 1 \in DOMAIN diary[q]
  BY <1>1, <1>3
<1>7. PlayedAt(c, diary[q], n + 1) /\ Ev(q, n + 1).type \in WorkType
  BY <1>6 DEF AllPlayed, Played, OnlyWork
<1>8. Ev(q, n + 1).type = "TOOL_COMPLETED"
  BY <1>5, <1>7 DEF PlayedAt, Requested, WorkType, Calls, Ev
<1>9. n > 0 /\ Type(q, n) = "TOOL_INTENT"
  <2>1. Walkable(q)
    BY DEF Fits
  <2>2. n > 0
    BY <1>6, <1>8, <2>1 DEF Walkable
  <2>3. n \in DOMAIN diary[q]
    BY <1>1, <1>3, <2>2
  <2> QED BY <1>6, <1>8, <2>1, <2>2, <2>3 DEF Walkable, Follows, Type, Ev
<1>10. Type(r, n) = "TOOL_INTENT"
  <2>1. n \in DOMAIN diary[r]
    BY <1>1, <1>9
  <2> QED BY <1>9, <2>1 DEF Echoes
<1> QED BY <1>4, <1>9, <1>10

\* Where c performed the effect fn.
ResultsOf(r, fn) ==
    {s \in DOMAIN diary[r] : Type(r, s) = "TOOL_COMPLETED" /\ Ev(r, s).ans = fn}

\* A result stands after the intent of the effect the agent asked for.
LEMMA ResultOfIntent ==
    ASSUME Sound, Fits, NEW c, AllPlayed(c), NEW r \in Run
    PROVE  \A t \in DOMAIN diary[r] :
              Type(r, t) = "TOOL_COMPLETED" =>
                \E k \in Nat : /\ t = k + 2 /\ k + 1 \in DOMAIN diary[r]
                              /\ Type(r, k + 1) = "TOOL_INTENT"
                              /\ Ev(r, t).ans = Agent(c, Before(diary[r], k + 1)).ask
<1>0. DOMAIN diary[r] \subseteq Nat \ {0} /\ Walkable(r)
  BY DEF Sound, DiaryTypeOK, Fits
<1>1. PICK m \in Nat : DOMAIN diary[r] = 1 .. m
  BY DEF Sound, DenseDiary
<1>2. ASSUME NEW t \in DOMAIN diary[r], Type(r, t) = "TOOL_COMPLETED"
      PROVE  \E k \in Nat : /\ t = k + 2 /\ k + 1 \in DOMAIN diary[r]
                            /\ Type(r, k + 1) = "TOOL_INTENT"
                            /\ Ev(r, t).ans = Agent(c, Before(diary[r], k + 1)).ask
  <2>1. t # 1 /\ t \in Nat /\ t > 0
    BY <1>0, <1>2 DEF Walkable, Type, Ev
  <2>2. PICK k \in Nat : t = k + 2
    <3>1. t - 2 \in Nat /\ t = (t - 2) + 2
      BY <2>1
    <3> QED BY <3>1
  <2>3. k + 1 \in DOMAIN diary[r] /\ (k + 1) + 1 = t /\ t - 1 = k + 1
    BY <1>1, <2>2
  <2>4. Follows(Ev(r, k + 1), Ev(r, t))
    BY <1>0, <2>3 DEF Walkable
  <2>5. PlayedAt(c, diary[r], t)
    BY DEF AllPlayed, Played
  <2> QED BY <1>2, <2>2, <2>3, <2>4, <2>5 DEF Follows, Type, PlayedAt, Ev
<1> QED BY <1>2

\* What a run holds, its agent has lived.
LEMMA DiaryLived ==
    ASSUME Sound, Fits, NEW c, AllPlayed(c), NEW r \in Run, NEW k \in Nat,
           \A i \in 1 .. k : i \in DOMAIN diary[r], NEW h, h = Before(diary[r], k + 1)
    PROVE  Lived(c, h)
<1>1. /\ h \in Seq(Event) /\ Len(h) = k /\ \A i \in 1 .. k : h[i] = Ev(r, i)
  BY BeforeIsSeq
<1>2. ASSUME NEW j \in Nat, j <= k PROVE SubSeq(h, 1, j) = Before(diary[r], j + 1)
  <2>1. SubSeq(h, 1, j) = [x \in 1 .. j |-> h[x]]
    BY <1>1, <1>2
  <2>2. \A x \in 1 .. j : h[x] = diary[r][x].event
    BY <1>1, <1>2 DEF Ev
  <2>3. Before(diary[r], j + 1) = [x \in 1 .. j |-> diary[r][x].event]
    <3>1. j + 1 - 1 = j
      OBVIOUS
    <3> QED BY <3>1 DEF Before
  <2>4. [x \in 1 .. j |-> h[x]] = [x \in 1 .. j |-> diary[r][x].event]
    BY <2>2, Zenon
  <2> QED BY <2>1, <2>3, <2>4
<1>3. ASSUME NEW i \in 1 .. k, h[i].type \in Calls
      PROVE  Requested(Agent(c, SubSeq(h, 1, i - 1)), h[i])
  <2>1. i \in DOMAIN diary[r] /\ diary[r][i].event = h[i]
    BY <1>1 DEF Ev
  <2>2. PlayedAt(c, diary[r], i)
    BY <2>1 DEF AllPlayed, Played
  <2>3. PICK j \in Nat : i - 1 = j /\ j <= k /\ i = j + 1
    <3>1. i - 1 \in Nat /\ i - 1 <= k /\ i = (i - 1) + 1
      OBVIOUS
    <3> QED BY <3>1
  <2>4. SubSeq(h, 1, i - 1) = Before(diary[r], i)
    <3>1. SubSeq(h, 1, i - 1) = SubSeq(h, 1, j)
      BY <2>3
    <3> QED BY <1>2, <2>3, <3>1
  <2> QED BY <1>3, <2>1, <2>2, <2>4 DEF PlayedAt
<1>4. ASSUME NEW i \in 1 .. k, h[i].type = "TOOL_COMPLETED"
      PROVE  /\ i > 1 /\ h[i - 1].type = "TOOL_INTENT"
             /\ h[i].ans = Agent(c, SubSeq(h, 1, i - 2)).ask
  <2>1. i \in DOMAIN diary[r] /\ Type(r, i) = "TOOL_COMPLETED" /\ h[i] = Ev(r, i)
    BY <1>1, <1>4 DEF Type, Ev
  <2>2. PICK j \in Nat : /\ i = j + 2 /\ Type(r, j + 1) = "TOOL_INTENT"
                         /\ Ev(r, i).ans = Agent(c, Before(diary[r], j + 1)).ask
    BY <2>1, ResultOfIntent
  <2>3. i - 1 = j + 1 /\ i - 2 = j /\ j + 1 \in 1 .. k /\ j <= k /\ i > 1
    BY <2>2
  <2>4. h[i - 1].type = "TOOL_INTENT"
    BY <1>1, <2>2, <2>3 DEF Type, Ev
  <2>5. SubSeq(h, 1, i - 2) = Before(diary[r], j + 1)
    <3>1. SubSeq(h, 1, i - 2) = SubSeq(h, 1, j)
      BY <2>3
    <3> QED BY <1>2, <2>3, <3>1
  <2> QED BY <2>1, <2>2, <2>3, <2>4, <2>5
<1> QED BY <1>1, <1>3, <1>4 DEF Lived

\* An agent that asks for nothing twice has no two results of the same effect.
LEMMA OnceEach ==
    ASSUME Sound, Fits, NEW c, NeverTwice(c), AllPlayed(c), NEW r \in Run, NEW fn
    PROVE  \A s, t \in ResultsOf(r, fn) : s = t
<1>0. DOMAIN diary[r] \subseteq Nat \ {0} /\ Walkable(r)
  BY DEF Sound, DiaryTypeOK, Fits
<1>1. PICK m \in Nat : DOMAIN diary[r] = 1 .. m
  BY DEF Sound, DenseDiary
<1>2. ASSUME NEW t \in DOMAIN diary[r], Type(r, t) = "TOOL_COMPLETED"
      PROVE  \E k \in Nat : /\ t = k + 2 /\ k + 1 \in DOMAIN diary[r]
                            /\ Type(r, k + 1) = "TOOL_INTENT"
                            /\ Ev(r, t).ans = Agent(c, Before(diary[r], k + 1)).ask
  BY <1>2, ResultOfIntent
<1>3. SUFFICES ASSUME NEW s \in ResultsOf(r, fn), NEW t \in ResultsOf(r, fn), s < t
               PROVE  FALSE
  <2>1. \A s, t \in ResultsOf(r, fn) : s \in Nat /\ t \in Nat
    BY <1>0 DEF ResultsOf
  <2>2. ASSUME NEW s \in ResultsOf(r, fn), NEW t \in ResultsOf(r, fn)
        PROVE  ~(s < t) /\ ~(t < s)
    BY <1>3
  <2> QED BY <2>1, <2>2
<1>4. /\ s \in DOMAIN diary[r] /\ Type(r, s) = "TOOL_COMPLETED" /\ Ev(r, s).ans = fn
      /\ t \in DOMAIN diary[r] /\ Type(r, t) = "TOOL_COMPLETED" /\ Ev(r, t).ans = fn
  BY DEF ResultsOf
<1>5. PICK k \in Nat : /\ t = k + 2 /\ k + 1 \in DOMAIN diary[r]
                       /\ Type(r, k + 1) = "TOOL_INTENT"
                       /\ fn = Agent(c, Before(diary[r], k + 1)).ask
  BY <1>2, <1>4
<1>6. PICK h : h = Before(diary[r], k + 1)
  OBVIOUS
<1>7. /\ h \in Seq(Event) /\ Len(h) = k /\ \A i \in 1 .. k : h[i] = Ev(r, i)
  <2>1. \A i \in 1 .. k : i \in DOMAIN diary[r]
    BY <1>1, <1>5
  <2> QED BY <1>6, <2>1, BeforeIsSeq
<1>8. Agent(c, h).kind = "effect"
  <2>1. PlayedAt(c, diary[r], k + 1)
    BY <1>5 DEF AllPlayed, Played
  <2> QED BY <1>5, <1>6, <2>1 DEF PlayedAt, Calls, Requested, Type
<1>9. Lived(c, h)
  <2>1. \A i \in 1 .. k : i \in DOMAIN diary[r]
    BY <1>1, <1>5
  <2> QED BY <1>6, <2>1, DiaryLived
<1>10. s \in 1 .. k
  <2>1. s # k + 1
    BY <1>4, <1>5
  <2> QED BY <1>0, <1>1, <1>3, <1>4, <1>5, <2>1
<1>11. h[s].type = "TOOL_COMPLETED" /\ h[s].ans = fn
  BY <1>4, <1>7, <1>10 DEF Type, Ev
<1> QED BY <1>5, <1>6, <1>7, <1>8, <1>9, <1>10, <1>11 DEF NeverTwice

\* The effects in the diary of r are its own, not those of a parent.
Owns(r) ==
    \A s \in DOMAIN diary[r] :
        Type(r, s) \in {"TOOL_INTENT", "TOOL_COMPLETED"} => Ev(r, s).ask = r

\* The ledger of a run that nobody forked tells what its diary tells.
LEMMA CounterIs ==
    ASSUME Sound, Fits, NEW r \in Run, Owns(r), NEW fn,
           \A s, t \in ResultsOf(r, fn) : s = t
    PROVE  Counter(r, fn) = IF ResultsOf(r, fn) = {} THEN 0 ELSE 1
<1>1. PICK A : A = {i \in DOMAIN ledger[r] : ledger[r][i].fn = fn}
  OBVIOUS
<1>2. Performed(r) /\ \A i \in DOMAIN ledger[r] : ledger[r][i].seq \in Nat
  <2>1. PICK S : S = [seq : Nat \ {0}, fn : Fn]
    OBVIOUS
  <2>2. PICK led \in Seq(S) : led = ledger[r]
    BY <2>1 DEF Sound, DiaryTypeOK
  <2>3. \A i \in DOMAIN led : led[i] \in S
    OBVIOUS
  <2> QED BY <2>1, <2>2, <2>3 DEF Fits
<1>3. ASSUME NEW i \in DOMAIN ledger[r]
      PROVE  /\ ledger[r][i].seq + 1 \in DOMAIN diary[r]
             /\ Type(r, ledger[r][i].seq + 1) = "TOOL_COMPLETED"
             /\ Ev(r, ledger[r][i].seq + 1).ans = ledger[r][i].fn
  <2>1. PICK entry : entry = ledger[r][i]
    OBVIOUS
  <2>2. Completes(r, entry)
    BY <1>2, <2>1 DEF Performed
  <2> QED BY <2>1, <2>2 DEF Completes, CompletedEvent, Type, Ev
<1>4. \A i \in A : ledger[r][i].seq + 1 \in ResultsOf(r, fn)
  BY <1>1, <1>3 DEF ResultsOf
<1>5. \A i, j \in A : i = j
  <2>1. ASSUME NEW i \in A, NEW j \in A PROVE i = j
    <3>1. ledger[r][i].seq + 1 = ledger[r][j].seq + 1
      BY <1>4
    <3>2. ledger[r][i].seq = ledger[r][j].seq
      BY <1>1, <1>2, <3>1
    <3> QED BY <1>1, <1>2, <3>2 DEF Performed
  <2> QED BY <2>1
<1>6. ASSUME NEW s \in ResultsOf(r, fn) PROVE A # {}
  <2>1. s \in DOMAIN diary[r] /\ Type(r, s) = "TOOL_COMPLETED" /\ Ev(r, s).ans = fn
    BY DEF ResultsOf
  <2>2. Ev(r, s).ask = r
    BY <2>1 DEF Owns
  <2>3. PICK i \in DOMAIN ledger[r] : ledger[r][i].seq + 1 = s
    BY <1>2, <2>1, <2>2 DEF Performed, Ev
  <2> QED BY <1>1, <1>3, <2>1, <2>3
<1>7. CASE A = {}
  <2>1. ResultsOf(r, fn) = {}
    BY <1>6, <1>7
  <2>2. Counter(r, fn) = Cardinality(A)
    BY <1>1 DEF Counter
  <2>3. Cardinality({}) = 0
    BY FS_EmptySet
  <2> QED BY <1>7, <2>1, <2>2, <2>3
<1>8. CASE A # {}
  <2>1. PICK i : A = {i}
    <3>1. PICK i \in A : TRUE
      BY <1>8
    <3>2. A = {i}
      BY <1>5, <3>1
    <3> QED BY <3>2
  <2>2. ResultsOf(r, fn) # {}
    BY <1>4, <2>1
  <2> QED BY <1>1, <2>1, <2>2, FS_Singleton DEF Counter
<1> QED BY <1>7, <1>8

\* The effects of r are performed in turn.
InOrder(r) ==
    LET n == Len(ledger[r])
    IN  /\ n > 0 => Type(r, 2 * n) = "TOOL_COMPLETED"
        /\ \/ DOMAIN diary[r] = 1 .. 2 * n
           \/ DOMAIN diary[r] = 1 .. 2 * n + 1 /\ Type(r, 2 * n + 1) = "TOOL_INTENT"

LEMMA InOrderGrows ==
    ASSUME Sound, Fits', NEW c, NEW r \in Run, NEW n \in Nat, NEW e,
           AddsWork(c, r, n, e), e.type # "LLM_CALLED", NEW q \in Run, InOrder(q)
    PROVE  InOrder(q)'
<1>0. Appends(r, n, e)
  BY WorkAppends
<1>1. CASE q # r
  <2>1. diary'[q] = diary[q] /\ ledger'[q] = ledger[q]
    BY <1>0, <1>1 DEF AddsWork, Recalls, Results, Appends, Sound, DiaryTypeOK
  <2> QED BY <2>1 DEF InOrder, Type
<1>2. CASE q = r
  <2>0. /\ ledger \in [Run -> Seq([seq : Nat \ {0}, fn : Fn])]
        /\ ledger[r] \in Seq([seq : Nat \ {0}, fn : Fn])
    BY DEF Sound, DiaryTypeOK
  <2>1. PICK k \in Nat : k = Len(ledger[r])
    BY <2>0
  <2>2. /\ DOMAIN diary[r] = 1 .. n /\ DOMAIN diary'[r] = 1 .. n + 1
        /\ diary'[r][n + 1].event = e
        /\ \A s \in 1 .. n : diary'[r][s] = diary[r][s]
    BY <1>0 DEF Appends
  <2>3. \A i, j \in Nat : 1 .. i = 1 .. j => i = j
    OBVIOUS
  <2>4. /\ k > 0 => Type(r, 2 * k) = "TOOL_COMPLETED"
        /\ n = 2 * k \/ (n = 2 * k + 1 /\ Type(r, n) = "TOOL_INTENT")
    <3>1. /\ k > 0 => Type(r, 2 * k) = "TOOL_COMPLETED"
          /\ \/ 1 .. n = 1 .. 2 * k
             \/ 1 .. n = 1 .. 2 * k + 1 /\ Type(r, 2 * k + 1) = "TOOL_INTENT"
      BY <1>2, <2>1, <2>2 DEF InOrder
    <3> QED BY <2>3, <3>1
  <2>5. CASE e.type = "TOOL_COMPLETED"
    <3>1. n > 0 /\ Type(r, n) = "TOOL_INTENT"
      BY <2>5, WorkFollows
    <3>2. n = 2 * k + 1
      BY <2>4, <3>1
    <3>3. Len(ledger'[r]) = k + 1
      BY <2>0, <2>1, <2>5 DEF AddsWork, Recalls, Results, Calls
    <3>4. 2 * (k + 1) = n + 1
      BY <3>2
    <3> QED BY <1>2, <2>2, <2>5, <3>3, <3>4 DEF InOrder, Type
  <2>6. CASE e.type = "TOOL_INTENT"
    <3>1. n = 2 * k
      BY <2>4, <2>6, WorkFollows
    <3>2. ledger'[r] = ledger[r]
      BY <2>6 DEF AddsWork, Recalls, Results, CompletedEvent
    <3>3. k > 0 => diary'[r][2 * k] = diary[r][2 * k]
      BY <2>2, <3>1
    <3> QED BY <1>2, <2>1, <2>2, <2>4, <2>6, <3>1, <3>2, <3>3 DEF InOrder, Type
  <2> QED BY <2>5, <2>6 DEF AddsWork, WorkType
<1> QED BY <1>1, <1>2

LEMMA InOrderEnds ==
    ASSUME Sound, NEW c, NEW r \in Run, FinishedFor({c}, r), InOrder(r)
    PROVE  DOMAIN diary[r] = 1 .. 2 * Cardinality(DOMAIN ledger[r])
<1>1. PICK k \in Nat : k = Len(ledger[r]) /\ DOMAIN ledger[r] = 1 .. k
  BY DEF Sound, DiaryTypeOK
<1>2. Cardinality(DOMAIN ledger[r]) = k
  BY <1>1, FS_Interval
<1>3. ~(DOMAIN diary[r] = 1 .. 2 * k + 1 /\ Type(r, 2 * k + 1) = "TOOL_INTENT")
  <2>1. PICK n \in Nat : n = 2 * k + 1 /\ n > 0
    OBVIOUS
  <2>2. DOMAIN diary[r] = 1 .. n => Type(r, n) # "TOOL_INTENT"
    BY <2>1, FinishedReads
  <2> QED BY <2>1, <2>2
<1>4. DOMAIN diary[r] = 1 .. 2 * k
  BY <1>1, <1>3 DEF InOrder
<1> QED BY <1>2, <1>4

----------------------------------------------------------------------------
(* What a certified run leaves                                             *)

\* Where a life of a script can be.
Working == {"claimed", "agent", "called", "acting", "tx", "returned"}

\* The baseline has passed.
Judged == cert.run > 1 \/ (cert.run = 1 /\ cert.at \in {"fresh", "done"})

\* Where a script is: its lives are all of one run, and the clean ones get
\* through.
ScriptPlace ==
    /\ program \in DOMAIN Bounds /\ cert.script = program
    /\ \A l \in Life : pc[l] # "idle" => pc[l] \in Working /\ life[l].run = cert.run
    /\ At("life") /\ program = "chaos" => brain.script = Unset /\ brain.seed = Seed
    /\ At("verdict") => Completed(cert.run)
    /\ Judged => Completed(1) /\ DOMAIN diary[1] = 1 .. cert.steps

ScriptDiary ==
    /\ \A r \in Run : OnlyWork(r)
    /\ \A r \in Run : r # 1 => Echoes(1, r)
    /\ program = "refund_chaos" => \A r \in Run : InOrder(r)

LEMMA ScriptAgent ==
    ASSUME ScriptAgents, program \in Certifying, program \in DOMAIN Bounds,
           NEW c, c = Bounds[program].code
    PROVE  /\ Blind(c)
           /\ \A h \in Seq(Event) :
                 LET op == Agent(c, h)
                 IN  /\ op \in Op /\ op.kind \in {"llm", "effect", "return"}
                     /\ program = "chaos" => op.kind # "effect"
                     /\ program = "refund_chaos" => op.kind # "llm"
           /\ program = "refund_chaos" => NeverTwice(c)
  BY DEF ScriptAgents, Certifying, Makes

\* What a life of a script writes is the work of its agent.
LEMMA ScriptWrites ==
    ASSUME ScriptAgents, program \in Certifying, ScriptPlace, At("life"),
           Sound, Fits, NEW c, c = Bounds[program].code, RunsOnly(c),
           NEW l \in Proc, NEW r \in Run, r = life[l].run,
           ContextStep(l), BrainAnswers(l)
    PROVE  \/ UNCHANGED <<diary, ledger>>
           \/ \E n \in Nat, e \in Event :
                 /\ AddsWork(c, r, n, e)
                 /\ program = "refund_chaos" => e.type # "LLM_CALLED"
<1>1. SUFFICES ASSUME NEW n \in Nat, NEW e \in Event,
                      Recalls(c, r, n, e) \/ Results(c, r, n, e),
                      AnsweredBy(brain, c, r, n, e)
               PROVE  /\ AddsWork(c, r, n, e)
                      /\ program = "refund_chaos" => e.type # "LLM_CALLED"
  BY StepWrites
<1>2. PICK h : h = Before(diary[r], n + 1)
  OBVIOUS
<1>3. h \in Seq(Event)
  <2>1. \A i \in 1 .. n : i \in DOMAIN diary[r]
    BY <1>1 DEF Recalls, Results, Appends
  <2> QED BY <1>2, <2>1, BeforeIsSeq
<1>4. PICK op : op = Agent(c, h)
  OBVIOUS
<1>5. /\ op.kind \in {"llm", "effect", "return"}
      /\ program = "refund_chaos" => op.kind # "llm"
  BY <1>3, <1>4, ScriptAgent DEF ScriptPlace
<1>6. \/ e.type \in Calls /\ Requested(op, e)
      \/ e.type = "TOOL_COMPLETED"
  BY <1>1, <1>2, <1>4 DEF Recalls, Results, CompletedEvent
<1>7. /\ e.type \in WorkType
      /\ program = "refund_chaos" => e.type # "LLM_CALLED"
  BY <1>5, <1>6 DEF Calls, Requested, WorkType
<1>8. ASSUME e.type = "LLM_CALLED" PROVE e.ans = Reply(Seed, e.ask)
  <2>1. op.ask = e.ask
    BY <1>6, <1>8 DEF Requested
  <2>2. brain.script = Unset /\ brain.seed = Seed /\ Seed # Unset
    BY <1>7, <1>8 DEF ScriptPlace, Certifying, ScriptAgents
  <2>3. e.ans \in Answers(brain, e.ask)
    BY <1>1, <1>2, <1>4, <1>8, <2>1 DEF AnsweredBy
  <2> QED BY <2>2, <2>3 DEF Answers
<1> QED BY <1>1, <1>7, <1>8 DEF AddsWork

LEMMA ScriptDiaryNext ==
    ASSUME Sound, Fits, Fits', NEW c, Blind(c), AllPlayed(c), 1 \in Run,
           NEW r \in Run, NEW n \in Nat, NEW e, AddsWork(c, r, n, e),
           program = "refund_chaos" => e.type # "LLM_CALLED",
           r # 1 => FinishedFor({c}, 1), ScriptDiary, UNCHANGED program
    PROVE  ScriptDiary'
<1>1. ASSUME NEW q \in Run PROVE OnlyWork(q)'
  BY WorkIsOnly DEF ScriptDiary
<1>2. ASSUME NEW q \in Run, q # 1 PROVE Echoes(1, q)'
  <2>1. CASE q # r
    BY <1>2, <2>1, EchoesKept DEF ScriptDiary
  <2>2. CASE q = r
    BY <1>2, <2>2, EchoesGrow DEF ScriptDiary
  <2> QED BY <2>1, <2>2
<1>3. ASSUME program = "refund_chaos", NEW q \in Run PROVE InOrder(q)'
  BY <1>3, InOrderGrows DEF ScriptDiary
<1> QED BY <1>1, <1>2, <1>3 DEF ScriptDiary

\* A life of a script goes on working until its run is completed.
LEMMA ScriptLives ==
    ASSUME ScriptAgents, program \in Certifying, ScriptPlace,
           Sound, Fits, NEW c, c = Bounds[program].code, RunsOnly(c), AllPlayed(c),
           NEW l \in Life, pc[l] # "idle", Sole(l), LifeStep(l)
    PROVE  /\ pc'[l] # "idle" =>
                 pc'[l] \in Working /\ life'[l].run = cert.run /\ UNCHANGED runs
           /\ pc'[l] = "idle" =>
                 UNCHANGED diary /\ runs'[cert.run].status = "completed"
           /\ \A r \in Run : Completed(r) => Completed(r)'
           /\ Walk(l) \/ UNCHANGED <<diary, ledger>>
<1>0. /\ l \in Proc /\ pc[l] \in Working /\ life[l].run = cert.run
      /\ pc \in [Proc -> PC] /\ life \in [Proc -> LifeRow] /\ life[l] \in LifeRow
      /\ runs \in [Run -> RunRow] /\ cert.run \in Run
  BY DEF Proc, ScriptPlace, Sound, DiaryTypeOK, LifeOK
<1>1. CASE Open(l)
  BY <1>0, <1>1 DEF Open, OpenContext, Goto, ReadOnly, Working, Completed, LifeRow
<1>2. CASE Walk(l)
  <2>1. ContextStep(l)
    BY <1>2 DEF Walk
  <2>2. UNCHANGED runs /\ life'[l].run = cert.run
    BY <1>0, <2>1, ContextCarries DEF CarriesOn
  <2>3. \A kind : Asks(l, kind) => kind \in {"llm", "effect", "return"}
    <3>1. ASSUME NEW kind, Asks(l, kind) PROVE kind \in {"llm", "effect", "return"}
      <4>1. pc[l] = "agent" /\ Agent(life[l].code, life[l].seen).kind = kind
        BY <3>1 DEF Asks
      <4>2. life[l].code = c /\ life[l].seen \in Seq(Event)
        BY <1>0, <4>1 DEF RunsOnly, Walking, LifeRow
      <4> QED BY <4>1, <4>2, ScriptAgent DEF ScriptPlace
    <3> QED BY <3>1
  <2>4. pc'[l] \in Walking \/ Pause(l) \/ Return(l) \/ RaiseOwn(l)
    BY <1>0, <2>1, SoleGoes
  <2>5. pc'[l] # "asked"
    BY <1>0, <2>1, <2>3, SoleGoes
  <2>6. ~Pause(l) /\ ~RaiseOwn(l)
    BY <1>0, <2>3 DEF Pause, RaiseOwn, Working
  <2>7. Return(l) => pc'[l] = "returned"
    BY <1>0 DEF Return, Goto
  <2>8. pc'[l] \in Working /\ pc'[l] # "idle"
    BY <2>4, <2>5, <2>6, <2>7 DEF Walking, Working
  <2> QED BY <1>2, <2>2, <2>8 DEF Completed
<1>3. CASE Finish(l)
  <2>1. pc'[l] = "idle" /\ UNCHANGED <<diary, ledger>>
    BY <1>0, <1>3 DEF Finish, Leave, Goto, SetRunStatus
  <2>2. runs' = [runs EXCEPT ![cert.run].status = "completed"]
    BY <1>0, <1>3 DEF Finish, SetRunStatus
  <2>3. /\ runs'[cert.run].status = "completed"
        /\ \A r \in Run : runs[r].status = "completed" => runs'[r].status = "completed"
    BY <1>0, <2>2 DEF RunRow
  <2> QED BY <1>0, <2>1, <2>3 DEF Completed
<1>4. ~Suspend(l) /\ ~GiveUp(l)
  BY <1>0 DEF Suspend, GiveUp, Working
<1> QED BY <1>1, <1>2, <1>3, <1>4 DEF LifeStep

CertRuns == program \in Certifying => ScriptPlace /\ ScriptDiary

\* Between lives nothing happens to a diary.
LEMMA ScriptWaits ==
    ASSUME ProgramOK, ScriptPlace, ScriptDiary, program \in Certifying,
           NobodyLives, 1 \in Run,
           UNCHANGED program, FreshRun \/ Poll \/ Verdict
    PROVE  ScriptPlace' /\ ScriptDiary'
<1>0. /\ CertOK /\ Sound /\ AllPlayed(Bounds[program].code)
      /\ EndsWell(Bounds[program].code)
      /\ DOMAIN cert = {"script", "at", "run", "tries", "pin", "steps"}
  BY DEF ProgramOK, ScriptsOK, PlayOK, CertOK, Script, Certifying
<1>1. /\ UNCHANGED <<diary, ledger, pc, life, brain>>
      /\ cert'.script = cert.script
  BY <1>0 DEF FreshRun, Poll, Verdict, Quiet, livesVars, Create, CreateRun, Draw
<1>2. ScriptDiary'
  BY <1>1 DEF ScriptDiary, OnlyWork, Echoes, InOrder, Type, Ev
<1>3. \A r \in Run : Completed(r) => Completed(r)'
  <2>1. CASE FreshRun
    <3>1. runs \in [Run -> RunRow]
      BY <1>0 DEF Sound, DiaryTypeOK
    <3>2. PICK r : CreateRun(r)
      BY <2>1 DEF FreshRun, Create
    <3> QED BY <3>1, <3>2 DEF CreateRun, NewRun, Exists, Completed
  <2>2. CASE Poll \/ Verdict
    BY <2>2 DEF Poll, Verdict, Quiet, livesVars, Completed
  <2> QED BY <2>1, <2>2
<1>4. \A l \in Life : pc'[l] = "idle"
  BY <1>1 DEF NobodyLives, Proc
<1>5. ~At("life")'
  BY <1>0 DEF FreshRun, Poll, Verdict, At, Draw
<1>6. At("verdict")' => Completed(cert.run)'
  BY <1>0 DEF FreshRun, Poll, Verdict, At, Draw, Quiet, livesVars, Completed
<1>7. Judged' => Completed(1)' /\ (DOMAIN diary[1] = 1 .. cert.steps)'
  <2>1. CASE Judged /\ cert'.steps = cert.steps
    BY <1>1, <1>3, <2>1 DEF ScriptPlace
  <2>2. CASE FreshRun \/ Poll
    <3>1. Judged' => Judged
      <4>1. CASE FreshRun
        <5>1. cert.run \in Nat /\ cert.at = "fresh"
          BY <1>0, <4>1, CertificatesAssumption DEF CertOK, FreshRun, At
        <5>2. /\ cert'.run = cert.run + 1
              /\ cert'.at = IF cert.run = 0 THEN "launch" ELSE "poll"
          BY <1>0, <4>1, <5>1 DEF FreshRun
        <5> QED BY <5>1, <5>2 DEF Judged
      <4>2. CASE Poll
        <5>1. cert'.run = cert.run /\ cert'.at \in {"verdict", "launch"}
          BY <1>0, <4>2 DEF Poll, Draw
        <5> QED BY <5>1 DEF Judged
      <4> QED BY <2>2, <4>1, <4>2
    <3>2. cert'.steps = cert.steps
      BY <1>0, <2>2 DEF FreshRun, Poll, Draw
    <3> QED BY <2>1, <3>1, <3>2
  <2>3. CASE Verdict /\ cert.run > 1
    BY <1>0, <2>1, <2>3 DEF Verdict, Judged
  <2>4. CASE Verdict /\ cert.run <= 1
    <3>1. cert.run = 1 /\ Completed(1)
      BY <1>0, <2>4, CertificatesAssumption DEF Verdict, CertOK, At, ScriptPlace
    <3>2. FinishedFor({Bounds[program].code}, 1)
      BY <1>0, <3>1 DEF EndsWell, Completed
    <3>3. CASE program = "chaos"
      <4>1. cert'.steps = Last(1)
        BY <1>0, <2>4, <3>1, <3>3 DEF Verdict, ScriptPlace
      <4>2. PICK n \in Nat : DOMAIN diary[1] = 1 .. n
        BY <1>0 DEF Sound, DenseDiary
      <4>3. Last(1) = n
        <5>1. Cardinality(1 .. n) = n
          BY FS_Interval
        <5> QED BY <4>2, <5>1 DEF Last
      <4> QED BY <1>1, <1>3, <3>1, <4>1, <4>2, <4>3
    <3>4. CASE program = "refund_chaos"
      <4>1. cert'.steps = 2 * Cardinality(DOMAIN ledger[1])
        BY <1>0, <2>4, <3>1, <3>4 DEF Verdict, ScriptPlace
      <4>2. DOMAIN diary[1] = 1 .. 2 * Cardinality(DOMAIN ledger[1])
        BY <1>0, <3>2, <3>4, InOrderEnds DEF ScriptDiary
      <4> QED BY <1>1, <1>3, <3>1, <4>1, <4>2
    <3> QED BY <3>3, <3>4 DEF Certifying
  <2> QED BY <2>2, <2>3, <2>4, <1>0 DEF CertOK
<1>8. (program \in DOMAIN Bounds /\ cert.script = program)'
  BY <1>1 DEF ScriptPlace
<1>9. ScriptPlace'
  BY <1>4, <1>5, <1>6, <1>7, <1>8 DEF ScriptPlace
<1> QED BY <1>2, <1>9

\* A script launches a life, kills it, or lets it live on.
LEMMA ScriptSteps ==
    ASSUME ScriptAgents, ProgramOK, ProgramOK', ScriptPlace, ScriptDiary, CertLives,
           program \in Certifying, UNCHANGED program, 1 \in Run, NEW l \in Life,
           Launch(l) \/ Killed(l) \/ LivesOn(l)
    PROVE  ScriptPlace' /\ ScriptDiary'
<1>0. /\ CertOK /\ Sound /\ Fits /\ Fits' /\ l \in Proc /\ Life \subseteq Proc
      /\ DOMAIN cert = {"script", "at", "run", "tries", "pin", "steps"}
      /\ pc \in [Proc -> PC] /\ life \in [Proc -> LifeRow]
  BY DEF ProgramOK, ScriptsOK, CertOK, Script, Proc, Sound
<1>1. PICK c : c = Bounds[program].code
  OBVIOUS
<1>2. AllPlayed(c) /\ EndsWell(c) /\ RunsOnly(c) /\ Blind(c)
  BY <1>0, <1>1, ProgramVersion, ScriptAgent
     DEF ProgramOK, PlayOK, Certifying, ScriptPlace
<1>3. (program \in DOMAIN Bounds /\ cert.script = program)'
  BY <1>0 DEF ScriptPlace, Launch, Killed, LivesOn
<1>4. /\ cert'.run = cert.run /\ cert'.steps = cert.steps
      /\ cert.at \in {"launch", "life"} /\ cert'.at \in {"life", "poll", "verdict"}
  BY <1>0 DEF Launch, Killed, LivesOn, At
<1>5. Judged' <=> Judged
  BY <1>4 DEF Judged
<1>6. CASE Launch(l)
  <2>1. NobodyLives
    BY <1>6 DEF CertLives, Launch, At
  <2>2. cert.run \in Run /\ cert'.at = "life"
    BY <1>0, <1>6, CertificatesAssumption, MaxRunAssumption
       DEF Launch, At, CertOK, Run
  <2>3. UNCHANGED <<runs, diary, ledger>>
    BY <1>6 DEF Launch, TakeUp, ReadOnly
  <2>4. ScriptDiary'
    BY <2>3 DEF ScriptDiary, OnlyWork, Echoes, InOrder, Type, Ev
  <2>5. \A q \in Life : pc'[q] # "idle" => pc'[q] \in Working /\ life'[q].run = cert'.run
    <3>1. (\A q \in Proc : pc'[q] # "idle" => q = l) /\ pc'[l] = "claimed"
          /\ life'[l].run = cert.run
      BY <1>0, <1>6, <2>1, <2>2, SoleTakes DEF Launch
    <3> QED BY <1>0, <1>4, <3>1 DEF Working
  <2>6. program = "chaos" => brain'.script = Unset /\ brain'.seed = Seed
    BY <1>6 DEF Launch, Brain, ScriptPlace
  <2>7. Judged' => Completed(1)' /\ (DOMAIN diary[1] = 1 .. cert.steps)'
    BY <1>4, <1>5, <2>3 DEF ScriptPlace, Completed
  <2> QED BY <1>3, <2>2, <2>4, <2>5, <2>6, <2>7 DEF ScriptPlace, At
<1>7. ASSUME At("life"), pc[l] # "idle"
      PROVE  Sole(l) /\ cert.run \in Run /\ life[l].run = cert.run
  <2>1. \E q \in Life : pc[q] # "idle" /\ Billed(q)
    BY <1>0, <1>7 DEF CertLives, NobodyLives
  <2>2. Sole(l)
    BY <1>0, <1>7, <2>1 DEF Billed, Sole
  <2> QED BY <1>0, <1>7, <2>2 DEF ScriptPlace, Sound, LifeOK
<1>8. CASE Killed(l)
  <2>1. pc[l] # "idle" /\ At("life") /\ LifeDies(l)
    BY <1>8 DEF Killed, LifeDies, Crash
  <2>2. NobodyLives'
    BY <1>0, <1>7, <2>1, SoleDies
  <2>3. UNCHANGED <<runs, diary, ledger>> /\ cert'.at = "poll"
    BY <1>0, <1>8 DEF Killed, LifeDies, Crash
  <2>4. ScriptDiary'
    BY <2>3 DEF ScriptDiary, OnlyWork, Echoes, InOrder, Type, Ev
  <2>5. Judged' => Completed(1)' /\ (DOMAIN diary[1] = 1 .. cert.steps)'
    BY <1>4, <1>5, <2>3 DEF ScriptPlace, Completed
  <2> QED BY <1>0, <1>3, <2>2, <2>3, <2>4, <2>5 DEF ScriptPlace, NobodyLives, At
<1>9. CASE LivesOn(l)
  <2>1. LifeStep(l) /\ BrainAnswers(l) /\ At("life")
    BY <1>9 DEF LivesOn
  <2>2. pc[l] # "idle"
    BY <2>1, ContextWalks DEF LifeStep, Open, Walk, Finish, Suspend, GiveUp, Walking
  <2>3. Sole(l) /\ cert.run \in Run /\ life[l].run = cert.run
    BY <1>7, <2>1, <2>2
  <2>4. /\ pc'[l] # "idle" =>
              pc'[l] \in Working /\ life'[l].run = cert.run /\ UNCHANGED runs
        /\ pc'[l] = "idle" =>
              UNCHANGED diary /\ runs'[cert.run].status = "completed"
        /\ \A r \in Run : Completed(r) => Completed(r)'
        /\ Walk(l) \/ UNCHANGED <<diary, ledger>>
    BY <1>0, <1>1, <1>2, <2>1, <2>2, <2>3, ScriptLives
  <2>5. \A q \in Proc : pc'[q] # "idle" => q = l
    BY <1>0, <2>1, <2>3, SoleSteps
  <2>6. Judged => cert.run # 1
    BY <2>1 DEF Judged, At
  <2>7. cert.run # 1 => FinishedFor({c}, 1)
    <3>1. cert.run # 1 => Judged
      BY <1>0, <2>1, CertificatesAssumption DEF CertOK, At, Judged
    <3> QED BY <1>2, <3>1 DEF ScriptPlace, EndsWell, Completed
  <2>8. \/ UNCHANGED <<diary, ledger>>
        \/ \E n \in Nat, e \in Event :
              /\ AddsWork(c, cert.run, n, e)
              /\ program = "refund_chaos" => e.type # "LLM_CALLED"
    <3>1. ASSUME Walk(l)
          PROVE  \/ UNCHANGED <<diary, ledger>>
                 \/ \E n \in Nat, e \in Event :
                       /\ AddsWork(c, cert.run, n, e)
                       /\ program = "refund_chaos" => e.type # "LLM_CALLED"
      <4>1. ContextStep(l)
        BY <3>1 DEF Walk
      <4> QED BY <1>0, <1>1, <1>2, <2>1, <2>3, <4>1, ScriptWrites
    <3> QED BY <2>4, <3>1
  <2>9. ScriptDiary' /\ (Judged => diary'[1] = diary[1])
    <3>1. CASE UNCHANGED <<diary, ledger>>
      BY <3>1 DEF ScriptDiary, OnlyWork, Echoes, InOrder, Type, Ev
    <3>2. ASSUME NEW n \in Nat, NEW e \in Event, AddsWork(c, cert.run, n, e),
                 program = "refund_chaos" => e.type # "LLM_CALLED"
          PROVE  ScriptDiary' /\ (Judged => diary'[1] = diary[1])
      <4>1. PICK r \in Run : r = cert.run
        BY <2>3
      <4>2. ScriptDiary'
        BY <1>0, <1>2, <2>7, <3>2, <4>1, ScriptDiaryNext
      <4>3. Appends(r, n, e)
        BY <3>2, <4>1, WorkAppends
      <4> QED BY <2>6, <4>1, <4>2, <4>3 DEF Appends
    <3> QED BY <2>8, <3>1, <3>2
  <2>10. Judged' => Completed(1)' /\ (DOMAIN diary[1] = 1 .. cert.steps)'
    BY <1>4, <1>5, <2>4, <2>9 DEF ScriptPlace
  <2>11. At("verdict")' => Completed(cert.run)'
    <3>1. cert'.at = "verdict" => pc'[l] = "idle"
      BY <1>9 DEF LivesOn, At
    <3> QED BY <1>4, <2>4, <3>1 DEF At, Completed
  <2>12. At("life")' /\ program = "chaos" => brain'.script = Unset /\ brain'.seed = Seed
    <3>1. brain'.script = brain.script /\ brain'.seed = brain.seed
      BY <2>1 DEF BrainAnswers, Counted, ProgramOK, ScriptsOK, BrainOK, NoBrain, Brain
    <3> QED BY <2>1, <3>1 DEF ScriptPlace
  <2>13. \A q \in Life : pc'[q] # "idle" =>
            pc'[q] \in Working /\ life'[q].run = cert'.run
    BY <1>0, <1>4, <2>4, <2>5
  <2> QED BY <1>3, <2>9, <2>10, <2>11, <2>12, <2>13 DEF ScriptPlace, At
<1> QED BY <1>6, <1>8, <1>9

LEMMA OneIsRun == 1 \in Run
  BY CertificatesAssumption, MaxRunAssumption DEF Run

LEMMA CertRunsNext ==
    ASSUME ScriptAgents, ProgramOK, ProgramOK', CertLives, CertRuns,
           [ProgramsNext]_programsVars
    PROVE  CertRuns'
<1>0. UNCHANGED program
  BY ProgramFrame DEF ProgramOK
<1>1. CASE program \notin Certifying
  BY <1>0, <1>1 DEF CertRuns
<1>2. CASE program \in Certifying
  <2>1. ScriptPlace /\ ScriptDiary
    BY <1>2 DEF CertRuns
  <2>2. CASE UNCHANGED programsVars
    <3>1. ScriptPlace'
      BY <2>1, <2>2 DEF ScriptPlace, Judged, At, Completed, programsVars, vars
    <3>2. ScriptDiary'
      BY <2>1, <2>2 DEF ScriptDiary, OnlyWork, Echoes, InOrder, Type, Ev, programsVars, vars
    <3> QED BY <3>1, <3>2 DEF CertRuns
  <2>3. CASE CertNext
    <3>1. CASE FreshRun \/ Poll \/ Verdict
      <4>1. NobodyLives
        BY <1>2, <3>1 DEF CertLives, FreshRun, Poll, Verdict, At
      <4> QED BY <1>0, <1>2, <2>1, <3>1, <4>1, OneIsRun, ScriptWaits DEF CertRuns
    <3>2. ASSUME NEW l \in Life, Launch(l) \/ Killed(l) \/ LivesOn(l)
          PROVE  CertRuns'
      BY <1>0, <1>2, <2>1, <3>2, OneIsRun, ScriptSteps DEF CertRuns
    <3> QED BY <2>3, <3>1, <3>2 DEF CertNext
  <2> QED BY <1>2, <2>2, <2>3
         DEF ProgramsNext, Browse, Certify, Demonstrate, DriveFleet, Mix, GatherCalls,
             Plays, Fleets, Certifying
<1> QED BY <1>1, <1>2

\* Two runs that went alike to the same end have the same counters, and no
\* counter is at more than one.
LEMMA CountersAgree ==
    ASSUME ScriptAgents, ProgramOK, ScriptPlace, ScriptDiary, program \in Certifying,
           NEW q \in Run, NEW fn
    PROVE  Counter(q, fn) = (IF ResultsOf(q, fn) = {} THEN 0 ELSE 1)
<1>1. PICK c : c = Bounds[program].code
  OBVIOUS
<1>2. Sound /\ Fits /\ AllPlayed(c) /\ OnlyWork(q) /\ Walkable(q)
  BY <1>1 DEF ProgramOK, PlayOK, Certifying, ScriptDiary, Fits
<1>3. \A s, t \in ResultsOf(q, fn) : s = t
  <2>1. CASE program = "refund_chaos"
    BY <1>1, <1>2, <2>1, ScriptAgent, OnceEach DEF ScriptPlace
  <2>2. CASE program = "chaos"
    <3>1. SUFFICES ASSUME NEW s \in ResultsOf(q, fn) PROVE FALSE
      OBVIOUS
    <3>2. s \in DOMAIN diary[q] /\ Ev(q, s).type = "TOOL_COMPLETED"
      BY <3>1 DEF ResultsOf, Type, Ev
    <3>3. PICK m \in Nat : DOMAIN diary[q] = 1 .. m
      BY <1>2 DEF Sound, DenseDiary
    <3>4. s # 1
      BY <1>2, <3>2 DEF Walkable
    <3>5. PICK k \in Nat : s = k + 2 /\ k + 1 \in DOMAIN diary[q]
      <4>1. s - 2 \in Nat /\ s = (s - 2) + 2 /\ (s - 2) + 1 \in 1 .. m
        BY <3>2, <3>3, <3>4
      <4> QED BY <3>3, <4>1
    <3>6. Ev(q, k + 1).type = "TOOL_INTENT"
      <4>1. (k + 1) + 1 = s
        BY <3>5
      <4>2. Follows(Ev(q, k + 1), Ev(q, s))
        BY <1>2, <3>2, <3>5, <4>1 DEF Walkable
      <4> QED BY <3>2, <4>2 DEF Follows
    <3>7. PlayedAt(c, diary[q], k + 1)
      BY <1>2, <3>5 DEF AllPlayed, Played
    <3>8. Agent(c, Before(diary[q], k + 1)).kind = "effect"
      BY <3>6, <3>7 DEF PlayedAt, Calls, Requested, Ev
    <3>9. Before(diary[q], k + 1) \in Seq(Event)
      <4>1. \A i \in 1 .. k : i \in DOMAIN diary[q]
        BY <3>3, <3>5
      <4> QED BY <1>2, <4>1, BeforeIsSeq
    <3> QED BY <1>1, <2>2, <3>8, <3>9, ScriptAgent DEF ScriptPlace, Certifying
  <2> QED BY <2>1, <2>2 DEF Certifying
<1>4. Owns(q)
  BY <1>2 DEF OnlyWork, Owns, Type, Ev
<1> QED BY <1>2, <1>3, <1>4, CounterIs

LEMMA RunsCertify ==
    ASSUME ScriptAgents, ProgramOK, CertLives, CertRuns
    PROVE  Certified
<1>1. SUFFICES ASSUME At("verdict") PROVE
         /\ Completed(cert.run)
         /\ cert.run > 1 => DOMAIN diary[cert.run] = 1 .. cert.steps
         /\ Responses(cert.run) = Responses(1)
         /\ \A fn \in Fn : Counter(cert.run, fn) = Counter(1, fn)
         /\ \A fn \in Fn : Counter(1, fn) <= 1
  BY DEF Certified
<1>2. program \in Certifying /\ ScriptPlace /\ ScriptDiary
  BY <1>1 DEF CertLives, CertRuns, At
<1>3. PICK c : c = Bounds[program].code
  OBVIOUS
<1>4. Sound /\ Fits /\ CertOK /\ AllPlayed(c) /\ EndsWell(c) /\ Blind(c)
  BY <1>2, <1>3, ScriptAgent
     DEF ProgramOK, ScriptsOK, PlayOK, Certifying, ScriptPlace
<1>5. PICK r \in Run : r = cert.run
  BY <1>1, <1>4, CertificatesAssumption, MaxRunAssumption DEF CertOK, At, Run
<1>6. Completed(r) /\ FinishedFor({c}, r)
  BY <1>1, <1>2, <1>4, <1>5 DEF ScriptPlace, EndsWell, Completed
<1>7. r # 1 => /\ FinishedFor({c}, 1) /\ DOMAIN diary[1] = 1 .. cert.steps
               /\ DOMAIN diary[r] = DOMAIN diary[1] /\ Echoes(1, r)
  <2>1. SUFFICES ASSUME r # 1
                 PROVE  /\ FinishedFor({c}, 1) /\ DOMAIN diary[1] = 1 .. cert.steps
                        /\ DOMAIN diary[r] = DOMAIN diary[1] /\ Echoes(1, r)
    OBVIOUS
  <2>2. Judged
    BY <1>5, <2>1 DEF Judged, Run
  <2>3. FinishedFor({c}, 1) /\ DOMAIN diary[1] = 1 .. cert.steps
    BY <1>2, <1>4, <2>2, OneIsRun DEF ScriptPlace, EndsWell, Completed
  <2>4. OnlyWork(1) /\ Echoes(1, r)
    BY <1>2, <2>1, OneIsRun DEF ScriptDiary
  <2> QED BY <1>4, <1>6, <2>3, <2>4, OneIsRun, EchoesEnd
<1>8. Responses(r) = Responses(1)
  BY <1>7 DEF Responses, Echoes, Ev
<1>9. ASSUME NEW fn \in Fn PROVE Counter(r, fn) = Counter(1, fn) /\ Counter(1, fn) <= 1
  <2>1. \A q \in Run : Counter(q, fn) = (IF ResultsOf(q, fn) = {} THEN 0 ELSE 1)
    BY <1>2, CountersAgree
  <2>2. ResultsOf(r, fn) = ResultsOf(1, fn)
    <3>1. CASE r = 1
      BY <3>1
    <3>2. CASE r # 1
      BY <1>7, <3>2 DEF ResultsOf, Echoes
    <3> QED BY <3>1, <3>2
  <2> QED BY <2>1, <2>2, OneIsRun
<1>10. cert.run > 1 => DOMAIN diary[cert.run] = 1 .. cert.steps
  BY <1>5, <1>7
<1> QED BY <1>5, <1>6, <1>8, <1>9, <1>10

\* What chaos.py:76-78 and refund_chaos.py:74-76 assert holds whichever pins
\* killed the lives of a run: an agent that decides by the answers it got is
\* given the same ones again, by its diary or by the same brain, so a run that
\* is completed ends where the baseline ended.
THEOREM ScriptsCertify ==
    ASSUME ScriptAgents
    PROVE  ProgramsSpec => []Certified
<1>1. ProgramsInit => CertLives
  BY DEF ProgramsInit, Init, ContextInit, CertLives, NobodyLives, Script
<1>2. ProgramsInit => CertRuns
  <2>1. SUFFICES ASSUME ProgramsInit, program \in Certifying
                 PROVE  ScriptPlace /\ ScriptDiary
    BY DEF CertRuns
  <2>2. /\ program \in DOMAIN Bounds /\ \A p \in Proc : pc[p] = "idle"
        /\ cert.script = program /\ cert.at = "fresh" /\ cert.run = 0
        /\ \A r \in Run : diary[r] = << >> /\ ledger[r] = << >>
    BY <2>1 DEF ProgramsInit, Init, ContextInit, DiaryInit, Script, Certifying
  <2>3. ScriptPlace
    BY <2>2 DEF ScriptPlace, At, Judged, Proc
  <2>4. ScriptDiary
    <3>1. Len(<< >>) = 0 /\ 1 .. 2 * 0 = {} /\ DOMAIN << >> = {}
      OBVIOUS
    <3>2. \A r \in Run : OnlyWork(r) /\ Echoes(1, r) /\ InOrder(r)
      BY <2>2, <3>1 DEF OnlyWork, Echoes, InOrder
    <3> QED BY <3>2 DEF ScriptDiary
  <2> QED BY <2>3, <2>4
<1>3. ProgramOK /\ CertLives /\ [ProgramsNext]_programsVars => CertLives'
  BY CertLivesNext
<1>4. ProgramOK /\ ProgramOK' /\ CertLives /\ CertRuns /\ [ProgramsNext]_programsVars
        => CertRuns'
  BY CertRunsNext
<1>5. ProgramOK /\ CertLives /\ CertRuns => Certified
  BY RunsCertify
<1> QED BY ProgramsAreSound, <1>1, <1>2, <1>3, <1>4, <1>5, PTL DEF ProgramsSpec

----------------------------------------------------------------------------
(* harness/fleet.py                                                        *)

\* A job performs every effect that is counted, each of them once.
ChargesEach(c) ==
    /\ NeverTwice(c)
    /\ \A h \in Seq(Event) : Lived(c, h) /\ Agent(c, h).kind = "return" =>
          \A fn \in Fn :
              \E i \in 1 .. Len(h) : h[i].type = "TOOL_COMPLETED" /\ h[i].ans = fn

FleetAgents ==
    \A script \in Fleets : script \in DOMAIN Bounds => ChargesEach(Bounds[script].code)

\* What a run adds itself is its own.
LEMMA OwnsGrow ==
    ASSUME Sound, Fits', NEW r \in Run, NEW n \in Nat, NEW e, Appends(r, n, e),
           NEW q \in Run, Owns(q)
    PROVE  Owns(q)'
<1>1. CASE q # r
  BY <1>1 DEF Appends, Owns, Type, Ev
<1>2. CASE q = r
  <2>1. /\ DOMAIN diary[r] = 1 .. n /\ DOMAIN diary'[r] = 1 .. n + 1
        /\ diary'[r][n + 1].event = e
        /\ \A s \in 1 .. n : diary'[r][s] = diary[r][s]
    BY DEF Appends
  <2>2. Walkable(r)'
    BY DEF Fits
  <2>3. e.type = "TOOL_INTENT" => e.ask = r
    <3>1. n + 1 \in DOMAIN diary'[r] /\ n + 1 + 1 \notin DOMAIN diary'[r]
      BY <2>1
    <3> QED BY <2>1, <2>2, <3>1 DEF Walkable, Ev
  <2>4. ASSUME e.type = "TOOL_COMPLETED" PROVE e.ask = r
    <3>1. n # 0
      <4>1. n = 0 => 1 \in DOMAIN diary'[r] /\ diary'[r][1].event = e
        BY <2>1
      <4> QED BY <2>2, <2>4, <4>1 DEF Walkable, Ev
    <3>2. n \in 1 .. n /\ n \in DOMAIN diary'[r] /\ n + 1 \in DOMAIN diary'[r]
      BY <2>1, <3>1
    <3>3. Follows(diary[r][n].event, e)
      BY <2>1, <2>2, <3>2 DEF Walkable, Ev
    <3> QED BY <1>2, <2>1, <2>4, <3>2, <3>3 DEF Follows, Owns, Type, Ev
  <2>5. ASSUME NEW s \in 1 .. n + 1
        PROVE  diary'[r][s].event.type \in {"TOOL_INTENT", "TOOL_COMPLETED"} =>
                   diary'[r][s].event.ask = r
    <3>1. s \in 1 .. n \/ s = n + 1
      OBVIOUS
    <3> QED BY <1>2, <2>1, <2>3, <2>4, <3>1 DEF Owns, Type, Ev
  <2> QED BY <1>2, <2>1, <2>5 DEF Owns, Type, Ev
<1> QED BY <1>1, <1>2

\* A life adds to its diary and to no other.
LEMMA LifeOnlyAppends ==
    ASSUME Sound, Fits, NEW p \in Proc, ContextStep(p)
    PROVE  \/ UNCHANGED diary
           \/ \E r \in Run : \E n \in Nat, e \in Event : Appends(r, n, e)
<1>1. UNCHANGED runs
  BY ContextCarries DEF CarriesOn
<1>2. ~ForkSome
  <2>1. SUFFICES ASSUME NEW parent \in Run, NEW child \in Run, NEW k, NEW patch,
                        ForkRun(parent, k, child, patch)
                 PROVE  FALSE
    BY DEF ForkSome
  <2>2. runs[child].status = "absent"
    BY <2>1 DEF ForkRun, NewRun, Exists
  <2>3. runs'[child].status = "queued"
    BY <2>1 DEF ForkRun, Sound, DiaryTypeOK, RunRow
  <2> QED BY <1>1, <2>2, <2>3
<1> QED BY <1>2, ContextAdds DEF Adds, OneMore

LEMMA HarnessWrites ==
    ASSUME BossOK, HarnessNext
    PROVE  (\E w \in Worker : ContextStep(w)) \/ UNCHANGED diary
<1>1. ASSUME NEW w \in Worker, WorkerStep(w) \/ Dies(w)
      PROVE  ContextStep(w) \/ UNCHANGED diary
  BY <1>1 DEF WorkerStep, Claim, ClaimRun, Start, Step, OpenContext, ReadOnly, Complete,
              Park, Drop, Dies, Crash
<1>2. \/ \E w \in Worker : WorkerStep(w) \/ Dies(w)
      \/ UNCHANGED diary
  BY DEF HarnessNext, ScriptStep, EnqueueJob, Enqueue, EnqueueRun, Drained, TimesOut,
         KillOne, Sweeper, Sweep, SweepExpired, Check, Terminate, SeesRunning, ReadTokenA,
         Freeze, Stall, SweepForB, SeesCompleted, ThawA, Thaw, ReadAgain, Report, Crew,
         Beat, Heartbeat, LapseDead, LapseLive, Lapse, Still, vars, tables, BossOK
<1> QED BY <1>1, <1>2

LEMMA HarnessOwns ==
    ASSUME Sound, Fits, Fits', BossOK, HarnessNext, \A r \in Run : Owns(r)
    PROVE  \A r \in Run : Owns(r)'
<1>1. SUFFICES ASSUME NEW q \in Run PROVE Owns(q)'
  OBVIOUS
<1>2. CASE UNCHANGED diary
  BY <1>2 DEF Owns, Type, Ev
<1>3. ASSUME NEW r \in Run, NEW n \in Nat, NEW e \in Event, Appends(r, n, e)
      PROVE  Owns(q)'
  BY <1>3, OwnsGrow
<1> QED BY <1>2, <1>3, HarnessWrites, LifeOnlyAppends DEF Proc

\* No script and no worker takes a completed run up again.
LEMMA HarnessCompletes ==
    ASSUME Sound, BossOK, HarnessNext, NEW r \in Run, Completed(r)
    PROVE  Completed(r)'
<1>0. runs \in [Run -> RunRow]
  BY DEF Sound, DiaryTypeOK
<1>1. ASSUME NEW w \in Worker, WorkerStep(w) PROVE Completed(r)'
  <2>1. ASSUME NEW q \in Run, Claim(w, q) PROVE Completed(r)'
    BY <1>0, <2>1 DEF Claim, ClaimRun, NextQueued, Queued, ClaimedRow, Completed, RunRow
  <2>2. CASE Step(w)
    <3>1. UNCHANGED runs
      BY <2>2, ContextCarries DEF Step, CarriesOn, Proc
    <3> QED BY <3>1 DEF Completed
  <2>3. CASE Complete(w) \/ Park(w)
    BY <1>0, <2>3 DEF Complete, Park, StillOurs, ParkedRow, Completed, RunRow
  <2>4. CASE Start(w) \/ Drop(w)
    BY <2>4 DEF Start, OpenContext, Drop, ReadOnly, Completed
  <2> QED BY <1>1, <2>1, <2>2, <2>3, <2>4 DEF WorkerStep
<1>2. CASE \E q \in Run : Enqueue(q) \/ LapseDead(q) \/ LapseLive(q)
               \/ \E w \in Worker : Beat(w, q)
  BY <1>0, <1>2 DEF Enqueue, EnqueueRun, NewRun, Exists, LapseDead, LapseLive, Lapse,
                    Beat, Heartbeat, Completed, RunRow
<1>3. CASE Sweep
  BY <1>0, <1>3 DEF Sweep, SweepExpired, Expired, Completed, RunRow
<1>4. CASE UNCHANGED runs
  BY <1>4 DEF Completed
<1> QED BY <1>1, <1>2, <1>3, <1>4
       DEF HarnessNext, ScriptStep, EnqueueJob, Drained, TimesOut, KillOne, Dies, Crash,
           Sweeper, Check, Terminate, SeesRunning, ReadTokenA, Freeze, Stall, SweepForB,
           SeesCompleted, ThawA, Thaw, ReadAgain, Report, Crew, Still, vars, tables, BossOK

\* A completed job has charged every counter once.
LEMMA JobCharges ==
    ASSUME Sound, Fits, NEW c, AllPlayed(c), EndsWell(c), ChargesEach(c),
           NEW r \in Run, Owns(r), Completed(r)
    PROVE  Counters(r) = EachOnce
<1>1. FinishedFor({c}, r)
  BY DEF EndsWell, Completed
<1>2. PICK n \in Nat : DOMAIN diary[r] = 1 .. n
  BY DEF Sound, DenseDiary
<1>3. PICK h : h = Before(diary[r], n + 1)
  OBVIOUS
<1>4. /\ h \in Seq(Event) /\ Len(h) = n /\ \A i \in 1 .. n : h[i] = Ev(r, i)
  BY <1>2, <1>3, BeforeIsSeq
<1>5. Lived(c, h)
  BY <1>2, <1>3, DiaryLived
<1>6. Agent(c, h).kind = "return"
  BY <1>1, <1>2, <1>3, FinishedReads
<1>7. ASSUME NEW fn \in Fn PROVE Counter(r, fn) = 1
  <2>1. PICK i \in 1 .. n : h[i].type = "TOOL_COMPLETED" /\ h[i].ans = fn
    BY <1>4, <1>5, <1>6 DEF ChargesEach
  <2>2. i \in ResultsOf(r, fn)
    BY <1>2, <1>4, <2>1 DEF ResultsOf, Type, Ev
  <2>3. \A s, t \in ResultsOf(r, fn) : s = t
    BY OnceEach DEF ChargesEach
  <2> QED BY <2>2, <2>3, CounterIs
<1>8. \A fn \in Fn : Cardinality({i \in DOMAIN ledger[r] : ledger[r][i].fn = fn}) = 1
  BY <1>7 DEF Counter
<1> QED BY <1>8, Zenon DEF Counters, EachOnce

\* What a script of run_fleet or run_chaos has seen, and what it reports.
FleetPlace ==
    /\ program \in DOMAIN Bounds
    /\ boss.script = IF program \in {"fleet", "zombie"} THEN program ELSE "chaos"
    /\ \A r \in Run : Owns(r)
    /\ boss.script # "zombie" =>
          /\ boss.at \in {"enqueue", "wait", "terminate", "check", "done"}
          /\ boss.at \in {"terminate", "check"} /\ boss.inTime =>
                \A r \in 1 .. Jobs : Completed(r)
          /\ boss.at = "done" =>
                /\ boss.inTime => boss.incomplete = {} /\ boss.bad = {}
                /\ boss.bad \subseteq boss.incomplete

FleetRuns == IF program \in Fleets THEN FleetPlace ELSE boss.at = "enqueue"

LEMMA FleetPlaceNext ==
    ASSUME FleetAgents, ProgramOK, ProgramOK', FleetPlace, program \in Fleets,
           UNCHANGED program, HarnessNext
    PROVE  FleetPlace'
<1>0. /\ Sound /\ Fits /\ Fits' /\ BossOK
      /\ DOMAIN boss = {"script", "at", "alive", "inTime", "tokenA", "before", "afterB",
                        "afterThaw", "after", "incomplete", "bad"}
  BY DEF ProgramOK, ScriptsOK, BossOK, Boss
<1>1. PICK c : c = Bounds[program].code
  OBVIOUS
<1>2. AllPlayed(c) /\ EndsWell(c) /\ ChargesEach(c)
  BY <1>1 DEF ProgramOK, PlayOK, FleetAgents, FleetPlace, Fleets
<1>3. \A r \in 1 .. Jobs : r \in Run
  BY HarnessAssumption, MaxRunAssumption DEF Run
<1>4. \A r \in Run : Owns(r)'
  BY <1>0, HarnessOwns DEF FleetPlace
<1>5. \A r \in 1 .. Jobs : Completed(r) => Completed(r)'
  BY <1>0, <1>3, HarnessCompletes
<1>6. boss'.script = boss.script
  BY <1>0 DEF HarnessNext, ScriptStep, EnqueueJob, Drained, TimesOut, KillOne, Sweeper,
              Check, Terminate, SeesRunning, ReadTokenA, Freeze, SweepForB, SeesCompleted,
              ThawA, ReadAgain, Report, Crew, To
<1>7. CASE boss.script = "zombie"
  BY <1>4, <1>6, <1>7 DEF FleetPlace
<1>8. CASE boss.script # "zombie"
  <2>1. CASE UNCHANGED boss
    BY <1>4, <1>5, <2>1 DEF FleetPlace
  <2>2. CASE EnqueueJob
    <3>1. boss'.at \in {"enqueue", "wait"}
      BY <1>0, <2>2 DEF EnqueueJob
    <3> QED BY <1>4, <1>6, <3>1 DEF FleetPlace
  <2>3. CASE Drained
    <3>1. boss'.at = "terminate"
      BY <1>0, <2>3 DEF Drained, To, TimesOut
    <3>2. boss'.inTime => \A r \in 1 .. Jobs : Completed(r)
      BY <1>0, <2>3 DEF Drained, To, TimesOut, Is, Completed
    <3> QED BY <1>4, <1>5, <1>6, <3>1, <3>2 DEF FleetPlace
  <2>4. CASE Terminate
    <3>1. boss'.at = "check" /\ boss.at = "terminate" /\ boss'.inTime = boss.inTime
      BY <1>0, <2>4 DEF Terminate
    <3> QED BY <1>4, <1>5, <1>6, <1>8, <3>1 DEF FleetPlace
  <2>5. CASE Check
    <3>1. /\ boss'.at = "done" /\ boss.at = "check" /\ boss'.inTime = boss.inTime
          /\ boss'.incomplete = {r \in 1 .. Jobs : ~Completed(r)}
          /\ boss'.bad = {r \in 1 .. Jobs : Counters(r) # EachOnce}
      BY <1>0, <2>5 DEF Check, Is, Completed
    <3>2. \A r \in 1 .. Jobs : Completed(r) => Counters(r) = EachOnce
      BY <1>0, <1>2, <1>3, JobCharges DEF FleetPlace
    <3>3. boss'.inTime => boss'.incomplete = {} /\ boss'.bad = {}
      BY <1>8, <3>1, <3>2 DEF FleetPlace
    <3>4. boss'.bad \subseteq boss'.incomplete
      BY <3>1, <3>2
    <3> QED BY <1>4, <1>6, <3>1, <3>3, <3>4 DEF FleetPlace
  <2> QED BY <1>8, <2>1, <2>2, <2>3, <2>4, <2>5
         DEF HarnessNext, ScriptStep, KillOne, Sweeper, SeesRunning, ReadTokenA, Freeze,
             SweepForB, SeesCompleted, ThawA, ReadAgain, Report, Crew, In
<1> QED BY <1>7, <1>8

LEMMA FleetRunsNext ==
    ASSUME FleetAgents, ProgramOK, ProgramOK', FleetRuns, [ProgramsNext]_programsVars
    PROVE  FleetRuns'
<1>1. UNCHANGED program /\ ((program \in Fleets /\ HarnessNext) \/ UNCHANGED boss)
  BY ProgramFrame DEF ProgramOK
<1>2. CASE program \notin Fleets
  BY <1>1, <1>2 DEF FleetRuns
<1>3. CASE program \in Fleets
  <2>1. HarnessNext \/ UNCHANGED programsVars
    BY <1>3 DEF ProgramsNext, Browse, Certify, Demonstrate, Mix, GatherCalls, DriveFleet,
                Plays, Fleets
  <2>2. CASE UNCHANGED programsVars
    BY <1>1, <1>3, <2>2 DEF FleetRuns, FleetPlace, Owns, Completed, Type, Ev, programsVars,
                            vars
  <2> QED BY <1>1, <1>3, <2>1, <2>2, FleetPlaceNext DEF FleetRuns
<1> QED BY <1>2, <1>3

\* The certificate of run_fleet and run_chaos (fleet.py:7-8, 63-67), whoever is
\* killed in whatever step: a job that is completed has its agent's whole work
\* in its diary, with each effect in its ledger once.  The agent of a job is
\* one that charges every counter once before it returns.
THEOREM FleetsCertify ==
    ASSUME FleetAgents
    PROVE  ProgramsSpec => []FleetCertificate
<1>1. ProgramsInit => FleetRuns
  <2>1. DOMAIN << >> = {}
    OBVIOUS
  <2> QED BY <2>1 DEF ProgramsInit, Init, DiaryInit, Boss, FleetRuns, FleetPlace, Fleets,
                      Owns
<1>2. ProgramOK /\ ProgramOK' /\ FleetRuns /\ [ProgramsNext]_programsVars => FleetRuns'
  BY FleetRunsNext
<1>3. FleetRuns => FleetCertificate
  BY DEF FleetRuns, FleetPlace, FleetCertificate
<1> QED BY ProgramsAreSound, <1>1, <1>2, <1>3, PTL DEF ProgramsSpec

----------------------------------------------------------------------------
(* The zombie                                                              *)

\* No life of a completed run has its token any more.
SpentAt(v) ==
    life[v].run # None /\ Completed(life[v].run) =>
        runs[life[v].run].token # life[v].token

Spent == \A v \in Worker : SpentAt(v)

\* What a script does is a step of the fleet, or the passing of a timeout, or
\* the end of its workers.
LEMMA HarnessKinds ==
    ASSUME BossOK, HarnessNext
    PROVE  \/ [Next]_vars
           \/ Terminate
           \/ UNCHANGED <<tables, lock, pc, life, grant, stalled>> /\ Fault
<1>1. ZombieA \in Worker
  BY HarnessAssumption
<1>2. CASE Crew
  BY <1>2 DEF Crew, BossOK, Next
<1>3. CASE Freeze \/ ThawA \/ SweepForB
  BY <1>1, <1>3 DEF Freeze, ThawA, SweepForB, Next, Still
<1>4. CASE EnqueueJob \/ Sweeper \/ \E w \in Worker : KillOne(w)
  BY <1>4 DEF EnqueueJob, Sweeper, KillOne, Next
<1>5. CASE Drained \/ SeesRunning \/ SeesCompleted
  BY <1>5 DEF Drained, SeesRunning, SeesCompleted, TimesOut, Still
<1>6. CASE Check \/ ReadTokenA \/ ReadAgain \/ Report
  BY <1>6 DEF Check, ReadTokenA, ReadAgain, Report, Still
<1> QED BY <1>2, <1>3, <1>4, <1>5, <1>6 DEF HarnessNext, ScriptStep

LEMMA HarnessFence ==
    ASSUME FenceSound, Sound', BossOK, HarnessNext
    PROVE  FenceSound'
<1>0. FleetSound
  BY DEF FenceSound
<1>1. CASE [Next]_vars
  BY <1>0, <1>1, NextFence, NextCounts DEF FenceGoal, FenceSound, FleetSound
<1>2. CASE Terminate
  <2>1. /\ \A v \in Worker : life'[v] = NoLife /\ pc'[v] = "idle"
        /\ stalled' = {} /\ faults' = faults
    BY <1>2 DEF Terminate, NoFault, Proc
  <2>2. \A v \in Worker : life'[v].run = None /\ pc'[v] # "tx"
    BY <2>1 DEF NoLife
  <2> QED BY <1>0, <2>1, <2>2 DEF FenceSound, FleetSound, UniqueHolder, FenceOK
<1>3. CASE UNCHANGED <<tables, lock, pc, life, grant, stalled>> /\ Fault
  <2>1. faults' \in 0 .. MaxFaults
    BY <1>0, <1>3, FaultsBounded DEF FleetSound
  <2>2. UNCHANGED <<runs, lock, pc, life, stalled>>
    BY <1>3 DEF tables
  <2>3. UniqueHolder' /\ \A w \in Worker : FenceOK(w)'
    BY <2>2 DEF FenceSound, UniqueHolder, FenceOK, HoldsLease, Fenced
  <2> QED BY <1>0, <2>1, <2>2, <2>3 DEF FenceSound, FleetSound
<1> QED BY <1>1, <1>2, <1>3, HarnessKinds

\* A worker goes on with the run and the token it has, or ends, or claims.
Claimed(w) ==
    \E q \in Run : /\ life'[w].run = q /\ life'[w].token = runs[q].token + 1
                   /\ runs' = [runs EXCEPT ![q] = ClaimedRow(@, w)]
                   /\ Queued(q)

LEMMA WorkerMoves ==
    ASSUME Sound, NEW w \in Worker, WorkerStep(w)
    PROVE  /\ \A v \in Worker : v # w => pc'[v] = pc[v] /\ life'[v] = life[v]
           /\ \/ /\ life'[w].run = None \/ (life'[w].run = life[w].run /\
                                              life'[w].token = life[w].token)
                 /\ \A r \in Run : runs'[r].token = runs[r].token
              \/ Claimed(w)
<1>0. /\ pc \in [Proc -> PC] /\ life \in [Proc -> LifeRow] /\ w \in Proc
      /\ Worker \subseteq Proc /\ runs \in [Run -> RunRow]
  BY DEF Sound, DiaryTypeOK, Proc
<1>1. ASSUME NEW q \in Run, Claim(w, q)
      PROVE  Claimed(w) /\ \A v \in Worker : v # w => pc'[v] = pc[v] /\ life'[v] = life[v]
  <2>1. runs' = [runs EXCEPT ![q] = ClaimedRow(@, w)] /\ Queued(q)
    BY <1>1 DEF Claim, ClaimRun, NextQueued
  <2>2. runs'[q].token = runs[q].token + 1
    BY <1>0, <2>1 DEF ClaimedRow, RunRow
  <2>3. life'[w].run = q /\ life'[w].token = runs'[q].token
    BY <1>0, <1>1 DEF Claim, LifeRow
  <2> QED BY <1>0, <1>1, <2>1, <2>2, <2>3 DEF Claim, Claimed, Goto
<1>2. CASE Start(w)
  BY <1>0, <1>2 DEF Start, OpenContext, ReadOnly, Goto, LifeRow
<1>3. CASE Step(w)
  BY <1>0, <1>3, ContextCarries DEF Step, CarriesOn
<1>4. CASE Complete(w) \/ Park(w) \/ Drop(w)
  <2>1. Leave(w, "idle")
    BY <1>4 DEF Complete, Park, Drop
  <2>2. life'[w].run = None
    BY <1>0, <2>1 DEF Leave, NoLife
  <2>3. \A r \in Run : runs'[r].token = runs[r].token
    <3>1. CASE Complete(w)
      BY <1>0, <3>1 DEF Complete, RunRow
    <3>2. CASE Park(w)
      <4>1. \A r, status : ParkedRow(runs[r], status).token = runs[r].token
                          \/ r \notin Run
        BY <1>0 DEF ParkedRow, RunRow
      <4>2. PICK r, status : \/ UNCHANGED runs
                            \/ runs' = [runs EXCEPT ![r] = ParkedRow(@, status)]
        BY <3>2 DEF Park
      <4> QED BY <1>0, <4>1, <4>2
    <3>3. CASE Drop(w)
      BY <3>3 DEF Drop, ReadOnly
    <3> QED BY <1>4, <3>1, <3>2, <3>3
  <2> QED BY <1>0, <2>1, <2>2, <2>3 DEF Leave, Goto
<1> QED BY <1>1, <1>2, <1>3, <1>4 DEF WorkerStep

\* Nothing but a claim changes a token, and nothing but Complete completes.
LEMMA OthersKeepRows ==
    ASSUME Sound, BossOK, HarnessNext, ~\E w \in boss.alive : WorkerStep(w)
    PROVE  \A r \in Run : /\ runs'[r].token = runs[r].token
                          /\ Completed(r)' => Completed(r)
<1>0. runs \in [Run -> RunRow]
  BY DEF Sound, DiaryTypeOK
<1>1. ASSUME NEW q \in Run, Enqueue(q) \/ Lapse(q) \/ \E w \in Worker : Beat(w, q)
      PROVE  \A r \in Run : /\ runs'[r].token = runs[r].token
                            /\ Completed(r)' => Completed(r)
  <2>1. CASE Enqueue(q)
    BY <1>0, <2>1 DEF Enqueue, EnqueueRun, Completed, RunRow
  <2>2. CASE Lapse(q)
    BY <1>0, <2>2 DEF Lapse, Completed, RunRow
  <2>3. CASE \E w \in Worker : Beat(w, q)
    BY <1>0, <2>3 DEF Beat, Heartbeat, Completed, RunRow
  <2> QED BY <1>1, <2>1, <2>2, <2>3
<1>2. CASE Sweep
  BY <1>0, <1>2 DEF Sweep, SweepExpired, SweptRow, Completed, RunRow
<1>3. CASE UNCHANGED runs
  BY <1>3 DEF Completed
<1> QED BY <1>1, <1>2, <1>3
       DEF HarnessNext, ScriptStep, EnqueueJob, Drained, TimesOut, KillOne, Dies, Crash,
           LapseDead, LapseLive, Sweeper, Check, Terminate, SeesRunning, ReadTokenA, Freeze, Stall, SweepForB,
           SeesCompleted, ThawA, Thaw, ReadAgain, Report, Crew, Still, vars, tables, BossOK

\* And nobody but a worker that steps takes up a run.
LEMMA OthersKeepLives ==
    ASSUME Sound, BossOK, HarnessNext, ~\E w \in boss.alive : WorkerStep(w)
    PROVE  \A v \in Worker : life'[v] = life[v] \/ life'[v].run = None
<1>0. life \in [Proc -> LifeRow] /\ Worker \subseteq Proc
  BY DEF Sound, Proc
<1>1. ASSUME NEW w \in Worker, Dies(w)
      PROVE  \A v \in Worker : life'[v] = life[v] \/ life'[v].run = None
  BY <1>0, <1>1 DEF Dies, Crash, Leave, NoLife
<1>2. CASE Terminate
  BY <1>0, <1>2 DEF Terminate, NoLife
<1>3. CASE UNCHANGED life
  BY <1>3
<1> QED BY <1>1, <1>2, <1>3
       DEF HarnessNext, ScriptStep, EnqueueJob, Enqueue, Drained, TimesOut, KillOne,
           Sweeper, Sweep, Check, SeesRunning, ReadTokenA, Freeze, Stall, SweepForB,
           SeesCompleted, ThawA, Thaw, ReadAgain, Report, Crew, Beat, LapseDead, LapseLive,
           Lapse, Still, vars

LEMMA HarnessSpent ==
    ASSUME FenceSound, Spent, BossOK, HarnessNext
    PROVE  Spent'
<1>0. /\ Sound /\ runs \in [Run -> RunRow] /\ life \in [Proc -> LifeRow]
      /\ Worker \subseteq Proc /\ boss.alive \subseteq Worker
  BY DEF FenceSound, FleetSound, Sound, DiaryTypeOK, Proc, BossOK
<1>1. \A v \in Worker : life[v].run \in Run \cup {None}
  BY <1>0 DEF LifeRow
<1>2. CASE ~\E w \in boss.alive : WorkerStep(w)
  <2>1. SUFFICES ASSUME NEW v \in Worker, life'[v].run # None,
                        runs'[life'[v].run].status = "completed"
                 PROVE  runs'[life'[v].run].token # life'[v].token
    BY DEF Spent, SpentAt, Completed
  <2>2. life'[v] = life[v]
    BY <1>0, <1>2, <2>1, OthersKeepLives
  <2>3. PICK r \in Run : r = life[v].run
    BY <1>1, <2>1, <2>2
  <2>4. runs'[r].token = runs[r].token /\ (Completed(r)' => Completed(r))
    BY <1>0, <1>2, OthersKeepRows
  <2>5. Completed(r)
    BY <2>1, <2>2, <2>3, <2>4 DEF Completed
  <2> QED BY <2>1, <2>2, <2>3, <2>4, <2>5 DEF Spent, SpentAt
<1>3. ASSUME NEW w \in Worker, WorkerStep(w) PROVE Spent'
  <2>0. \A v \in Worker : v # w => life'[v] = life[v]
    BY <1>0, <1>3, WorkerMoves
  <2>1. CASE Claimed(w)
    <3>1. PICK q \in Run : /\ life'[w].run = q
                           /\ runs' = [runs EXCEPT ![q] = ClaimedRow(@, w)]
      BY <2>1 DEF Claimed
    <3>2. runs'[q].status = "running" /\ \A r \in Run : r # q => runs'[r] = runs[r]
      BY <1>0, <3>1 DEF ClaimedRow, RunRow
    <3>3. ASSUME NEW v \in Worker, life'[v].run # None, runs'[life'[v].run].status = "completed"
          PROVE  runs'[life'[v].run].token # life'[v].token
      <4>1. v # w /\ life'[v] = life[v] /\ life[v].run # q
        BY <2>0, <3>1, <3>2, <3>3
      <4> QED BY <1>1, <3>2, <3>3, <4>1 DEF Spent, SpentAt, Completed
    <3> QED BY <3>3 DEF Spent, SpentAt, Completed
  <2>2. CASE /\ life'[w].run = None \/ (life'[w].run = life[w].run /\
                                          life'[w].token = life[w].token)
             /\ \A r \in Run : runs'[r].token = runs[r].token
    <3>1. ASSUME NEW v \in Worker, life'[v].run # None, runs'[life'[v].run].status = "completed"
          PROVE  runs'[life'[v].run].token # life'[v].token
      <4>1. life'[v].run = life[v].run /\ life'[v].token = life[v].token
        BY <2>0, <2>2, <3>1
      <4>2. PICK r \in Run : r = life[v].run
        BY <1>1, <3>1, <4>1
      <4>3. CASE runs[r].status = "completed"
        BY <2>2, <3>1, <4>1, <4>2, <4>3 DEF Spent, SpentAt, Completed
      <4>4. CASE runs[r].status # "completed"
        <5>1. runs'[r].status = "completed"
          BY <3>1, <4>1, <4>2
        <5>2. Complete(w) /\ StillOurs(w) /\ life[w].run = r
          <6>1. ASSUME NEW q \in Run PROVE ~Claim(w, q)
            <7>1. Claim(w, q) => runs' = [runs EXCEPT ![q] = ClaimedRow(@, w)]
              BY DEF Claim, ClaimRun
            <7>2. ClaimedRow(runs[q], w).status = "running"
              BY <1>0 DEF ClaimedRow, RunRow
            <7> QED BY <1>0, <4>4, <5>1, <7>1, <7>2
          <6>2. ~Step(w)
            <7>1. Step(w) => UNCHANGED runs
              BY <1>0, ContextCarries DEF Step, CarriesOn
            <7> QED BY <4>4, <5>1, <7>1
          <6>3. ~Start(w) /\ ~Drop(w)
            BY <4>4, <5>1 DEF Start, OpenContext, Drop, ReadOnly
          <6>4. ~Park(w)
            <7>1. Park(w) => ParkAs(w) \in {"paused", "failed"}
              BY DEF Park, ParkAs
            <7>2. PICK row : row = ParkedRow(runs[life[w].run], ParkAs(w))
              OBVIOUS
            <7>3. Park(w) => UNCHANGED runs \/ runs' = [runs EXCEPT ![life[w].run] = row]
              BY <7>2 DEF Park
            <7>4. Park(w) /\ life[w].run = r => row.status # "completed"
              BY <1>0, <7>1, <7>2 DEF ParkedRow, RunRow
            <7> QED BY <1>0, <4>4, <5>1, <7>3, <7>4
          <6>5. Complete(w)
            BY <1>3, <6>1, <6>2, <6>3, <6>4 DEF WorkerStep
          <6> QED BY <1>0, <4>4, <5>1, <6>5 DEF Complete, RunRow
        <5>3. v # w
          BY <1>0, <3>1, <5>2 DEF Complete, Leave, NoLife
        <5>4. life[v].token # life[w].token
          BY <3>1, <4>1, <4>2, <5>2, <5>3 DEF FenceSound, UniqueHolder
        <5>5. runs[r].token = life[w].token
          BY <5>2 DEF StillOurs
        <5> QED BY <2>2, <4>1, <4>2, <5>4, <5>5
      <4> QED BY <4>3, <4>4
    <3> QED BY <3>1 DEF Spent, SpentAt, Completed
  <2> QED BY <1>0, <1>3, <2>1, <2>2, WorkerMoves
<1> QED BY <1>0, <1>2, <1>3

\* A worker's life writes only with the token its run has now.
LEMMA RecordInserts ==
    ASSUME FenceSound, NEW w \in Worker, pc[w] # "idle", NEW e, NEW next,
           Record(w, e, next)
    PROVE  \/ UNCHANGED diary
           \/ /\ HoldsLease(w) /\ ~Taken(life[w].run, NextSeq(w))
              /\ InsertEvent(life[w].run, NextSeq(w), e, life[w].token)
BY DEF Record

LEMMA ContextInserts ==
    ASSUME FenceSound, NEW w \in Worker, ContextStep(w)
    PROVE  \/ UNCHANGED diary
           \/ /\ HoldsLease(w) /\ life[w].run \in Run
              /\ ~Taken(life[w].run, NextSeq(w))
              /\ \E e : InsertEvent(life[w].run, NextSeq(w), e, life[w].token)
<1>0. /\ Sound /\ w \in Proc
  BY DEF FenceSound, FleetSound, Proc
<1>1. pc[w] # "idle" => life[w].run \in Run
  BY <1>0 DEF Sound, LifeOK
<1>2. CASE RecordLlm(w)
  <2>1. pc[w] # "idle" /\ \E e : Record(w, e, "agent")
    BY <1>2 DEF RecordLlm
  <2> QED BY <1>1, <2>1, RecordInserts
<1>3. CASE RecordIntent(w)
  <2>1. pc[w] # "idle" /\ \E e : Record(w, e, "acting")
    BY <1>3 DEF RecordIntent, Asks
  <2> QED BY <1>1, <2>1, RecordInserts
<1>4. CASE RecordRequest(w)
  <2>1. pc[w] # "idle" /\ \E e : Record(w, e, "asked")
    BY <1>4 DEF RecordRequest, Asks
  <2> QED BY <1>1, <2>1, RecordInserts
<1>5. CASE CommitEffect(w)
  <2>1. pc[w] = "tx" /\ HoldsLease(w)
    BY <1>5 DEF CommitEffect, FenceSound, FenceOK
  <2>2. CASE Conflict(w)
    BY <1>5, <2>2 DEF CommitEffect
  <2>3. CASE ~Conflict(w)
    <3>1. \E e : InsertEvent(life[w].run, NextSeq(w), e, life[w].token)
      BY <1>5, <2>3 DEF CommitEffect
    <3> QED BY <1>1, <2>1, <2>3, <3>1 DEF Conflict
  <2> QED BY <2>2, <2>3
<1>6. \/ RecordLlm(w) \/ RecordIntent(w) \/ RecordRequest(w) \/ CommitEffect(w)
      \/ UNCHANGED diary
  BY DEF ContextStep, ApplyPatch, ReplayLlm, CallModel, ReplayIntent,
         ReplayCompleted, BeginEffect, ReplayRequest, ReplayDecision, Pause,
         Return, RaiseOwn, Replay, ReadOnly
<1> QED BY <1>2, <1>3, <1>4, <1>5, <1>6

\* The rows with a token are still the same ones when nobody writes with it.
LEMMA TokenKept ==
    ASSUME FenceSound, NEW w \in Worker, ContextStep(w), NEW r \in Run, NEW t \in Nat,
           life[w].run = r /\ life[w].token = t => runs[r].token # t
    PROVE  \/ t = 0
           \/ {s \in DOMAIN diary'[r] : diary'[r][s].token = t} =
              {s \in DOMAIN diary[r] : diary[r][s].token = t}
<1>1. CASE UNCHANGED diary
  BY <1>1
<1>2. ASSUME HoldsLease(w), life[w].run \in Run, ~Taken(life[w].run, NextSeq(w)), NEW e,
             InsertEvent(life[w].run, NextSeq(w), e, life[w].token), t # 0
      PROVE  {s \in DOMAIN diary'[r] : diary'[r][s].token = t} =
             {s \in DOMAIN diary[r] : diary[r][s].token = t}
  <2>0. DOMAIN diary = Run
    BY DEF FenceSound, FleetSound, Sound, DiaryTypeOK
  <2>1. CASE life[w].run # r
    BY <1>2, <2>0, <2>1 DEF InsertEvent
  <2>2. CASE life[w].run = r
    <3>1. life[w].token # t
      BY <1>2, <2>2 DEF HoldsLease, Fenced
    <3>2. PICK q, token : q = NextSeq(w) /\ token = life[w].token
      OBVIOUS
    <3>3. /\ DOMAIN diary'[r] = DOMAIN diary[r] \cup {q}
          /\ \A s \in DOMAIN diary[r] : s # q => diary'[r][s] = diary[r][s]
          /\ diary'[r][q].token = token /\ q \notin DOMAIN diary[r]
      BY <1>2, <2>0, <2>2, <3>2 DEF InsertEvent, WithRow, Taken
    <3> QED BY <3>1, <3>2, <3>3
  <2> QED BY <2>1, <2>2
<1> QED BY <1>1, <1>2, ContextInserts

\* Only the workers that the script spawned and that are not frozen write.
LEMMA HarnessWriters ==
    ASSUME BossOK, HarnessNext
    PROVE  \/ \E w \in boss.alive \ stalled : ContextStep(w)
           \/ UNCHANGED diary
<1>1. ASSUME NEW w \in boss.alive, WorkerStep(w)
      PROVE  w \notin stalled /\ (ContextStep(w) \/ UNCHANGED diary)
  BY <1>1 DEF WorkerStep, Claim, ClaimRun, Start, Step, OpenContext, ReadOnly, Complete,
              Park, Drop
<1>2. (\E w \in boss.alive : WorkerStep(w)) \/ UNCHANGED diary
  BY DEF HarnessNext, ScriptStep, EnqueueJob, Enqueue, EnqueueRun, Drained, TimesOut,
         KillOne, Dies, Crash, Sweeper, Sweep, SweepExpired, Check, Terminate, SeesRunning,
         ReadTokenA, Freeze, Stall, SweepForB, SeesCompleted, ThawA, Thaw, ReadAgain,
         Report, Crew, Beat, Heartbeat, LapseDead, LapseLive, Lapse, Still, vars, tables,
         BossOK
<1> QED BY <1>1, <1>2

LEMMA HarnessKeepsToken ==
    ASSUME FenceSound, BossOK, HarnessNext, NEW r \in Run, NEW t \in Nat,
           \A w \in boss.alive \ stalled :
              life[w].run = r /\ life[w].token = t => runs[r].token # t
    PROVE  EventsWithToken(r, t)' = EventsWithToken(r, t)
<1>1. CASE UNCHANGED diary
  BY <1>1 DEF EventsWithToken
<1>2. ASSUME NEW w \in boss.alive \ stalled, ContextStep(w)
      PROVE  EventsWithToken(r, t)' = EventsWithToken(r, t)
  <2>1. w \in Worker /\ (life[w].run = r /\ life[w].token = t => runs[r].token # t)
    BY DEF BossOK
  <2>2. \/ t = 0
        \/ {s \in DOMAIN diary'[r] : diary'[r][s].token = t} =
           {s \in DOMAIN diary[r] : diary[r][s].token = t}
    BY <1>2, <2>1, TokenKept
  <2> QED BY <2>2 DEF EventsWithToken
<1> QED BY <1>1, <1>2, HarnessWriters

LEMMA HarnessTokens ==
    ASSUME Sound, Sound', BossOK, HarnessNext, NEW r \in Run
    PROVE  runs[r].token <= runs'[r].token
<1>0. runs \in [Run -> RunRow] /\ runs' \in [Run -> RunRow]
  BY DEF Sound, DiaryTypeOK
<1>1. runs[r].token \in Nat /\ runs'[r].token \in Nat
  BY <1>0 DEF RunRow
<1>2. ASSUME NEW w \in boss.alive, WorkerStep(w)
      PROVE  runs[r].token <= runs'[r].token
  <2>1. CASE Claimed(w)
    <3>1. PICK q \in Run : runs' = [runs EXCEPT ![q] = ClaimedRow(@, w)]
      BY <2>1 DEF Claimed
    <3>2. ClaimedRow(runs[q], w).token = runs[q].token + 1
      BY <1>0 DEF ClaimedRow, RunRow
    <3> QED BY <1>0, <1>1, <3>1, <3>2
  <2> QED BY <1>1, <1>2, <2>1, WorkerMoves DEF BossOK
<1>3. CASE ~\E w \in boss.alive : WorkerStep(w)
  BY <1>1, <1>3, OthersKeepRows
<1> QED BY <1>2, <1>3

----------------------------------------------------------------------------
\* The rows that A wrote before its token was read.
WroteA == EventsWithToken(1, boss.tokenA)

Early == {"enqueue", "wait", "token", "freeze", "sleep"}

Watched == {"sleep", "waitB", "readB", "sleep2"}

\* Where run_zombie is, who can write what meanwhile, and what it has read.
ZombiePlace ==
    /\ FenceSound /\ Spent
    /\ boss.at \in Early \cup Watched \cup {"terminate", "check", "done"}
    /\ boss.at \in Early =>
          boss.alive \subseteq {ZombieA} /\
          \A w \in Worker : w # ZombieA => life[w].run = None
    /\ boss.at \in {"sleep", "waitB", "readB"} => ZombieA \in stalled
    /\ boss.at \in Watched \cup {"freeze"} =>
          boss.tokenA \in Nat /\ boss.tokenA <= runs[1].token
    /\ boss.at \in Watched =>
          \A w \in Worker : w # ZombieA /\ life[w].run = 1 => life[w].token > boss.tokenA
    /\ boss.inTime =>
          /\ boss.at \in Watched => boss.before = WroteA
          /\ boss.at \in {"readB", "sleep2", "terminate", "check"} => Completed(1)
          /\ boss.at \in {"sleep2", "terminate", "check", "done"} => boss.afterB = EachOnce
          /\ boss.at \in {"terminate", "check", "done"} =>
                boss.afterThaw = EachOnce /\ boss.after = boss.before
          /\ boss.at = "done" => boss.incomplete = {}

\* What any step leaves to a script that stays where it is.
ZombieHolds ==
    /\ FenceSound' /\ Spent'
    /\ boss.at \in Early => \A w \in Worker : w # ZombieA => life'[w].run = None
    /\ boss.at \in Watched \cup {"freeze"} => boss.tokenA <= runs'[1].token
    /\ boss.at \in Watched =>
          \A w \in Worker : w # ZombieA /\ life'[w].run = 1 => life'[w].token > boss.tokenA
    /\ Completed(1) => Completed(1)'
    /\ boss.at \in Watched /\ boss.inTime /\ boss'.tokenA = boss.tokenA => WroteA' = WroteA

LEMMA ZombieStands ==
    ASSUME Sound, Sound', BossOK, ZombiePlace, HarnessNext
    PROVE  ZombieHolds
<1>0. /\ 1 \in Run /\ runs \in [Run -> RunRow] /\ runs' \in [Run -> RunRow]
      /\ ZombieA \in Worker /\ boss.alive \subseteq Worker
      /\ life' \in [Proc -> LifeRow] /\ life \in [Proc -> LifeRow] /\ Worker \subseteq Proc
      /\ None # 1
  BY OneIsRun, HarnessAssumption, NoneAssumption DEF Sound, DiaryTypeOK, BossOK, Proc
<1>1. FenceSound' /\ Spent'
  BY HarnessFence, HarnessSpent DEF ZombiePlace
<1>2. runs[1].token \in Nat /\ runs'[1].token \in Nat /\ runs[1].token <= runs'[1].token
  BY <1>0, HarnessTokens DEF RunRow
<1>3. Completed(1) => Completed(1)'
  BY <1>0, HarnessCompletes
<1>4. boss.at \in Early => \A w \in Worker : w # ZombieA => life'[w].run = None
  <2>1. ASSUME boss.at \in Early, NEW w \in boss.alive, WorkerStep(w)
        PROVE  \A v \in Worker : v # ZombieA => life'[v].run = None
    BY <1>0, <2>1, WorkerMoves DEF ZombiePlace
  <2>2. ASSUME boss.at \in Early, ~\E w \in boss.alive : WorkerStep(w)
        PROVE  \A v \in Worker : v # ZombieA => life'[v].run = None
    BY <2>2, OthersKeepLives DEF ZombiePlace
  <2> QED BY <2>1, <2>2
<1>5. ASSUME boss.at \in Watched
      PROVE  \A v \in Worker : v # ZombieA /\ life'[v].run = 1 => life'[v].token > boss.tokenA
  <2>0. /\ boss.tokenA \in Nat /\ boss.tokenA <= runs[1].token
        /\ \A v \in Worker : v # ZombieA /\ life[v].run = 1 => life[v].token > boss.tokenA
    BY <1>5 DEF ZombiePlace
  <2>1. ASSUME NEW w \in boss.alive, WorkerStep(w)
        PROVE  \A v \in Worker : v # ZombieA /\ life'[v].run = 1 => life'[v].token > boss.tokenA
    <3>1. \A v \in Worker : v # w => life'[v] = life[v]
      BY <1>0, <2>1, WorkerMoves
    <3>2. CASE Claimed(w)
      <4>1. life'[w].run = 1 => life'[w].token = runs[1].token + 1
        BY <3>2 DEF Claimed
      <4>2. life'[w].run = 1 => life'[w].token > boss.tokenA
        BY <1>2, <2>0, <4>1
      <4> QED BY <2>0, <3>1, <4>2
    <3>3. CASE life'[w].run = None \/ (life'[w].run = life[w].run /\
                                         life'[w].token = life[w].token)
      BY <1>0, <2>0, <3>1, <3>3
    <3> QED BY <1>0, <2>1, <3>2, <3>3, WorkerMoves
  <2>2. CASE ~\E w \in boss.alive : WorkerStep(w)
    BY <1>0, <2>0, <2>2, OthersKeepLives
  <2> QED BY <2>1, <2>2
<1>6. ASSUME boss.at \in Watched, boss.inTime, boss'.tokenA = boss.tokenA
      PROVE  WroteA' = WroteA
  <2>1. PICK t \in Nat : t = boss.tokenA
    BY <1>6 DEF ZombiePlace
  <2>2. ASSUME NEW w \in boss.alive \ stalled, life[w].run = 1, life[w].token = t
        PROVE  runs[1].token # t
    <3>1. CASE w # ZombieA
      BY <1>0, <1>6, <2>1, <2>2, <3>1 DEF ZombiePlace
    <3>2. CASE w = ZombieA
      <4>1. boss.at = "sleep2"
        BY <1>6, <2>2, <3>2 DEF ZombiePlace, Watched
      <4>2. Completed(1) /\ SpentAt(w)
        BY <1>0, <1>6, <3>2, <4>1 DEF ZombiePlace, Spent
      <4> QED BY <1>0, <2>2, <4>2 DEF SpentAt
    <3> QED BY <3>1, <3>2
  <2>3. EventsWithToken(1, t)' = EventsWithToken(1, t)
    BY <1>0, <2>2, HarnessKeepsToken DEF ZombiePlace
  <2> QED BY <1>6, <2>1, <2>3 DEF WroteA, EventsWithToken
<1>7. boss.at \in Watched \cup {"freeze"} => boss.tokenA <= runs'[1].token
  BY <1>2 DEF ZombiePlace
<1> QED BY <1>1, <1>3, <1>4, <1>5, <1>6, <1>7 DEF ZombieHolds

\* The part of the place that is about what has been read, and not about A.
LEMMA ZombieSteps ==
    ASSUME Sound, Sound', BossOK, BossOK', ZombiePlace, boss.script = "zombie",
           Completed(1) => Counters(1) = EachOnce, HarnessNext
    PROVE  ZombiePlace'
<1>0. /\ DOMAIN boss = {"script", "at", "alive", "inTime", "tokenA", "before", "afterB",
                        "afterThaw", "after", "incomplete", "bad"}
      /\ 1 \in Run /\ runs' \in [Run -> RunRow] /\ runs \in [Run -> RunRow]
      /\ None \notin Run
  BY OneIsRun, NoneAssumption DEF BossOK, Boss, Sound, DiaryTypeOK
<1>1. ZombieHolds
  BY ZombieStands
<1>2. runs[1].token \in Nat /\ runs'[1].token \in Nat
  BY <1>0 DEF RunRow
<1> USE DEF ZombieHolds, Early, Watched
<1>3. CASE Crew
  <2>1. UNCHANGED boss /\ UNCHANGED stalled
    BY <1>3, ContextCarries
       DEF Crew, WorkerStep, Claim, Start, Step, Complete, Park, Drop, Beat, LapseDead,
           LapseLive, Lapse
  <2> QED BY <1>1, <2>1 DEF ZombiePlace
<1>4. CASE EnqueueJob
  <2>1. \/ UNCHANGED boss
        \/ boss' = [boss EXCEPT !.at = "wait", !.alive = {ZombieA}]
    BY <1>4 DEF EnqueueJob
  <2>2. boss.at = "enqueue" /\ UNCHANGED stalled
    BY <1>4 DEF EnqueueJob, Enqueue
  <2> QED BY <1>0, <1>1, <2>1, <2>2 DEF ZombiePlace
<1>5. CASE SeesRunning
  <2>1. boss.at = "wait" /\ (boss' = [boss EXCEPT !.at = "token"] \/
                             boss' = [boss EXCEPT !.at = "token", !.inTime = FALSE])
    BY <1>5 DEF SeesRunning, In, To, TimesOut
  <2> QED BY <1>0, <1>1, <2>1 DEF ZombiePlace
<1>6. CASE ReadTokenA
  <2>1. boss.at = "token" /\ boss' = [boss EXCEPT !.at = "freeze", !.tokenA = runs[1].token]
        /\ UNCHANGED runs
    BY <1>6 DEF ReadTokenA, In, Still, vars
  <2> QED BY <1>0, <1>1, <1>2, <2>1 DEF ZombiePlace
<1>7. CASE Freeze
  <2>1. /\ boss.at = "freeze"
        /\ boss' = [boss EXCEPT !.at = "sleep", !.before = WroteA]
        /\ stalled' = stalled \cup {ZombieA} /\ UNCHANGED <<diary, life>>
    BY <1>7 DEF Freeze, In, Stall, WroteA
  <2>2. WroteA' = WroteA
    BY <1>0, <2>1 DEF WroteA, EventsWithToken
  <2>3. \A w \in Worker : w # ZombieA => life'[w].run = None
    BY <1>1, <2>1
  <2> QED BY <1>0, <1>1, <2>1, <2>2, <2>3 DEF ZombiePlace
<1>8. CASE SweepForB
  <2>1. /\ boss.at = "sleep" /\ UNCHANGED stalled
        /\ boss' = [boss EXCEPT !.at = "waitB", !.alive = {ZombieA, ZombieB}]
    BY <1>8 DEF SweepForB, In, Sweep, Still, vars
  <2> QED BY <1>0, <1>1, <2>1 DEF ZombiePlace
<1>9. CASE SeesCompleted
  <2>1. /\ boss.at = "waitB" /\ UNCHANGED stalled
        /\ \/ boss' = [boss EXCEPT !.at = "readB"] /\ Completed(1)
           \/ boss' = [boss EXCEPT !.at = "readB", !.inTime = FALSE]
    BY <1>9 DEF SeesCompleted, In, To, Still, vars, TimesOut, Is, Completed
  <2> QED BY <1>0, <1>1, <2>1 DEF ZombiePlace
<1>10. CASE ThawA
  <2>1. boss.at = "readB" /\ boss' = [boss EXCEPT !.at = "sleep2", !.afterB = Counters(1)]
    BY <1>10 DEF ThawA, In
  <2> QED BY <1>0, <1>1, <2>1 DEF ZombiePlace
<1>11. CASE ReadAgain
  <2>1. /\ boss.at = "sleep2"
        /\ boss' = [boss EXCEPT !.at = "terminate", !.afterThaw = Counters(1),
                                !.after = WroteA]
    BY <1>11 DEF ReadAgain, In, WroteA
  <2> QED BY <1>0, <1>1, <2>1 DEF ZombiePlace
<1>12. CASE Terminate
  <2>1. boss.at = "terminate" /\ boss' = [boss EXCEPT !.at = "check", !.alive = {}]
    BY <1>12 DEF Terminate
  <2> QED BY <1>0, <1>1, <2>1 DEF ZombiePlace
<1>13. CASE Report
  <2>1. /\ boss.at = "check"
        /\ boss' = [boss EXCEPT !.at = "done",
                                !.incomplete = {r \in {1} : ~Completed(r)}]
    BY <1>13 DEF Report, In, Is, Completed
  <2> QED BY <1>0, <1>1, <2>1 DEF ZombiePlace
<1> QED BY <1>3, <1>4, <1>5, <1>6, <1>7, <1>8, <1>9, <1>10, <1>11, <1>12, <1>13
       DEF HarnessNext, ScriptStep, Drained, Check, Sweeper, KillOne, In

ZombieRuns == program = "zombie" => ZombiePlace

LEMMA ZombieRunsNext ==
    ASSUME FleetAgents, ProgramOK, ProgramOK', FleetRuns, ZombieRuns,
           [ProgramsNext]_programsVars
    PROVE  ZombieRuns'
<1>1. UNCHANGED program
  BY ProgramFrame DEF ProgramOK
<1>2. CASE program # "zombie"
  BY <1>1, <1>2 DEF ZombieRuns
<1>3. CASE program = "zombie"
  <2>0. /\ Sound /\ Sound' /\ Fits /\ BossOK /\ BossOK' /\ ZombiePlace
        /\ FleetPlace /\ boss.script = "zombie" /\ 1 \in Run
    BY <1>3, OneIsRun DEF ProgramOK, ScriptsOK, ZombieRuns, FleetRuns, FleetPlace, Fleets
  <2>1. HarnessNext \/ UNCHANGED programsVars
    BY <1>3 DEF ProgramsNext, Browse, Certify, Demonstrate, Mix, GatherCalls, DriveFleet,
                Plays
  <2>2. CASE UNCHANGED programsVars
    BY <1>1, <2>0, <2>2
       DEF ZombieRuns, ZombiePlace, WroteA, EventsWithToken, Completed, FenceSound,
           FleetSound, UniqueHolder, FenceOK, HoldsLease, Fenced, Spent, SpentAt,
           programsVars, vars
  <2>3. CASE HarnessNext
    <3>1. PICK c : c = Bounds[program].code
      OBVIOUS
    <3>2. AllPlayed(c) /\ EndsWell(c) /\ ChargesEach(c)
      BY <1>3, <2>0, <3>1 DEF ProgramOK, PlayOK, FleetAgents, FleetPlace, Fleets
    <3>3. Completed(1) => Counters(1) = EachOnce
      BY <2>0, <3>2, JobCharges DEF FleetPlace
    <3>4. ZombiePlace'
      BY <2>0, <2>3, <3>3, ZombieSteps
    <3> QED BY <3>4 DEF ZombieRuns
  <2> QED BY <2>1, <2>2, <2>3
<1> QED BY <1>2, <1>3

\* The certificate of run_zombie (fleet.py:202-204): the thawed worker adds no
\* event with its old token, and the counters stay at one.  From the moment that
\* token was read, the frozen life is the only one that could write with it;
\* when it thaws, its run is completed, and a completed run has another token
\* than any life that is left.
THEOREM ZombiesCertify ==
    ASSUME FleetAgents
    PROVE  ProgramsSpec => []ZombieCertificate
<1>1. ProgramsInit => FleetRuns /\ ZombieRuns
  <2>1. DOMAIN << >> = {}
    OBVIOUS
  <2>2. ProgramsInit => FleetRuns
    BY <2>1 DEF ProgramsInit, Init, DiaryInit, Boss, FleetRuns, FleetPlace, Fleets, Owns
  <2>3. ASSUME ProgramsInit, program = "zombie" PROVE ZombiePlace
    <3>1. FenceSound
      BY <2>3, FenceInit DEF ProgramsInit
    <3>2. \A w \in Worker : life[w].run = None
      BY <2>3 DEF ProgramsInit, Init, ContextInit, Proc, NoLife
    <3>3. boss.at = "enqueue" /\ boss.alive = {}
      BY <2>3 DEF ProgramsInit, Boss
    <3> QED BY <3>1, <3>2, <3>3 DEF ZombiePlace, Spent, SpentAt, Early, Watched
  <2> QED BY <2>2, <2>3 DEF ZombieRuns
<1>2. ProgramOK /\ ProgramOK' /\ FleetRuns /\ ZombieRuns /\ [ProgramsNext]_programsVars
         => (FleetRuns /\ ZombieRuns)'
  BY FleetRunsNext, ZombieRunsNext
<1>3. FleetRuns /\ ZombieRuns => ZombieCertificate
  BY DEF FleetRuns, FleetPlace, ZombieRuns, ZombiePlace, ZombieCertificate, Fleets
<1> QED BY ProgramsAreSound, <1>1, <1>2, <1>3, PTL DEF ProgramsSpec
=============================================================================

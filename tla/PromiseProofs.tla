---------------------------- MODULE PromiseProofs ----------------------------
(***************************************************************************)
(* What the fleet promises over a run's whole history: rows and finished    *)
(* diaries stand, children keep their parents' steps, and a worker pays     *)
(* only for what its run has not recorded.                                 *)
(***************************************************************************)
EXTENDS FleetProofs

LEMMA NextAdds ==
    ASSUME Sound, Fits, [Next]_vars
    PROVE  Adds(Code)
<1>1. ASSUME NEW w \in Worker, Step(w) PROVE Adds(Code)
  BY <1>1, ContextAddsSome DEF Step, Proc
<1>2. ASSUME NEW h \in Human, Grant(h) \/ GranterStops(h) PROVE Adds(Code)
  BY <1>2, GrantAdds, AddsMore DEF Grant, GranterStops
<1>3. CASE Branch
  BY <1>3 DEF Branch, Adds
<1>4. \/ \E w \in Worker : Step(w)
      \/ \E h \in Human : Grant(h) \/ GranterStops(h)
      \/ Branch
      \/ UNCHANGED diary
  BY DEF Next, vars, WorkerStep, Enqueue, EnqueueRun, LapseDead, LapseLive,
         Lapse, Claim, ClaimRun, Start, OpenContext, ReadOnly, Complete, Park,
         Drop, Dies, Crash, Fails, Raise, Stall, Thaw, Beat, Heartbeat, Sweep,
         SweepExpired
<1> QED BY <1>1, <1>2, <1>3, <1>4 DEF Adds

\* Rows are never changed, moved or followed by anything once every version of
\* the agent returns on them: neither append_event nor grant_approval nor a
\* late life of _perform_once adds to a finished run.
THEOREM FinishedStands == Spec => HistoryStands
<1>1. FleetSound /\ Fits /\ (FleetSound /\ Fits)' /\ [Next]_vars =>
          [\A r \in Run :
              /\ Prefix(ReadEvents(r), ReadEvents(r)')
              /\ Exists(r) /\ Finished(r) => diary'[r] = diary[r]]_tables
  BY NextAdds, AddsStand DEF FleetSound
<1> QED BY FleetFits, <1>1, PTL DEF Spec, HistoryStands

----------------------------------------------------------------------------
(* Parents and children                                                    *)

LEMMA NextKin ==
    ASSUME Sound, [Next]_vars
    PROVE  SameKin \/ Branch
<1>0. runs \in [Run -> RunRow] /\ \A w \in Worker : w \in Proc
  BY DEF Sound, DiaryTypeOK, Proc
<1>1. ASSUME NEW r \in Run, NEW row, runs' = [runs EXCEPT ![r] = row],
             row.parent = runs[r].parent, row.forkSeq = runs[r].forkSeq
      PROVE  SameKin
  BY <1>0, <1>1 DEF SameKin
<1>2. ASSUME UNCHANGED runs PROVE SameKin
  BY <1>2 DEF SameKin
<1>3. ASSUME NEW w \in Worker, NEW r \in Run, Claim(w, r) PROVE SameKin
  <2>1. PICK row : row = ClaimedRow(runs[r], w)
    OBVIOUS
  <2>2. row.parent = runs[r].parent /\ row.forkSeq = runs[r].forkSeq
    BY <1>0, <2>1 DEF ClaimedRow, RunRow
  <2>3. runs' = [runs EXCEPT ![r] = row]
    BY <1>3, <2>1 DEF Claim, ClaimRun
  <2> QED BY <1>1, <2>2, <2>3
<1>4. ASSUME NEW w \in Worker, Step(w) PROVE SameKin
  BY <1>0, <1>2, <1>4, ContextCarries DEF Step, CarriesOn
<1>5. ASSUME NEW w \in Worker, Complete(w) PROVE SameKin
  BY <1>0, <1>5 DEF Complete, SameKin, RunRow
<1>6. ASSUME NEW w \in Worker, Park(w) PROVE SameKin
  <2>1. PICK r \in Run : r = life[w].run
    BY <1>0, <1>6 DEF Sound, LifeOK, Park
  <2>2. PICK row : row = ParkedRow(runs[r], ParkAs(w))
    OBVIOUS
  <2>3. row.parent = runs[r].parent /\ row.forkSeq = runs[r].forkSeq
    BY <1>0, <2>2 DEF ParkedRow, RunRow
  <2>4. UNCHANGED runs \/ runs' = [runs EXCEPT ![r] = row]
    BY <1>6, <2>1, <2>2 DEF Park
  <2> QED BY <1>1, <1>2, <2>3, <2>4
<1>7. ASSUME NEW w \in Worker,
             \/ Start(w) \/ Drop(w) \/ Dies(w) \/ Fails(w) \/ Stall(w) \/ Thaw(w)
      PROVE  SameKin
  BY <1>2, <1>7 DEF Start, OpenContext, Drop, Dies, Crash, Fails, Raise, Stall,
                    Thaw, ReadOnly
<1>8. ASSUME NEW r \in Run, Enqueue(r) \/ Lapse(r)
                            \/ \E w \in Worker : Beat(w, r)
      PROVE  SameKin
  BY <1>0, <1>8 DEF Enqueue, EnqueueRun, Lapse, Beat, Heartbeat, SameKin, RunRow
<1>9. CASE Sweep
  <2>1. \A r \in Run : /\ SweptRow(runs[r]).parent = runs[r].parent
                       /\ SweptRow(runs[r]).forkSeq = runs[r].forkSeq
    BY <1>0 DEF SweptRow, RunRow
  <2> QED BY <1>9, <2>1 DEF Sweep, SweepExpired, SameKin
<1>10. ASSUME NEW h \in Human, Grant(h) \/ GranterStops(h) PROVE SameKin
  BY <1>0, <1>10 DEF Grant, GrantStep, GrantRead, GrantAppend, GrantRequeue,
                     SetRunStatus, GranterStops, GrantStops, SameKin, RunRow
<1>11. CASE UNCHANGED vars
  BY <1>2, <1>11 DEF vars
<1> QED BY <1>3, <1>4, <1>5, <1>6, <1>7, <1>8, <1>9, <1>10, <1>11
       DEF Next, WorkerStep, LapseDead, LapseLive

\* A child keeps the steps that fork_run copied, whatever is appended to its
\* parent and to itself later, and its patch comes right after them.
THEOREM ChildrenShare == Spec => []ForkSharesPrefix
<1>1. Init => ForkSharesPrefix
  BY DEF Init, DiaryInit, AbsentRow, ForkSharesPrefix
<1>2. FleetSound /\ Fits /\ (FleetSound /\ Fits)' /\ ForkSharesPrefix /\ [Next]_vars
          => ForkSharesPrefix'
  <2> SUFFICES ASSUME FleetSound, Fits, FleetSound', ForkSharesPrefix, [Next]_vars
               PROVE  ForkSharesPrefix'
    OBVIOUS
  <2>1. Sound /\ Sound'
    BY DEF FleetSound
  <2>2. CASE Branch
    BY <2>1, <2>2, ForkShares DEF Branch
  <2>3. CASE SameKin
    BY <2>1, <2>3, NextAdds, AddsKeep, KinShare
  <2> QED BY <2>1, <2>2, <2>3, NextKin
<1> QED BY FleetFits, <1>1, <1>2, PTL DEF Spec
----------------------------------------------------------------------------
(* Recorded steps are free                                                 *)

\* Of what a life has in its snapshot and what it has seen, the longer is the
\* whole diary, but for a decision that came after a question.
Covered(rows, n, m) ==
    \E t \in {n, m} :
        /\ t >= n /\ t >= m
        /\ \/ DOMAIN rows = 1 .. t
           \/ t \in DOMAIN rows /\ rows[t].event.type = "APPROVAL_REQUESTED"

\* A life that still has the run knows all there is to know of it, and calls
\* the model when it has seen all it knows.
UpToDate(w) ==
    LET n == Len(life[w].seen)
        m == Len(life[w].history)
    IN  /\ pc[w] \in Walking /\ ~Stale(w) => Covered(diary[life[w].run], n, m)
        /\ pc[w] = "called" => n >= m

\* Where it calls the model, acts or records a call, the diary ends at its
\* cursor.
LEMMA CoveredEnds ==
    ASSUME FleetSound, Fits, NEW w \in Worker, UpToDate(w), ~Stale(w),
           pc[w] \in {"agent", "called", "acting", "tx"}, ~Replaying(w)
    PROVE  DOMAIN diary[life[w].run] = 1 .. Len(life[w].seen)
<1>1. /\ w \in Proc /\ life[w] \in LifeRow /\ LifeOK(w) /\ life[w].run \in Run
      /\ CursorAt(pc[w], life[w])
  BY DEF FleetSound, Sound, LifeOK, Proc, Fits, CursorOK
<1>2. PICK r, s, n, m : /\ r = life[w].run /\ s = life[w].seen
                        /\ n = Len(life[w].seen) /\ m = Len(life[w].history)
  OBVIOUS
<1>3. n \in Nat /\ m \in Nat /\ n >= m /\ Covered(diary[r], n, m) /\ Walked(s, r)
  BY <1>1, <1>2 DEF LifeRow, Replaying, UpToDate, LifeOK, Walking
<1>4. ~(n \in DOMAIN diary[r] /\ diary[r][n].event.type = "APPROVAL_REQUESTED")
  <2>1. n \in DOMAIN diary[r] => n > 0
    BY <1>1, <1>2 DEF FleetSound, Sound, DiaryTypeOK
  <2>2. n > 0 => n \in 1 .. n
    BY <1>3
  <2>3. n > 0 => diary[r][n].event = s[n]
    BY <1>2, <1>3, <2>2 DEF Walked
  <2>4. n > 0 => s[n].type # "APPROVAL_REQUESTED"
    BY <1>1, <1>2 DEF CursorAt
  <2> QED BY <2>1, <2>3, <2>4
<1>5. DOMAIN diary[r] = 1 .. n
  BY <1>3, <1>4 DEF Covered
<1> QED BY <1>2, <1>5

LEMMA UpToDatePays ==
    ASSUME FleetSound, Fits, \A w \in Worker : UpToDate(w) /\ FenceOK(w)
    PROVE  PaysOnlyForNewSteps
<1> SUFFICES ASSUME NEW w \in Worker, pc[w] \in {"called", "tx"}, ~Stale(w)
             PROVE  Len(life[w].seen) = Last(life[w].run)
  BY DEF PaysOnlyForNewSteps
<1>1. /\ w \in Proc /\ life[w] \in LifeRow /\ CursorAt(pc[w], life[w])
  BY DEF FleetSound, Sound, Proc, Fits, CursorOK
<1>2. Len(life[w].seen) \in Nat /\ Len(life[w].history) \in Nat /\ ~Replaying(w)
  BY <1>1 DEF LifeRow, CursorAt, UpToDate, Replaying
<1>3. PICK n, r : n = Len(life[w].seen) /\ r = life[w].run
  OBVIOUS
<1>4. n \in Nat /\ DOMAIN diary[r] = 1 .. n
  BY <1>2, <1>3, CoveredEnds
<1>5. Cardinality(1 .. n) = n
  BY <1>4, FS_Interval, 1 \in Int, n \in Int
<1> QED BY <1>3, <1>4, <1>5 DEF Last

\* A worker that stands still while nobody else adds to the run it has.
LEMMA StandingUpToDate ==
    ASSUME FleetSound, NEW w \in Worker, UpToDate(w), StandsStill(w),
           NEW r, r = life[w].run,
           r \in Run /\ ~Stale(w) =>
              /\ diary'[r] = diary[r]
              /\ runs'[r].token = runs[r].token,
           r \in Run /\ Stale(w) => runs'[r].token # life[w].token
    PROVE  UpToDate(w)'
<1>1. w \in Proc /\ LifeOK(w)
  BY DEF FleetSound, Sound, Proc
<1>2. life'[w] = life[w] /\ pc'[w] = pc[w]
  BY DEF StandsStill
<1>3. CASE r \notin Run
  <2>1. pc[w] = "idle"
    BY <1>1, <1>3 DEF LifeOK
  <2> QED BY <1>2, <2>1 DEF UpToDate, Walking
<1>4. CASE r \in Run
  <2>1. Stale(w) => Stale(w)'
    BY <1>2, <1>4, NoneAssumption DEF Stale
  <2>2. ~Stale(w) /\ pc[w] \in Walking =>
            Covered(diary[r], Len(life[w].seen), Len(life[w].history))
    BY DEF UpToDate
  <2>3. ~Stale(w) => diary'[r] = diary[r]
    BY <1>4
  <2>4. pc[w] = "called" => Len(life[w].seen) >= Len(life[w].history)
    BY DEF UpToDate
  <2>5. ~Stale(w) /\ pc[w] \in Walking =>
            Covered(diary'[r], Len(life[w].seen), Len(life[w].history))
    BY <2>2, <2>3
  <2> QED BY <1>2, <2>1, <2>4, <2>5 DEF UpToDate
<1> QED BY <1>3, <1>4
AllUpToDate == \A w \in Worker : UpToDate(w)

\* What a worker adds, it adds to no run that another holds.
LEMMA OthersStand ==
    ASSUME FenceSound, Fits, NEW v \in Worker, ContextStep(v), pc[v] # "idle",
           NEW w \in Worker, w # v, NEW q \in Run, q = life[w].run, ~Stale(w)
    PROVE  diary'[q] = diary[q]
<1>0. /\ v \in Proc /\ Sound /\ FenceOK(v) /\ UniqueHolder
      /\ LifeOK(v) /\ life[v] \in LifeRow
  BY DEF FenceSound, FleetSound, Sound, Proc
<1>1. CarriesOn(v) /\ SeesOn(v)
  BY <1>0, ContextCarries, ContextSeesOn
<1>2. PICK r \in Run : r = life[v].run
  BY <1>0 DEF LifeOK
<1>3. CASE q # r
  BY <1>1, <1>2, <1>3 DEF SeesOn
<1>4. CASE q = r
  <2>1. runs[r].token = life[w].token
    BY <1>4, NoneAssumption DEF Stale
  <2>2. life[v].token # life[w].token
    BY <1>0, <1>2, <1>4, NoneAssumption DEF UniqueHolder
  <2>3. life[v].token > 0
    BY <1>0, <1>2, NoneAssumption DEF FenceOK
  <2>4. ~HoldsLease(v)
    BY <1>0, <1>2, <2>1, <2>2, <2>3 DEF HoldsLease, Fenced, LifeRow
  <2>5. UNCHANGED tables
    BY <1>0, <1>1, <2>4 DEF CarriesOn, FenceOK
  <2> QED BY <2>5 DEF tables
<1> QED BY <1>3, <1>4

\* A worker that carries on, and what the others know of its run.
LEMMA StepUpToDate ==
    ASSUME FenceSound, Fits, AllUpToDate, NEW v \in Worker, ContextStep(v)
    PROVE  AllUpToDate'
<1>0. /\ v \in Proc /\ FleetSound /\ Sound /\ FenceOK(v) /\ UniqueHolder
      /\ LifeOK(v) /\ life[v] \in LifeRow
  BY DEF FenceSound, FleetSound, Sound, Proc
<1>1. CarriesOn(v) /\ SeesOn(v)
  BY <1>0, ContextCarries, ContextSeesOn
<1>2. PICK r, n, m : /\ r = life[v].run
                     /\ n = Len(life[v].seen) /\ m = Len(life[v].history)
  OBVIOUS
<1>3. pc[v] # "idle" /\ r \in Run /\ n \in Nat /\ m \in Nat
  <2>1. pc[v] # "idle"
    BY DEF ContextStep, ApplyPatch, ReplayLlm, CallModel, RecordLlm, ReplayIntent,
           RecordIntent, ReplayCompleted, BeginEffect, CommitEffect, ReplayRequest,
           RecordRequest, ReplayDecision, Pause, Return, RaiseOwn, Asks
  <2> QED BY <1>0, <1>2, <2>1 DEF LifeOK, LifeRow
<1>4. pc[v] \in Walking
  BY DEF ContextStep, ApplyPatch, ReplayLlm, CallModel, RecordLlm, ReplayIntent,
         RecordIntent, ReplayCompleted, BeginEffect, CommitEffect, ReplayRequest,
         RecordRequest, ReplayDecision, Pause, Return, RaiseOwn, Asks, Walking
<1>5. UpToDate(v)'
  <2>1. PICK k : k = Len(life'[v].seen)
    OBVIOUS
  <2>2. /\ life'[v].run = r /\ Len(life'[v].history) = m
        /\ life'[v].token = life[v].token /\ runs' = runs
    BY <1>1, <1>2 DEF SeesOn, CarriesOn
  <2>3. ~Stale(v)' => Covered(diary[r], n, m)
    BY <1>2, <1>4, <2>2 DEF Stale, AllUpToDate, UpToDate
  <2>4. \/ UNCHANGED diary /\ k = n /\ (pc'[v] = "called" => n >= m)
        \/ UNCHANGED diary /\ n < m /\ k = n + 1 /\ pc'[v] # "called"
        \/ /\ n >= m /\ k = n + 1 /\ DOMAIN diary'[r] = 1 .. n + 1
           /\ pc'[v] # "called"
    BY <1>1, <1>2, <2>1 DEF SeesOn
  <2>5. ~Stale(v)' => Covered(diary'[r], k, m)
    <3>1. CASE UNCHANGED diary /\ k = n
      BY <2>3, <3>1
    <3>2. CASE UNCHANGED diary /\ n < m /\ k = n + 1
      BY <1>3, <2>3, <3>2 DEF Covered
    <3>3. CASE n >= m /\ k = n + 1 /\ DOMAIN diary'[r] = 1 .. n + 1
      BY <1>3, <3>3 DEF Covered
    <3> QED BY <2>4, <3>1, <3>2, <3>3
  <2>6. pc'[v] = "called" => k >= m
    BY <1>3, <2>4
  <2> QED BY <2>1, <2>2, <2>5, <2>6 DEF UpToDate
<1>6. ASSUME NEW w \in Worker, w # v PROVE UpToDate(w)'
  <2>1. w \in Proc /\ FenceOK(w) /\ StandsStill(w) /\ UNCHANGED runs
    BY <1>1, <1>6 DEF FenceSound, Proc, CarriesOn, StandsStill
  <2>2. PICK q : q = life[w].run
    OBVIOUS
  <2>3. q \in Run /\ ~Stale(w) => diary'[q] = diary[q]
    BY <1>3, <1>6, <2>2, OthersStand
  <2>4. q \in Run /\ Stale(w) => runs'[q].token # life[w].token
    BY <2>1, <2>2 DEF Stale
  <2> QED BY <1>0, <2>1, <2>2, <2>3, <2>4, StandingUpToDate DEF AllUpToDate
<1> QED BY <1>5, <1>6 DEF AllUpToDate

\* All that happens to a run without a step of its worker.
LEMMA TablesUpToDate ==
    ASSUME FenceSound, AllUpToDate, NEW w \in Worker, StandsStill(w), SameTokens,
           \A r \in Run : Exists(r) => diary'[r] = diary[r]
    PROVE  UpToDate(w)'
<1>1. FleetSound /\ w \in Proc /\ LifeOK(w)
  BY DEF FenceSound, FleetSound, Sound, Proc
<1>2. PICK r : r = life[w].run
  OBVIOUS
<1>3. r \in Run => Exists(r)
  BY <1>1, <1>2 DEF LifeOK
<1> QED BY <1>1, <1>2, <1>3, StandingUpToDate DEF AllUpToDate, SameTokens, Stale

\* A decision: what the lives of the run know ends on its question, or had it
\* before.
LEMMA GrantUpToDate ==
    ASSUME FenceSound, Fits, AllUpToDate, NEW h \in Human, GrantAppend(h),
           UNCHANGED <<pc, life>>
    PROVE  AllUpToDate'
<1>0. /\ FleetSound /\ Sound /\ SameTokens
      /\ \A w \in Worker : StandsStill(w)
  BY DEF FenceSound, FleetSound, GrantAppend, SameTokens, StandsStill
<1>1. /\ grant[h] \in GrantRow /\ grant[h].at = "read"
      /\ GrantOK(h) /\ AnswerOK(h)
  BY <1>0 DEF GrantAppend, Sound, ApprovalTypeOK, Fits
<1>2. PICK r \in Run, seq \in Nat \ {0} : r = grant[h].run /\ seq = grant[h].seq
  BY <1>1 DEF GrantOK, GrantRow
<1>3. CASE Taken(r, seq)
  BY <1>0, <1>2, <1>3, TablesUpToDate DEF GrantAppend, AllUpToDate
<1>4. CASE ~Taken(r, seq)
  <2>1. PICK n \in Nat : n = seq - 1
    BY <1>2
  <2>2. /\ \A i \in 1 .. n : i \in DOMAIN diary[r]
        /\ n \in DOMAIN diary[r] /\ Ev(r, n).type = "APPROVAL_REQUESTED"
        /\ seq = n + 1
    BY <1>1, <1>2, <2>1 DEF GrantOK, AnswerOK
  <2>3. PICK approved \in {"yes", "no"} :
            InsertEvent(r, seq, DecisionEvent(approved), 0)
    BY <1>2, <1>4 DEF GrantAppend
  <2>4. PICK e \in Event : e = DecisionEvent(approved)
    BY DEF DecisionEvent, Event, EventType
  <2>5. Appends(r, n, e)
    BY <1>0, <1>4, <2>2, <2>3, <2>4, InsertAppends DEF GrantAppend
  <2>6. ASSUME NEW w \in Worker PROVE UpToDate(w)'
    <3>1. UpToDate(w) /\ life'[w] = life[w] /\ pc'[w] = pc[w]
      BY DEF AllUpToDate
    <3>2. CASE life[w].run # r
      <4>1. PICK q : q = life[w].run
        OBVIOUS
      <4>2. q \in Run => diary'[q] = diary[q]
        BY <2>5, <3>2, <4>1 DEF Appends
      <4> QED BY <1>0, <3>1, <4>1, <4>2, StandingUpToDate DEF SameTokens, Stale
    <3>3. CASE life[w].run = r
      <4>1. PICK k, m : k = Len(life[w].seen) /\ m = Len(life[w].history)
        OBVIOUS
      <4>2. Stale(w)' <=> Stale(w)
        BY <1>0, <3>1, <3>3 DEF Stale, SameTokens
      <4>3. Covered(diary[r], k, m) => Covered(diary'[r], k, m)
        <5>1. SUFFICES ASSUME NEW t \in {k, m}, t >= k, t >= m,
                              \/ DOMAIN diary[r] = 1 .. t
                              \/ /\ t \in DOMAIN diary[r]
                                 /\ diary[r][t].event.type = "APPROVAL_REQUESTED"
                       PROVE  /\ t \in DOMAIN diary'[r]
                              /\ diary'[r][t].event.type = "APPROVAL_REQUESTED"
          BY DEF Covered
        <5>2. k \in Nat /\ m \in Nat
          BY <1>0, <4>1 DEF Sound, LifeRow, Proc
        <5>3. DOMAIN diary[r] = 1 .. n /\ n \in 1 .. n
          BY <2>2, <2>5 DEF Appends
        <5>4. DOMAIN diary[r] = 1 .. t => t = n
          <6>1. ASSUME 1 .. t = 1 .. n PROVE t = n
            <7>1. n \in 1 .. t
              BY <5>3, <6>1
            <7>2. t \in 1 .. t
              BY <5>2, <7>1
            <7> QED BY <5>2, <6>1, <7>1, <7>2
          <6> QED BY <5>3, <6>1
        <5>5. t \in 1 .. n /\ diary[r][t].event.type = "APPROVAL_REQUESTED"
          BY <2>2, <5>1, <5>3, <5>4 DEF Ev
        <5> QED BY <2>5, <5>5 DEF Appends
      <4>4. pc[w] \in Walking /\ ~Stale(w) => Covered(diary[r], k, m)
        BY <3>1, <3>3, <4>1 DEF UpToDate
      <4>5. pc[w] = "called" => k >= m
        BY <3>1, <4>1 DEF UpToDate
      <4>6. pc[w] \in Walking /\ ~Stale(w)' => Covered(diary'[r], k, m)
        BY <4>2, <4>3, <4>4
      <4> QED BY <3>1, <3>3, <4>1, <4>5, <4>6 DEF UpToDate
    <3> QED BY <3>2, <3>3
  <2> QED BY <2>6 DEF AllUpToDate
<1> QED BY <1>3, <1>4
LEMMA WorkerUpToDate ==
    ASSUME FenceSound, Fits, AllUpToDate,
           NEW v \in Worker, WorkerStep(v) \/ Dies(v) \/ Fails(v)
    PROVE  AllUpToDate'
<1>0. /\ v \in Proc /\ FleetSound /\ Sound /\ pc \in [Proc -> PC]
      /\ life \in [Proc -> LifeRow] /\ life[v] \in LifeRow
      /\ runs \in [Run -> RunRow] /\ LifeOK(v)
      /\ \A w \in Worker : w \in Proc
  BY DEF FenceSound, FleetSound, Sound, DiaryTypeOK, Proc
<1>1. ASSUME NEW l \in PC \ Walking, pc' = [pc EXCEPT ![v] = l],
             \A w \in Worker : w # v => life'[w] = life[w],
             UNCHANGED diary, SameTokens
      PROVE  AllUpToDate'
  <2>1. pc'[v] \notin Walking /\ pc'[v] # "called"
    BY <1>0, <1>1 DEF Walking
  <2>2. UpToDate(v)'
    BY <2>1 DEF UpToDate
  <2>3. ASSUME NEW w \in Worker, w # v PROVE UpToDate(w)'
    <3>1. StandsStill(w)
      BY <1>1, <2>3 DEF StandsStill
    <3> QED BY <1>1, <3>1, TablesUpToDate
  <2> QED BY <2>2, <2>3 DEF AllUpToDate
<1>2. ASSUME NEW r \in Run, Claim(v, r) PROVE AllUpToDate'
  <2>1. /\ pc'[v] = "claimed" /\ UNCHANGED diary
        /\ \A w \in Worker : w # v => StandsStill(w)
        /\ runs'[r].token = runs[r].token + 1
        /\ \A q \in Run : q # r => runs'[q] = runs[q]
    <3>1. /\ pc'[v] = "claimed" /\ UNCHANGED diary
          /\ \A w \in Worker : w # v => StandsStill(w)
      BY <1>0, <1>2 DEF Claim, ClaimRun, Goto, StandsStill
    <3>2. PICK row : row = ClaimedRow(runs[r], v)
      OBVIOUS
    <3>3. row.token = runs[r].token + 1
      BY <1>0, <3>2 DEF ClaimedRow, RunRow
    <3>4. runs' = [runs EXCEPT ![r] = row]
      BY <1>2, <3>2 DEF Claim, ClaimRun
    <3> QED BY <1>0, <3>1, <3>3, <3>4
  <2>2. UpToDate(v)'
    BY <2>1 DEF UpToDate, Walking
  <2>3. ASSUME NEW w \in Worker, w # v PROVE UpToDate(w)'
    <3>1. PICK q : q = life[w].run
      OBVIOUS
    <3>2. CASE q # r
      <4>1. q \in Run => diary'[q] = diary[q] /\ runs'[q].token = runs[q].token
        BY <2>1, <3>2
      <4> QED BY <1>0, <2>1, <2>3, <3>1, <4>1, StandingUpToDate
             DEF AllUpToDate, Stale
    <3>3. CASE q = r
      <4>1. life[w].token <= runs[r].token /\ life[w].token \in Nat
            /\ runs[r].token \in Nat
        <5>1. FenceOK(w) /\ life[w] \in LifeRow /\ runs[r] \in RunRow
          BY <1>0 DEF FenceSound
        <5> QED BY <3>1, <3>3, <5>1, NoneAssumption DEF FenceOK, LifeRow, RunRow
      <4>2. runs'[r].token # life[w].token
        BY <2>1, <4>1
      <4>3. life'[w] = life[w] /\ pc'[w] = pc[w]
        BY <2>1, <2>3 DEF StandsStill
      <4>4. Stale(w)'
        BY <3>1, <3>3, <4>2, <4>3, NoneAssumption DEF Stale
      <4> QED BY <4>3, <4>4 DEF UpToDate, AllUpToDate
    <3> QED BY <3>2, <3>3
  <2> QED BY <2>2, <2>3 DEF AllUpToDate
<1>3. CASE Start(v)
  <2>1. PICK c \in Code : OpenContext(v, c)
    BY <1>3 DEF Start
  <2>2. PICK r \in Run : r = life[v].run
    BY <1>0, <1>3 DEF Start, LifeOK
  <2>3. PICK n \in Nat : DOMAIN diary[r] = 1 .. n
    BY <1>0 DEF Sound, DenseDiary
  <2>4. PICK s : s = ReadEvents(r)
    OBVIOUS
  <2>5. Len(s) = n
    BY <1>0, <2>3, <2>4, ReadSound
  <2>6. /\ life'[v].run = r /\ life'[v].history = s /\ life'[v].seen = << >>
        /\ pc'[v] = "agent" /\ UNCHANGED <<runs, diary>>
        /\ \A w \in Worker : w # v => StandsStill(w)
    BY <1>0, <2>1, <2>2, <2>4
       DEF OpenContext, Goto, ReadOnly, LifeRow, StandsStill
  <2>7. Covered(diary[r], 0, n)
    BY <2>3 DEF Covered
  <2>8. UpToDate(v)'
    BY <2>5, <2>6, <2>7 DEF UpToDate
  <2>9. ASSUME NEW w \in Worker, w # v PROVE UpToDate(w)'
    BY <2>6, <2>9, TablesUpToDate DEF SameTokens
  <2> QED BY <2>8, <2>9 DEF AllUpToDate
<1>4. CASE Step(v)
  BY <1>4, StepUpToDate DEF Step
<1>5. CASE Complete(v)
  <2>1. SameTokens
    BY <1>0, <1>5 DEF Complete, SameTokens, RunRow
  <2> QED BY <1>0, <1>1, <1>5, <2>1 DEF Complete, Leave, Goto, PC, Walking
<1>6. CASE Park(v)
  <2>1. PICK r \in Run : r = life[v].run
    BY <1>0, <1>6 DEF Park, LifeOK
  <2>2. PICK row : row = ParkedRow(runs[r], ParkAs(v))
    OBVIOUS
  <2>3. row.token = runs[r].token
    BY <1>0, <2>2 DEF ParkedRow, RunRow
  <2>4. UNCHANGED runs \/ runs' = [runs EXCEPT ![r] = row]
    BY <1>6, <2>1, <2>2 DEF Park
  <2>5. SameTokens
    BY <1>0, <2>3, <2>4 DEF SameTokens
  <2> QED BY <1>0, <1>1, <1>6, <2>5 DEF Park, Leave, Goto, PC, Walking
<1>7. CASE Drop(v) \/ Dies(v)
  <2>1. SameTokens /\ UNCHANGED diary /\ Leave(v, "idle")
    BY <1>7 DEF Drop, Dies, Crash, ReadOnly, SameTokens
  <2> QED BY <1>0, <1>1, <2>1 DEF Leave, Goto, PC, Walking
<1>8. CASE Fails(v)
  <2>1. SameTokens /\ UNCHANGED <<diary, life>> /\ Goto(v, "raised")
    BY <1>8 DEF Fails, Raise, SameTokens
  <2> QED BY <1>1, <2>1 DEF Goto, PC, Walking
<1> QED BY <1>2, <1>3, <1>4, <1>5, <1>6, <1>7, <1>8 DEF WorkerStep

LEMMA NextUpToDate ==
    ASSUME FenceSound, Fits, AllUpToDate, [Next]_vars
    PROVE  AllUpToDate'
<1>0. FleetSound /\ Sound /\ runs \in [Run -> RunRow]
  BY DEF FenceSound, FleetSound, Sound, DiaryTypeOK
<1>1. ASSUME NEW v \in Worker, WorkerStep(v) \/ Dies(v) \/ Fails(v)
      PROVE  AllUpToDate'
  BY <1>1, WorkerUpToDate
<1>2. ASSUME UNCHANGED <<diary, pc, life>>, SameTokens PROVE AllUpToDate'
  BY <1>2, TablesUpToDate DEF AllUpToDate, StandsStill
<1>3. ASSUME NEW r \in Run, Enqueue(r) \/ Lapse(r)
                            \/ \E w \in Worker : Beat(w, r)
      PROVE  AllUpToDate'
  <2>1. SameTokens
    BY <1>0, <1>3 DEF Enqueue, EnqueueRun, Lapse, Beat, Heartbeat, SameTokens,
                      RunRow
  <2> QED BY <1>2, <1>3, <2>1 DEF Enqueue, EnqueueRun, Lapse, Beat, Heartbeat
<1>4. CASE Sweep
  <2>1. \A r \in Run : SweptRow(runs[r]).token = runs[r].token
    BY <1>0 DEF SweptRow, RunRow
  <2>2. SameTokens
    BY <1>4, <2>1 DEF Sweep, SweepExpired, SameTokens
  <2> QED BY <1>2, <1>4, <2>2 DEF Sweep, SweepExpired
<1>5. ASSUME NEW h \in Human, GrantAppend(h), UNCHANGED <<pc, life>>
      PROVE  AllUpToDate'
  BY <1>5, GrantUpToDate
<1>6. ASSUME NEW h \in Human, UNCHANGED <<pc, life>>,
             \/ \E r \in Run : GrantRead(h, r)
             \/ GrantRequeue(h) \/ GrantStops(h)
      PROVE  AllUpToDate'
  <2>1. UNCHANGED diary /\ SameTokens
    BY <1>0, <1>6 DEF GrantRead, GrantRequeue, SetRunStatus, GrantStops,
                      SameTokens, RunRow
  <2> QED BY <1>2, <1>6, <2>1
<1>7. CASE Branch
  <2>1. SameTokens /\ UNCHANGED <<pc, life>>
    BY <1>0, <1>7, BranchTokens DEF Branch
  <2>2. \A r \in Run : Exists(r) => diary'[r] = diary[r]
    BY <1>0, <1>7, ForkKeeps DEF Branch
  <2> QED BY <2>1, <2>2, TablesUpToDate DEF AllUpToDate, StandsStill
<1>8. ASSUME (\E w \in Worker : Stall(w) \/ Thaw(w)) \/ UNCHANGED vars
      PROVE  AllUpToDate'
  <2>1. UNCHANGED <<diary, pc, life>> /\ SameTokens
    BY <1>8 DEF Stall, Thaw, vars, SameTokens
  <2> QED BY <1>2, <2>1
<1> QED BY <1>1, <1>3, <1>4, <1>5, <1>6, <1>7, <1>8
       DEF Next, LapseDead, LapseLive, Grant, GrantStep, GranterStops

\* A worker that holds the newest token calls the model, or opens the effect
\* transaction, only past the last recorded event: a step that the diary holds
\* is replayed, whoever recorded it and whenever the snapshot was taken.
THEOREM NewStepsOnly == Spec => []PaysOnlyForNewSteps
<1>1. Init => AllUpToDate
  BY DEF Init, ContextInit, AllUpToDate, UpToDate, Walking, Proc
<1>2. FenceSound /\ FleetSound /\ Fits /\ AllUpToDate /\ [Next]_vars => AllUpToDate'
  BY NextUpToDate
<1>3. FenceSound /\ FleetSound /\ Fits /\ AllUpToDate => PaysOnlyForNewSteps
  BY UpToDatePays DEF FenceSound, AllUpToDate
<1> QED BY FenceIsSound, FleetFits, <1>1, <1>2, <1>3, PTL DEF Spec

----------------------------------------------------------------------------
(* One version of the code                                                 *)

LEMMA NextPlays ==
    ASSUME Sound, Fits, NEW c, RunsOnly(c), AllPlayed(c), [Next]_vars
    PROVE  AllPlayed(c)'
<1>1. ASSUME NEW w \in Worker, Step(w) PROVE AllPlayed(c)'
  BY <1>1, ContextPlays DEF Step, Proc
<1>2. ASSUME NEW h \in Human, Grant(h) \/ GranterStops(h) PROVE AllPlayed(c)'
  BY <1>2, GrantPlays DEF Grant, GranterStops
<1>3. CASE Branch
  BY <1>3, ForkPlays DEF Branch
<1>4. \/ \E w \in Worker : Step(w)
      \/ \E h \in Human : Grant(h) \/ GranterStops(h)
      \/ Branch
      \/ UNCHANGED diary
  BY DEF Next, vars, WorkerStep, Enqueue, EnqueueRun, LapseDead, LapseLive,
         Lapse, Claim, ClaimRun, Start, OpenContext, ReadOnly, Complete, Park,
         Drop, Dies, Crash, Fails, Raise, Stall, Thaw, Beat, Heartbeat, Sweep,
         SweepExpired
<1> QED BY <1>1, <1>2, <1>3, <1>4, StandingPlays

\* The slot after the cursor of a life that holds the lease is free, and so is
\* the key of its effect.
LEMMA SlotIsFree ==
    ASSUME FenceSound, Fits, NEW w \in Worker, UpToDate(w), HoldsLease(w),
           pc[w] \in {"agent", "called", "acting", "tx"}, ~Replaying(w)
    PROVE  ~Taken(life[w].run, NextSeq(w)) /\ ~Conflict(w)
<1>1. /\ FleetSound /\ w \in Proc /\ life[w] \in LifeRow /\ life[w].run \in Run
      /\ FenceOK(w) /\ CursorAt(pc[w], life[w])
  BY DEF FenceSound, FleetSound, Sound, LifeOK, Proc, Fits, CursorOK
<1>2. ~Stale(w)
  BY <1>1, NoneAssumption DEF Stale, FenceOK, HoldsLease, Fenced, LifeRow
<1>3. PICK r, n : r = life[w].run /\ n = Len(life[w].seen)
  OBVIOUS
<1>4. r \in Run /\ n \in Nat /\ DOMAIN diary[r] = 1 .. n
  BY <1>1, <1>2, <1>3, CoveredEnds DEF LifeRow
<1>5. n + 1 \notin DOMAIN diary[r]
  BY <1>4
<1>6. n \notin DOMAIN keys[r]
  <2>1. SUFFICES ASSUME NEW i \in DOMAIN ledger[r], ledger[r][i].seq = n
                 PROVE  FALSE
    BY <1>4 DEF Fits, Performed
  <2>2. Completes(r, ledger[r][i])
    BY <1>4 DEF Fits, Performed
  <2> QED BY <1>5, <2>1, <2>2 DEF Completes
<1> QED BY <1>3, <1>5, <1>6 DEF Taken, NextSeq, Conflict, KeySeq

LEMMA StepFindsRoom ==
    ASSUME FenceSound, Fits, NEW w \in Worker, UpToDate(w), ContextStep(w),
           NEW v \in Worker, pc'[v] = "duplicate"
    PROVE  pc[v] = "duplicate"
<1>0. /\ pc \in [Proc -> PC] /\ w \in Proc /\ v \in Proc /\ FenceOK(w)
      /\ life[w] \in LifeRow /\ CursorAt(pc[w], life[w])
  BY DEF FenceSound, FleetSound, Sound, Proc, Fits, CursorOK
<1>1. ASSUME NEW l, l # "duplicate", Goto(w, l) PROVE pc[v] = "duplicate"
  BY <1>0, <1>1 DEF Goto
<1>2. ASSUME NEW e, NEW next, next # "duplicate", Record(w, e, next),
             pc[w] \in {"agent", "called"}
      PROVE  pc[v] = "duplicate"
  <2>1. ~Replaying(w) /\ (HoldsLease(w) => ~Taken(life[w].run, NextSeq(w)))
    BY <1>2, SlotIsFree DEF Record
  <2>2. Goto(w, next) \/ Goto(w, "fenced")
    BY <1>2, <2>1 DEF Record
  <2> QED BY <1>1, <1>2, <2>2
<1>3. CASE RecordLlm(w) \/ RecordIntent(w) \/ RecordRequest(w)
  BY <1>2, <1>3 DEF RecordLlm, RecordIntent, RecordRequest, Asks
<1>4. CASE CommitEffect(w)
  <2>1. /\ pc[w] = "tx" /\ HoldsLease(w) /\ ~Replaying(w)
    BY <1>0, <1>4 DEF CommitEffect, FenceOK, CursorAt, Replaying, LifeRow
  <2>2. ~Conflict(w)
    BY <2>1, SlotIsFree
  <2> QED BY <1>1, <1>4, <2>2 DEF CommitEffect
<1>5. CASE BeginEffect(w)
  <2>1. Goto(w, "tx") \/ Goto(w, "fenced")
    BY <1>5 DEF BeginEffect
  <2> QED BY <1>1, <2>1
<1>6. ASSUME NEW matches, NEW next, next # "duplicate", Replay(w, matches, next)
      PROVE  pc[v] = "duplicate"
  BY <1>1, <1>6 DEF Replay
<1>7. CASE \/ ReplayLlm(w) \/ ReplayIntent(w) \/ ReplayCompleted(w)
           \/ ReplayRequest(w) \/ ReplayDecision(w)
  BY <1>6, <1>7 DEF ReplayLlm, ReplayIntent, ReplayCompleted, ReplayRequest,
                    ReplayDecision
<1>8. CASE CallModel(w) \/ Pause(w) \/ Return(w) \/ RaiseOwn(w) \/ ApplyPatch(w)
  BY <1>1, <1>8 DEF CallModel, Pause, Return, RaiseOwn, ApplyPatch
<1> QED BY <1>3, <1>4, <1>5, <1>7, <1>8 DEF ContextStep

LEMMA NextReplays ==
    ASSUME FenceSound, Fits, AllUpToDate, NEW c, RunsOnly(c), AllPlayed(c),
           SameCodeReplays, [Next]_vars
    PROVE  SameCodeReplays'
<1>0. /\ Sound /\ pc \in [Proc -> PC] /\ \A w \in Worker : w \in Proc
  BY DEF FenceSound, FleetSound, Sound, Proc
<1>1. ASSUME NEW w \in Worker, Step(w) PROVE SameCodeReplays'
  <2>1. ASSUME NEW v \in Worker PROVE pc'[v] \notin {"diverged", "duplicate"}
    <3>1. ContextStep(w) /\ w \in Proc /\ v \in Proc /\ UpToDate(w)
      BY <1>0, <1>1 DEF Step, AllUpToDate
    <3>2. pc'[v] = "diverged" => pc[v] = "diverged"
      BY <1>0, <3>1, ContextAgrees
    <3>3. pc'[v] = "duplicate" => pc[v] = "duplicate"
      BY <3>1, StepFindsRoom
    <3> QED BY <3>2, <3>3 DEF SameCodeReplays
  <2> QED BY <2>1 DEF SameCodeReplays
<1>2. ASSUME NEW w \in Worker, NEW l \in {"idle", "claimed", "agent", "raised"},
             Goto(w, l)
      PROVE  SameCodeReplays'
  BY <1>0, <1>2 DEF Goto, SameCodeReplays
<1>3. ASSUME NEW w \in Worker,
             \/ \E r \in Run : Claim(w, r)
             \/ Start(w) \/ Complete(w) \/ Park(w) \/ Drop(w) \/ Dies(w) \/ Fails(w)
      PROVE  SameCodeReplays'
  <2>1. PICK l \in {"idle", "claimed", "agent", "raised"} : Goto(w, l)
    BY <1>3 DEF Claim, Start, OpenContext, Complete, Park, Drop, Dies, Crash,
                Fails, Raise, Leave
  <2> QED BY <1>2, <2>1
<1>4. \/ \E w \in Worker : \/ Step(w) \/ (\E r \in Run : Claim(w, r)) \/ Start(w)
                           \/ Complete(w) \/ Park(w) \/ Drop(w) \/ Dies(w)
                           \/ Fails(w)
      \/ UNCHANGED pc
  BY DEF Next, vars, WorkerStep, Enqueue, LapseDead, LapseLive, Lapse, Stall,
         Thaw, Beat, Grant, GranterStops, Sweep, Branch
<1> QED BY <1>1, <1>3, <1>4 DEF SameCodeReplays

\* While one version of the code runs, ReplayDivergenceError and
\* DuplicateSequenceError never reach a worker, whoever else walks, grants,
\* forks or is fenced out: context.py's checks fire on changed code only.
THEOREM SameCodeAgrees ==
    ASSUME NEW c, Code = {c}
    PROVE  Spec => []SameCodeReplays
<1>1. Init => AllUpToDate /\ AllPlayed(c) /\ SameCodeReplays
  BY DEF Init, DiaryInit, ContextInit, AllUpToDate, UpToDate, Walking, Proc,
         AllPlayed, Played, SameCodeReplays
<1>2. FenceSound /\ FleetSound /\ Fits /\ AllUpToDate /\ [Next]_vars => AllUpToDate'
  BY NextUpToDate
<1>3. FleetSound /\ Fits /\ AllPlayed(c) /\ [Next]_vars => AllPlayed(c)'
  BY NextPlays, OnlyVersion DEF FleetSound
<1>4. FenceSound /\ Fits /\ AllUpToDate /\ AllPlayed(c) /\ SameCodeReplays
          /\ [Next]_vars => SameCodeReplays'
  BY NextReplays, OnlyVersion
<1> QED BY FenceIsSound, FleetFits, <1>1, <1>2, <1>3, <1>4, PTL DEF Spec

----------------------------------------------------------------------------
(* Completed runs                                                          *)

\* A worker marks its run when its agent has returned.
LEMMA WorkerEnds ==
    ASSUME Sound, Sound', Fits, NEW c, RunsOnly(c), AllPlayed(c), EndsWell(c),
           NEW w \in Worker, WorkerStep(w) \/ Dies(w) \/ Fails(w)
    PROVE  EndsWell(c)'
<1>0. /\ w \in Proc /\ life \in [Proc -> LifeRow] /\ runs \in [Run -> RunRow]
      /\ LifeOK(w)
  BY DEF Sound, DiaryTypeOK, Proc
<1>1. ASSUME NEW r \in Run, Claim(w, r) PROVE EndsWell(c)'
  <2>1. /\ Goto(w, "claimed") /\ UNCHANGED diary
        /\ \A q \in Proc : q # w => life'[q] = life[q]
        /\ \A q \in Run : runs'[q].status = "completed" =>
                            runs[q].status = "completed"
    BY <1>0, <1>1 DEF Claim, ClaimRun, ClaimedRow, RunRow
  <2> QED BY <1>0, <2>1, StopEnds DEF PC, Walking
<1>2. CASE Start(w)
  <2>1. PICK d \in Code : OpenContext(w, d)
    BY <1>2 DEF Start
  <2>2. life[w].run \in Run
    BY <1>0, <1>2 DEF Start, LifeOK
  <2> QED BY <1>0, <2>1, <2>2, OpenEnds
<1>3. CASE Step(w)
  BY <1>0, <1>3, ContextEnds DEF Step
<1>4. CASE Complete(w) \/ Park(w) \/ Drop(w) \/ Dies(w)
  <2>1. /\ Goto(w, "idle") /\ UNCHANGED diary
        /\ \A q \in Proc : q # w => life'[q] = life[q]
    BY <1>0, <1>4 DEF Complete, Park, Drop, Dies, Crash, Leave, ReadOnly
  <2>2. \A r \in Run : runs'[r].status = "completed" =>
            \/ runs[r].status = "completed"
            \/ pc[w] = "returned" /\ r = life[w].run
    <3>1. CASE Complete(w)
      BY <1>0, <3>1 DEF Complete, RunRow
    <3>2. CASE Park(w)
      <4>1. PICK status : status = ParkAs(w)
        OBVIOUS
      <4>2. status # "completed"
        BY <3>2, <4>1 DEF Park, ParkAs
      <4>3. \/ runs' = [runs EXCEPT ![life[w].run] = ParkedRow(@, status)]
            \/ UNCHANGED runs
        BY <3>2, <4>1 DEF Park
      <4>4. runs \in [Run -> RunRow]
        BY <1>0
      <4>5. \A row \in RunRow : ParkedRow(row, status).status = status
        BY DEF ParkedRow, RunRow
      <4> QED BY <4>2, <4>3, <4>4, <4>5
    <3>3. CASE Drop(w) \/ Dies(w)
      BY <3>3 DEF Drop, Dies, Crash, ReadOnly
    <3> QED BY <1>4, <3>1, <3>2, <3>3
  <2> QED BY <1>0, <2>1, <2>2, StopEnds DEF PC, Walking
<1>5. CASE Fails(w)
  BY <1>0, <1>5, StopEnds DEF Fails, Raise, PC, Walking
<1> QED BY <1>1, <1>2, <1>3, <1>4, <1>5 DEF WorkerStep

LEMMA NextEnds ==
    ASSUME Sound, Sound', Fits, NEW c, RunsOnly(c), AllPlayed(c), EndsWell(c),
           [Next]_vars
    PROVE  EndsWell(c)'
<1>0. runs \in [Run -> RunRow]
  BY DEF Sound, DiaryTypeOK
<1>1. ASSUME NEW w \in Worker, WorkerStep(w) \/ Dies(w) \/ Fails(w)
      PROVE  EndsWell(c)'
  BY <1>1, WorkerEnds
<1>2. ASSUME Adds({}), UNCHANGED <<pc, life>>,
             \A r \in Run : runs'[r].status = "completed" =>
                 runs[r].status = "completed"
      PROVE  EndsWell(c)'
  <2>1. PICK C, D : C = {c} /\ D = {}
    OBVIOUS
  <2>2. Adds(D) /\ D \subseteq C
    BY <1>2, <2>1
  <2>3. Adds(C)
    BY <2>2, AddsMore
  <2> QED BY <1>2, <2>1, <2>3, TablesEnd
<1>3. ASSUME NEW h \in Human, Grant(h) \/ GranterStops(h) PROVE EndsWell(c)'
  <2>1. Adds({}) /\ UNCHANGED <<pc, life>>
    BY <1>3, GrantAdds DEF Grant, GranterStops
  <2>2. \A r \in Run : runs'[r].status = "completed" => runs[r].status = "completed"
    BY <1>0, <1>3 DEF Grant, GranterStops, GrantStep, GrantRead, GrantAppend,
                      GrantRequeue, SetRunStatus, GrantStops, RunRow
  <2> QED BY <1>2, <2>1, <2>2
<1>4. CASE Branch
  <2>1. Adds({}) /\ UNCHANGED <<pc, life>>
    BY <1>4 DEF Branch, Adds
  <2>2. \A r \in Run : runs'[r].status = "completed" => runs[r].status = "completed"
    BY <1>0, <1>4 DEF Branch, ForkSome, ForkRun, RunRow
  <2> QED BY <1>2, <2>1, <2>2
<1>5. ASSUME UNCHANGED <<diary, pc, life>>,
             \/ \E r \in Run : Enqueue(r) \/ Lapse(r) \/ \E w \in Worker : Beat(w, r)
             \/ Sweep \/ UNCHANGED runs
      PROVE  EndsWell(c)'
  <2>1. Adds({})
    BY <1>5 DEF Adds
  <2>2. \A r \in Run : runs'[r].status = "completed" => runs[r].status = "completed"
    <3>1. CASE Sweep
      BY <1>0, <3>1 DEF Sweep, SweepExpired, SweptRow, RunRow
    <3>2. ASSUME NEW r \in Run, NEW w \in Worker, Enqueue(r) \/ Lapse(r) \/ Beat(w, r)
          PROVE  \A q \in Run : runs'[q].status = "completed" =>
                                runs[q].status = "completed"
      BY <1>0, <3>2 DEF Enqueue, EnqueueRun, Lapse, Beat, Heartbeat, RunRow
    <3>3. ASSUME NEW r \in Run, Enqueue(r) \/ Lapse(r)
          PROVE  \A q \in Run : runs'[q].status = "completed" =>
                                runs[q].status = "completed"
      BY <1>0, <3>3 DEF Enqueue, EnqueueRun, Lapse, RunRow
    <3> QED BY <1>5, <3>1, <3>2, <3>3
  <2> QED BY <1>2, <1>5, <2>1, <2>2
<1>6. \/ \E w \in Worker : WorkerStep(w) \/ Dies(w) \/ Fails(w)
      \/ \E h \in Human : Grant(h) \/ GranterStops(h)
      \/ Branch
      \/ /\ UNCHANGED <<diary, pc, life>>
         /\ \/ \E r \in Run : Enqueue(r) \/ Lapse(r) \/ \E w \in Worker : Beat(w, r)
            \/ Sweep \/ UNCHANGED runs
  BY DEF Next, vars, Enqueue, EnqueueRun, LapseDead, LapseLive, Lapse, Stall, Thaw,
         Beat, Heartbeat, Sweep, SweepExpired
<1> QED BY <1>1, <1>3, <1>4, <1>5, <1>6

\* A run is marked completed only where the agent has seen its whole diary and
\* returns on it, whoever else has written to it and whoever claims it again:
\* _execute completes what Agent finished, also after a fork or a late grant.
THEOREM CompletedIsFinished ==
    ASSUME NEW c, Code = {c}
    PROVE  Spec => []CompletedMeansFinished
<1>1. Init => AllPlayed(c) /\ EndsWell(c)
  BY DEF Init, DiaryInit, ContextInit, AbsentRow, AllPlayed, Played, EndsWell,
         KnowsPatches, Walking
<1>2. FleetSound /\ Fits /\ AllPlayed(c) /\ [Next]_vars => AllPlayed(c)'
  BY NextPlays, OnlyVersion DEF FleetSound
<1>3. FleetSound /\ FleetSound' /\ Fits /\ AllPlayed(c) /\ EndsWell(c)
          /\ [Next]_vars => EndsWell(c)'
  BY NextEnds, OnlyVersion DEF FleetSound
<1>4. EndsWell(c) => CompletedMeansFinished
  BY DEF EndsWell, FinishedFor, CompletedMeansFinished
<1> QED BY FleetFits, <1>1, <1>2, <1>3, <1>4, PTL DEF Spec

----------------------------------------------------------------------------
(* Paused runs                                                             *)

Pending(r) == \E h \in Human : grant[h].at = "appended" /\ grant[h].run = r

Waits(r) == Awaiting(r) \/ Pending(r)

\* Of what a life knows, the end is a question.
AtQuestion(rows, n, m) ==
    \E t \in {n, m} :
        /\ t >= n /\ t >= m
        /\ t \in DOMAIN rows /\ rows[t].event.type = "APPROVAL_REQUESTED"

\* While a life may still park its run, the question it has come to waits for
\* a human, or for the re-queue after the answer; once the run is parked, no
\* life may write to it.
WaitsOK(w) ==
    LET r == life[w].run
        n == Len(life[w].seen)
        m == Len(life[w].history)
        current == ~Stale(w) /\ runs[r].status = "running"
    IN  /\ pc[w] \in Walking /\ current /\ AtQuestion(diary[r], n, m) => Waits(r)
        /\ pc[w] = "paused" /\ current => Waits(r)
        /\ pc[w] # "idle" /\ runs[r].status = "paused" => Stale(w)

PausesWait == PausedIsWaiting /\ \A w \in Worker : WaitsOK(w)

\* A question at the end of a diary awaits its answer.
EveryQuestionAwaits ==
    \A r \in Run : \A n \in Nat \ {0} :
        DOMAIN diary[r] = 1 .. n /\ Ev(r, n).type = "APPROVAL_REQUESTED" => Awaiting(r)

LEMMA QuestionAwaits == Sound => EveryQuestionAwaits
<1> SUFFICES ASSUME Sound, NEW r \in Run, NEW n \in Nat \ {0},
                    DOMAIN diary[r] = 1 .. n, Ev(r, n).type = "APPROVAL_REQUESTED"
             PROVE  Awaiting(r)
  BY DEF EveryQuestionAwaits
<1>1. PICK s : s = ReadEvents(r)
  OBVIOUS
<1>2. s \in Seq(Event) /\ Len(s) = n /\ Walked(s, r)
  BY <1>1, ReadSound
<1>3. n \in 1 .. n
  OBVIOUS
<1>4. s # << >> /\ s[Len(s)].type = "APPROVAL_REQUESTED"
  BY <1>2, <1>3 DEF Walked, Ev
<1> QED BY <1>1, <1>4 DEF Awaiting

LEMMA AwaitsOn ==
    ASSUME NEW r, diary'[r] = diary[r], Awaiting(r)
    PROVE  Awaiting(r)'
<1>1. ReadEvents(r) = Events(diary[r]) /\ ReadEvents(r)' = Events(diary'[r])
  BY DEF ReadEvents, Events
<1>2. ReadEvents(r)' = ReadEvents(r)
  BY <1>1
<1> QED BY <1>2 DEF Awaiting

\* What a step does to a run nobody claims and nobody parks as paused.
Eases(r) ==
    /\ runs'[r].token = runs[r].token
    /\ runs'[r].status \in {"running", "paused"} =>
          runs'[r].status = runs[r].status /\ (Waits(r) => Waits(r)')

LEMMA StandingWaits ==
    ASSUME Sound, NEW w \in Worker, WaitsOK(w), StandsStill(w),
           NEW r, r = life[w].run,
           r \in Run /\ Exists(r) /\ Stale(w) => runs'[r].token # life[w].token,
           r \in Run /\ Exists(r) /\ ~Stale(w) =>
              Eases(r) /\ (diary'[r] = diary[r] \/ Waits(r)')
    PROVE  WaitsOK(w)'
<1>1. w \in Proc /\ LifeOK(w) /\ life'[w] = life[w] /\ pc'[w] = pc[w]
  BY DEF Sound, Proc, StandsStill
<1>2. CASE pc[w] = "idle"
  BY <1>1, <1>2 DEF WaitsOK, Walking
<1>3. CASE pc[w] # "idle"
  <2>1. r \in Run /\ Exists(r)
    BY <1>1, <1>3 DEF LifeOK
  <2>2. CASE Stale(w)
    <3>1. Stale(w)'
      BY <1>1, <2>1, <2>2 DEF Stale
    <3> QED BY <3>1 DEF WaitsOK
  <2>3. CASE ~Stale(w)
    <3>1. Eases(r) /\ (diary'[r] = diary[r] \/ Waits(r)')
      BY <2>1, <2>3
    <3>2. PICK n, m : n = Len(life[w].seen) /\ m = Len(life[w].history)
      OBVIOUS
    <3>3. ASSUME pc[w] \in Walking, runs'[r].status = "running",
                 AtQuestion(diary'[r], n, m)
          PROVE  Waits(r)'
      <4>1. CASE diary'[r] = diary[r]
        <5>1. runs[r].status = "running" /\ AtQuestion(diary[r], n, m)
          BY <3>1, <3>3, <4>1 DEF Eases
        <5>2. Waits(r)
          BY <2>3, <3>2, <3>3, <5>1 DEF WaitsOK
        <5> QED BY <3>1, <3>3, <5>2 DEF Eases
      <4> QED BY <3>1, <4>1
    <3>4. ASSUME pc[w] = "paused", runs'[r].status = "running"
          PROVE  Waits(r)'
      BY <2>3, <3>1, <3>4 DEF Eases, WaitsOK
    <3>5. runs'[r].status # "paused"
      BY <1>3, <2>3, <3>1 DEF Eases, WaitsOK
    <3> QED BY <1>1, <3>2, <3>3, <3>4, <3>5 DEF WaitsOK
  <2> QED BY <2>2, <2>3
<1> QED BY <1>2, <1>3

LEMMA EasedPauses ==
    ASSUME PausedIsWaiting,
           \A r \in Run : runs'[r].status = "paused" =>
               runs[r].status = "paused" /\ (Waits(r) => Waits(r)')
    PROVE  PausedIsWaiting'
<1>1. ASSUME NEW r \in Run, runs'[r].status = "paused" PROVE Waits(r)'
  <2>1. runs[r].status = "paused" /\ (Waits(r) => Waits(r)')
    BY <1>1
  <2> QED BY <2>1 DEF PausedIsWaiting, Waits, Pending
<1> QED BY <1>1 DEF PausedIsWaiting, Waits, Pending

\* A run to which nothing is added, whose answers are not re-queued, and whose
\* status becomes neither running nor paused.
LEMMA QuietEases ==
    ASSUME NEW r, diary'[r] = diary[r], runs'[r].token = runs[r].token,
           runs'[r].status \in {"running", "paused"} => runs'[r].status = runs[r].status,
           \A h \in Human : grant[h].at = "appended" /\ grant[h].run = r =>
               grant'[h] = grant[h]
    PROVE  Eases(r)
BY AwaitsOn DEF Eases, Waits, Pending

\* No worker moves.
LEMMA TablesWait ==
    ASSUME Sound, PausesWait, UNCHANGED <<pc, life>>, \A r \in Run : Eases(r),
           \A r \in Run : Exists(r) => diary'[r] = diary[r] \/ Waits(r)'
    PROVE  PausesWait'
<1>1. PausedIsWaiting'
  BY EasedPauses DEF PausesWait, Eases
<1>2. ASSUME NEW w \in Worker PROVE WaitsOK(w)'
  <2>1. PICK r : r = life[w].run
    OBVIOUS
  <2>2. WaitsOK(w) /\ StandsStill(w)
    BY DEF PausesWait, StandsStill
  <2>3. r \in Run /\ Stale(w) => runs'[r].token # life[w].token
    BY <2>1 DEF Stale, Eases
  <2> QED BY <2>1, <2>2, <2>3, StandingWaits
<1> QED BY <1>1, <1>2 DEF PausesWait

LEMMA StepWaits ==
    ASSUME FenceSound, Fits, Sound', PausesWait, NEW v \in Worker, ContextStep(v),
           UNCHANGED grant
    PROVE  PausesWait'
<1>0. /\ v \in Proc /\ FleetSound /\ Sound /\ FenceOK(v)
      /\ LifeOK(v) /\ life[v] \in LifeRow /\ CursorAt(pc[v], life[v])
  BY DEF FenceSound, FleetSound, Sound, Proc, Fits, CursorOK
<1>1. CarriesOn(v) /\ SeesOn(v)
  BY <1>0, ContextCarries, ContextSeesOn
<1>2. pc[v] \in Walking /\ pc[v] # "idle"
  BY DEF ContextStep, ApplyPatch, ReplayLlm, CallModel, RecordLlm, ReplayIntent,
         RecordIntent, ReplayCompleted, BeginEffect, CommitEffect, ReplayRequest,
         RecordRequest, ReplayDecision, Pause, Return, RaiseOwn, Asks, Walking
<1>3. PICK r, n, m : /\ r = life[v].run
                     /\ n = Len(life[v].seen) /\ m = Len(life[v].history)
  OBVIOUS
<1>4. /\ r \in Run /\ n \in Nat /\ m \in Nat /\ Walked(life[v].seen, r)
      /\ life'[v].run = r /\ Len(life'[v].history) = m
      /\ life'[v].token = life[v].token /\ runs' = runs
  BY <1>0, <1>1, <1>2, <1>3 DEF LifeOK, LifeRow, SeesOn, CarriesOn
<1>5. Stale(v)' <=> Stale(v)
  BY <1>3, <1>4 DEF Stale
<1>6. ASSUME NEW q \in Run, diary'[q] = diary[q], Waits(q) PROVE Waits(q)'
  BY <1>6, AwaitsOn DEF Waits, Pending
<1>7. UNCHANGED diary \/ ~Stale(v)
  <2>1. HoldsLease(v) => ~Stale(v)
    BY <1>0, <1>3, <1>4, NoneAssumption
       DEF Stale, FenceOK, HoldsLease, Fenced, LifeRow
  <2>2. ~HoldsLease(v) => UNCHANGED tables
    BY <1>0, <1>1 DEF CarriesOn, FenceOK
  <2> QED BY <2>1, <2>2 DEF tables
<1>8. ASSUME ~Stale(v), runs[r].status = "running", AtQuestion(diary[r], n, m)
      PROVE  Waits(r)
  BY <1>2, <1>3, <1>8 DEF PausesWait, WaitsOK
<1>9. WaitsOK(v)'
  <2>1. PICK k : k = Len(life'[v].seen)
    OBVIOUS
  <2>2. ASSUME pc'[v] \in Walking, ~Stale(v), runs[r].status = "running",
               AtQuestion(diary'[r], k, m)
        PROVE  Waits(r)'
    <3>1. CASE UNCHANGED diary /\ k = n
      BY <1>4, <1>6, <1>8, <2>2, <3>1
    <3>2. CASE UNCHANGED diary /\ n < m /\ k = n + 1
      <4>1. AtQuestion(diary[r], n, m)
        BY <1>4, <2>2, <3>2 DEF AtQuestion
      <4> QED BY <1>4, <1>6, <1>8, <2>2, <3>2, <4>1
    <3>3. CASE n >= m /\ k = n + 1 /\ DOMAIN diary'[r] = 1 .. n + 1
      <4>1. k \in Nat \ {0} /\ DOMAIN diary'[r] = 1 .. k
        BY <1>4, <3>3
      <4>2. diary'[r][k].event.type = "APPROVAL_REQUESTED"
        BY <1>4, <2>2, <3>3 DEF AtQuestion
      <4>3. Sound' => EveryQuestionAwaits'
        BY QuestionAwaits, PTL
      <4> QED BY <1>4, <4>1, <4>2, <4>3 DEF EveryQuestionAwaits, Waits, Ev
    <3> QED BY <1>1, <1>3, <2>1, <3>1, <3>2, <3>3 DEF SeesOn
  <2>3. ASSUME pc'[v] = "paused", ~Stale(v), runs[r].status = "running"
        PROVE  Waits(r)'
    <3>1. pc[v] = "asked" /\ ~Replaying(v) /\ UNCHANGED diary
      <4>1. pc'[v] \notin Walking \cup {"diverged", "duplicate", "fenced"}
        BY <2>3 DEF Walking
      <4>2. ~Return(v) /\ ~RaiseOwn(v)
        BY <1>0, <2>3 DEF Return, RaiseOwn, Goto, Sound
      <4> QED BY <1>0, <4>1, <4>2, HowItEnds DEF Pause, ReadOnly
    <3>2. n > 0 /\ n >= m /\ life[v].seen[n].type = "APPROVAL_REQUESTED"
      BY <1>0, <1>3, <1>4, <3>1 DEF CursorAt, Replaying
    <3>3. n \in DOMAIN diary[r] /\ diary[r][n].event = life[v].seen[n]
      <4>1. n \in 1 .. Len(life[v].seen)
        BY <1>3, <1>4, <3>2
      <4> QED BY <1>4, <4>1 DEF Walked
    <3>4. AtQuestion(diary[r], n, m)
      BY <1>4, <3>2, <3>3 DEF AtQuestion
    <3> QED BY <1>4, <1>6, <1>8, <2>3, <3>1, <3>4
  <2>4. runs[r].status = "paused" => Stale(v)
    BY <1>2, <1>3 DEF PausesWait, WaitsOK
  <2> QED BY <1>4, <1>5, <2>1, <2>2, <2>3, <2>4 DEF WaitsOK
<1>10. ASSUME NEW w \in Worker, w # v PROVE WaitsOK(w)'
  <2>1. WaitsOK(w) /\ StandsStill(w)
    BY <1>1, <1>10 DEF PausesWait, Proc, CarriesOn, StandsStill
  <2>2. PICK q : q = life[w].run
    OBVIOUS
  <2>3. q \in Run /\ Stale(w) => runs'[q].token # life[w].token
    BY <1>4, <2>2 DEF Stale
  <2>4. ASSUME q \in Run, ~Stale(w) PROVE diary'[q] = diary[q] /\ Eases(q)
    <3>1. diary'[q] = diary[q]
      BY <1>2, <1>10, <2>2, <2>4, OthersStand
    <3> QED BY <1>4, <2>4, <3>1, QuietEases
  <2> QED BY <1>0, <2>1, <2>2, <2>3, <2>4, StandingWaits
<1>11. PausedIsWaiting'
  <2>1. ASSUME NEW q \in Run, runs[q].status = "paused"
        PROVE  diary'[q] = diary[q]
    <3>1. q = r => Stale(v)
      BY <1>2, <1>3, <2>1 DEF PausesWait, WaitsOK
    <3> QED BY <1>1, <1>3, <1>7, <3>1 DEF SeesOn
  <2> QED BY <1>4, <1>6, <2>1, EasedPauses DEF PausesWait
<1> QED BY <1>9, <1>10, <1>11 DEF PausesWait

\* A run on which an answer is on its way still waits.
LEMMA GrantEases ==
    ASSUME Sound, NEW h \in Human, GrantStep(h), NEW q \in Run
    PROVE  Eases(q) /\ (diary'[q] = diary[q] \/ Waits(q)')
<1>0. runs \in [Run -> RunRow] /\ grant \in [Human -> GrantRow] /\ GrantOK(h)
  BY DEF Sound, DiaryTypeOK, ApprovalTypeOK
<1>1. ASSUME UNCHANGED <<runs, diary>>, grant[h].at # "appended",
             \A g \in Human : g # h => grant'[g] = grant[g]
      PROVE  Eases(q) /\ diary'[q] = diary[q]
  BY <1>1, QuietEases
<1>2. CASE \E r \in Run : GrantRead(h, r)
  BY <1>0, <1>1, <1>2 DEF GrantRead
<1>3. CASE GrantAppend(h)
  <2>1. PICK r \in Run : r = grant[h].run
    BY <1>0, <1>3 DEF GrantAppend, GrantOK
  <2>2. CASE Taken(r, grant[h].seq)
    BY <1>0, <1>1, <1>3, <2>1, <2>2 DEF GrantAppend
  <2>3. CASE ~Taken(r, grant[h].seq)
    <3>1. /\ grant' = [grant EXCEPT ![h].at = "appended"]
          /\ UNCHANGED runs /\ grant[h].at = "read"
      BY <1>3, <2>1, <2>3 DEF GrantAppend
    <3>2. PICK row : row = [grant[h] EXCEPT !.at = "appended"]
      OBVIOUS
    <3>3. row.at = "appended" /\ row.run = r /\ grant' = [grant EXCEPT ![h] = row]
      BY <1>0, <2>1, <3>1, <3>2 DEF GrantRow
    <3>4. CASE q = r
      <4>1. Waits(r)'
        BY <1>0, <3>3 DEF Waits, Pending
      <4> QED BY <3>1, <3>4, <4>1 DEF Eases
    <3>5. CASE q # r
      <4>1. diary'[q] = diary[q]
        BY <1>3, <2>1, <2>3, <3>5 DEF GrantAppend, InsertEvent, Sound, DiaryTypeOK
      <4> QED BY <1>0, <3>1, <3>3, <3>5, <4>1, QuietEases
    <3> QED BY <3>4, <3>5
  <2> QED BY <2>2, <2>3
<1>4. CASE GrantRequeue(h)
  <2>1. PICK r \in Run : r = grant[h].run
    BY <1>0, <1>4 DEF GrantRequeue, GrantOK
  <2>2. /\ runs' = [runs EXCEPT ![r].status = "queued"] /\ UNCHANGED diary
        /\ grant' = [grant EXCEPT ![h] = NoGrant]
    BY <1>4, <2>1 DEF GrantRequeue, SetRunStatus
  <2>3. /\ runs'[r].status = "queued" /\ runs'[r].token = runs[r].token
        /\ q # r => runs'[q] = runs[q]
    BY <1>0, <2>2 DEF RunRow
  <2>4. CASE q = r
    BY <2>2, <2>3, <2>4 DEF Eases
  <2>5. CASE q # r
    BY <1>0, <2>1, <2>2, <2>3, <2>5, QuietEases
  <2> QED BY <2>4, <2>5
<1> QED BY <1>2, <1>3, <1>4 DEF GrantStep

LEMMA GrantWaits ==
    ASSUME Sound, PausesWait, NEW h \in Human, GrantStep(h), UNCHANGED <<pc, life>>
    PROVE  PausesWait'
BY GrantEases, TablesWait

LEMMA WorkerWaits ==
    ASSUME FenceSound, Fits, Sound', PausesWait,
           NEW v \in Worker, WorkerStep(v) \/ Dies(v) \/ Fails(v)
    PROVE  PausesWait'
<1>0. /\ v \in Proc /\ FleetSound /\ Sound /\ pc \in [Proc -> PC]
      /\ life \in [Proc -> LifeRow] /\ life[v] \in LifeRow
      /\ runs \in [Run -> RunRow] /\ LifeOK(v) /\ UniqueHolder
      /\ PausedIsWaiting /\ \A w \in Worker : w \in Proc /\ WaitsOK(w)
  BY DEF FenceSound, FleetSound, Sound, DiaryTypeOK, Proc, PausesWait
<1>1. UNCHANGED grant
  BY DEF WorkerStep, Claim, Start, Step, Complete, Park, Drop, Dies, Fails
<1>2. ASSUME pc' = [pc EXCEPT ![v] = "idle"],
             \A w \in Worker : w # v => life'[w] = life[w],
             \A r \in Run : Eases(r), UNCHANGED diary
      PROVE  PausesWait'
  <2>1. WaitsOK(v)'
    BY <1>0, <1>2 DEF WaitsOK, Walking
  <2>2. ASSUME NEW w \in Worker, w # v PROVE WaitsOK(w)'
    <3>1. StandsStill(w)
      BY <1>0, <1>2, <2>2 DEF StandsStill
    <3>2. PICK q : q = life[w].run
      OBVIOUS
    <3>3. q \in Run /\ Stale(w) => runs'[q].token # life[w].token
      BY <1>2, <3>2 DEF Stale, Eases
    <3> QED BY <1>0, <1>2, <3>1, <3>2, <3>3, StandingWaits
  <2>3. PausedIsWaiting'
    BY <1>0, <1>2, EasedPauses DEF Eases
  <2> QED BY <2>1, <2>2, <2>3 DEF PausesWait
<1>3. ASSUME NEW r \in Run, Claim(v, r) PROVE PausesWait'
  <2>1. PICK row : row = ClaimedRow(runs[r], v)
    OBVIOUS
  <2>2. row.token = runs[r].token + 1 /\ row.status = "running"
    BY <1>0, <2>1 DEF ClaimedRow, RunRow
  <2>3. /\ runs'[r].token = runs[r].token + 1 /\ runs'[r].status = "running"
        /\ \A q \in Run : q # r => runs'[q] = runs[q]
        /\ UNCHANGED diary /\ pc'[v] = "claimed" /\ life'[v].run = r
        /\ \A w \in Worker : w # v => StandsStill(w)
    <3>1. runs' = [runs EXCEPT ![r] = row] /\ UNCHANGED diary /\ Goto(v, "claimed")
      BY <1>3, <2>1 DEF Claim, ClaimRun
    <3>2. PICK token : life' = [life EXCEPT ![v].run = r, ![v].token = token]
      BY <1>3 DEF Claim
    <3> QED BY <1>0, <2>2, <3>1, <3>2 DEF Goto, LifeRow, StandsStill
  <2>4. WaitsOK(v)'
    BY <2>3 DEF WaitsOK, Walking
  <2>5. ASSUME NEW w \in Worker, w # v PROVE WaitsOK(w)'
    <3>1. PICK q : q = life[w].run
      OBVIOUS
    <3>2. CASE q # r
      <4>1. q \in Run => Eases(q)
        BY <1>1, <2>3, <3>2, QuietEases
      <4>2. q \in Run /\ Stale(w) => runs'[q].token # life[w].token
        BY <2>3, <3>1, <3>2 DEF Stale
      <4> QED BY <1>0, <2>3, <2>5, <3>1, <4>1, <4>2, StandingWaits
    <3>3. CASE q = r
      <4>1. life[w].token <= runs[r].token /\ life[w].token \in Nat
            /\ runs[r].token \in Nat
        <5>1. FenceOK(w) /\ life[w] \in LifeRow /\ runs[r] \in RunRow
          BY <1>0 DEF FenceSound
        <5> QED BY <3>1, <3>3, <5>1, NoneAssumption DEF FenceOK, LifeRow, RunRow
      <4>2. runs'[r].token # life[w].token
        BY <2>3, <4>1
      <4>3. Stale(w)'
        BY <2>3, <2>5, <3>1, <3>3, <4>2, NoneAssumption DEF Stale, StandsStill
      <4> QED BY <4>3 DEF WaitsOK
    <3> QED BY <3>2, <3>3
  <2>6. PausedIsWaiting'
    <3>1. ASSUME NEW q \in Run, runs'[q].status = "paused"
          PROVE  runs[q].status = "paused" /\ (Waits(q) => Waits(q)')
      <4>1. q # r
        BY <2>3, <3>1
      <4>2. Eases(q)
        BY <1>1, <2>3, <4>1, QuietEases
      <4> QED BY <3>1, <4>2 DEF Eases
    <3> QED BY <1>0, <3>1, EasedPauses
  <2> QED BY <2>4, <2>5, <2>6 DEF PausesWait
<1>4. CASE Start(v)
  <2>1. PICK c \in Code : OpenContext(v, c)
    BY <1>4 DEF Start
  <2>2. PICK r \in Run : r = life[v].run
    BY <1>0, <1>4 DEF Start, LifeOK
  <2>3. PICK n \in Nat : DOMAIN diary[r] = 1 .. n
    BY <1>0 DEF Sound, DenseDiary
  <2>4. PICK s : s = ReadEvents(r)
    OBVIOUS
  <2>5. Len(s) = n
    BY <1>0, <2>3, <2>4, ReadSound
  <2>6. /\ life'[v].run = r /\ life'[v].history = s /\ life'[v].seen = << >>
        /\ life'[v].token = life[v].token
        /\ pc'[v] = "agent" /\ UNCHANGED <<runs, diary>>
        /\ \A w \in Worker : w # v => StandsStill(w)
    BY <1>0, <2>1, <2>2, <2>4
       DEF OpenContext, Goto, ReadOnly, LifeRow, StandsStill
  <2>7. \A q \in Run : Eases(q)
    BY <1>1, <2>6, QuietEases
  <2>8. AtQuestion(diary[r], 0, n) => Waits(r)
    <3>1. SUFFICES ASSUME n > 0, diary[r][n].event.type = "APPROVAL_REQUESTED"
                   PROVE  Waits(r)
      BY <2>3 DEF AtQuestion
    <3> QED BY <1>0, <2>3, <3>1, QuestionAwaits DEF EveryQuestionAwaits, Ev, Waits
  <2>9. Waits(r) => Waits(r)'
    BY <1>1, <2>6, AwaitsOn DEF Waits, Pending
  <2>10. WaitsOK(v)'
    <3>1. runs[r].status = "paused" => Stale(v)
      BY <1>0, <1>4, <2>2 DEF WaitsOK, Start
    <3>2. Stale(v)' <=> Stale(v)
      BY <2>2, <2>6 DEF Stale
    <3>3. Len(life'[v].seen) = 0
      BY <2>6
    <3> QED BY <2>5, <2>6, <2>8, <2>9, <3>1, <3>2, <3>3 DEF WaitsOK
  <2>11. ASSUME NEW w \in Worker, w # v PROVE WaitsOK(w)'
    <3>1. PICK q : q = life[w].run
      OBVIOUS
    <3>2. q \in Run /\ Stale(w) => runs'[q].token # life[w].token
      BY <2>6, <3>1 DEF Stale
    <3> QED BY <1>0, <2>6, <2>7, <2>11, <3>1, <3>2, StandingWaits
  <2> QED BY <1>0, <2>7, <2>10, <2>11, EasedPauses DEF PausesWait, Eases
<1>5. CASE Step(v)
  BY <1>1, <1>5, StepWaits DEF Step
<1>6. CASE Complete(v)
  <2>1. PICK r \in Run : r = life[v].run
    BY <1>0, <1>6 DEF Complete, LifeOK
  <2>2. \A q \in Run : /\ runs'[q].token = runs[q].token
                       /\ runs'[q].status \in {"running", "paused"} =>
                              runs'[q].status = runs[q].status
    BY <1>0, <1>6, <2>1 DEF Complete, RunRow
  <2>3. UNCHANGED diary /\ Leave(v, "idle")
    BY <1>6 DEF Complete
  <2>4. \A q \in Run : Eases(q)
    BY <1>1, <2>2, <2>3, QuietEases
  <2> QED BY <1>0, <1>2, <2>3, <2>4 DEF Leave, Goto
<1>7. CASE Park(v)
  <2>1. PICK r \in Run : r = life[v].run
    BY <1>0, <1>7 DEF Park, LifeOK
  <2>2. PICK row : row = ParkedRow(runs[r], ParkAs(v))
    OBVIOUS
  <2>3. row.token = runs[r].token /\ row.status = ParkAs(v)
        /\ ParkAs(v) = IF pc[v] = "paused" THEN "paused" ELSE "failed"
    BY <1>0, <1>7, <2>2 DEF ParkedRow, RunRow, Park, ParkAs
  <2>4. /\ UNCHANGED diary /\ Leave(v, "idle")
        /\ UNCHANGED runs \/ (StillOurs(v) /\ runs' = [runs EXCEPT ![r] = row])
    BY <1>7, <2>1, <2>2 DEF Park
  <2>5. CASE UNCHANGED runs
    <3>1. \A q \in Run : Eases(q)
      BY <1>1, <2>4, <2>5, QuietEases
    <3> QED BY <1>0, <1>2, <2>4, <3>1 DEF Leave, Goto
  <2>6. CASE StillOurs(v) /\ runs' = [runs EXCEPT ![r] = row]
    <3>1. /\ runs'[r].token = runs[r].token /\ runs'[r].status = ParkAs(v)
          /\ \A q \in Run : q # r => runs'[q] = runs[q]
      BY <1>0, <2>3, <2>6
    <3>2. ASSUME NEW q \in Run, q # r \/ pc[v] # "paused" PROVE Eases(q)
      BY <1>1, <2>3, <2>4, <3>1, <3>2, QuietEases
    <3>3. CASE pc[v] # "paused"
      BY <1>0, <1>2, <2>4, <3>2, <3>3 DEF Leave, Goto
    <3>4. CASE pc[v] = "paused"
      <4>1. ~Stale(v) /\ runs[r].status = "running"
        BY <2>1, <2>6 DEF StillOurs, Stale
      <4>2. Waits(r)
        BY <1>0, <2>1, <3>4, <4>1 DEF WaitsOK
      <4>3. Waits(r)'
        BY <1>1, <2>4, <4>2, AwaitsOn DEF Waits, Pending
      <4>4. ASSUME NEW w \in Worker, w # v PROVE WaitsOK(w)'
        <5>1. StandsStill(w)
          BY <1>0, <2>4, <4>4 DEF Leave, Goto, StandsStill
        <5>2. PICK q : q = life[w].run
          OBVIOUS
        <5>3. q \in Run => runs'[q].token = runs[q].token
          BY <3>1
        <5>4. q \in Run /\ Stale(w) => runs'[q].token # life[w].token
          BY <5>2, <5>3 DEF Stale
        <5>5. ASSUME q = r PROVE Stale(w)
          <6>1. life[v].token = runs[r].token
            BY <2>1, <2>6 DEF StillOurs
          <6>2. life[w].token # life[v].token
            BY <1>0, <2>1, <4>4, <5>2, <5>5, NoneAssumption DEF UniqueHolder
          <6> QED BY <5>2, <5>5, <6>1, <6>2, NoneAssumption DEF Stale
        <5>6. q \in Run /\ ~Stale(w) => Eases(q)
          BY <3>2, <5>5
        <5> QED BY <1>0, <2>4, <5>1, <5>2, <5>4, <5>6, StandingWaits
      <4>5. WaitsOK(v)'
        BY <1>0, <2>4 DEF Leave, Goto, WaitsOK, Walking
      <4>6. PausedIsWaiting'
        <5>1. ASSUME NEW q \in Run, runs'[q].status = "paused" PROVE Waits(q)'
          <6>1. CASE q = r
            BY <4>3, <6>1
          <6>2. CASE q # r
            <7>1. Eases(q)
              BY <3>2, <6>2
            <7>2. Waits(q)
              BY <1>0, <3>1, <5>1, <6>2 DEF PausedIsWaiting, Waits, Pending
            <7> QED BY <5>1, <7>1, <7>2 DEF Eases
          <6> QED BY <6>1, <6>2
        <5> QED BY <5>1 DEF PausedIsWaiting, Waits, Pending
      <4> QED BY <4>4, <4>5, <4>6 DEF PausesWait
    <3> QED BY <3>3, <3>4
  <2> QED BY <2>4, <2>5, <2>6
<1>8. CASE Drop(v) \/ Dies(v)
  <2>1. UNCHANGED <<runs, diary>> /\ Leave(v, "idle")
    BY <1>8 DEF Drop, Dies, Crash, ReadOnly
  <2>2. \A q \in Run : Eases(q)
    BY <1>1, <2>1, QuietEases
  <2> QED BY <1>0, <1>2, <2>1, <2>2 DEF Leave, Goto
<1>9. CASE Fails(v)
  <2>1. /\ UNCHANGED <<runs, diary, life>> /\ Goto(v, "raised")
        /\ pc[v] # "idle"
    BY <1>9 DEF Fails, Raise
  <2>2. \A q \in Run : Eases(q)
    BY <1>1, <2>1, QuietEases
  <2>3. WaitsOK(v)'
    <3>1. pc'[v] = "raised"
      BY <1>0, <2>1 DEF Goto
    <3>2. runs[life[v].run].status = "paused" => Stale(v)
      BY <1>0, <2>1 DEF WaitsOK
    <3>3. Stale(v)' <=> Stale(v)
      BY <2>1 DEF Stale
    <3> QED BY <2>1, <3>1, <3>2, <3>3 DEF WaitsOK, Walking
  <2>4. ASSUME NEW w \in Worker, w # v PROVE WaitsOK(w)'
    <3>1. StandsStill(w)
      BY <1>0, <2>1, <2>4 DEF Goto, StandsStill
    <3>2. PICK q : q = life[w].run
      OBVIOUS
    <3>3. q \in Run /\ Stale(w) => runs'[q].token # life[w].token
      BY <2>1, <3>2 DEF Stale
    <3> QED BY <1>0, <2>1, <2>2, <3>1, <3>2, <3>3, StandingWaits
  <2> QED BY <1>0, <2>2, <2>3, <2>4, EasedPauses DEF PausesWait, Eases
<1> QED BY <1>3, <1>4, <1>5, <1>6, <1>7, <1>8, <1>9 DEF WorkerStep

LEMMA NextWaits ==
    ASSUME FenceSound, Fits, Sound', PausesWait, Mortal = {}, [Next]_vars
    PROVE  PausesWait'
<1>0. FleetSound /\ Sound /\ runs \in [Run -> RunRow]
  BY DEF FenceSound, FleetSound, Sound, DiaryTypeOK
<1>1. ASSUME NEW v \in Worker, WorkerStep(v) \/ Dies(v) \/ Fails(v) PROVE PausesWait'
  BY <1>1, WorkerWaits
<1>2. ASSUME UNCHANGED <<diary, pc, life, grant>>, SameTokens,
             \A r \in Run : runs'[r].status \in {"running", "paused"} =>
                                runs'[r].status = runs[r].status
      PROVE  PausesWait'
  <2>1. \A r \in Run : Eases(r)
    BY <1>2, QuietEases DEF SameTokens
  <2> QED BY <1>0, <1>2, <2>1, TablesWait
<1>3. ASSUME NEW r \in Run, Enqueue(r) PROVE PausesWait'
  <2>1. /\ SameTokens
        /\ \A q \in Run : runs'[q].status \in {"running", "paused"} =>
                              runs'[q].status = runs[q].status
    BY <1>0, <1>3 DEF Enqueue, EnqueueRun, SameTokens, RunRow
  <2> QED BY <1>2, <1>3, <2>1 DEF Enqueue, EnqueueRun
<1>4. ASSUME NEW r \in Run, Lapse(r) \/ \E w \in Worker : Beat(w, r)
      PROVE  PausesWait'
  <2>1. /\ SameTokens
        /\ \A q \in Run : runs'[q].status = runs[q].status
    BY <1>0, <1>4 DEF Lapse, Beat, Heartbeat, SameTokens, RunRow
  <2> QED BY <1>2, <1>4, <2>1 DEF Lapse, Beat, Heartbeat
<1>5. CASE Sweep
  <2>1. \A r \in Run : /\ SweptRow(runs[r]).token = runs[r].token
                       /\ SweptRow(runs[r]).status = "queued"
    BY <1>0 DEF SweptRow, RunRow
  <2>2. /\ SameTokens
        /\ \A r \in Run : runs'[r].status \in {"running", "paused"} =>
                              runs'[r].status = runs[r].status
    BY <1>5, <2>1 DEF Sweep, SweepExpired, SameTokens
  <2> QED BY <1>2, <1>5, <2>2 DEF Sweep, SweepExpired
<1>6. ASSUME NEW h \in Human, Grant(h) PROVE PausesWait'
  BY <1>0, <1>6, GrantWaits DEF Grant
<1>7. CASE Branch
  <2>0. PICK parent \in Run, child \in Run, patch \in Patch :
              \E k \in DOMAIN diary[parent] : ForkRun(parent, k, child, patch)
    BY <1>7 DEF Branch, ForkSome
  <2>1. PICK k \in DOMAIN diary[parent] : ForkRun(parent, k, child, patch)
    BY <2>0
  <2>2. ~Exists(child) /\ UNCHANGED <<pc, life, grant>> /\ SameTokens
    BY <1>0, <1>7, <2>1, BranchTokens DEF Branch, ForkRun, NewRun
  <2>3. PICK row : row = [runs[child] EXCEPT !.status = "queued",
                                             !.parent = parent, !.forkSeq = k]
    OBVIOUS
  <2>4. row.status = "queued" /\ runs' = [runs EXCEPT ![child] = row]
    BY <1>0, <2>1, <2>3 DEF ForkRun, RunRow
  <2>5. /\ runs'[child].status = "queued"
        /\ \A q \in Run : q # child => runs'[q] = runs[q] /\ diary'[q] = diary[q]
    BY <1>0, <2>1, <2>4 DEF ForkRun, Sound, DiaryTypeOK
  <2>6. ASSUME NEW q \in Run PROVE Eases(q)
    <3>1. CASE q = child
      BY <2>2, <2>5, <3>1 DEF Eases, SameTokens
    <3>2. CASE q # child
      BY <2>2, <2>5, <3>2, QuietEases
    <3> QED BY <3>1, <3>2
  <2> QED BY <1>0, <2>2, <2>5, <2>6, TablesWait
<1>8. ASSUME (\E w \in Worker : Stall(w) \/ Thaw(w)) \/ UNCHANGED vars
      PROVE  PausesWait'
  BY <1>2, <1>8 DEF Stall, Thaw, vars, SameTokens
<1>9. ~\E h \in Human : GranterStops(h)
  BY DEF GranterStops
<1> QED BY <1>1, <1>3, <1>4, <1>5, <1>6, <1>7, <1>8, <1>9
       DEF Next, LapseDead, LapseLive

\* A pause never hides an answer: unless the process of a granter stops between
\* the decision and the re-queue of grant_approval, a parked run is one whose
\* question is open, or which is about to be re-queued, however the park of
\* _execute and the grant overtake each other.
THEOREM PausesWaitForHumans ==
    ASSUME Mortal = {}
    PROVE  Spec => []PausedIsWaiting
<1>1. Init => PausesWait
  <2> SUFFICES ASSUME Init PROVE PausesWait
    OBVIOUS
  <2>1. \A r \in Run : runs[r].status = "absent"
    BY DEF Init, DiaryInit, AbsentRow
  <2>2. \A w \in Worker : pc[w] = "idle"
    BY DEF Init, ContextInit, Proc
  <2> QED BY <2>1, <2>2 DEF PausesWait, PausedIsWaiting, WaitsOK, Walking
<1>2. FenceSound /\ Fits /\ FleetSound' /\ PausesWait /\ [Next]_vars => PausesWait'
  BY NextWaits DEF FleetSound
<1>3. PausesWait => PausedIsWaiting
  BY DEF PausesWait
<1> QED BY FenceIsSound, FleetFits, <1>1, <1>2, <1>3, PTL DEF Spec
=============================================================================

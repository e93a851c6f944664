----------------------------- MODULE FleetProofs -----------------------------
(***************************************************************************)
(* Theorems of the fleet, for any number of workers, runs, humans, faults   *)
(* and versions of the agent's code, and for any agent.                    *)
(***************************************************************************)
EXTENDS FleetProperties, HistoryProofs

\* The inductive invariant of DiaryProofs, and the counters of the fleet.
FleetSound == Sound /\ faults \in 0 .. MaxFaults /\ stalled \subseteq Worker

LEMMA FleetInit == Init => FleetSound
<1> SUFFICES ASSUME Init PROVE FleetSound
  OBVIOUS
<1> USE DEF Init, DiaryInit, ContextInit, ApprovalInit
<1>1. AbsentRow \in RunRow
  BY DEF AbsentRow, RunRow, Status
<1>2. DiaryTypeOK
  BY <1>1 DEF DiaryTypeOK
<1>3. NoLife \in LifeRow /\ NoLife.run \notin Run
  BY NoneAssumption DEF NoLife, LifeRow
<1>4. pc \in [Proc -> PC] /\ life \in [Proc -> LifeRow]
  BY <1>3 DEF PC
<1>5. ApprovalTypeOK
  BY DEF ApprovalTypeOK, GrantRow, NoGrant
<1>6. \A r \in Run : DenseDiary(r)
  <2>1. DOMAIN << >> = 1 .. 0 /\ 1 .. 0 = {} /\ 0 \in Nat
    OBVIOUS
  <2> QED BY <2>1 DEF DenseDiary
<1>7. \A p \in Proc : LifeOK(p)
  BY <1>3 DEF LifeOK
<1>8. \A h \in Human : GrantOK(h)
  BY DEF GrantOK, NoGrant
<1>9. faults \in 0 .. MaxFaults /\ stalled \subseteq Worker
  BY MaxFaultsAssumption
<1> QED BY <1>2, <1>4, <1>5, <1>6, <1>7, <1>8, <1>9 DEF Sound, FleetSound

LEMMA FaultsBounded ==
    ASSUME faults \in 0 .. MaxFaults, Fault \/ NoFault
    PROVE  faults' \in 0 .. MaxFaults
BY MaxFaultsAssumption DEF Fault, NoFault

----------------------------------------------------------------------------
(* The steps that only the fleet has                                       *)

\* A worker's life ends with at most an update of its run's row.
LEMMA EndSound ==
    ASSUME Sound, NEW w \in Proc, runs' \in [Run -> RunRow],
           \A r \in Run : Exists(r) => Exists(r)',
           UNCHANGED <<diary, keys, ledger, lock>>,
           Leave(w, "idle"), UNCHANGED grant
    PROVE  Sound'
BY RowsSound, LeaveSound

LEMMA RowsOnlySound ==
    ASSUME Sound, runs' \in [Run -> RunRow],
           \A r \in Run : Exists(r) => Exists(r)',
           UNCHANGED <<diary, keys, ledger, lock>>,
           UNCHANGED pc, UNCHANGED life, UNCHANGED grant
    PROVE  Sound'
<1>1. DiaryTypeOK' /\ (\A r \in Run : DenseDiary(r)') /\ Grows
  BY RowsSound
<1>2. ApprovalTypeOK' /\ \A h \in Human : GrantOK(h)'
  BY <1>1, GrantFrame DEF Sound, ApprovalTypeOK
<1> QED BY <1>1, <1>2, OthersSound

LEMMA ClaimSound ==
    ASSUME Sound, NEW w \in Worker, NEW r \in Run, Claim(w, r)
    PROVE  Sound'
<1>1. PICK row : row = ClaimedRow(runs[r], w)
  OBVIOUS
<1>2. /\ runs' = [runs EXCEPT ![r] = row] /\ runs[r] \in RunRow
      /\ runs \in [Run -> RunRow] /\ Exists(r)
  BY <1>1 DEF Claim, ClaimRun, NextQueued, Queued, Exists, Sound, DiaryTypeOK
<1>3. row \in RunRow /\ row.status = "running"
  <2>1. "running" \in Status
    BY DEF Status
  <2>2. row = [status |-> "running", owner |-> w, lease |-> "live",
               token |-> runs[r].token + 1, parent |-> runs[r].parent,
               forkSeq |-> runs[r].forkSeq]
    BY <1>1, <1>2 DEF ClaimedRow, RunRow
  <2>3. /\ runs[r].token + 1 \in Nat /\ runs[r].parent \in Run \cup {None}
        /\ runs[r].forkSeq \in Nat /\ w \in Worker \cup {None}
    BY <1>2 DEF RunRow
  <2> QED BY <2>1, <2>2, <2>3 DEF RunRow
<1>4. runs' \in [Run -> RunRow] /\ \A q \in Run : Exists(q) => Exists(q)'
  BY <1>2, <1>3 DEF Exists
<1>5. DiaryTypeOK' /\ (\A q \in Run : DenseDiary(q)') /\ Grows
  BY <1>4, RowsSound DEF Claim, ClaimRun
<1>6. w \in Proc /\ pc[w] = "idle" /\ row.token \in Nat
      /\ Goto(w, "claimed") /\ UNCHANGED grant
  BY <1>3 DEF Proc, Claim, RunRow
<1>7. life' = [life EXCEPT ![w].run = r, ![w].token = row.token]
  BY <1>2 DEF Claim
<1> QED BY <1>2, <1>5, <1>6, <1>7, TakeSound

\* No worker's step, and nothing that befalls one, breaks the invariant.
LEMMA WorkerSound ==
    ASSUME Sound, NEW w \in Worker, WorkerStep(w) \/ Dies(w) \/ Fails(w)
    PROVE  Sound'
<1>0. w \in Proc /\ life[w] \in LifeRow /\ LifeOK(w)
      /\ runs \in [Run -> RunRow]
  BY DEF Proc, Sound, DiaryTypeOK
<1>1. ASSUME NEW r \in Run, Claim(w, r) PROVE Sound'
  BY <1>1, ClaimSound
<1>2. CASE Start(w)
  BY <1>0, <1>2, OpenSound DEF Start, LifeOK
<1>3. CASE Step(w)
  BY <1>0, <1>3, ContextStepSound DEF Step
<1>4. CASE Complete(w)
  <2>1. runs' \in [Run -> RunRow] /\ \A r \in Run : Exists(r) => Exists(r)'
    BY <1>0, <1>4 DEF Complete, LifeOK, RunRow, Status, Exists
  <2> QED BY <1>0, <1>4, <2>1, EndSound DEF Complete
<1>5. CASE Park(w)
  <2>1. PICK r \in Run : r = life[w].run
    BY <1>0, <1>5 DEF Park, LifeOK
  <2>2. PICK row : row = ParkedRow(runs[r], ParkAs(w))
    OBVIOUS
  <2>3. row \in RunRow /\ row.status # "absent"
    <3>1. ParkAs(w) \in {"paused", "failed"}
      BY <1>5 DEF Park, ParkAs
    <3> QED BY <1>0, <2>2, <3>1 DEF ParkedRow, RunRow, Status
  <2>4. runs' = [runs EXCEPT ![r] = row] \/ UNCHANGED runs
    BY <1>5, <2>1, <2>2 DEF Park
  <2>5. runs' \in [Run -> RunRow] /\ \A q \in Run : Exists(q) => Exists(q)'
    BY <1>0, <2>3, <2>4 DEF Exists
  <2> QED BY <1>0, <1>5, <2>5, EndSound DEF Park
<1>6. CASE Drop(w)
  BY <1>0, <1>6, EndSound DEF Drop, ReadOnly, Exists
<1>7. CASE Dies(w)
  BY <1>0, <1>7, CrashSound DEF Dies
<1>8. CASE Fails(w)
  BY <1>0, <1>8, RaiseSound DEF Fails
<1> QED BY <1>1, <1>2, <1>3, <1>4, <1>5, <1>6, <1>7, <1>8 DEF WorkerStep

\* A step that only marks a worker as stopped, or as going on.
LEMMA StallSound ==
    ASSUME Sound, UNCHANGED <<runs, diary, keys, ledger, lock>>,
           UNCHANGED pc, UNCHANGED life, UNCHANGED grant
    PROVE  Sound'
BY RowsOnlySound DEF Sound, DiaryTypeOK, Exists

LEMMA EnqueueSound ==
    ASSUME Sound, NEW r \in Run, Enqueue(r)
    PROVE  Sound'
<1>1. "queued" \in Status /\ runs \in [Run -> RunRow]
      /\ runs' = [runs EXCEPT ![r].status = "queued"]
  BY DEF Enqueue, EnqueueRun, Sound, DiaryTypeOK, Status
<1>2. runs' \in [Run -> RunRow] /\ \A q \in Run : Exists(q) => Exists(q)'
  BY <1>1 DEF RunRow, Exists
<1> QED BY <1>2, RowsOnlySound DEF Enqueue, EnqueueRun

LEMMA LeaseSound ==
    ASSUME Sound, NEW r \in Run, Lapse(r) \/ \E w \in Worker : Beat(w, r)
    PROVE  Sound'
<1>1. PICK lease \in {"live", "lapsed"} : runs' = [runs EXCEPT ![r].lease = lease]
  BY DEF Beat, Heartbeat, Lapse
<1>2. runs' \in [Run -> RunRow] /\ \A q \in Run : Exists(q) => Exists(q)'
  <2>1. runs \in [Run -> RunRow] /\ runs[r] \in RunRow
    BY DEF Sound, DiaryTypeOK
  <2>2. PICK row : row = [runs[r] EXCEPT !.lease = lease]
    OBVIOUS
  <2>3. row \in RunRow /\ row.status = runs[r].status
    BY <2>1, <2>2 DEF RunRow
  <2>4. runs' = [runs EXCEPT ![r] = row]
    BY <1>1, <2>2
  <2> QED BY <2>1, <2>3, <2>4 DEF Exists
<1> QED BY <1>2, RowsOnlySound DEF Beat, Heartbeat, Lapse

LEMMA SweepSound ==
    ASSUME Sound, Sweep
    PROVE  Sound'
<1>1. \A r \in Run : /\ SweptRow(runs[r]) \in RunRow
                     /\ SweptRow(runs[r]).status = "queued"
  <2>1. "queued" \in Status
    BY DEF Status
  <2>2. \A r \in Run : runs[r] \in RunRow
    BY DEF Sound, DiaryTypeOK
  <2> QED BY <2>1, <2>2 DEF SweptRow, RunRow
<1>2. runs' \in [Run -> RunRow] /\ \A q \in Run : Exists(q) => Exists(q)'
  BY <1>1 DEF Sweep, SweepExpired, Sound, DiaryTypeOK, Exists
<1> QED BY <1>2, RowsOnlySound DEF Sweep, SweepExpired

LEMMA NextSound ==
    ASSUME FleetSound, [Next]_vars
    PROVE  Sound'
<1>0. Sound
  BY DEF FleetSound
<1>1. ASSUME NEW r \in Run, Enqueue(r) PROVE Sound'
  BY <1>0, <1>1, EnqueueSound
<1>2. ASSUME NEW r \in Run, LapseDead(r) \/ LapseLive(r) PROVE Sound'
  <2>1. Lapse(r)
    BY <1>2 DEF LapseDead, LapseLive
  <2> QED BY <1>0, <2>1, LeaseSound
<1>3. ASSUME NEW w \in Worker, WorkerStep(w) \/ Dies(w) \/ Fails(w) PROVE Sound'
  BY <1>0, <1>3, WorkerSound
<1>4. ASSUME NEW w \in Worker, Stall(w) \/ Thaw(w) PROVE Sound'
  BY <1>0, <1>4, StallSound DEF Stall, Thaw
<1>5. ASSUME NEW w \in Worker, NEW r \in Run, Beat(w, r) PROVE Sound'
  BY <1>0, <1>5, LeaseSound
<1>6. ASSUME NEW h \in Human, Grant(h) PROVE Sound'
  BY <1>0, <1>6, GrantStepSound DEF Grant
<1>7. ASSUME NEW h \in Human, GranterStops(h) PROVE Sound'
  BY <1>0, <1>7, GrantStopsSound DEF GranterStops
<1>8. CASE Sweep
  BY <1>0, <1>8, SweepSound
<1>9. CASE Branch
  BY <1>0, <1>9, ForkSound DEF Branch
<1>10. CASE UNCHANGED vars
  BY <1>0, <1>10, StallSound DEF vars
<1> QED BY <1>1, <1>2, <1>3, <1>4, <1>5, <1>6, <1>7, <1>8, <1>9, <1>10 DEF Next

LEMMA NextCounts ==
    ASSUME FleetSound, [Next]_vars
    PROVE  faults' \in 0 .. MaxFaults /\ stalled' \subseteq Worker
<1>1. (Fault \/ NoFault) /\ stalled' \subseteq Worker
  BY DEF FleetSound, Next, vars, Enqueue, LapseDead, LapseLive, Lapse,
         WorkerStep, Claim, Start, Step, Complete, Park, Drop, Dies, Crash,
         Fails, Raise, Stall, Thaw, Beat, Grant, GranterStops, Sweep, Branch,
         NoFault
<1> QED BY <1>1, FaultsBounded DEF FleetSound

----------------------------------------------------------------------------
THEOREM FleetIsSound == Spec => []FleetSound
<1>1. FleetSound /\ [Next]_vars => FleetSound'
  BY NextSound, NextCounts DEF FleetSound
<1> QED BY FleetInit, <1>1, PTL DEF Spec

\* Every table row, every event and every local of every process stays in its
\* type: what schema.sql, the events and context.py say they hold.
THEOREM TypeCorrect == Spec => []TypeOK
<1>1. FleetSound => TypeOK
  BY DEF FleetSound, Sound, TypeOK, ContextTypeOK
<1> QED BY FleetIsSound, <1>1, PTL

\* What any life, fenced or zombie, has replayed or recorded is a prefix of
\* the diary of its run.
THEOREM SeesDiary == Spec => []AgentSeesDiary
<1>1. FleetSound => AgentSeesDiary
  BY SoundSees DEF FleetSound
<1> QED BY FleetIsSound, <1>1, PTL

----------------------------------------------------------------------------
(* Replay and exactly-once                                                 *)

\* No row of runs is ever deleted.
RunsStay == \A r \in Run : Exists(r) => Exists(r)'

LEMMA ClaimFits ==
    ASSUME Sound, Fits, NEW w \in Worker, NEW r \in Run, Claim(w, r)
    PROVE  Fits'
<1>1. PICK row : row = ClaimedRow(runs[r], w)
  OBVIOUS
<1>2. runs' = [runs EXCEPT ![r] = row] /\ row.status = "running"
      /\ runs \in [Run -> RunRow]
  BY <1>1 DEF Claim, ClaimRun, ClaimedRow, Sound, DiaryTypeOK, RunRow
<1>3. RunsStay
  BY <1>2 DEF RunsStay, Exists
<1>4. PICK token : token = runs'[r].token
  OBVIOUS
<1>5. life' = [life EXCEPT ![w] = [@ EXCEPT !.run = r, !.token = token]]
  BY <1>4 DEF Claim
<1>6. w \in Proc /\ pc[w] = "idle" /\ Goto(w, "claimed") /\ UNCHANGED grant
      /\ UNCHANGED <<diary, keys, ledger>>
  BY DEF Proc, Claim, ClaimRun
<1> QED BY <1>3, <1>5, <1>6, TakeFits DEF RunsStay

LEMMA WorkerFits ==
    ASSUME Sound, Fits, NEW w \in Worker, WorkerStep(w) \/ Dies(w) \/ Fails(w)
    PROVE  Fits'
<1>0. w \in Proc /\ life[w] \in LifeRow /\ LifeOK(w) /\ runs \in [Run -> RunRow]
  BY DEF Proc, Sound, DiaryTypeOK
<1>1. ASSUME NEW r \in Run, Claim(w, r) PROVE Fits'
  BY <1>1, ClaimFits
<1>2. CASE Start(w)
  BY <1>0, <1>2, OpenFits DEF Start, LifeOK
<1>3. CASE Step(w)
  BY <1>0, <1>3, ContextFits DEF Step
<1>4. CASE Complete(w)
  <2>1. RunsStay
    BY <1>0, <1>4 DEF Complete, RunsStay, RunRow, Exists
  <2> QED BY <1>0, <1>4, <2>1, EndFits DEF Complete, RunsStay
<1>5. CASE Park(w)
  <2>1. RunsStay
    <3>1. PICK r \in Run : r = life[w].run
      BY <1>0, <1>5 DEF Park, LifeOK
    <3>2. PICK row : row = ParkedRow(runs[r], ParkAs(w))
      OBVIOUS
    <3>3. row.status # "absent"
      <4>1. ParkAs(w) \in {"paused", "failed"}
        BY <1>5 DEF Park, ParkAs
      <4> QED BY <1>0, <3>2, <4>1 DEF ParkedRow, RunRow
    <3>4. UNCHANGED runs \/ runs' = [runs EXCEPT ![r] = row]
      BY <1>5, <3>1, <3>2 DEF Park
    <3> QED BY <1>0, <3>3, <3>4 DEF RunsStay, Exists
  <2> QED BY <1>0, <1>5, <2>1, EndFits DEF Park, RunsStay
<1>6. CASE Drop(w)
  BY <1>0, <1>6, EndFits DEF Drop, ReadOnly, Exists
<1>7. CASE Dies(w)
  BY <1>0, <1>7, CrashFits DEF Dies
<1>8. CASE Fails(w)
  BY <1>0, <1>8, RaiseFits DEF Fails
<1> QED BY <1>1, <1>2, <1>3, <1>4, <1>5, <1>6, <1>7, <1>8 DEF WorkerStep

LEMMA NextFits ==
    ASSUME FleetSound, Fits, [Next]_vars
    PROVE  Fits'
<1>0. Sound /\ runs \in [Run -> RunRow]
  BY DEF FleetSound, Sound, DiaryTypeOK
<1>1. ASSUME NEW w \in Worker, WorkerStep(w) \/ Dies(w) \/ Fails(w) PROVE Fits'
  BY <1>0, <1>1, WorkerFits
<1>2. ASSUME NEW r \in Run, Enqueue(r) \/ Lapse(r)
                            \/ \E w \in Worker : Beat(w, r)
      PROVE  Fits'
  <2>1. RunsStay
    BY <1>0, <1>2 DEF Enqueue, EnqueueRun, Lapse, Beat, Heartbeat, RunsStay,
                      Exists, RunRow
  <2> QED BY <1>0, <1>2, <2>1, RowsFit
         DEF Enqueue, EnqueueRun, Lapse, Beat, Heartbeat, RunsStay
<1>3. CASE Sweep
  <2>1. \A r \in Run : SweptRow(runs[r]).status = "queued"
    BY <1>0 DEF SweptRow, RunRow
  <2>2. RunsStay
    BY <1>0, <1>3, <2>1 DEF Sweep, SweepExpired, RunsStay, Exists
  <2> QED BY <1>0, <1>3, <2>2, RowsFit DEF Sweep, SweepExpired, RunsStay
<1>4. ASSUME NEW h \in Human, Grant(h) \/ GranterStops(h) PROVE Fits'
  BY <1>0, <1>4, GrantFits DEF Grant, GranterStops
<1>5. CASE Branch
  BY <1>0, <1>5, ForkFits DEF Branch
<1>6. ASSUME (\E w \in Worker : Stall(w) \/ Thaw(w)) \/ UNCHANGED vars
      PROVE  Fits'
  BY <1>0, <1>6, RowsFit DEF Stall, Thaw, vars, Exists
<1> QED BY <1>1, <1>2, <1>3, <1>4, <1>5, <1>6 DEF Next, LapseDead, LapseLive

THEOREM FleetFits == Spec => [](FleetSound /\ Fits)
<1>1. Init => FleetSound /\ Fits
  BY FleetInit, FitsAtFirst DEF Init
<1>2. FleetSound /\ Fits /\ [Next]_vars => (FleetSound /\ Fits)'
  BY NextFits, NextSound, NextCounts DEF FleetSound
<1> QED BY <1>1, <1>2, PTL DEF Spec

\* Whatever lives, zombies, granters and forks append, each at a seq from an
\* older read (context.py's _record, grant_approval, fork_run), every diary
\* can be replayed from its first event to its last.
THEOREM AlwaysReplayable == Spec => []DiaryReplayable
<1>1. FleetSound /\ Fits => DiaryReplayable
  BY FitsReplay DEF FleetSound
<1> QED BY FleetFits, <1>1, PTL

\* An effect of _perform_once commits once per key, with its completion, for
\* any agent and any number of crashes, stalls and sweeps.
THEOREM EffectsOnce == Spec => []ExactlyOnce
<1> QED BY FleetFits, FitsOnce, PTL

----------------------------------------------------------------------------
(* The abstract program                                                    *)

LEMMA NextRefines ==
    ASSUME Sound, Fits, [Next]_vars
    PROVE  RefinesStep
<1>1. ASSUME NEW w \in Worker, Step(w) PROVE RefinesStep
  BY <1>1, ContextRefines DEF Step, Proc
<1>2. ASSUME NEW h \in Human, Grant(h) \/ GranterStops(h) PROVE RefinesStep
  BY <1>2, GrantRefines DEF Grant, GranterStops
<1>3. CASE Branch
  BY <1>3, ForkRefines DEF Branch
<1>4. \/ \E w \in Worker : Step(w)
      \/ \E h \in Human : Grant(h) \/ GranterStops(h)
      \/ Branch
      \/ UNCHANGED <<diary, ledger>>
  BY DEF Next, vars, WorkerStep, Enqueue, EnqueueRun, LapseDead, LapseLive,
         Lapse, Claim, ClaimRun, Start, OpenContext, ReadOnly, Complete, Park,
         Drop, Dies, Crash, Fails, Raise, Stall, Thaw, Beat, Heartbeat, Sweep,
         SweepExpired
<1> QED BY <1>1, <1>2, <1>3, <1>4, LogStands

\* The fleet implements DurableAgent: however many workers replay, append, die
\* and come back, each run's diary and effects are those of one program that
\* never dies.
THEOREM FleetIsDurable == Spec => ImplementsDurableAgent
<1>1. Init => Durable!Init
  BY FleetInit, RefinesAtFirst DEF Init, FleetSound
<1>2. FleetSound /\ Fits /\ [Next]_vars =>
          [Durable!Next]_<<[r \in Run |-> ReadEvents(r)], ledger>>
  BY NextRefines DEF FleetSound, RefinesStep, Log
<1> QED BY FleetFits, <1>1, <1>2, PTL DEF Spec, ImplementsDurableAgent, Durable!Spec

----------------------------------------------------------------------------
(* The fencing tokens: no two lives of a run hold the same one, and a life  *)
(* whose token is outdated writes nothing.                                 *)

\* A life holds a token its run has given out, and in the transaction of an
\* effect the newest one, for it keeps the row locked.
FenceOK(w) ==
    /\ life[w].run # None =>
          /\ life[w].token > 0
          /\ life[w].token <= runs[life[w].run].token
    /\ pc[w] = "tx" => HoldsLease(w) /\ lock[life[w].run] = w

FenceSound ==
    /\ FleetSound
    /\ UniqueHolder
    /\ \A w \in Worker : FenceOK(w)

----------------------------------------------------------------------------
(* What a step of the fleet has to show                                    *)

FenceGoal ==
    /\ UniqueHolder'
    /\ \A v \in Worker : FenceOK(v)'
    /\ \A v \in Worker : Stale(v) /\ Moves(v) => UNCHANGED tables

SameTokens == \A r \in Run : runs'[r].token = runs[r].token

StandsStill(v) == pc'[v] = pc[v] /\ life'[v] = life[v]

\* A worker that stands still, while nobody claims its run or takes its lock.
LEMMA StandingFence ==
    ASSUME FenceSound, NEW v \in Worker, StandsStill(v), SameTokens,
           \A r \in Run : lock[r] = v => lock'[r] = v
    PROVE  FenceOK(v)'
<1>1. FenceOK(v) /\ life[v].run \in Run \cup {None}
      /\ (pc[v] = "tx" => life[v].run \in Run)
  BY DEF FenceSound, FleetSound, Sound, LifeOK, LifeRow, Proc
<1>2. PICK r : r = life[v].run
  OBVIOUS
<1>3. life'[v].run = r /\ life'[v].token = life[v].token /\ pc'[v] = pc[v]
  BY <1>2 DEF StandsStill
<1>4. r # None => life[v].token > 0 /\ life[v].token <= runs'[r].token
  BY <1>1, <1>2 DEF FenceOK, SameTokens
<1>5. pc[v] = "tx" => /\ Fenced(v) => runs'[r].token = life[v].token
                      /\ lock'[r] = v
  BY <1>1, <1>2 DEF FenceOK, SameTokens, HoldsLease
<1> QED BY <1>3, <1>4, <1>5 DEF FenceOK, HoldsLease, Fenced, StandsStill

\* Nobody moves.
LEMMA TablesFence ==
    ASSUME FenceSound, UNCHANGED pc, UNCHANGED life, SameTokens, UNCHANGED lock
    PROVE  FenceGoal
<1>1. \A v \in Worker : StandsStill(v) /\ ~Moves(v)
  BY DEF StandsStill, Moves
<1>2. \A v \in Worker : FenceOK(v)'
  BY <1>1, StandingFence
<1>3. UniqueHolder'
  BY <1>1 DEF FenceSound, UniqueHolder, StandsStill
<1> QED BY <1>1, <1>2, <1>3 DEF FenceGoal

\* One life carries on.
LEMMA CarriesFence ==
    ASSUME FenceSound, Sound', NEW w \in Worker, CarriesOn(w)
    PROVE  FenceGoal
<1>0. w \in Proc /\ life[w] \in LifeRow /\ FenceOK(w)
  BY DEF FenceSound, FleetSound, Sound, Proc
<1>1. SameTokens /\ UNCHANGED runs /\ KeepsLocks(w)
  BY DEF SameTokens, CarriesOn
<1>2. \A v \in Worker : v # w => StandsStill(v) /\ ~Moves(v)
  BY DEF CarriesOn, StandsStill, Moves, Proc
<1>3. \A v \in Worker : v # w => FenceOK(v)'
  BY <1>1, <1>2, StandingFence DEF KeepsLocks, Proc
<1>4. PICK r, token : r = life[w].run /\ token = life[w].token
  OBVIOUS
<1>5. life'[w].run = r /\ life'[w].token = token
  BY <1>4 DEF CarriesOn
<1>6. FenceOK(w)'
  <2>1. (life[w].run # None => /\ life[w].token > 0
                               /\ life[w].token <= runs[life[w].run].token)'
    BY <1>0, <1>1, <1>4, <1>5 DEF FenceOK
  <2>2. CASE pc'[w] = "tx"
    <3>1. HoldsLease(w) /\ (Fenced(w) => lock'[r] = w)
      BY <1>4, <2>2 DEF CarriesOn
    <3>2. r \in Run
      BY <1>0, <1>5, <2>2 DEF Sound, LifeOK
    <3>3. token > 0 /\ Fenced(w)
      BY <1>0, <1>4, <3>2, NoneAssumption DEF FenceOK, Fenced, LifeRow
    <3>4. HoldsLease(w)' /\ lock'[life'[w].run] = w
      BY <1>1, <1>4, <1>5, <3>1, <3>3 DEF HoldsLease, Fenced
    <3> QED BY <2>1, <3>4 DEF FenceOK
  <2>3. CASE pc'[w] # "tx"
    BY <2>1, <2>3 DEF FenceOK
  <2> QED BY <2>2, <2>3
<1>7. UniqueHolder'
  <2>1. \A v \in Worker : life'[v].run = life[v].run
                          /\ life'[v].token = life[v].token
    BY <1>2, <1>4, <1>5 DEF StandsStill
  <2> QED BY <2>1 DEF FenceSound, UniqueHolder
<1>8. Stale(w) => UNCHANGED tables
  BY <1>0 DEF Stale, FenceOK, HoldsLease, Fenced, CarriesOn
<1> QED BY <1>2, <1>3, <1>6, <1>7, <1>8 DEF FenceGoal

\* One life ends.  Its last act on the tables was fenced.
LEMMA EndsFence ==
    ASSUME FenceSound, NEW w \in Worker, Leave(w, "idle"), SameTokens,
           KeepsLocks(w), Stale(w) => UNCHANGED tables
    PROVE  FenceGoal
<1>0. /\ w \in Proc /\ life \in [Proc -> LifeRow] /\ pc \in [Proc -> PC]
  BY DEF FenceSound, FleetSound, Sound, Proc
<1>1. life'[w].run = None /\ pc'[w] = "idle"
  BY <1>0 DEF Leave, Goto, NoLife
<1>2. \A v \in Worker : v # w => StandsStill(v) /\ ~Moves(v)
  BY <1>0 DEF Leave, Goto, StandsStill, Moves
<1>3. \A v \in Worker : v # w => FenceOK(v)'
  BY <1>2, StandingFence DEF KeepsLocks, Proc
<1>4. FenceOK(w)'
  BY <1>1 DEF FenceOK
<1>5. UniqueHolder'
  BY <1>1, <1>2 DEF FenceSound, UniqueHolder, StandsStill
<1> QED BY <1>2, <1>3, <1>4, <1>5 DEF FenceGoal

\* A claim outdates every token its run has given out.
LEMMA ClaimFence ==
    ASSUME FenceSound, NEW w \in Worker, NEW r \in Run, Claim(w, r)
    PROVE  FenceGoal
<1>0. /\ w \in Proc /\ life \in [Proc -> LifeRow] /\ pc \in [Proc -> PC]
      /\ runs \in [Run -> RunRow] /\ life[w] = NoLife /\ pc[w] = "idle"
      /\ lock \in [Run -> Proc \cup {None}] /\ lock[r] = None
  BY DEF FenceSound, FleetSound, Sound, DiaryTypeOK, Proc, LifeOK, Claim,
         ClaimRun, NextQueued, Unlocked
<1>1. PICK old \in Nat : old = runs[r].token
  BY <1>0 DEF RunRow
<1>2. /\ runs'[r].token = old + 1 /\ UNCHANGED lock
      /\ \A q \in Run : q # r => runs'[q] = runs[q]
  BY <1>0, <1>1 DEF Claim, ClaimRun, ClaimedRow, RunRow
<1>3. /\ life'[w].run = r /\ life'[w].token = old + 1 /\ pc'[w] = "claimed"
      /\ \A v \in Worker : v # w => StandsStill(v) /\ ~Moves(v)
  <2>1. PICK row : row = [life[w] EXCEPT !.run = r, !.token = old + 1]
    OBVIOUS
  <2>2. life' = [life EXCEPT ![w] = row] /\ Goto(w, "claimed")
    BY <1>2, <2>1 DEF Claim
  <2>3. row.run = r /\ row.token = old + 1
    BY <1>0, <2>1 DEF LifeRow
  <2> QED BY <1>0, <2>2, <2>3 DEF Goto, StandsStill, Moves, Proc
<1>4. FenceOK(w)'
  BY <1>1, <1>2, <1>3 DEF FenceOK
<1>5. ASSUME NEW v \in Worker, v # w PROVE FenceOK(v)'
  <2>1. /\ FenceOK(v) /\ v \in Proc /\ life[v].run \in Run \cup {None}
        /\ life[v].token \in Nat /\ (pc[v] = "tx" => life[v].run \in Run)
    BY <1>0 DEF FenceSound, FleetSound, Sound, LifeOK, LifeRow, Proc
  <2>2. PICK q : q = life[v].run
    OBVIOUS
  <2>3. life'[v].run = q /\ life'[v].token = life[v].token /\ pc'[v] = pc[v]
    BY <1>3, <1>5, <2>2 DEF StandsStill
  <2>4. q # None => life[v].token > 0 /\ life[v].token <= runs'[q].token
    BY <1>1, <1>2, <2>1, <2>2 DEF FenceOK
  <2>5. pc[v] = "tx" => /\ q # r /\ lock'[q] = v
                        /\ Fenced(v) => runs'[q].token = life[v].token
    BY <1>0, <1>2, <2>1, <2>2, NoneAssumption DEF FenceOK, HoldsLease
  <2> QED BY <2>2, <2>3, <2>4, <2>5 DEF FenceOK, HoldsLease, Fenced
<1>6. ASSUME NEW u \in Worker, NEW v \in Worker, u # v,
             life'[u].run # None, life'[u].run = life'[v].run
      PROVE  life'[u].token # life'[v].token
  <2>1. ASSUME NEW x \in Worker, x # w, life'[x].run = r
        PROVE  life'[x].token \in Nat /\ life'[x].token <= old
    <3>1. life'[x] = life[x] /\ x \in Proc /\ r # None
      BY <1>3, <2>1, NoneAssumption DEF StandsStill, Proc
    <3>2. life[x].run = r /\ life[x].token \in Nat
      BY <1>0, <2>1, <3>1 DEF LifeRow
    <3>3. FenceOK(x)
      BY DEF FenceSound
    <3> QED BY <1>1, <3>1, <3>2, <3>3 DEF FenceOK
  <2>2. CASE u # w /\ v # w
    BY <1>3, <1>6, <2>2 DEF FenceSound, UniqueHolder, StandsStill
  <2>3. CASE u = w
    BY <1>3, <1>6, <2>1, <2>3
  <2>4. CASE v = w
    BY <1>3, <1>6, <2>1, <2>4
  <2> QED BY <2>2, <2>3, <2>4
<1>7. UniqueHolder'
  BY <1>6 DEF UniqueHolder
<1>8. ~Stale(w)
  BY <1>0 DEF Stale, NoLife
<1> QED BY <1>3, <1>4, <1>5, <1>7, <1>8 DEF FenceGoal

----------------------------------------------------------------------------
LEMMA WorkerFence ==
    ASSUME FenceSound, Sound', NEW w \in Worker,
           WorkerStep(w) \/ Dies(w) \/ Fails(w)
    PROVE  FenceGoal
<1>0. /\ Sound /\ w \in Proc /\ life[w] \in LifeRow /\ LifeOK(w)
      /\ life \in [Proc -> LifeRow] /\ pc \in [Proc -> PC]
      /\ runs \in [Run -> RunRow] /\ lock \in [Run -> Proc \cup {None}]
  BY DEF FenceSound, FleetSound, Sound, DiaryTypeOK, Proc
<1>1. ASSUME NEW r \in Run, Claim(w, r) PROVE FenceGoal
  BY <1>1, ClaimFence
<1>2. CASE Start(w)
  <2>1. PICK c \in Code : OpenContext(w, c)
    BY <1>2 DEF Start
  <2>2. life'[w].run = life[w].run /\ life'[w].token = life[w].token
    BY <1>0, <2>1 DEF OpenContext, LifeRow
  <2>3. /\ \A q \in Proc : q # w => pc'[q] = pc[q] /\ life'[q] = life[q]
        /\ pc'[w] # "tx"
    BY <1>0, <2>1 DEF OpenContext, Goto
  <2>4. UNCHANGED <<runs, diary, keys, ledger, lock>>
    BY <2>1 DEF OpenContext, ReadOnly
  <2>5. CarriesOn(w)
    BY <2>2, <2>3, <2>4 DEF CarriesOn, KeepsLocks, tables
  <2> QED BY <2>5, CarriesFence
<1>3. CASE Step(w)
  BY <1>0, <1>3, ContextCarries, CarriesFence DEF Step
<1>4. CASE Complete(w)
  <2>1. SameTokens /\ KeepsLocks(w)
    BY <1>0, <1>4 DEF Complete, SameTokens, KeepsLocks, RunRow
  <2>2. Stale(w) => UNCHANGED tables
    BY <1>4 DEF Complete, Stale, StillOurs, tables
  <2> QED BY <1>4, <2>1, <2>2, EndsFence DEF Complete
<1>5. CASE Park(w)
  <2>1. SameTokens /\ KeepsLocks(w)
    <3>1. PICK r \in Run : r = life[w].run
      BY <1>0, <1>5 DEF Park, LifeOK
    <3>2. PICK row : row = ParkedRow(runs[r], ParkAs(w))
      OBVIOUS
    <3>3. row.token = runs[r].token
      BY <1>0, <3>2 DEF ParkedRow, RunRow
    <3>4. UNCHANGED runs \/ runs' = [runs EXCEPT ![r] = row]
      BY <1>5, <3>1, <3>2 DEF Park
    <3>5. SameTokens
      BY <1>0, <3>3, <3>4 DEF SameTokens
    <3> QED BY <1>5, <3>5 DEF Park, KeepsLocks
  <2>2. Stale(w) => UNCHANGED tables
    BY <1>5 DEF Park, Stale, StillOurs, tables
  <2> QED BY <1>5, <2>1, <2>2, EndsFence DEF Park
<1>6. CASE Drop(w)
  <2>1. SameTokens /\ KeepsLocks(w) /\ UNCHANGED tables
    BY <1>6 DEF Drop, ReadOnly, SameTokens, KeepsLocks, tables
  <2> QED BY <1>6, <2>1, EndsFence DEF Drop
<1>7. CASE Dies(w)
  <2>1. SameTokens /\ KeepsLocks(w) /\ UNCHANGED tables
    BY <1>0, <1>7 DEF Dies, Crash, Release, SameTokens, KeepsLocks, tables
  <2> QED BY <1>7, <2>1, EndsFence DEF Dies, Crash
<1>8. CASE Fails(w)
  <2>1. /\ KeepsLocks(w) /\ UNCHANGED tables /\ UNCHANGED life
        /\ UNCHANGED runs /\ Goto(w, "raised")
    BY <1>0, <1>8 DEF Fails, Raise, Release, KeepsLocks, tables
  <2>2. CarriesOn(w)
    BY <1>0, <2>1 DEF CarriesOn, Goto
  <2> QED BY <2>2, CarriesFence
<1> QED BY <1>1, <1>2, <1>3, <1>4, <1>5, <1>6, <1>7, <1>8 DEF WorkerStep

LEMMA BranchTokens ==
    ASSUME Sound, ForkSome
    PROVE  SameTokens
<1>0. PICK parent \in Run, child \in Run, patch \in Patch :
            \E k \in DOMAIN diary[parent] : ForkRun(parent, k, child, patch)
  BY DEF ForkSome
<1>1. PICK k \in DOMAIN diary[parent] :
          runs' = [runs EXCEPT ![child] = [@ EXCEPT !.status = "queued",
                                                    !.parent = parent,
                                                    !.forkSeq = k]]
  BY <1>0 DEF ForkRun
<1>2. PICK row : row = [runs[child] EXCEPT !.status = "queued",
                                           !.parent = parent, !.forkSeq = k]
  OBVIOUS
<1>3. runs \in [Run -> RunRow]
  BY DEF Sound, DiaryTypeOK
<1>4. child \in Run => row.token = runs[child].token
  BY <1>2, <1>3 DEF RunRow
<1>5. runs' = [runs EXCEPT ![child] = row]
  BY <1>1, <1>2
<1> QED BY <1>3, <1>4, <1>5 DEF SameTokens

LEMMA NextFence ==
    ASSUME FenceSound, [Next]_vars
    PROVE  FenceGoal
<1>0. FleetSound /\ Sound /\ Sound' /\ runs \in [Run -> RunRow]
  BY NextSound DEF FenceSound, FleetSound, Sound, DiaryTypeOK
<1>1. ASSUME NEW w \in Worker, WorkerStep(w) \/ Dies(w) \/ Fails(w)
      PROVE  FenceGoal
  BY <1>0, <1>1, WorkerFence
<1>2. ASSUME NEW r \in Run, Enqueue(r) \/ Lapse(r)
                            \/ \E w \in Worker : Beat(w, r)
      PROVE  FenceGoal
  <2>1. SameTokens
    BY <1>0, <1>2 DEF Enqueue, EnqueueRun, Lapse, Beat, Heartbeat, SameTokens,
                      RunRow
  <2> QED BY <1>2, <2>1, TablesFence
         DEF Enqueue, EnqueueRun, Lapse, Beat, Heartbeat
<1>3. CASE Sweep
  <2>1. SameTokens
    BY <1>0, <1>3 DEF Sweep, SweepExpired, SweptRow, SameTokens, RunRow
  <2> QED BY <1>3, <2>1, TablesFence DEF Sweep, SweepExpired
<1>4. ASSUME NEW h \in Human, Grant(h) \/ GranterStops(h) PROVE FenceGoal
  <2>1. SameTokens
    BY <1>0, <1>4 DEF Grant, GrantStep, GrantRead, GrantAppend, GrantRequeue,
                      SetRunStatus, GranterStops, GrantStops, SameTokens, RunRow
  <2> QED BY <1>4, <2>1, TablesFence
         DEF Grant, GrantStep, GrantRead, GrantAppend, GrantRequeue,
             SetRunStatus, GranterStops, GrantStops
<1>5. CASE Branch
  <2>1. SameTokens /\ UNCHANGED lock
    BY <1>0, <1>5, BranchTokens DEF Branch, ForkSome, ForkRun
  <2> QED BY <1>5, <2>1, TablesFence DEF Branch
<1>6. ASSUME (\E w \in Worker : Stall(w) \/ Thaw(w)) \/ UNCHANGED vars
      PROVE  FenceGoal
  <2>1. SameTokens
    BY <1>6 DEF Stall, Thaw, vars, SameTokens
  <2> QED BY <1>6, <2>1, TablesFence DEF Stall, Thaw, vars
<1> QED BY <1>1, <1>2, <1>3, <1>4, <1>5, <1>6 DEF Next, LapseDead, LapseLive

LEMMA FenceInit == Init => FenceSound
<1> SUFFICES ASSUME Init PROVE FenceSound
  OBVIOUS
<1>1. \A w \in Worker : pc[w] = "idle" /\ life[w].run = None
  BY DEF Init, ContextInit, NoLife, Proc
<1> QED BY <1>1, FleetInit DEF FenceSound, UniqueHolder, FenceOK

----------------------------------------------------------------------------
THEOREM FenceIsSound == Spec => []FenceSound
<1>1. FenceSound /\ [Next]_vars => FenceSound'
  BY NextFence, NextSound, NextCounts DEF FenceSound, FleetSound, FenceGoal
<1> QED BY FenceInit, <1>1, PTL DEF Spec

\* However claims, sweeps, crashes and late grants interleave, no two lives of
\* a run hold the same token (claim_run's lease_token + 1).
THEOREM OneHolder == Spec => []UniqueHolder
<1>1. FenceSound => UniqueHolder
  BY DEF FenceSound
<1> QED BY FenceIsSound, <1>1, PTL

\* A life whose run was claimed again changes nothing durable, wherever it had
\* stopped: the fences of append_event, _perform_once, complete_run and
\* _park_run cover every write of a worker.
THEOREM ZombiesNeverWrite == Spec => StaleNeverWrites
<1>1. FenceSound /\ [Next]_vars =>
          [\A w \in Worker : Stale(w) /\ Moves(w) => UNCHANGED tables]_vars
  BY NextFence DEF FenceGoal
<1> QED BY FenceIsSound, <1>1, PTL DEF Spec, StaleNeverWrites

----------------------------------------------------------------------------
(* The tokens of the rows                                                  *)

TokensGrow == \A r \in Run : runs[r].token <= runs'[r].token

LEMMA StandingTokens ==
    ASSUME Sound, Sound', TokensOrdered, UNCHANGED diary, TokensGrow
    PROVE  TokensOrdered'
<1>1. ASSUME NEW r \in Run, NEW s \in DOMAIN diary[r]
      PROVE  diary[r][s].token <= runs'[r].token
  <2>1. /\ diary[r][s].token \in Nat /\ runs[r].token \in Nat
        /\ runs'[r].token \in Nat
    BY DEF Sound, DiaryTypeOK, EventRow, RunRow
  <2> QED BY <2>1 DEF TokensOrdered, TokensGrow
<1> QED BY <1>1 DEF TokensOrdered

\* A row at a free slot, with the token the run has now or with none.
LEMMA InsertTokens ==
    ASSUME Sound, TokensOrdered, UNCHANGED runs, NEW r \in Run,
           NEW seq \in Nat \ {0}, ~Taken(r, seq), NEW e, NEW token \in Nat,
           token = 0 \/ token = runs[r].token, InsertEvent(r, seq, e, token)
    PROVE  TokensOrdered'
<1>1. PICK n \in Nat : DOMAIN diary[r] = 1 .. n
  BY DEF Sound, DenseDiary
<1>2. \A s \in DOMAIN diary[r] : s \in Nat /\ s < seq
  BY <1>1 DEF Taken
<1>3. /\ DOMAIN diary'[r] = DOMAIN diary[r] \cup {seq}
      /\ \A s \in DOMAIN diary[r] : diary'[r][s] = diary[r][s]
      /\ diary'[r][seq].token = token
      /\ \A q \in Run : q # r => diary'[q] = diary[q]
  BY <1>2 DEF InsertEvent, WithRow, Sound, DiaryTypeOK
<1>4. \A q \in Run : /\ runs[q].token \in Nat
                     /\ \A s \in DOMAIN diary[q] :
                           /\ diary[q][s].token \in Nat
                           /\ diary[q][s].token <= runs[q].token
  BY DEF Sound, DiaryTypeOK, RunRow, EventRow, TokensOrdered
<1>5. ASSUME NEW q \in Run, q # r
      PROVE  \A s \in DOMAIN diary'[q] :
                /\ diary'[q][s].token <= runs'[q].token
                /\ \A t \in DOMAIN diary'[q] :
                      s < t /\ diary'[q][t].token # 0 =>
                          diary'[q][s].token <= diary'[q][t].token
  BY <1>3, <1>5 DEF TokensOrdered
<1>6. ASSUME NEW s \in DOMAIN diary'[r]
      PROVE  /\ diary'[r][s].token <= runs'[r].token
             /\ \A t \in DOMAIN diary'[r] :
                   s < t /\ diary'[r][t].token # 0 =>
                       diary'[r][s].token <= diary'[r][t].token
  <2>1. diary'[r][s].token <= runs'[r].token
    BY <1>3, <1>4
  <2>2. ASSUME NEW t \in DOMAIN diary'[r], s < t, diary'[r][t].token # 0
        PROVE  diary'[r][s].token <= diary'[r][t].token
    <3>1. s \in DOMAIN diary[r]
      BY <1>2, <1>3, <2>2
    <3>2. CASE t \in DOMAIN diary[r]
      BY <1>3, <2>2, <3>1, <3>2 DEF TokensOrdered
    <3>3. CASE t = seq
      BY <1>3, <1>4, <2>2, <3>1, <3>3
    <3> QED BY <1>3, <3>2, <3>3
  <2> QED BY <2>1, <2>2
<1> QED BY <1>5, <1>6 DEF TokensOrdered

\* A life writes with its own token, and only while the run has it too.
LEMMA RecordTokens ==
    ASSUME FenceSound, Sound', TokensOrdered, NEW w \in Worker, pc[w] # "idle",
           NEW e, NEW next, Record(w, e, next)
    PROVE  TokensOrdered'
<1>1. /\ w \in Proc /\ Sound /\ life[w] \in LifeRow /\ life[w].run \in Run
  BY DEF FenceSound, FleetSound, Sound, LifeOK, Proc
<1>2. PICK r \in Run, seq \in Nat \ {0}, token \in Nat :
          r = life[w].run /\ seq = NextSeq(w) /\ token = life[w].token
  BY <1>1 DEF NextSeq, LifeRow
<1>3. CASE HoldsLease(w) /\ ~Taken(r, seq)
  <2>1. InsertEvent(r, seq, e, token) /\ UNCHANGED runs
    BY <1>2, <1>3 DEF Record
  <2>2. token = 0 \/ token = runs[r].token
    BY <1>2, <1>3 DEF HoldsLease, Fenced
  <2> QED BY <1>1, <1>3, <2>1, <2>2, InsertTokens
<1>4. CASE ~(HoldsLease(w) /\ ~Taken(r, seq))
  <2>1. UNCHANGED <<diary, runs>>
    BY <1>2, <1>4 DEF Record
  <2>2. TokensGrow
    BY <1>1, <2>1 DEF TokensGrow, Sound, DiaryTypeOK, RunRow
  <2> QED BY <1>1, <2>1, <2>2, StandingTokens
<1> QED BY <1>3, <1>4

LEMMA CommitTokens ==
    ASSUME FenceSound, Sound', TokensOrdered, NEW w \in Worker, CommitEffect(w)
    PROVE  TokensOrdered'
<1>1. /\ w \in Proc /\ Sound /\ life[w] \in LifeRow /\ life[w].run \in Run
      /\ pc[w] = "tx" /\ HoldsLease(w)
  BY DEF FenceSound, FleetSound, Sound, LifeOK, Proc, CommitEffect, FenceOK
<1>2. PICK r \in Run, seq \in Nat \ {0}, token \in Nat :
          r = life[w].run /\ seq = NextSeq(w) /\ token = life[w].token
  BY <1>1 DEF NextSeq, LifeRow
<1>3. CASE Conflict(w)
  <2>1. UNCHANGED <<diary, runs>>
    BY <1>3 DEF CommitEffect
  <2>2. TokensGrow
    BY <1>1, <2>1 DEF TokensGrow, Sound, DiaryTypeOK, RunRow
  <2> QED BY <1>1, <2>1, <2>2, StandingTokens
<1>4. CASE ~Conflict(w)
  <2>1. PICK e : InsertEvent(r, seq, e, token)
    BY <1>2, <1>4 DEF CommitEffect
  <2>2. ~Taken(r, seq) /\ UNCHANGED runs
    BY <1>2, <1>4 DEF Conflict, CommitEffect
  <2>3. token = 0 \/ token = runs[r].token
    BY <1>1, <1>2 DEF HoldsLease, Fenced
  <2> QED BY <1>1, <2>1, <2>2, <2>3, InsertTokens
<1> QED BY <1>3, <1>4

LEMMA ContextTokens ==
    ASSUME FenceSound, Sound', TokensOrdered, NEW w \in Worker, ContextStep(w)
    PROVE  TokensOrdered'
<1>0. Sound
  BY DEF FenceSound, FleetSound
<1>1. CASE RecordLlm(w)
  BY <1>1, RecordTokens DEF RecordLlm
<1>2. CASE RecordIntent(w)
  BY <1>2, RecordTokens DEF RecordIntent, Asks
<1>3. CASE RecordRequest(w)
  BY <1>3, RecordTokens DEF RecordRequest, Asks
<1>4. CASE CommitEffect(w)
  BY <1>4, CommitTokens
<1>5. ASSUME UNCHANGED <<diary, runs>> PROVE TokensOrdered'
  <2>1. TokensGrow
    BY <1>0, <1>5 DEF TokensGrow, Sound, DiaryTypeOK, RunRow
  <2> QED BY <1>0, <1>5, <2>1, StandingTokens
<1>6. \/ RecordLlm(w) \/ RecordIntent(w) \/ RecordRequest(w) \/ CommitEffect(w)
      \/ UNCHANGED <<diary, runs>>
  BY DEF ContextStep, ApplyPatch, ReplayLlm, CallModel, ReplayIntent,
         ReplayCompleted, BeginEffect, ReplayRequest, ReplayDecision, Pause,
         Return, RaiseOwn, Replay, ReadOnly
<1> QED BY <1>1, <1>2, <1>3, <1>4, <1>5, <1>6

\* The decisions of humans carry no token, and neither does anything a child
\* starts with.
LEMMA GrantTokens ==
    ASSUME Sound, Sound', TokensOrdered, NEW h \in Human, GrantAppend(h)
    PROVE  TokensOrdered'
<1>1. PICK r \in Run, seq \in Nat \ {0} : r = grant[h].run /\ seq = grant[h].seq
  BY DEF GrantAppend, Sound, ApprovalTypeOK, GrantOK, GrantRow
<1>2. CASE Taken(r, seq)
  <2>1. UNCHANGED <<diary, runs>>
    BY <1>1, <1>2 DEF GrantAppend
  <2>2. TokensGrow
    BY <2>1 DEF TokensGrow, Sound, DiaryTypeOK, RunRow
  <2> QED BY <2>1, <2>2, StandingTokens
<1>3. CASE ~Taken(r, seq)
  BY <1>1, <1>3, InsertTokens DEF GrantAppend
<1> QED BY <1>2, <1>3

LEMMA BranchOrdered ==
    ASSUME Sound, Sound', TokensOrdered, ForkSome
    PROVE  TokensOrdered'
<1>0. PICK parent \in Run, child \in Run, patch \in Patch :
            \E k \in DOMAIN diary[parent] : ForkRun(parent, k, child, patch)
  BY DEF ForkSome
<1>1. PICK k \in DOMAIN diary[parent] : ForkRun(parent, k, child, patch)
  BY <1>0
<1>2. PICK rows : rows = WithRow(CopiedPrefix(parent, k), k + 1,
                                 PatchEvent(patch), 0)
  OBVIOUS
<1>3. \A s \in DOMAIN rows : rows[s].token = 0
  BY <1>2 DEF WithRow, CopiedPrefix
<1>4. /\ diary'[child] = rows
      /\ \A q \in Run : q # child => diary'[q] = diary[q]
  BY <1>1, <1>2 DEF ForkRun, Sound, DiaryTypeOK
<1>5. \A q \in Run : runs'[q].token = runs[q].token /\ runs[q].token \in Nat
  BY BranchTokens DEF SameTokens, Sound, DiaryTypeOK, RunRow
<1> QED BY <1>3, <1>4, <1>5 DEF TokensOrdered

LEMMA NextTokens ==
    ASSUME FenceSound, TokensOrdered, [Next]_vars
    PROVE  TokensOrdered'
<1>0. Sound /\ Sound' /\ runs \in [Run -> RunRow] /\ runs' \in [Run -> RunRow]
  BY NextSound DEF FenceSound, FleetSound, Sound, DiaryTypeOK
<1>1. ASSUME UNCHANGED diary, SameTokens PROVE TokensOrdered'
  <2>1. TokensGrow
    BY <1>0, <1>1 DEF TokensGrow, SameTokens, RunRow
  <2> QED BY <1>0, <1>1, <2>1, StandingTokens
<1>2. ASSUME NEW w \in Worker, NEW r \in Run, Claim(w, r) PROVE TokensOrdered'
  <2>1. /\ runs'[r].token = runs[r].token + 1
        /\ \A q \in Run : q # r => runs'[q] = runs[q]
        /\ UNCHANGED diary
    BY <1>0, <1>2 DEF Claim, ClaimRun, ClaimedRow, RunRow
  <2>2. TokensGrow
    BY <1>0, <2>1 DEF TokensGrow, RunRow
  <2> QED BY <1>0, <2>1, <2>2, StandingTokens
<1>3. ASSUME NEW w \in Worker, Step(w) PROVE TokensOrdered'
  BY <1>0, <1>3, ContextTokens DEF Step
<1>4. ASSUME NEW w \in Worker, Complete(w) PROVE TokensOrdered'
  <2>1. SameTokens
    BY <1>0, <1>4 DEF Complete, SameTokens, RunRow
  <2> QED BY <1>1, <1>4, <2>1 DEF Complete
<1>5. ASSUME NEW w \in Worker, Park(w) PROVE TokensOrdered'
  <2>1. SameTokens
    <3>1. PICK row : row = ParkedRow(runs[life[w].run], ParkAs(w))
      OBVIOUS
    <3>2. life[w].run \in Run
      BY <1>5 DEF FenceSound, FleetSound, Sound, LifeOK, Park, Proc
    <3>3. row.token = runs[life[w].run].token
      BY <1>0, <3>1, <3>2 DEF ParkedRow, RunRow
    <3>4. UNCHANGED runs \/ runs' = [runs EXCEPT ![life[w].run] = row]
      BY <1>5, <3>1 DEF Park
    <3> QED BY <1>0, <3>2, <3>3, <3>4 DEF SameTokens
  <2> QED BY <1>1, <1>5, <2>1 DEF Park
<1>6. ASSUME NEW w \in Worker,
             \/ Start(w) \/ Drop(w) \/ Dies(w) \/ Fails(w) \/ Stall(w) \/ Thaw(w)
      PROVE  TokensOrdered'
  <2>1. UNCHANGED diary /\ SameTokens
    BY <1>6 DEF Start, OpenContext, Drop, Dies, Crash, Fails, Raise, Stall, Thaw,
                ReadOnly, SameTokens
  <2> QED BY <1>1, <2>1
<1>7. ASSUME NEW r \in Run, Enqueue(r) \/ Lapse(r)
                            \/ \E w \in Worker : Beat(w, r)
      PROVE  TokensOrdered'
  <2>1. UNCHANGED diary /\ SameTokens
    BY <1>0, <1>7 DEF Enqueue, EnqueueRun, Lapse, Beat, Heartbeat, SameTokens,
                      RunRow
  <2> QED BY <1>1, <2>1
<1>8. ASSUME Sweep \/ UNCHANGED vars PROVE TokensOrdered'
  <2>1. CASE Sweep
    <3>1. \A r \in Run : SweptRow(runs[r]).token = runs[r].token
      BY <1>0 DEF SweptRow, RunRow
    <3>2. UNCHANGED diary /\ SameTokens
      BY <2>1, <3>1 DEF Sweep, SweepExpired, SameTokens
    <3> QED BY <1>1, <3>2
  <2>2. CASE UNCHANGED vars
    BY <1>1, <2>2 DEF vars, SameTokens
  <2> QED BY <1>8, <2>1, <2>2
<1>9. ASSUME NEW h \in Human, GrantAppend(h) PROVE TokensOrdered'
  BY <1>0, <1>9, GrantTokens
<1>10. ASSUME NEW h \in Human, \/ \E r \in Run : GrantRead(h, r)
                               \/ GrantRequeue(h) \/ GrantStops(h)
       PROVE  TokensOrdered'
  <2>1. UNCHANGED diary /\ SameTokens
    BY <1>0, <1>10, SMTT(20) DEF GrantRead, GrantRequeue, SetRunStatus, GrantStops,
                                 SameTokens, RunRow
  <2> QED BY <1>1, <2>1
<1>11. CASE Branch
  BY <1>0, <1>11, BranchOrdered DEF Branch
<1> QED BY <1>2, <1>3, <1>4, <1>5, <1>6, <1>7, <1>8, <1>9, <1>10, <1>11
       DEF Next, WorkerStep, LapseDead, LapseLive, Grant, GrantStep, GranterStops

\* The fencing tokens that append_event and _perform_once leave in the rows
\* only grow along a diary: no claim's life ever writes after a later one's.
THEOREM RowsInTokenOrder == Spec => []TokensOrdered
<1>1. Init => TokensOrdered
  BY DEF Init, DiaryInit, TokensOrdered
<1>2. FenceSound /\ TokensOrdered /\ [Next]_vars => TokensOrdered'
  BY NextTokens
<1> QED BY FenceIsSound, <1>1, <1>2, PTL DEF Spec
=============================================================================

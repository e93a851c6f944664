----------------------------- MODULE LivesProofs -----------------------------
(***************************************************************************)
(* Theorems of the direct lives, for any number of processes and runs and   *)
(* for any agent.  They rest on the invariant of DiaryProofs, which no       *)
(* lease and no token is needed for.                                       *)
(***************************************************************************)
EXTENDS Lives, HistoryProofs

LivesSound == Sound /\ faults \in 0 .. MaxFaults

LEMMA LivesStart == LivesInit => LivesSound
<1> SUFFICES ASSUME LivesInit PROVE LivesSound
  OBVIOUS
<1> USE DEF LivesInit, DiaryInit, ContextInit, ApprovalInit
<1>1. AbsentRow \in RunRow
  BY DEF AbsentRow, RunRow, Status
<1>2. DiaryTypeOK
  BY <1>1 DEF DiaryTypeOK
<1>3. NoLife \in LifeRow /\ NoLife.run \notin Run
  BY NoneAssumption DEF NoLife, LifeRow
<1>4. pc \in [Proc -> PC] /\ life \in [Proc -> LifeRow]
  BY <1>3 DEF PC
<1>5. ApprovalTypeOK /\ \A h \in Human : GrantOK(h)
  BY DEF ApprovalTypeOK, GrantRow, NoGrant, GrantOK
<1>6. \A r \in Run : DenseDiary(r)
  <2>1. DOMAIN << >> = 1 .. 0 /\ 1 .. 0 = {} /\ 0 \in Nat
    OBVIOUS
  <2> QED BY <2>1 DEF DenseDiary
<1>7. \A p \in Proc : LifeOK(p)
  BY <1>3 DEF LifeOK
<1>8. faults \in 0 .. MaxFaults
  BY MaxFaultsAssumption
<1> QED BY <1>2, <1>4, <1>5, <1>6, <1>7, <1>8 DEF Sound, LivesSound

----------------------------------------------------------------------------
(* The steps that only direct lives have                                   *)

LEMMA CreateSound ==
    ASSUME Sound, NEW r \in Run, Create(r)
    PROVE  Sound'
<1>1. "running" \in Status /\ runs \in [Run -> RunRow]
      /\ runs' = [runs EXCEPT ![r].status = "running"]
  BY DEF Create, CreateRun, Sound, DiaryTypeOK, Status
<1>2. runs' \in [Run -> RunRow] /\ \A q \in Run : Exists(q) => Exists(q)'
  BY <1>1 DEF RunRow, Exists
<1>3. DiaryTypeOK' /\ (\A q \in Run : DenseDiary(q)') /\ Grows
  BY <1>2, RowsSound DEF Create, CreateRun
<1>4. ApprovalTypeOK' /\ \A h \in Human : GrantOK(h)'
  BY <1>3, GrantFrame DEF Create, Sound, ApprovalTypeOK
<1> QED BY <1>3, <1>4, OthersSound DEF Create

\* Whoever takes a run up has no token; that he claims nothing is all the same.
LEMMA TakeUpSound ==
    ASSUME Sound, NEW l \in Life, NEW r \in Run, TakeUp(l, r)
    PROVE  Sound'
<1>1. l \in Proc /\ life[l] \in LifeRow /\ life \in [Proc -> LifeRow]
  BY DEF Proc, Sound
<1>2. life[l].token \in Nat
      /\ life' = [life EXCEPT ![l] = [@ EXCEPT !.run = r, !.token = life[l].token]]
  <2>1. life[l].token \in Nat
        /\ [life[l] EXCEPT !.run = r, !.token = life[l].token]
                = [life[l] EXCEPT !.run = r]
    BY <1>1 DEF LifeRow
  <2>2. life' = [life EXCEPT ![l] = [life[l] EXCEPT !.run = r]]
    BY <1>1 DEF TakeUp
  <2> QED BY <2>1, <2>2
<1>3. DiaryTypeOK' /\ (\A q \in Run : DenseDiary(q)') /\ Grows
  BY ReadOnlyFrame DEF TakeUp, ReadOnly
<1> QED BY <1>1, <1>2, <1>3, TakeSound DEF TakeUp

\* No step of a life, and nothing that befalls one, breaks the invariant.
LEMMA LifeSound ==
    ASSUME Sound, NEW l \in Life, LifeStep(l) \/ LifeDies(l) \/ LifeFails(l)
    PROVE  Sound'
<1>0. l \in Proc /\ LifeOK(l) /\ pc[l] \in PC
  BY DEF Proc, Sound
<1>1. CASE Open(l)
  BY <1>0, <1>1, OpenSound DEF Open, LifeOK
<1>2. CASE Walk(l)
  BY <1>0, <1>2, ContextStepSound DEF Walk
<1>3. ASSUME NEW status \in Status \ {"absent"}, pc[l] # "idle",
             SetRunStatus(life[l].run, status), Leave(l, "idle"), UNCHANGED grant
      PROVE  Sound'
  <2>1. PICK r \in Run : r = life[l].run
    BY <1>0, <1>3 DEF LifeOK
  <2>2. DiaryTypeOK' /\ (\A q \in Run : DenseDiary(q)') /\ Grows
    BY <1>3, <2>1, StatusFrame
  <2> QED BY <1>0, <1>3, <2>2, LeaveSound
<1>4. CASE Finish(l)
  BY <1>3, <1>4 DEF Finish, Status
<1>5. CASE Suspend(l)
  BY <1>3, <1>5 DEF Suspend, Status
<1>6. CASE GiveUp(l)
  <2>1. DiaryTypeOK' /\ (\A q \in Run : DenseDiary(q)') /\ Grows
    BY <1>6, ReadOnlyFrame DEF GiveUp, ReadOnly
  <2> QED BY <1>0, <1>6, <2>1, LeaveSound DEF GiveUp
<1>7. CASE LifeDies(l)
  BY <1>0, <1>7, CrashSound DEF LifeDies
<1>8. CASE LifeFails(l)
  BY <1>0, <1>8, RaiseSound DEF LifeFails
<1> QED BY <1>1, <1>2, <1>4, <1>5, <1>6, <1>7, <1>8 DEF LifeStep

LEMMA LivesNextSound ==
    ASSUME LivesSound, [LivesNext]_livesVars
    PROVE  LivesSound'
<1>0. Sound
  BY DEF LivesSound
<1>1. ASSUME NEW r \in Run, Create(r) PROVE Sound'
  BY <1>0, <1>1, CreateSound
<1>2. ASSUME NEW l \in Life, NEW r \in Run, TakeUp(l, r) PROVE Sound'
  BY <1>0, <1>2, TakeUpSound
<1>3. ASSUME NEW l \in Life, LifeStep(l) \/ LifeDies(l) \/ LifeFails(l) PROVE Sound'
  BY <1>0, <1>3, LifeSound
<1>4. ASSUME NEW h \in Human, GrantStep(h), UNCHANGED <<pc, life>> PROVE Sound'
  BY <1>0, <1>4, GrantStepSound
<1>5. ASSUME ForkSome, UNCHANGED <<pc, life, grant>> PROVE Sound'
  BY <1>0, <1>5, ForkSound
<1>6. ASSUME UNCHANGED livesVars PROVE Sound'
  <2>1. DiaryTypeOK' /\ (\A r \in Run : DenseDiary(r)') /\ Grows
    BY <1>0, <1>6, ReadOnlyFrame DEF livesVars, ReadOnly
  <2>2. ApprovalTypeOK' /\ \A h \in Human : GrantOK(h)'
    BY <1>0, <1>6, <2>1, GrantFrame DEF livesVars, Sound, ApprovalTypeOK
  <2> QED BY <1>0, <1>6, <2>1, <2>2, OthersSound DEF livesVars
<1>7. Sound'
  BY <1>1, <1>2, <1>3, <1>4, <1>5, <1>6 DEF LivesNext
<1>8. Fault \/ NoFault
  BY DEF LivesNext, livesVars, Create, TakeUp, LifeStep, Open, Walk, Finish,
         Suspend, GiveUp, LifeDies, Crash, LifeFails, Raise, NoFault
<1>9. faults' \in 0 .. MaxFaults
  BY <1>8, MaxFaultsAssumption DEF LivesSound, Fault, NoFault
<1> QED BY <1>7, <1>9 DEF LivesSound

----------------------------------------------------------------------------
THEOREM LivesAreSound == LivesSpec => []LivesSound
<1> QED BY LivesStart, LivesNextSound, PTL DEF LivesSpec

\* Direct lives, any number of them on one run, keep every row and every
\* local in its type: what schema.sql and context.py say they hold.
THEOREM LivesTypeCorrect == LivesSpec => []LivesTypeOK
<1>1. LivesSound => LivesTypeOK
  BY DEF LivesSound, Sound, LivesTypeOK, ContextTypeOK
<1> QED BY LivesAreSound, <1>1, PTL

\* Without a lease and without a fence, the primary key of events is enough:
\* what any of the lives has replayed or recorded is a prefix of the diary.
THEOREM LivesSeeDiary == LivesSpec => []AgentSeesDiary
<1>1. LivesSound => AgentSeesDiary
  BY SoundSees DEF LivesSound
<1> QED BY LivesAreSound, <1>1, PTL

----------------------------------------------------------------------------
(* Replay and exactly-once                                                 *)

LEMMA LifeFits ==
    ASSUME Sound, Fits, NEW l \in Life, LifeStep(l) \/ LifeDies(l) \/ LifeFails(l)
    PROVE  Fits'
<1>0. l \in Proc /\ LifeOK(l) /\ pc[l] \in PC
  BY DEF Proc, Sound
<1>1. CASE Open(l)
  BY <1>0, <1>1, OpenFits DEF Open, LifeOK
<1>2. CASE Walk(l)
  BY <1>0, <1>2, ContextFits DEF Walk
<1>3. ASSUME NEW status \in Status \ {"absent"}, pc[l] # "idle",
             SetRunStatus(life[l].run, status), Leave(l, "idle"), UNCHANGED grant
      PROVE  Fits'
  <2>1. PICK r \in Run : r = life[l].run
    BY <1>0, <1>3 DEF LifeOK
  <2>2. \A q \in Run : Exists(q) => Exists(q)'
    BY <1>3, <2>1, StatusFrame DEF Grows
  <2>3. UNCHANGED <<diary, keys, ledger>>
    BY <1>3 DEF SetRunStatus
  <2> QED BY <1>0, <1>3, <2>2, <2>3, EndFits
<1>4. CASE Finish(l)
  BY <1>3, <1>4 DEF Finish, Status
<1>5. CASE Suspend(l)
  BY <1>3, <1>5 DEF Suspend, Status
<1>6. CASE GiveUp(l)
  BY <1>0, <1>6, EndFits DEF GiveUp, ReadOnly, Exists
<1>7. CASE LifeDies(l)
  BY <1>0, <1>7, CrashFits DEF LifeDies
<1>8. CASE LifeFails(l)
  BY <1>0, <1>8, RaiseFits DEF LifeFails
<1> QED BY <1>1, <1>2, <1>4, <1>5, <1>6, <1>7, <1>8 DEF LifeStep

LEMMA TakeUpFits ==
    ASSUME Sound, Fits, NEW l \in Life, NEW r \in Run, TakeUp(l, r)
    PROVE  Fits'
<1>1. l \in Proc /\ life[l] \in LifeRow /\ life \in [Proc -> LifeRow]
  BY DEF Proc, Sound
<1>2. PICK token : token = life[l].token
  OBVIOUS
<1>3. life' = [life EXCEPT ![l] = [@ EXCEPT !.run = r, !.token = token]]
  <2>1. [life[l] EXCEPT !.run = r, !.token = token] = [life[l] EXCEPT !.run = r]
    BY <1>1, <1>2 DEF LifeRow
  <2>2. life' = [life EXCEPT ![l] = [life[l] EXCEPT !.run = r]]
    BY <1>1 DEF TakeUp
  <2> QED BY <2>1, <2>2
<1> QED BY <1>1, <1>3, TakeFits DEF TakeUp, ReadOnly, Exists

LEMMA LivesNextFits ==
    ASSUME LivesSound, Fits, [LivesNext]_livesVars
    PROVE  Fits'
<1>0. Sound /\ runs \in [Run -> RunRow]
  BY DEF LivesSound, Sound, DiaryTypeOK
<1>1. ASSUME NEW r \in Run, Create(r) PROVE Fits'
  <2>1. \A q \in Run : Exists(q) => Exists(q)'
    BY <1>0, <1>1 DEF Create, CreateRun, Exists, RunRow
  <2> QED BY <1>0, <1>1, <2>1, RowsFit DEF Create, CreateRun
<1>2. ASSUME NEW l \in Life, NEW r \in Run, TakeUp(l, r) PROVE Fits'
  BY <1>0, <1>2, TakeUpFits
<1>3. ASSUME NEW l \in Life, LifeStep(l) \/ LifeDies(l) \/ LifeFails(l) PROVE Fits'
  BY <1>0, <1>3, LifeFits
<1>4. ASSUME NEW h \in Human, GrantStep(h), UNCHANGED <<pc, life>> PROVE Fits'
  BY <1>0, <1>4, GrantFits
<1>5. ASSUME ForkSome, UNCHANGED <<pc, life, grant>> PROVE Fits'
  BY <1>0, <1>5, ForkFits
<1>6. ASSUME UNCHANGED livesVars PROVE Fits'
  BY <1>0, <1>6, RowsFit DEF livesVars, Exists
<1> QED BY <1>1, <1>2, <1>3, <1>4, <1>5, <1>6 DEF LivesNext

THEOREM LivesFit == LivesSpec => [](LivesSound /\ Fits)
<1>1. LivesInit => LivesSound /\ Fits
  BY LivesStart, FitsAtFirst DEF LivesInit
<1>2. LivesSound /\ Fits /\ [LivesNext]_livesVars => (LivesSound /\ Fits)'
  BY LivesNextFits, LivesNextSound
<1> QED BY <1>1, <1>2, PTL DEF LivesSpec

\* Two lives of one run that append side by side, with nothing but the primary
\* key between them, still leave a diary that replay can walk.
THEOREM LivesReplayable == LivesSpec => []DiaryReplayable
<1>1. LivesSound /\ Fits => DiaryReplayable
  BY FitsReplay DEF LivesSound
<1> QED BY LivesFit, <1>1, PTL

\* And of two that perform the same effect at once, one commits.
THEOREM LivesOnce == LivesSpec => []ExactlyOnce
<1> QED BY LivesFit, FitsOnce, PTL

----------------------------------------------------------------------------
(* The abstract program                                                    *)

LEMMA LivesRefine ==
    ASSUME Sound, Fits, [LivesNext]_livesVars
    PROVE  RefinesStep
<1>1. ASSUME NEW l \in Life, Walk(l) PROVE RefinesStep
  BY <1>1, ContextRefines DEF Walk, Proc
<1>2. ASSUME NEW h \in Human, GrantStep(h) PROVE RefinesStep
  BY <1>2, GrantRefines
<1>3. CASE ForkSome
  BY <1>3, ForkRefines
<1>4. \/ \E l \in Life : Walk(l)
      \/ \E h \in Human : GrantStep(h)
      \/ ForkSome
      \/ UNCHANGED <<diary, ledger>>
  BY DEF LivesNext, livesVars, LifeStep, Create, CreateRun, TakeUp, Open,
         OpenContext, ReadOnly, Finish, Suspend, SetRunStatus, GiveUp, LifeDies,
         Crash, LifeFails, Raise
<1> QED BY <1>1, <1>2, <1>3, <1>4, LogStands

\* So do direct lives, which share a run without a lease or a token.
THEOREM LivesAreDurable == LivesSpec => ImplementsDurableAgent
<1>1. LivesInit => Durable!Init
  BY LivesStart, RefinesAtFirst DEF LivesInit, LivesSound
<1>2. LivesSound /\ Fits /\ [LivesNext]_livesVars =>
          [Durable!Next]_<<[r \in Run |-> ReadEvents(r)], ledger>>
  BY LivesRefine DEF LivesSound, RefinesStep, Log
<1> QED BY LivesFit, <1>1, <1>2, PTL DEF LivesSpec, ImplementsDurableAgent, Durable!Spec

----------------------------------------------------------------------------
(* What stands                                                             *)

LEMMA LivesAdd ==
    ASSUME Sound, Fits, [LivesNext]_livesVars
    PROVE  Adds(Code)
<1>1. ASSUME NEW l \in Life, Walk(l) PROVE Adds(Code)
  BY <1>1, ContextAddsSome DEF Walk, Proc
<1>2. ASSUME NEW h \in Human, GrantStep(h) PROVE Adds(Code)
  BY <1>2, GrantAdds, AddsMore
<1>3. \/ \E l \in Life : Walk(l)
      \/ \E h \in Human : GrantStep(h)
      \/ ForkSome
      \/ UNCHANGED diary
  BY DEF LivesNext, livesVars, LifeStep, Create, CreateRun, TakeUp, Open,
         OpenContext, ReadOnly, Finish, Suspend, SetRunStatus, GiveUp, LifeDies,
         Crash, LifeFails, Raise
<1> QED BY <1>1, <1>2, <1>3 DEF Adds

\* No direct life changes a row that another wrote, or adds to a run on which
\* every version of the agent returns.
THEOREM LivesStand == LivesSpec => HistoryStands
<1>1. LivesSound /\ Fits /\ (LivesSound /\ Fits)' /\ [LivesNext]_livesVars =>
          [\A r \in Run :
              /\ Prefix(ReadEvents(r), ReadEvents(r)')
              /\ Exists(r) /\ Finished(r) => diary'[r] = diary[r]]_tables
  BY LivesAdd, AddsStand DEF LivesSound
<1> QED BY LivesFit, <1>1, PTL DEF LivesSpec, HistoryStands

----------------------------------------------------------------------------
(* One version of the code                                                 *)

LEMMA LivesPlay ==
    ASSUME Sound, Fits, NEW c, RunsOnly(c), AllPlayed(c), [LivesNext]_livesVars
    PROVE  AllPlayed(c)'
<1>1. ASSUME NEW l \in Life, Walk(l) PROVE AllPlayed(c)'
  BY <1>1, ContextPlays DEF Walk, Proc
<1>2. ASSUME NEW h \in Human, GrantStep(h) PROVE AllPlayed(c)'
  BY <1>2, GrantPlays
<1>3. CASE ForkSome
  BY <1>3, ForkPlays
<1>4. \/ \E l \in Life : Walk(l)
      \/ \E h \in Human : GrantStep(h)
      \/ ForkSome
      \/ UNCHANGED diary
  BY DEF LivesNext, livesVars, LifeStep, Create, CreateRun, TakeUp, Open,
         OpenContext, ReadOnly, Finish, Suspend, SetRunStatus, GiveUp, LifeDies,
         Crash, LifeFails, Raise
<1> QED BY <1>1, <1>2, <1>3, <1>4, StandingPlays

LEMMA LivesAgree ==
    ASSUME Sound, Fits, NEW c, RunsOnly(c), AllPlayed(c), LivesNeverDiverge,
           [LivesNext]_livesVars
    PROVE  LivesNeverDiverge'
<1>0. pc \in [Proc -> PC] /\ \A l \in Life : l \in Proc
  BY DEF Sound, Proc
<1>1. ASSUME NEW l \in Life, Walk(l) PROVE LivesNeverDiverge'
  BY <1>0, <1>1, ContextAgrees DEF Walk, LivesNeverDiverge
<1>2. ASSUME NEW l \in Life, NEW at, at # "diverged", Goto(l, at)
      PROVE  LivesNeverDiverge'
  BY <1>0, <1>2 DEF Goto, LivesNeverDiverge
<1>3. ASSUME NEW l \in Life,
             \/ \E r \in Run : TakeUp(l, r)
             \/ Open(l) \/ Finish(l) \/ Suspend(l) \/ GiveUp(l)
             \/ LifeDies(l) \/ LifeFails(l)
      PROVE  LivesNeverDiverge'
  BY <1>2, <1>3 DEF TakeUp, Open, OpenContext, Finish, Suspend, GiveUp, LifeDies,
                    Crash, LifeFails, Raise, Leave
<1>4. \/ \E l \in Life : \/ Walk(l) \/ (\E r \in Run : TakeUp(l, r)) \/ Open(l)
                         \/ Finish(l) \/ Suspend(l) \/ GiveUp(l)
                         \/ LifeDies(l) \/ LifeFails(l)
      \/ UNCHANGED pc
  BY DEF LivesNext, livesVars, LifeStep, Create
<1> QED BY <1>1, <1>3, <1>4 DEF LivesNeverDiverge

\* Direct lives that race on one run with the same code stop at the primary key
\* or go on, but none is told that its code changed.
THEOREM LivesSameCode ==
    ASSUME NEW c, Code = {c}
    PROVE  LivesSpec => []LivesNeverDiverge
<1>1. LivesInit => AllPlayed(c) /\ LivesNeverDiverge
  BY DEF LivesInit, DiaryInit, ContextInit, AllPlayed, Played, LivesNeverDiverge,
         Proc
<1>2. LivesSound /\ Fits /\ AllPlayed(c) /\ [LivesNext]_livesVars => AllPlayed(c)'
  BY LivesPlay, OnlyVersion DEF LivesSound
<1>3. LivesSound /\ Fits /\ AllPlayed(c) /\ LivesNeverDiverge
          /\ [LivesNext]_livesVars => LivesNeverDiverge'
  BY LivesAgree, OnlyVersion DEF LivesSound
<1> QED BY LivesFit, <1>1, <1>2, <1>3, PTL DEF LivesSpec
=============================================================================

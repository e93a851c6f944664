--------------------------- MODULE ProgramsProofs ---------------------------
(***************************************************************************)
(* Theorems of the programs: whichever of them plays, its steps are those   *)
(* of workers, of direct lives and of humans, or update rows of `runs`, or  *)
(* end a life.  So what holds of the fleet and of direct lives alone holds  *)
(* of workers and direct lives on one database, of the scripts that kill    *)
(* them, and of an agent with several calls in flight.  Then what is true   *)
(* of one program: the pages, the gathered calls, who puts a run to sleep,  *)
(* and the verdict of diff_runs.                                           *)
(***************************************************************************)
EXTENDS Programs, PromiseProofs, LivesProofs, WellFoundedInduction

(* What a step of a program does                                           *)

\* Only rows of `runs` are updated or inserted, and nobody's run is given to
\* someone else, parked or marked completed.
Bookkeeping ==
    /\ runs' \in [Run -> RunRow]
    /\ \A r \in Run :
          /\ Exists(r) => Exists(r)'
          /\ runs'[r].token = runs[r].token
          /\ runs'[r].status # runs[r].status =>
                /\ runs'[r].status \in {"queued", "running"}
                /\ Exists(r) => runs'[r].status = "queued"
    /\ UNCHANGED <<diary, keys, ledger, lock, pc, life, grant>>

\* The transaction of p is rolled back, by Postgres.
Aborts(p) ==
    /\ pc[p] = "tx"
    /\ Goto(p, "raised") /\ Release(p)
    /\ UNCHANGED <<tables, life, grant>>

\* A life is over, and its run is left as it is.
Quits(l) == Leave(l, "idle") /\ ReadOnly /\ UNCHANGED grant

\* Every process is terminated.
Halts ==
    /\ pc' = [p \in Proc |-> "idle"]
    /\ life' = [p \in Proc |-> NoLife]
    /\ lock' = [r \in Run |-> None]
    /\ UNCHANGED <<tables, grant>>

\* The cursor of a task moves over an event, whatever it asked for.
Replays(l) ==
    /\ pc[l] = "agent" /\ Replaying(l)
    /\ See(l, NextRecorded(l))
    /\ ReadOnly /\ UNCHANGED <<pc, grant>>

\* A task records an answer.
AnswersTask(l) ==
    /\ pc[l] = "agent"
    /\ \E prompt \in Prompt, response \in Answer :
          Record(l, LlmEvent(prompt, response), "agent")
    /\ UNCHANGED grant

\* gather returns.
Ends(l) ==
    /\ pc[l] = "agent" /\ SetRunStatus(life[l].run, "completed")
    /\ Leave(l, "idle") /\ UNCHANGED grant

Ordinarily ==
    \/ \E w \in Worker : WorkerStep(w) \/ Dies(w) \/ Fails(w)
    \/ \E l \in Life : LifeStep(l) \/ LifeDies(l)
    \/ \E l \in Life, r \in Run : TakeUp(l, r)
    \/ \E h \in Human : /\ GrantStep(h) \/ (h \in Mortal /\ GrantStops(h))
                       /\ UNCHANGED <<pc, life>>
    \/ ForkSome /\ UNCHANGED <<pc, life, grant>>
    \/ Bookkeeping
    \/ \E p \in Proc : Aborts(p) \/ Quits(p)
    \/ Halts

InGather == \E l \in Life : Replays(l) \/ AnswersTask(l) \/ Ends(l)

----------------------------------------------------------------------------
(* Bookkeeping                                                             *)

LEMMA StatusBooks ==
    ASSUME Sound, NEW r \in Run, NEW status \in {"queued", "running"}, ~Exists(r),
           runs' = [runs EXCEPT ![r].status = status],
           UNCHANGED <<diary, keys, ledger, lock, pc, life, grant>>
    PROVE  Bookkeeping
<1>1. runs \in [Run -> RunRow] /\ status \in Status
  BY DEF Sound, DiaryTypeOK, Status
<1>2. PICK row : row = [runs[r] EXCEPT !.status = status]
  OBVIOUS
<1>3. row \in RunRow /\ row.status = status /\ row.token = runs[r].token
  BY <1>1, <1>2 DEF RunRow
<1>4. runs' = [runs EXCEPT ![r] = row]
  BY <1>2
<1> QED BY <1>1, <1>3, <1>4 DEF Bookkeeping, Exists

LEMMA LeaseBooks ==
    ASSUME Sound, NEW r \in Run, Lapse(r) \/ \E w \in Worker : Beat(w, r)
    PROVE  Bookkeeping
<1>1. PICK lease \in {"live", "lapsed"} : runs' = [runs EXCEPT ![r].lease = lease]
  BY DEF Beat, Heartbeat, Lapse
<1>2. runs \in [Run -> RunRow]
  BY DEF Sound, DiaryTypeOK
<1>3. PICK row : row = [runs[r] EXCEPT !.lease = lease]
  OBVIOUS
<1>4. row \in RunRow /\ row.status = runs[r].status /\ row.token = runs[r].token
  BY <1>2, <1>3 DEF RunRow
<1>5. runs' = [runs EXCEPT ![r] = row]
  BY <1>1, <1>3
<1>6. UNCHANGED <<diary, keys, ledger, lock, pc, life, grant>>
  BY DEF Beat, Heartbeat, Lapse
<1> QED BY <1>2, <1>4, <1>5, <1>6 DEF Bookkeeping, Exists

LEMMA SweepBooks ==
    ASSUME Sound, Sweep
    PROVE  Bookkeeping
<1>1. runs \in [Run -> RunRow]
  BY DEF Sound, DiaryTypeOK
<1>2. \A r \in Run : /\ SweptRow(runs[r]) \in RunRow
                     /\ SweptRow(runs[r]).status = "queued"
                     /\ SweptRow(runs[r]).token = runs[r].token
  BY <1>1 DEF SweptRow, RunRow, Status
<1> QED BY <1>1, <1>2 DEF Sweep, SweepExpired, Bookkeeping, Exists

LEMMA RestBooks ==
    ASSUME Sound, UNCHANGED <<runs, diary, keys, ledger, lock, pc, life, grant>>
    PROVE  Bookkeeping
BY DEF Sound, DiaryTypeOK, Bookkeeping, Exists

LEMMA QueueBooks ==
    ASSUME Sound,
           NEW r \in Run, Create(r) \/ Enqueue(r)
    PROVE  Bookkeeping
BY StatusBooks DEF Create, CreateRun, Enqueue, EnqueueRun, NewRun

LEMMA NextOrdinary ==
    ASSUME Sound, [Next]_vars
    PROVE  Ordinarily
<1>1. ASSUME NEW r \in Run, Enqueue(r) \/ LapseDead(r) \/ LapseLive(r)
      PROVE  Bookkeeping
  BY <1>1, QueueBooks, LeaseBooks DEF LapseDead, LapseLive
<1>2. ASSUME NEW w \in Worker, NEW r \in Run, Beat(w, r) PROVE Bookkeeping
  BY <1>2, LeaseBooks
<1>3. Sweep => Bookkeeping
  BY SweepBooks
<1>4. ASSUME (\E w \in Worker : Stall(w) \/ Thaw(w)) \/ UNCHANGED vars
      PROVE  Bookkeeping
  BY <1>4, RestBooks DEF Stall, Thaw, vars
<1> QED BY <1>1, <1>2, <1>3, <1>4 DEF Next, Ordinarily, Grant, GranterStops, Branch

----------------------------------------------------------------------------
(* What the scripts keep of their own                                      *)

\* The run that a certifying script is at.
CertOK ==
    /\ DOMAIN cert = DOMAIN Script("chaos")
    /\ cert.run \in 0 .. Runs
    /\ cert.at = "fresh" => cert.run < Runs
    /\ cert.at # "fresh" => cert.run > 0

\* The run that a demo is at.
DemoOK ==
    /\ DOMAIN demo = DOMAIN Demo("showcase")
    /\ demo.demo \in {"showcase", "benchmark"}
    /\ demo.demo = "showcase" => demo.run = 1
    /\ demo.demo = "benchmark" =>
          LET n == Len(demo.bills)
          IN  /\ demo.bills \in Seq(Nat) /\ n <= 4
              /\ demo.run = IF n = 0 THEN 1 ELSE n
              /\ n = 4 => demo.at = "told"

BrainOK == DOMAIN brain = DOMAIN NoBrain /\ brain.calls \in Nat

BossOK == DOMAIN boss = DOMAIN Boss("chaos") /\ boss.alive \subseteq Worker

WroteOK == \A p \in wrote : p \in Proc /\ pc[p] = "tx"

\* A page that is open is one of a run.
PageOK ==
    /\ DOMAIN page = DOMAIN NoPage
    /\ page.at # "none" => page.run \in Run
    /\ page.at = "first" => page.other \in Run

ScriptsOK == CertOK /\ DemoOK /\ BrainOK /\ BossOK /\ WroteOK /\ PageOK

LEMMA CertSteps ==
    ASSUME CertOK, CertNext
    PROVE  CertOK'
<1>0. /\ DOMAIN cert = {"script", "at", "run", "tries", "pin", "steps"}
      /\ Runs \in Nat
  BY CertificatesAssumption, MaxRunAssumption DEF CertOK, Script
<1>1. CASE FreshRun
  BY <1>0, <1>1 DEF FreshRun, At, CertOK
<1>2. CASE Poll
  BY <1>0, <1>2 DEF Poll, Draw, At, CertOK
<1>3. CASE Verdict
  BY <1>0, <1>3 DEF Verdict, At, CertOK
<1>4. ASSUME NEW l \in Life, Launch(l) \/ Killed(l) \/ LivesOn(l) PROVE CertOK'
  BY <1>0, <1>4 DEF Launch, Killed, LivesOn, At, CertOK
<1> QED BY <1>1, <1>2, <1>3, <1>4 DEF CertNext
LEMMA BrainSteps ==
    ASSUME BrainOK,
           \/ UNCHANGED brain
           \/ \E p : BrainAnswers(p)
           \/ \E script, seed : brain' = Brain(script, seed)
    PROVE  BrainOK'
BY DEF BrainOK, NoBrain, BrainAnswers, Brain, Counted

LEMMA CertBrain ==
    ASSUME BrainOK, CertNext
    PROVE  BrainOK'
BY BrainSteps DEF CertNext, FreshRun, Poll, Quiet, Verdict, Launch, Killed, LivesOn

LEMMA DemoBrain ==
    ASSUME BrainOK, DemoNext
    PROVE  BrainOK'
BY BrainSteps DEF DemoNext, Begin, ForkNearTheEnd, Enter, Perform, Act, Restart,
                  Measure, Bill, Approve

LEMMA DemoSteps ==
    ASSUME DemoOK, BrainOK, DemoNext
    PROVE  DemoOK'
<1>0. DOMAIN demo = {"demo", "at", "run", "bills", "asked", "lost"}
  BY DEF DemoOK, Demo
<1>1. ASSUME NEW at, Cut(at), demo.demo = "showcase" \/ demo.at # "told"
      PROVE  DemoOK'
  BY <1>0, <1>1 DEF Cut, DemoOK
<1>2. ASSUME NEW l \in Life, Bill(l) PROVE DemoOK'
  <2>1. PICK n : n = Len(demo.bills) + 1
    OBVIOUS
  <2>2. /\ demo.demo = "benchmark" /\ demo.at # "told"
        /\ demo' = [demo EXCEPT !.bills = Append(@, brain.calls), !.run = n,
                                !.at = <<"open", "create", "fork", "told">>[n]]
    BY <1>2, <2>1 DEF Bill, Scene
  <2>3. n \in 1 .. 4 /\ (n = 4 => demo'.at = "told")
    BY <1>0, <2>1, <2>2 DEF DemoOK
  <2>4. /\ demo.bills \in Seq(Nat) /\ brain.calls \in Nat
        /\ demo'.bills = Append(demo.bills, brain.calls)
    BY <1>0, <2>2 DEF DemoOK, BrainOK
  <2>5. demo'.bills \in Seq(Nat) /\ Len(demo'.bills) = n
    BY <2>1, <2>4
  <2>6. DOMAIN demo' = DOMAIN demo /\ demo'.demo = "benchmark" /\ demo'.run = n
    BY <1>0, <2>2
  <2> QED BY <2>2, <2>3, <2>5, <2>6 DEF DemoOK
<1>3. ASSUME NEW l \in Life, Enter(l) \/ Perform(l) \/ Restart(l) \/ Measure(l)
      PROVE  DemoOK'
  <2>1. CASE Enter(l)
    BY <1>1, <2>1 DEF Enter
  <2>2. CASE Perform(l) \/ Restart(l)
    BY <1>0, <2>2 DEF Perform, Restart, Scene, DemoOK
  <2>3. CASE Measure(l)
    BY <2>3 DEF Measure, DemoOK
  <2> QED BY <1>3, <2>1, <2>2, <2>3
<1>4. ASSUME NEW h \in Human, Approve(h) PROVE DemoOK'
  BY <1>1, <1>4 DEF Approve, Scene
<1>5. CASE Begin \/ ForkNearTheEnd
  BY <1>1, <1>5 DEF Begin, ForkNearTheEnd, Scene
<1> QED BY <1>2, <1>3, <1>4, <1>5 DEF DemoNext

LEMMA BossSteps ==
    ASSUME BossOK, HarnessNext
    PROVE  BossOK'
<1>0. DOMAIN boss = {"script", "at", "alive", "inTime", "tokenA", "before", "afterB",
                     "afterThaw", "after", "incomplete", "bad"}
      /\ ZombieA \in Worker /\ ZombieB \in Worker
  BY HarnessAssumption DEF BossOK, Boss
<1> USE DEF BossOK
<1>1. CASE EnqueueJob
  <2>1. PICK spawn : spawn = (IF boss.script = "zombie" THEN {ZombieA} ELSE Worker)
    OBVIOUS
  <2>2. spawn \subseteq Worker
    BY <1>0, <2>1
  <2>3. CASE boss' = [boss EXCEPT !.at = "wait", !.alive = spawn]
    BY <1>0, <2>2, <2>3
  <2>4. CASE boss' = boss
    BY <2>4
  <2> QED BY <1>1, <2>1, <2>3, <2>4 DEF EnqueueJob
<1>2. CASE Drained \/ SeesRunning \/ SeesCompleted
  <2>1. \E at : To(at) \/ TimesOut(at)
    BY <1>2 DEF Drained, SeesRunning, SeesCompleted
  <2>2. ASSUME NEW at, To(at) PROVE BossOK'
    BY <1>0, <2>2 DEF To
  <2>3. ASSUME NEW at, TimesOut(at) PROVE BossOK'
    BY <1>0, <2>3 DEF TimesOut
  <2> QED BY <2>1, <2>2, <2>3
<1>3. CASE Check \/ Terminate \/ Report
  BY <1>0, <1>3 DEF Check, Terminate, Report
<1>4. CASE ReadTokenA \/ Freeze \/ SweepForB \/ ThawA \/ ReadAgain
  <2>1. CASE SweepForB
    BY <1>0, <2>1 DEF SweepForB
  <2>2. CASE ReadTokenA \/ Freeze
    BY <1>0, <2>2 DEF ReadTokenA, Freeze
  <2>3. CASE ThawA \/ ReadAgain
    BY <1>0, <2>3 DEF ThawA, ReadAgain
  <2> QED BY <1>4, <2>1, <2>2, <2>3
<1>5. ASSUME NEW w \in Worker, KillOne(w) PROVE BossOK'
  BY <1>5 DEF KillOne
<1>6. CASE Sweeper \/ Crew
  BY <1>6 DEF Sweeper, Crew
<1> QED BY <1>1, <1>2, <1>3, <1>4, <1>5, <1>6 DEF HarnessNext, ScriptStep

LEMMA PageSteps ==
    ASSUME PageOK, ViewsNext
    PROVE  PageOK'
<1>0. DOMAIN page = {"at", "run", "other", "status", "events", "forks", "verdict"}
  BY DEF PageOK, NoPage
<1> USE DEF PageOK
<1>1. ASSUME NEW r \in Run, OpenRun(r) PROVE PageOK'
  BY <1>0, <1>1 DEF OpenRun
<1>2. ASSUME NEW a \in Run, NEW b \in Run, ReadFirst(a, b) PROVE PageOK'
  BY <1>0, <1>2 DEF ReadFirst
<1>3. CASE ReadTimeline \/ ReadForks
  BY <1>0, <1>3 DEF ReadTimeline, ReadForks
<1>4. CASE ReadSecond
  <2>1. PICK verdict : page' = [page EXCEPT !.at = "diff", !.verdict = verdict]
    BY <1>4 DEF ReadSecond
  <2> QED BY <1>0, <1>4, <2>1 DEF ReadSecond
<1>5. CASE ForkFromPage \/ Close
  BY <1>5 DEF ForkFromPage, Close, NoPage
<1> QED BY <1>1, <1>2, <1>3, <1>4, <1>5 DEF ViewsNext
----------------------------------------------------------------------------
(* The steps of each program                                               *)

LEMMA ForkRunForks ==
    ASSUME Sound, NEW parent \in Run, NEW child \in Run, NEW patch \in Patch,
           NEW k, ForkRun(parent, k, child, patch)
    PROVE  ForkSome
<1>1. PICK n \in Nat : DOMAIN diary[parent] = 1 .. n
  BY DEF Sound, DenseDiary
<1>2. k \in DOMAIN diary[parent]
  BY <1>1, ReadSound DEF ForkRun, CanFork
<1> QED BY <1>2 DEF ForkSome

LEMMA BrowseSteps ==
    ASSUME Sound, PageOK, ViewsNext
    PROVE  Ordinarily
<1>1. CASE Next
  BY <1>1, NextOrdinary
<1>2. CASE UNCHANGED vars
  BY <1>2, RestBooks DEF vars, Ordinarily
<1>3. CASE ForkFromPage
  <2>1. PICK k \in DOMAIN diary[page.run], child \in Run, patch \in Patch :
            ForkRun(page.run, k, child, patch)
    BY <1>3 DEF ForkFromPage
  <2>2. page.run \in Run
    BY <1>3 DEF ForkFromPage, PageOK
  <2> QED BY <1>3, <2>1, <2>2, ForkRunForks DEF ForkFromPage, Ordinarily
<1> QED BY <1>1, <1>2, <1>3
       DEF ViewsNext, OpenRun, ReadFirst, ReadTimeline, ReadForks, ReadSecond, Close

LEMMA CertifySteps ==
    ASSUME Sound, CertOK, CertNext
    PROVE  Ordinarily
<1>1. CASE FreshRun
  <2>1. cert.run + 1 \in Run /\ Create(cert.run + 1)
    BY <1>1, CertificatesAssumption, MaxRunAssumption DEF FreshRun, At, CertOK, Run
  <2> QED BY <2>1, QueueBooks DEF Ordinarily
<1>2. CASE Poll \/ Verdict
  BY <1>2, RestBooks DEF Poll, Verdict, Quiet, livesVars, Ordinarily
<1>3. ASSUME NEW l \in Life, Launch(l) PROVE Ordinarily
  <2>1. cert.run \in Run
    BY <1>3, CertificatesAssumption, MaxRunAssumption DEF Launch, At, CertOK, Run
  <2> QED BY <1>3, <2>1 DEF Launch, Ordinarily
<1>4. ASSUME NEW l \in Life, Killed(l) \/ LivesOn(l) PROVE Ordinarily
  BY <1>4 DEF Killed, LivesOn, Ordinarily
<1> QED BY <1>1, <1>2, <1>3, <1>4 DEF CertNext

LEMMA DemoRun ==
    ASSUME DemoOK, demo.at # "told"
    PROVE  demo.run \in Run
<1>1. 1 \in Run /\ 2 \in Run /\ 3 \in Run
  BY DemosAssumption, MaxRunAssumption DEF Run
<1>2. PICK n : n = Len(demo.bills)
  OBVIOUS
<1>3. CASE demo.demo = "benchmark"
  <2>1. n \in Nat /\ n <= 4 /\ n # 4 /\ demo.run = IF n = 0 THEN 1 ELSE n
    BY <1>2, <1>3 DEF DemoOK
  <2> QED BY <1>1, <2>1
<1> QED BY <1>1, <1>3 DEF DemoOK

LEMMA DemonstrateSteps ==
    ASSUME Sound, DemoOK, DemoNext
    PROVE  Ordinarily
<1>1. CASE Begin
  <2>1. demo.run \in Run /\ Create(demo.run)
    BY <1>1, DemoRun DEF Begin
  <2> QED BY <2>1, QueueBooks DEF Ordinarily
<1>2. CASE ForkNearTheEnd
  <2>1. demo.run \in Run /\ 1 \in Run
    BY <1>2, DemoRun, DemosAssumption, MaxRunAssumption
       DEF ForkNearTheEnd, Scene, Run
  <2> QED BY <1>2, <2>1, ForkRunForks DEF ForkNearTheEnd, Ordinarily
<1>3. ASSUME NEW l \in Life, Enter(l) PROVE Ordinarily
  <2>1. demo.run \in Run
    BY <1>3, DemoRun DEF Enter
  <2> QED BY <1>3, <2>1 DEF Enter, Ordinarily
<1>4. ASSUME NEW l \in Life, Perform(l) \/ Restart(l) \/ Measure(l) \/ Bill(l)
      PROVE  Ordinarily
  BY <1>4 DEF Perform, Restart, Measure, Act, Bill, Quits, Proc, Ordinarily
<1>5. ASSUME NEW h \in Human, Approve(h) PROVE Ordinarily
  BY <1>5 DEF Approve, Ordinarily
<1> QED BY <1>1, <1>2, <1>3, <1>4, <1>5 DEF DemoNext

LEMMA FleetSteps ==
    ASSUME Sound, BossOK, HarnessNext
    PROVE  Ordinarily
<1>1. CASE Terminate
  BY <1>1 DEF Terminate, Halts, Ordinarily
<1>2. ASSUME NEW w \in Worker, KillOne(w) PROVE Ordinarily
  BY <1>2 DEF KillOne, Ordinarily
<1>3. CASE \E w \in boss.alive : WorkerStep(w)
  BY <1>3 DEF BossOK, Ordinarily
<1>4. CASE \/ \E r \in Run : Enqueue(r) \/ LapseDead(r) \/ LapseLive(r)
           \/ \E w \in boss.alive, r \in Run : Beat(w, r)
           \/ Sweep
  BY <1>4, QueueBooks, LeaseBooks, SweepBooks
     DEF LapseDead, LapseLive, BossOK, Ordinarily
<1>5. CASE UNCHANGED <<runs, diary, keys, ledger, lock, pc, life, grant>>
  BY <1>5, RestBooks DEF Ordinarily
<1> QED BY <1>1, <1>2, <1>3, <1>4, <1>5
       DEF HarnessNext, ScriptStep, EnqueueJob, Drained, Check, Sweeper, SeesRunning,
           ReadTokenA, Freeze, SweepForB, SeesCompleted, ThawA, ReadAgain, Report,
           Crew, Still, vars, TimesOut, tables, Stall, Thaw

LEMMA MixedSteps ==
    ASSUME Sound, WroteOK, SystemNext
    PROVE  Ordinarily
<1>1. ASSUME NEW p \in Proc, RunEffect(p) PROVE Ordinarily
  BY <1>1, RestBooks DEF RunEffect, vars, Ordinarily
<1>2. ASSUME NEW p \in Proc, Ordinary(p) PROVE Ordinarily
  BY <1>2, LeaseBooks DEF Ordinary, Ordinarily
<1>3. ASSUME NEW p \in Proc, DeadlockVictim(p) PROVE Ordinarily
  <2>1. pc[p] = "tx"
    BY <1>3 DEF DeadlockVictim, Entangled, InTx, WroteOK
  <2> QED BY <1>3, <2>1 DEF DeadlockVictim, Aborts, Ordinarily
<1>4. CASE Around
  BY <1>4, QueueBooks, LeaseBooks, SweepBooks
     DEF Around, LapseDead, LapseLive, Grant, Branch, Ordinarily
<1> QED BY <1>1, <1>2, <1>3, <1>4 DEF SystemNext, Alone

LEMMA GatherSteps ==
    ASSUME Sound, GatherNext
    PROVE  Ordinarily \/ InGather
<1>1. ASSUME NEW l \in Life, GatherOpen(l) PROVE Ordinarily
  BY <1>1, QueueBooks DEF GatherOpen, LifeStep, Ordinarily
<1>2. ASSUME NEW l \in Life, NEW i \in DOMAIN Asked, StartTask(l, i)
      PROVE  Ordinarily \/ InGather
  BY <1>2, RestBooks DEF StartTask, Replays, ReadOnly, Ordinarily, InGather
<1>3. ASSUME NEW l \in Life, NEW i \in DOMAIN Asked, AnswerTask(l, i)
      PROVE  InGather
  <2>1. Asked[i] \in Prompt
    BY AskedAssumption
  <2> QED BY <1>3, <2>1 DEF AnswerTask, AnswersTask, InGather
<1>4. ASSUME NEW l \in Life, Gathered(l) PROVE Ordinarily \/ InGather
  BY <1>4 DEF Gathered, Ends, Quits, Proc, Ordinarily, InGather
<1>5. ASSUME NEW l \in Life, GatherDies(l) PROVE Ordinarily
  BY <1>5 DEF GatherDies, Ordinarily
<1> QED BY <1>1, <1>2, <1>3, <1>4, <1>5 DEF GatherNext
----------------------------------------------------------------------------
(* The tables and the lives, whatever plays                                *)

LEMMA AbortSound ==
    ASSUME Sound, NEW p \in Proc, Aborts(p)
    PROVE  Sound'
<1>1. DiaryTypeOK' /\ (\A q \in Run : DenseDiary(q)') /\ Grows
  BY DEF Aborts, Release, tables, Sound, DiaryTypeOK, DenseDiary, Exists, Grows
<1>2. /\ pc'[p] = "raised" /\ pc' = [pc EXCEPT ![p] = pc'[p]] /\ "raised" \in PC
      /\ life'[p] = life[p] /\ life' = [life EXCEPT ![p] = life'[p]]
      /\ life[p] \in LifeRow /\ pc[p] # "idle"
  BY DEF Aborts, Goto, Sound, PC
<1>3. LifeOK(p)'
  BY <1>2 DEF Sound, LifeOK, Walked, Exists, Aborts, tables
<1> QED BY <1>1, <1>2, <1>3, StepSound DEF Aborts

LEMMA AbortFits ==
    ASSUME Sound, Fits, NEW p \in Proc, Aborts(p)
    PROVE  Fits'
<1>1. RowsStay /\ TablesFit'
  BY StandingFit DEF Fits, TablesFit, Aborts, tables, Exists
<1> QED BY <1>1, StopFits DEF Aborts, Walking

LEMMA QuitSound ==
    ASSUME Sound, NEW p \in Proc, Quits(p)
    PROVE  Sound'
BY EndSound DEF Quits, ReadOnly, Sound, DiaryTypeOK, Exists

LEMMA QuitFits ==
    ASSUME Sound, Fits, NEW p \in Proc, Quits(p)
    PROVE  Fits'
BY EndFits DEF Quits, ReadOnly, Exists

LEMMA HaltSound ==
    ASSUME Sound, Halts
    PROVE  Sound'
<1>1. DiaryTypeOK' /\ (\A q \in Run : DenseDiary(q)') /\ Grows
  BY DEF Halts, tables, Sound, DiaryTypeOK, DenseDiary, Exists, Grows
<1>2. NoLife \in LifeRow /\ NoLife.run \notin Run
  BY NoneAssumption DEF NoLife, LifeRow
<1>3. pc' \in [Proc -> PC] /\ life' \in [Proc -> LifeRow]
  BY <1>2 DEF Halts, PC
<1>4. \A p \in Proc : LifeOK(p)'
  BY <1>2 DEF Halts, LifeOK
<1>5. ApprovalTypeOK' /\ \A h \in Human : GrantOK(h)'
  BY <1>1, GrantFrame DEF Halts, Sound, ApprovalTypeOK
<1> QED BY <1>1, <1>3, <1>4, <1>5 DEF Sound

LEMMA HaltFits ==
    ASSUME Sound, Fits, Halts
    PROVE  Fits'
<1>1. RowsStay /\ TablesFit'
  BY StandingFit DEF Fits, TablesFit, Halts, tables, Exists
<1>2. \A h \in Human : AnswerOK(h)'
  BY <1>1, AnswersStand DEF Fits, Halts
<1>3. CursorAt("idle", NoLife)
  BY DEF CursorAt, Walking, NoLife
<1>4. \A p \in Proc : CursorOK(p)'
  BY <1>3 DEF Halts, CursorOK
<1> QED BY <1>1, <1>2, <1>4 DEF Fits, TablesFit

LEMMA OrdinarilySound ==
    ASSUME Sound, Ordinarily
    PROVE  Sound'
<1>1. ASSUME NEW w \in Worker, WorkerStep(w) \/ Dies(w) \/ Fails(w) PROVE Sound'
  BY <1>1, WorkerSound
<1>2. ASSUME NEW l \in Life, LifeStep(l) \/ LifeDies(l) PROVE Sound'
  BY <1>2, LifeSound
<1>3. ASSUME NEW l \in Life, NEW r \in Run, TakeUp(l, r) PROVE Sound'
  BY <1>3, TakeUpSound
<1>4. ASSUME NEW h \in Human, GrantStep(h) \/ GrantStops(h), UNCHANGED <<pc, life>>
      PROVE  Sound'
  BY <1>4, GrantStepSound, GrantStopsSound
<1>5. ASSUME ForkSome, UNCHANGED <<pc, life, grant>> PROVE Sound'
  BY <1>5, ForkSound
<1>6. CASE Bookkeeping
  BY <1>6, RowsOnlySound DEF Bookkeeping
<1>7. ASSUME NEW p \in Proc, Aborts(p) \/ Quits(p) PROVE Sound'
  BY <1>7, AbortSound, QuitSound
<1>8. CASE Halts
  BY <1>8, HaltSound
<1> QED BY <1>1, <1>2, <1>3, <1>4, <1>5, <1>6, <1>7, <1>8 DEF Ordinarily

LEMMA OrdinarilyFits ==
    ASSUME Sound, Fits, Ordinarily
    PROVE  Fits'
<1>1. ASSUME NEW w \in Worker, WorkerStep(w) \/ Dies(w) \/ Fails(w) PROVE Fits'
  BY <1>1, WorkerFits
<1>2. ASSUME NEW l \in Life, LifeStep(l) \/ LifeDies(l) PROVE Fits'
  BY <1>2, LifeFits
<1>3. ASSUME NEW l \in Life, NEW r \in Run, TakeUp(l, r) PROVE Fits'
  BY <1>3, TakeUpFits
<1>4. ASSUME NEW h \in Human, GrantStep(h) \/ GrantStops(h), UNCHANGED <<pc, life>>
      PROVE  Fits'
  BY <1>4, GrantFits
<1>5. ASSUME ForkSome, UNCHANGED <<pc, life, grant>> PROVE Fits'
  BY <1>5, ForkFits
<1>6. CASE Bookkeeping
  BY <1>6, RowsFit DEF Bookkeeping
<1>7. ASSUME NEW p \in Proc, Aborts(p) \/ Quits(p) PROVE Fits'
  BY <1>7, AbortFits, QuitFits
<1>8. CASE Halts
  BY <1>8, HaltFits
<1> QED BY <1>1, <1>2, <1>3, <1>4, <1>5, <1>6, <1>7, <1>8 DEF Ordinarily
\* The agent of gather only asks the model.
OnlyAnswers == \A r \in Run : \A s \in DOMAIN diary[r] : Type(r, s) = "LLM_CALLED"

\* So every event that a cursor may pass is an answer.
LEMMA NextIsAnswer ==
    ASSUME Sound, OnlyAnswers, NEW l \in Proc, pc[l] # "idle", Replaying(l)
    PROVE  NextRecorded(l) \in Event /\ NextRecorded(l).type = "LLM_CALLED"
<1>1. /\ life[l] \in LifeRow /\ life[l].run \in Run
      /\ Walked(life[l].history, life[l].run)
  BY DEF Sound, LifeOK
<1>2. PICK h \in Seq(Event) : h = life[l].history
  BY <1>1 DEF LifeRow
<1>3. PICK n \in 1 .. Len(h) : NextRecorded(l) = h[n]
  BY <1>1, <1>2 DEF Replaying, NextRecorded, LifeRow
<1>4. h[n] \in Event
  BY <1>2, <1>3
<1>5. n \in DOMAIN diary[life[l].run] /\ diary[life[l].run][n].event = h[n]
  BY <1>1, <1>2, <1>3 DEF Walked
<1> QED BY <1>1, <1>3, <1>4, <1>5 DEF OnlyAnswers, Type

LEMMA InGatherSound ==
    ASSUME Sound, InGather
    PROVE  Sound'
<1>0. pc \in [Proc -> PC] /\ \A l \in Life : l \in Proc /\ LifeOK(l)
  BY DEF Sound, Proc
<1>1. ASSUME NEW l \in Life, Replays(l) PROVE Sound'
  <2>1. Goto(l, "agent")
    BY <1>0, <1>1 DEF Replays, Goto
  <2>2. Replay(l, TRUE, "agent")
    BY <1>1, <2>1 DEF Replays, Replay
  <2> QED BY <1>0, <1>1, <2>2, ReplaySound DEF Replays
<1>2. ASSUME NEW l \in Life, AnswersTask(l) PROVE Sound'
  <2>1. PICK prompt \in Prompt, response \in Answer :
            Record(l, LlmEvent(prompt, response), "agent")
    BY <1>2 DEF AnswersTask
  <2>2. LlmEvent(prompt, response) \in Event
    BY DEF LlmEvent, Event, EventType
  <2> QED BY <1>0, <1>2, <2>1, <2>2, RecordSound DEF AnswersTask
<1>3. ASSUME NEW l \in Life, Ends(l) PROVE Sound'
  <2>1. PICK r \in Run : r = life[l].run
    BY <1>0, <1>3 DEF Ends, LifeOK
  <2>2. DiaryTypeOK' /\ (\A q \in Run : DenseDiary(q)') /\ Grows
    BY <1>3, <2>1, StatusFrame DEF Ends, Status
  <2> QED BY <1>0, <1>3, <2>2, LeaveSound DEF Ends
<1> QED BY <1>1, <1>2, <1>3 DEF InGather

LEMMA InGatherFits ==
    ASSUME Sound, Fits, OnlyAnswers, InGather
    PROVE  Fits'
<1>0. pc \in [Proc -> PC] /\ \A l \in Life : l \in Proc /\ LifeOK(l)
  BY DEF Sound, Proc
<1>1. ASSUME NEW l \in Life, Replays(l) PROVE Fits'
  <2>1. Goto(l, "agent")
    BY <1>0, <1>1 DEF Replays, Goto
  <2>2. Replay(l, TRUE, "agent")
    BY <1>1, <2>1 DEF Replays, Replay
  <2>3. Leads(l, NextRecorded(l), "agent")
    BY <1>0, <1>1, NextIsAnswer DEF Replays, Leads
  <2> QED BY <1>0, <1>1, <2>2, <2>3, ReplayFits DEF Replays, Walking
<1>2. ASSUME NEW l \in Life, AnswersTask(l) PROVE Fits'
  <2>1. PICK prompt \in Prompt, response \in Answer :
            Record(l, LlmEvent(prompt, response), "agent")
    BY <1>2 DEF AnswersTask
  <2>2. PICK e : e = LlmEvent(prompt, response)
    OBVIOUS
  <2>3. e \in Event /\ e.type = "LLM_CALLED"
    BY <2>2 DEF LlmEvent, Event, EventType
  <2>4. Leads(l, e, "agent")
    BY <2>3 DEF Leads
  <2> QED BY <1>0, <1>2, <2>1, <2>2, <2>3, <2>4, RecordFits DEF AnswersTask
<1>3. ASSUME NEW l \in Life, Ends(l) PROVE Fits'
  <2>1. PICK r \in Run : r = life[l].run
    BY <1>0, <1>3 DEF Ends, LifeOK
  <2>2. \A q \in Run : Exists(q) => Exists(q)'
    BY <1>3, <2>1, StatusFrame DEF Ends, Status, Grows
  <2> QED BY <1>0, <1>3, <2>2, EndFits DEF Ends, SetRunStatus
<1> QED BY <1>1, <1>2, <1>3 DEF InGather
----------------------------------------------------------------------------
(* What the code plays, and where it ends                                  *)

LEMMA OrdinarilyPlays ==
    ASSUME Sound, Fits, NEW c, RunsOnly(c), AllPlayed(c), Ordinarily
    PROVE  AllPlayed(c)'
<1>1. ASSUME NEW w \in Worker, WorkerStep(w) \/ Dies(w) \/ Fails(w)
      PROVE  AllPlayed(c)'
  <2>1. Next
    BY <1>1 DEF Next
  <2> QED BY <2>1, NextPlays
<1>2. ASSUME NEW l \in Life, LifeStep(l) \/ LifeDies(l) PROVE AllPlayed(c)'
  <2>1. LivesNext
    BY <1>2 DEF LivesNext
  <2> QED BY <2>1, LivesPlay
<1>3. ASSUME NEW h \in Human, GrantStep(h) \/ GrantStops(h) PROVE AllPlayed(c)'
  BY <1>3, GrantPlays
<1>4. ASSUME ForkSome PROVE AllPlayed(c)'
  BY <1>4, ForkPlays
<1>5. ASSUME UNCHANGED diary PROVE AllPlayed(c)'
  BY <1>5, StandingPlays
<1> QED BY <1>1, <1>2, <1>3, <1>4, <1>5
       DEF Ordinarily, TakeUp, Bookkeeping, Aborts, Quits, ReadOnly, Halts, tables

\* A direct life marks its run when its agent has returned.
LEMMA LifeEnds ==
    ASSUME Sound, Sound', Fits, NEW c, RunsOnly(c), AllPlayed(c), EndsWell(c),
           NEW l \in Life, LifeStep(l) \/ LifeDies(l)
    PROVE  EndsWell(c)'
<1>0. /\ l \in Proc /\ life \in [Proc -> LifeRow] /\ runs \in [Run -> RunRow]
      /\ LifeOK(l)
  BY DEF Sound, DiaryTypeOK, Proc
<1>1. CASE Open(l)
  <2>1. PICK d \in Code : OpenContext(l, d)
    BY <1>1 DEF Open
  <2>2. life[l].run \in Run
    BY <1>0, <1>1 DEF Open, LifeOK
  <2> QED BY <1>0, <2>1, <2>2, OpenEnds
<1>2. CASE Walk(l)
  BY <1>0, <1>2, ContextEnds DEF Walk
<1>3. CASE Finish(l) \/ Suspend(l) \/ GiveUp(l) \/ LifeDies(l)
  <2>1. /\ Goto(l, "idle") /\ UNCHANGED diary
        /\ \A q \in Proc : q # l => life'[q] = life[q]
    BY <1>0, <1>3 DEF Finish, Suspend, GiveUp, LifeDies, Crash, Leave, ReadOnly,
                      SetRunStatus
  <2>2. \A r \in Run : runs'[r].status = "completed" =>
            \/ runs[r].status = "completed"
            \/ pc[l] = "returned" /\ r = life[l].run
    BY <1>0, <1>3 DEF Finish, Suspend, GiveUp, LifeDies, Crash, ReadOnly,
                      SetRunStatus, RunRow
  <2> QED BY <1>0, <2>1, <2>2, StopEnds DEF PC, Walking
<1> QED BY <1>1, <1>2, <1>3 DEF LifeStep

LEMMA OrdinarilyEnds ==
    ASSUME Sound, Sound', Fits, NEW c, RunsOnly(c), AllPlayed(c), EndsWell(c),
           Ordinarily
    PROVE  EndsWell(c)'
<1>0. runs \in [Run -> RunRow] /\ life \in [Proc -> LifeRow]
  BY DEF Sound, DiaryTypeOK
<1>1. ASSUME NEW w \in Worker, WorkerStep(w) \/ Dies(w) \/ Fails(w)
      PROVE  EndsWell(c)'
  BY <1>1, WorkerEnds
<1>2. ASSUME NEW l \in Life, LifeStep(l) \/ LifeDies(l) PROVE EndsWell(c)'
  BY <1>2, LifeEnds
<1>3. ASSUME NEW l \in Life, NEW r \in Run, TakeUp(l, r) PROVE EndsWell(c)'
  <2>1. /\ Goto(l, "claimed") /\ UNCHANGED <<diary, runs>> /\ l \in Proc
        /\ \A q \in Proc : q # l => life'[q] = life[q]
    BY <1>0, <1>3 DEF TakeUp, ReadOnly, Proc
  <2> QED BY <2>1, StopEnds DEF PC, Walking
<1>4. ASSUME Adds({}), UNCHANGED <<pc, life>>,
             \A r \in Run : runs'[r].status = "completed" =>
                 runs[r].status = "completed"
      PROVE  EndsWell(c)'
  <2>1. PICK C, D : C = {c} /\ D = {}
    OBVIOUS
  <2>2. Adds(D) /\ D \subseteq C
    BY <1>4, <2>1
  <2>3. Adds(C)
    BY <2>2, AddsMore
  <2> QED BY <1>4, <2>1, <2>3, TablesEnd
<1>5. ASSUME NEW h \in Human, GrantStep(h) \/ GrantStops(h), UNCHANGED <<pc, life>>
      PROVE  EndsWell(c)'
  <2>1. Adds({})
    BY <1>5, GrantAdds
  <2>2. \A r \in Run : runs'[r].status = "completed" => runs[r].status = "completed"
    BY <1>0, <1>5 DEF GrantStep, GrantRead, GrantAppend, GrantRequeue, SetRunStatus,
                      GrantStops, RunRow
  <2> QED BY <1>4, <1>5, <2>1, <2>2
<1>6. ASSUME ForkSome, UNCHANGED <<pc, life, grant>> PROVE EndsWell(c)'
  <2>1. \A r \in Run : runs'[r].status = "completed" => runs[r].status = "completed"
    BY <1>0, <1>6 DEF ForkSome, ForkRun, RunRow
  <2> QED BY <1>4, <1>6, <2>1 DEF Adds
<1>7. CASE Bookkeeping
  BY <1>4, <1>7 DEF Bookkeeping, Adds
<1>8. ASSUME NEW p \in Proc, Aborts(p) PROVE EndsWell(c)'
  BY <1>8, StopEnds DEF Aborts, tables, PC, Walking
<1>9. ASSUME NEW p \in Proc, Quits(p) PROVE EndsWell(c)'
  <2>1. /\ Goto(p, "idle") /\ UNCHANGED <<diary, runs>>
        /\ \A q \in Proc : q # p => life'[q] = life[q]
    BY <1>0, <1>9 DEF Quits, Leave, ReadOnly
  <2> QED BY <2>1, StopEnds DEF PC, Walking
<1>10. CASE Halts
  <2>1. UNCHANGED <<runs, diary>> /\ \A p \in Proc : pc'[p] = "idle"
    BY <1>10 DEF Halts, tables
  <2>2. \A r \in Run : FinishedFor({c}, r)' <=> FinishedFor({c}, r)
    BY <2>1 DEF FinishedFor, Midway, ReadEvents
  <2> QED BY <2>1, <2>2 DEF EndsWell, KnowsPatches, Walking
<1> QED BY <1>1, <1>2, <1>3, <1>5, <1>6, <1>7, <1>8, <1>9, <1>10 DEF Ordinarily
----------------------------------------------------------------------------
(* The invariant of the programs                                           *)

\* No process runs another version of the code than its program.
CodeOK == \A p \in Proc : life[p].code \in {None, Bounds[program].code}

\* What a program's runs hold: the calls of its code, completed when that
\* returns; or, with several calls in flight, only answers.
PlayOK ==
    /\ program # "gather" =>
          AllPlayed(Bounds[program].code) /\ EndsWell(Bounds[program].code)
    /\ program = "gather" => OnlyAnswers

ProgramOK ==
    /\ Sound /\ Fits
    /\ ScriptsOK /\ CodeOK /\ PlayOK
    /\ program # "mixed" => wrote = {}

LEMMA ProgramVersion ==
    ASSUME Fits, CodeOK, NEW c, c = Bounds[program].code
    PROVE  RunsOnly(c)
BY CodeAssumption DEF Fits, CursorOK, CursorAt, CodeOK, RunsOnly

LEMMA ProgramSteps ==
    ASSUME ProgramOK, [ProgramsNext]_programsVars
    PROVE  Ordinarily \/ (program = "gather" /\ InGather)
<1>0. Sound /\ ScriptsOK
  BY DEF ProgramOK
<1>1. Browse => Ordinarily
  BY <1>0, BrowseSteps DEF Browse, ScriptsOK
<1>2. Certify => Ordinarily
  BY <1>0, CertifySteps DEF Certify, ScriptsOK
<1>3. Demonstrate => Ordinarily
  BY <1>0, DemonstrateSteps DEF Demonstrate, ScriptsOK
<1>4. DriveFleet => Ordinarily
  BY <1>0, FleetSteps DEF DriveFleet, ScriptsOK
<1>5. Mix => Ordinarily
  BY <1>0, MixedSteps DEF Mix, ScriptsOK
<1>6. GatherCalls => Ordinarily \/ (program = "gather" /\ InGather)
  BY <1>0, GatherSteps DEF GatherCalls, Plays
<1>7. UNCHANGED programsVars => Ordinarily
  BY <1>0, RestBooks DEF programsVars, vars, Ordinarily
<1> QED BY <1>1, <1>2, <1>3, <1>4, <1>5, <1>6, <1>7 DEF ProgramsNext

\* Which program plays does not change, nor its code, and no program touches
\* what is another's.
LEMMA ProgramFrame ==
    ASSUME CodeOK, [ProgramsNext]_programsVars
    PROVE  /\ UNCHANGED program /\ CodeOK'
           /\ (program \in {"browse", "browse_forks"} /\ ViewsNext) \/ UNCHANGED page
           /\ (program \in {"chaos", "refund_chaos"} /\ CertNext) \/ UNCHANGED cert
           /\ CertNext \/ DemoNext \/ UNCHANGED brain
           /\ (program \in {"showcase", "benchmark"} /\ DemoNext) \/ UNCHANGED demo
           /\ (program \in Fleets /\ HarnessNext) \/ UNCHANGED boss
           /\ (program = "mixed" /\ SystemNext) \/ UNCHANGED wrote
           /\ (program = "gather" /\ GatherNext) \/ UNCHANGED task
<1>1. UNCHANGED program
  BY DEF ProgramsNext, Browse, Certify, Demonstrate, DriveFleet, Mix, GatherCalls,
         Plays, programsVars
<1>2. Within(Bounds[program]) \/ UNCHANGED programsVars
  BY DEF ProgramsNext, Browse, Certify, Demonstrate, DriveFleet, Mix, GatherCalls
<1>3. CodeOK'
  BY <1>1, <1>2 DEF Within, CodeOK, programsVars, vars
<1> QED BY <1>1, <1>3 DEF ProgramsNext, Browse, Certify, Demonstrate, DriveFleet, Mix,
                          GatherCalls, Plays, programsVars

\* Whoever acts alone leaves the others where they are.
LEMMA MixedWrote ==
    ASSUME Sound, WroteOK, SystemNext
    PROVE  WroteOK'
<1>0. pc \in [Proc -> PC]
  BY DEF Sound
<1>1. ASSUME NEW p \in Proc, RunEffect(p) PROVE WroteOK'
  BY <1>1 DEF RunEffect, InTx, vars, WroteOK
<1>2. ASSUME NEW p \in Proc, Alone(p) \/ DeadlockVictim(p) PROVE WroteOK'
  <2>1. \A q \in Proc : q # p => pc'[q] = pc[q]
    <3>1. ContextStep(p) => \A q \in Proc : q # p => pc'[q] = pc[q]
      BY ContextCarries DEF CarriesOn
    <3> QED BY <1>0, <1>2, <3>1
           DEF Alone, Ordinary, DeadlockVictim, WorkerStep, Claim, Start, Step,
               OpenContext, Complete, Park, Drop, Dies, Crash, Beat, LifeStep, Open,
               Walk, Finish, Suspend, GiveUp, LifeDies, TakeUp, Leave, Goto
  <2>2. wrote' = wrote \ {p}
    BY <1>2 DEF Alone, DeadlockVictim
  <2> QED BY <2>1, <2>2 DEF WroteOK
<1>3. CASE Around
  BY <1>3 DEF Around, Enqueue, LapseDead, LapseLive, Lapse, Create, Grant, Sweep,
              Branch, WroteOK
<1> QED BY <1>1, <1>2, <1>3 DEF SystemNext

LEMMA GatherAnswers ==
    ASSUME Sound, OnlyAnswers, GatherNext
    PROVE  OnlyAnswers'
<1>1. CASE UNCHANGED diary
  BY <1>1 DEF OnlyAnswers, Type
<1>2. ASSUME NEW l \in Life, NEW i \in DOMAIN Asked, AnswerTask(l, i)
      PROVE  OnlyAnswers'
  <2>1. PICK response \in Answer : Record(l, LlmEvent(Asked[i], response), "agent")
    BY <1>2 DEF AnswerTask
  <2>2. PICK e : e = LlmEvent(Asked[i], response)
    OBVIOUS
  <2>3. e.type = "LLM_CALLED"
    BY <2>2 DEF LlmEvent
  <2>4. \/ InsertEvent(life[l].run, NextSeq(l), e, life[l].token)
        \/ UNCHANGED diary
    BY <2>1, <2>2, RecordOutcome
  <2>5. CASE InsertEvent(life[l].run, NextSeq(l), e, life[l].token)
    <3>1. life[l].run \in Run /\ DOMAIN diary = Run
      BY <1>2 DEF AnswerTask, Sound, LifeOK, DiaryTypeOK, Proc
    <3> QED BY <2>3, <2>5, <3>1 DEF InsertEvent, WithRow, OnlyAnswers, Type
  <2> QED BY <1>1, <2>4, <2>5
<1> QED BY <1>1, <1>2
       DEF GatherNext, GatherOpen, Create, CreateRun, TakeUp, ReadOnly, Open,
           OpenContext, StartTask, Gathered, SetRunStatus, GatherDies, LifeDies, Crash

LEMMA ScriptsStart == ProgramsInit => ScriptsOK
<1> SUFFICES ASSUME ProgramsInit PROVE ScriptsOK
  OBVIOUS
<1>1. CertOK
  <2>1. PICK name : cert = Script(name)
    BY DEF ProgramsInit
  <2> QED BY <2>1, CertificatesAssumption, MaxRunAssumption DEF CertOK, Script
<1>2. DemoOK
  <2>1. PICK name \in {"showcase", "benchmark"} : demo = Demo(name)
    BY DEF ProgramsInit
  <2> QED BY <2>1 DEF DemoOK, Demo
<1>3. BossOK
  <2>1. PICK script : boss = Boss(script)
    BY DEF ProgramsInit
  <2> QED BY <2>1 DEF BossOK, Boss
<1>4. BrainOK /\ WroteOK /\ PageOK
  BY DEF ProgramsInit, BrainOK, NoBrain, Brain, WroteOK, PageOK, NoPage
<1> QED BY <1>1, <1>2, <1>3, <1>4 DEF ScriptsOK

LEMMA ProgramsStart == ProgramsInit => ProgramOK
<1> SUFFICES ASSUME ProgramsInit PROVE ProgramOK
  OBVIOUS
<1>1. Sound /\ Fits
  BY FleetInit, FitsAtFirst DEF ProgramsInit, FleetSound, Init
<1>2. CodeOK
  BY DEF ProgramsInit, Init, ContextInit, NoLife, CodeOK
<1>3. ASSUME NEW c PROVE AllPlayed(c) /\ EndsWell(c)
  BY DEF ProgramsInit, Init, DiaryInit, ContextInit, AbsentRow, AllPlayed, Played,
         EndsWell, KnowsPatches, Walking
<1>4. OnlyAnswers
  BY DEF ProgramsInit, Init, DiaryInit, OnlyAnswers
<1> QED BY <1>1, <1>2, <1>3, <1>4, ScriptsStart DEF ProgramOK, PlayOK, ProgramsInit

LEMMA ScriptsNext ==
    ASSUME ProgramOK, [ProgramsNext]_programsVars
    PROVE  ScriptsOK' /\ (program # "mixed" => wrote' = {})
<1>0. ScriptsOK /\ Sound /\ CodeOK /\ (program # "mixed" => wrote = {})
  BY DEF ProgramOK
<1>1. CertOK' /\ DemoOK' /\ BossOK' /\ PageOK'
  BY <1>0, ProgramFrame, CertSteps, DemoSteps, BossSteps, PageSteps
     DEF ScriptsOK, CertOK, DemoOK, BossOK, PageOK
<1>2. BrainOK'
  BY <1>0, ProgramFrame, CertBrain, DemoBrain DEF ScriptsOK, BrainOK
<1>3. CASE program = "mixed"
  <2>1. SystemNext \/ UNCHANGED programsVars
    BY <1>3 DEF ProgramsNext, Browse, Certify, Demonstrate, DriveFleet, Mix,
                GatherCalls, Plays, Fleets
  <2>2. WroteOK'
    BY <1>0, <2>1, MixedWrote DEF ScriptsOK, WroteOK, programsVars, vars
  <2> QED BY <1>1, <1>2, <1>3, <2>2 DEF ScriptsOK
<1>4. CASE program # "mixed"
  <2>1. wrote' = {}
    BY <1>0, <1>4, ProgramFrame
  <2> QED BY <1>1, <1>2, <2>1 DEF ScriptsOK, WroteOK
<1> QED BY <1>3, <1>4

LEMMA PlayNext ==
    ASSUME ProgramOK, Sound', [ProgramsNext]_programsVars
    PROVE  PlayOK'
<1>0. Sound /\ Fits /\ CodeOK /\ PlayOK /\ UNCHANGED program
  BY ProgramFrame DEF ProgramOK
<1>1. CASE program # "gather"
  <2>1. PICK c : c = Bounds[program].code
    OBVIOUS
  <2>2. RunsOnly(c) /\ AllPlayed(c) /\ EndsWell(c)
    BY <1>0, <1>1, <2>1, ProgramVersion DEF PlayOK
  <2>3. Ordinarily
    BY <1>1, ProgramSteps
  <2>4. AllPlayed(c)' /\ EndsWell(c)'
    BY <1>0, <2>2, <2>3, OrdinarilyPlays, OrdinarilyEnds
  <2> QED BY <1>0, <1>1, <2>1, <2>4 DEF PlayOK
<1>2. CASE program = "gather"
  <2>1. GatherNext \/ UNCHANGED programsVars
    BY <1>2 DEF ProgramsNext, Browse, Certify, Demonstrate, DriveFleet, Mix,
                GatherCalls, Plays, Fleets
  <2>2. OnlyAnswers'
    BY <1>0, <1>2, <2>1, GatherAnswers DEF PlayOK, OnlyAnswers, Type, programsVars,
                                           vars
  <2> QED BY <1>0, <1>2, <2>2 DEF PlayOK
<1> QED BY <1>1, <1>2

LEMMA ProgramsNextOK ==
    ASSUME ProgramOK, [ProgramsNext]_programsVars
    PROVE  ProgramOK'
<1>0. Sound /\ Fits /\ CodeOK /\ PlayOK /\ UNCHANGED program /\ CodeOK'
  BY ProgramFrame DEF ProgramOK
<1>1. Sound' /\ Fits'
  <2>1. CASE Ordinarily
    BY <1>0, <2>1, OrdinarilySound, OrdinarilyFits
  <2>2. CASE program = "gather" /\ InGather
    BY <1>0, <2>2, InGatherSound, InGatherFits DEF PlayOK
  <2> QED BY <2>1, <2>2, ProgramSteps
<1> QED BY <1>0, <1>1, ScriptsNext, PlayNext DEF ProgramOK

\* The invariant holds whichever program plays.
THEOREM ProgramsAreSound == ProgramsSpec => []ProgramOK
BY ProgramsStart, ProgramsNextOK, PTL DEF ProgramsSpec

\* An effect is there once and with its completion, whichever program plays,
\* also when Postgres aborts one of two transactions that wait for each other
\* (deadlock_timeout), and when a harness kills lives at its pins.
THEOREM ProgramsOnce == ProgramsSpec => []ExactlyOnce
<1>1. ProgramOK => ExactlyOnce
  BY FitsOnce DEF ProgramOK
<1> QED BY <1>1, ProgramsAreSound, PTL

----------------------------------------------------------------------------
(* The pages of cli.py and dashboard.py                                    *)

\* Who writes to a diary.
LEMMA OrdinarilyWrites ==
    ASSUME Ordinarily
    PROVE  \/ \E p \in Proc : ContextStep(p)
           \/ \E h \in Human : GrantStep(h) \/ GrantStops(h)
           \/ ForkSome \/ UNCHANGED diary
<1>1. ASSUME NEW w \in Worker, WorkerStep(w) \/ Dies(w) \/ Fails(w)
      PROVE  ContextStep(w) \/ UNCHANGED diary
  BY <1>1 DEF WorkerStep, Claim, ClaimRun, Start, Step, OpenContext, ReadOnly, Complete,
              Park, Drop, Dies, Crash, Fails, Raise
<1>2. ASSUME NEW l \in Life, LifeStep(l) \/ LifeDies(l)
      PROVE  ContextStep(l) \/ UNCHANGED diary
  BY <1>2 DEF LifeStep, Open, OpenContext, ReadOnly, Walk, Finish, Suspend, GiveUp,
              SetRunStatus, LifeDies, Crash
<1>3. (\E l \in Life, r \in Run : TakeUp(l, r)) \/ Bookkeeping
          \/ (\E p \in Proc : Aborts(p) \/ Quits(p)) \/ Halts => UNCHANGED diary
  BY DEF TakeUp, Bookkeeping, Aborts, Quits, Halts, ReadOnly, tables
<1> QED BY <1>1, <1>2, <1>3 DEF Ordinarily, Proc

\* What a program adds to a diary, its one version asked for, or a human, or a
\* fork.
LEMMA OrdinarilyAdds ==
    ASSUME Sound, Fits, NEW c, RunsOnly(c), Ordinarily
    PROVE  Adds({c})
<1>1. ASSUME NEW p \in Proc, ContextStep(p) PROVE Adds({c})
  <2>1. life[p].code = c
    BY <1>1, ContextWalks DEF RunsOnly
  <2> QED BY <1>1, <2>1, ContextAdds
<1>2. ASSUME NEW h \in Human, GrantStep(h) \/ GrantStops(h) PROVE Adds({c})
  <2>1. PICK C, D : C = {c} /\ D = {}
    OBVIOUS
  <2>2. Adds(D) /\ D \subseteq C
    BY <1>2, <2>1, GrantAdds
  <2> QED BY <2>1, <2>2, AddsMore
<1> QED BY <1>1, <1>2, OrdinarilyWrites DEF Adds

LEMMA OrdinarilyAddsSome ==
    ASSUME Sound, Fits, Ordinarily
    PROVE  Adds(Code)
<1>1. ASSUME NEW p \in Proc, ContextStep(p) PROVE Adds(Code)
  BY <1>1, ContextAddsSome
<1>2. ASSUME NEW h \in Human, GrantStep(h) \/ GrantStops(h) PROVE Adds(Code)
  BY <1>2, GrantAdds, AddsMore
<1> QED BY <1>1, <1>2, OrdinarilyWrites DEF Adds

\* And no program deletes a run.
LEMMA OrdinarilyStay ==
    ASSUME Sound, Ordinarily
    PROVE  RunsStay
<1>0. runs \in [Run -> RunRow]
  BY DEF Sound, DiaryTypeOK
<1>1. ASSUME NEW p \in Proc, ContextStep(p) PROVE RunsStay
  BY <1>1, ContextCarries DEF CarriesOn, RunsStay, Exists
<1>2. ASSUME NEW r \in Run, NEW status \in Status \ {"absent"}, SetRunStatus(r, status)
      PROVE  RunsStay
  BY <1>0, <1>2 DEF SetRunStatus, RunsStay, Exists
<1>3. ASSUME NEW w \in Worker, WorkerStep(w) \/ Dies(w) \/ Fails(w), ~ContextStep(w)
      PROVE  RunsStay
  <2>1. ASSUME NEW r \in Run, Claim(w, r) PROVE RunsStay
    BY <1>0, <2>1 DEF Claim, ClaimRun, ClaimedRow, RunsStay, Exists, RunRow
  <2>2. CASE Complete(w)
    BY <1>0, <2>2 DEF Complete, RunsStay, Exists, RunRow
  <2>3. CASE Park(w)
    <3>1. PICK status : status = ParkAs(w)
      OBVIOUS
    <3>2. status # "absent"
      BY <2>3, <3>1 DEF Park, ParkAs
    <3> QED BY <1>0, <2>3, <3>1, <3>2 DEF Park, ParkedRow, RunsStay, Exists, RunRow
  <2>4. UNCHANGED runs => RunsStay
    BY DEF RunsStay, Exists
  <2> QED BY <1>3, <2>1, <2>2, <2>3, <2>4
         DEF WorkerStep, Start, Step, OpenContext, Drop, Dies, Crash, Fails, Raise,
             ReadOnly
<1>4. ASSUME NEW l \in Life, LifeStep(l) \/ LifeDies(l), ~ContextStep(l)
      PROVE  RunsStay
  <2>1. UNCHANGED runs \/ pc[l] \in {"returned", "paused"}
    BY <1>4 DEF LifeStep, Open, OpenContext, Walk, Finish, Suspend, GiveUp, LifeDies,
                Crash, ReadOnly
  <2>2. pc[l] \in {"returned", "paused"} => life[l].run \in Run
    BY DEF Sound, LifeOK, Proc
  <2>3. UNCHANGED runs => RunsStay
    BY DEF RunsStay, Exists
  <2> QED BY <1>2, <1>4, <2>1, <2>2, <2>3
         DEF LifeStep, Open, OpenContext, Walk, Finish, Suspend, GiveUp, LifeDies,
             Crash, ReadOnly, Status
<1>5. ASSUME NEW h \in Human, GrantStep(h) \/ GrantStops(h) PROVE RunsStay
  BY <1>0, <1>5 DEF GrantStep, GrantRead, GrantAppend, GrantRequeue, GrantStops,
                    SetRunStatus, RunsStay, Exists, RunRow
<1>6. CASE ForkSome
  BY <1>0, <1>6 DEF ForkSome, ForkRun, RunsStay, Exists, RunRow
<1>7. CASE Bookkeeping
  BY <1>7 DEF Bookkeeping, RunsStay
<1>8. UNCHANGED runs => RunsStay
  BY DEF RunsStay, Exists
<1> QED BY <1>1, <1>3, <1>4, <1>5, <1>6, <1>7, <1>8
       DEF Ordinarily, Proc, TakeUp, Aborts, Quits, Halts, ReadOnly, tables

\* A page that is open is of a run that is there; what it shows of it is how
\* the run begins, and if it says that the run is completed, its agent has
\* finished.
Telling(c) ==
    LET r == page.run
    IN  /\ page.at \in {"row", "timeline", "page"} =>
              /\ Exists(r)
              /\ page.status = "completed" => FinishedFor({c}, r)
        /\ page.at \in {"timeline", "page"} =>
              /\ page.events \in Seq(Event)
              /\ Prefix(page.events, ReadEvents(r))
              /\ page.status = "completed" => page.events = ReadEvents(r)

LEMMA TellingStands ==
    ASSUME Sound, Sound', NEW c, Adds({c}), PageOK, Telling(c), UNCHANGED page,
           \A r \in Run : Exists(r) => Exists(r)'
    PROVE  Telling(c)'
<1> SUFFICES ASSUME page.at \in {"row", "timeline", "page"} PROVE Telling(c)'
  BY DEF Telling
<1>1. PICK r : r = page.run
  OBVIOUS
<1>2. r \in Run /\ Exists(r)
  BY <1>1 DEF PageOK, Telling
<1>3. PICK C : C = {c}
  OBVIOUS
<1>4. RowsKept /\ (FinishedFor(C, r) => diary'[r] = diary[r] /\ FinishedFor(C, r)')
  BY <1>2, <1>3, AddsKeep, FinishStands
<1>5. Prefix(ReadEvents(r), ReadEvents(r)')
  BY <1>2, <1>4, KeptReads
<1>6. PICK old, new : old = ReadEvents(r) /\ new = ReadEvents(r)'
  OBVIOUS
<1>7. Prefix(page.events, old) => Prefix(page.events, new)
  BY <1>5, <1>6 DEF Prefix
<1>8. FinishedFor(C, r) => new = old
  BY <1>4, <1>6 DEF ReadEvents
<1> QED BY <1>1, <1>2, <1>3, <1>4, <1>6, <1>7, <1>8 DEF Telling

LEMMA ViewsTell ==
    ASSUME Sound, Sound', Fits, NEW c, RunsOnly(c), EndsWell(c), PageOK, Telling(c),
           ViewsNext
    PROVE  Telling(c)'
<1>1. CASE Next /\ UNCHANGED page
  <2>1. Ordinarily
    BY <1>1, NextOrdinary
  <2>2. Adds({c})
    BY <2>1, OrdinarilyAdds
  <2>3. RunsStay
    BY <2>1, OrdinarilyStay
  <2> QED BY <1>1, <2>2, <2>3, TellingStands DEF RunsStay
<1>2. CASE UNCHANGED vars /\ page'.at \in {"none", "first", "diff"}
  BY <1>2 DEF Telling
<1>0. DOMAIN page = DOMAIN NoPage
  BY DEF PageOK
<1>3. ASSUME NEW r \in Run, OpenRun(r) PROVE Telling(c)'
  <2>1. /\ page'.at = "row" /\ page'.run = r /\ page'.status = runs[r].status
        /\ UNCHANGED vars /\ Exists(r)
    BY <1>0, <1>3 DEF OpenRun, NoPage
  <2>2. page'.status = "completed" => FinishedFor({c}, r)
    BY <2>1 DEF EndsWell
  <2> QED BY <2>1, <2>2 DEF Telling, Exists, FinishedFor, Midway, ReadEvents, vars
<1>4. CASE ReadTimeline
  <2>1. PICK s : s = ReadEvents(page.run)
    OBVIOUS
  <2>2. /\ page.at = "row" /\ page'.at = "timeline" /\ page'.run = page.run
        /\ page'.status = page.status /\ page'.events = s /\ UNCHANGED vars
    BY <1>0, <1>4, <2>1 DEF ReadTimeline, NoPage
  <2>3. s \in Seq(Event) /\ Prefix(s, s)
    <3>1. page.run \in Run
      BY <2>2 DEF PageOK
    <3>2. s \in Seq(Event)
      BY <2>1, <3>1, ReadSound DEF Sound, DenseDiary
    <3> QED BY <3>2 DEF Prefix
  <2> QED BY <2>1, <2>2, <2>3
         DEF Telling, Exists, FinishedFor, Midway, ReadEvents, vars
<1>5. CASE ReadForks
  <2>1. PICK s : s = ChildrenOf(page.run)
    OBVIOUS
  <2>2. /\ page.at = "timeline" /\ page'.at = "page" /\ page'.run = page.run
        /\ page'.status = page.status /\ page'.events = page.events /\ UNCHANGED vars
    BY <1>0, <1>5, <2>1 DEF ReadForks, NoPage
  <2> QED BY <2>2 DEF Telling, Exists, FinishedFor, Midway, ReadEvents, vars
<1>6. CASE ForkFromPage
  BY <1>6 DEF ForkFromPage, NoPage, Telling
<1>7. ASSUME NEW a \in Run, NEW b \in Run, ReadFirst(a, b) PROVE Telling(c)'
  BY <1>0, <1>2, <1>7 DEF ReadFirst, NoPage
<1>8. CASE ReadSecond
  BY <1>0, <1>2, <1>8 DEF ReadSecond, NoPage
<1>9. CASE Close
  BY <1>2, <1>9 DEF Close, NoPage
<1> QED BY <1>1, <1>3, <1>4, <1>5, <1>6, <1>7, <1>8, <1>9 DEF ViewsNext

Browsing == {"browse", "browse_forks"}

\* Only two programs show pages.
PagesOK ==
    /\ Telling(Bounds[program].code)
    /\ program \notin Browsing => page = NoPage

LEMMA PagesNext ==
    ASSUME ProgramOK, ProgramOK', PagesOK, [ProgramsNext]_programsVars
    PROVE  PagesOK'
<1>0. /\ Sound /\ Sound' /\ Fits /\ CodeOK /\ PlayOK /\ PageOK /\ UNCHANGED program
  BY ProgramFrame DEF ProgramOK, ScriptsOK
<1>1. PICK c : c = Bounds[program].code
  OBVIOUS
<1>2. CASE program \in Browsing /\ ViewsNext
  <2>1. RunsOnly(c) /\ EndsWell(c) /\ Telling(c)
    BY <1>0, <1>1, <1>2, ProgramVersion DEF PlayOK, Browsing, PagesOK
  <2>2. Telling(c)'
    BY <1>0, <1>2, <2>1, ViewsTell
  <2> QED BY <1>0, <1>1, <1>2, <2>2 DEF PagesOK
<1>3. CASE UNCHANGED page /\ program \notin Browsing
  BY <1>0, <1>3 DEF PagesOK, Telling, NoPage
<1>4. CASE UNCHANGED page /\ program \in Browsing
  <2>1. RunsOnly(c) /\ Telling(c)
    BY <1>0, <1>1, <1>4, ProgramVersion DEF PlayOK, PagesOK
  <2>2. Ordinarily
    BY <1>4, ProgramSteps DEF Browsing
  <2>3. Adds({c}) /\ RunsStay
    BY <1>0, <2>1, <2>2, OrdinarilyAdds, OrdinarilyStay
  <2>4. Telling(c)'
    BY <1>0, <1>4, <2>1, <2>3, TellingStands DEF RunsStay
  <2> QED BY <1>0, <1>1, <1>4, <2>4 DEF PagesOK
<1> QED BY <1>0, <1>2, <1>3, <1>4, ProgramFrame DEF Browsing

\* What a page has read of a completed run is the whole run, and what it read of
\* any run is a prefix of that run's diary, while the run goes on (cmd_show,
\* show_run): the invariant behind the two theorems that follow.
THEOREM PagesTell == ProgramsSpec => [](ProgramOK /\ PagesOK)
<1>1. ProgramsInit => PagesOK
  BY DEF ProgramsInit, PagesOK, Telling, NoPage
<1> QED BY <1>1, ProgramsAreSound, PagesNext, PTL DEF ProgramsSpec

\* A page of show_run or cmd_show that says "completed" shows the whole run, and
\* goes on showing it: what it read first, the status, no longer changes what
\* it read next, the timeline, and nobody writes to that run any more.
THEOREM ShownIsWhole == ProgramsSpec => []ShownCompletedIsWhole
<1>1. PagesOK => ShownCompletedIsWhole
  BY DEF PagesOK, Telling, ShownCompletedIsWhole
<1> QED BY <1>1, PagesTell, PTL

\* What do_fork inserts agrees with its page, whatever the run became.
LEMMA ForkAgrees ==
    ASSUME Sound, PageOK, NEW c, Telling(c), ForkFromPage,
           NEW child \in Run, ~Exists(child), Exists(child)'
    PROVE  /\ \A s \in 1 .. runs'[child].forkSeq :
                 s \in DOMAIN page.events => diary'[child][s].event = page.events[s]
           /\ page.status = "completed" => runs'[child].forkSeq \in DOMAIN page.events
<1>1. PICK k \in DOMAIN diary[page.run], d \in Run, patch \in Patch :
          ForkRun(page.run, k, d, patch)
  BY DEF ForkFromPage
<1>2. PICK parent \in Run : parent = page.run
  BY DEF ForkFromPage, PageOK
<1>3. PICK n \in Nat : DOMAIN diary[parent] = 1 .. n
  BY DEF Sound, DenseDiary
<1>4. PICK events : events = ReadEvents(parent)
  OBVIOUS
<1>5. /\ events = [i \in 1 .. n |-> diary[parent][i].event] /\ Len(events) = n
      /\ Prefix(page.events, events) /\ k \in 1 .. Len(events)
  <2>1. events = [i \in 1 .. n |-> diary[parent][i].event] /\ Len(events) = n
    BY <1>2, <1>3, <1>4, ReadDense, ReadSound
  <2>2. Prefix(page.events, events)
    BY <1>2, <1>4 DEF ForkFromPage, Telling
  <2>3. k \in 1 .. Len(events)
    BY <1>1, <1>2, <1>4 DEF ForkRun, CanFork
  <2> QED BY <2>1, <2>2, <2>3
<1>6. PICK rows : rows = WithRow(CopiedPrefix(parent, k), k + 1, PatchEvent(patch), 0)
  OBVIOUS
<1>7. \A s \in 1 .. k : rows[s].event = diary[parent][s].event
  BY <1>3, <1>5, <1>6, ForkedRows
<1>8. child = d /\ runs'[d].forkSeq = k /\ diary'[d] = rows
  BY <1>1, <1>2, <1>6 DEF ForkRun, Sound, DiaryTypeOK, Exists, RunRow
<1>9. \A s \in 1 .. k : s \in 1 .. n /\ events[s] = diary[parent][s].event
  BY <1>5
<1>10. DOMAIN page.events = 1 .. Len(page.events)
  <2>1. page.events \in Seq(Event)
    BY DEF ForkFromPage, Telling
  <2> QED BY <2>1
<1>11. \A s \in 1 .. k : s \in DOMAIN page.events => diary'[child][s].event = page.events[s]
  BY <1>5, <1>7, <1>8, <1>9, <1>10 DEF Prefix
<1>12. page.status = "completed" => page.events = events
  BY <1>2, <1>4 DEF ForkFromPage, Telling
<1> QED BY <1>5, <1>8, <1>10, <1>11, <1>12

\* Whatever step is asked for from a page of the dashboard (do_fork), and
\* however old that page is, the fork has the steps the page showed, as far as
\* it goes; and it has no others if the page said "completed".
THEOREM ForksAgreeWithPages == ProgramsSpec => ForkAgreesWithPage
<1>1. ASSUME ProgramOK, PagesOK, [ProgramsNext]_programsVars, NEW child \in Run,
             page.at = "page", page'.at = "none", ~Exists(child), Exists(child)'
      PROVE  /\ \A s \in 1 .. runs'[child].forkSeq :
                   s \in DOMAIN page.events => diary'[child][s].event = page.events[s]
             /\ page.status = "completed" =>
                   runs'[child].forkSeq \in DOMAIN page.events
  <2>1. ViewsNext
    BY <1>1, ProgramFrame DEF ProgramOK
  <2>2. DOMAIN page = DOMAIN NoPage
    BY <1>1 DEF ProgramOK, ScriptsOK, PageOK
  <2>3. ForkFromPage
    BY <1>1, <2>1, <2>2 DEF ViewsNext, OpenRun, ReadTimeline, ReadForks, ReadFirst,
                            ReadSecond, Close, NoPage, vars, Exists
  <2> QED BY <1>1, <2>3, ForkAgrees DEF ProgramOK, ScriptsOK, PagesOK
<1>2. ProgramOK /\ PagesOK /\ [ProgramsNext]_programsVars =>
          [\A child \in Run :
              page.at = "page" /\ page'.at = "none" /\ ~Exists(child) /\ Exists(child)' =>
                  LET k == runs'[child].forkSeq
                  IN  /\ \A s \in 1 .. k :
                            s \in DOMAIN page.events =>
                                diary'[child][s].event = page.events[s]
                      /\ page.status = "completed" => k \in DOMAIN page.events]_viewVars
  BY <1>1
<1> QED BY <1>2, PagesTell, PTL DEF ProgramsSpec, ForkAgreesWithPage

----------------------------------------------------------------------------
(* Several calls in flight                                                 *)

\* The one process of gather handed its tasks answers that it has seen.
OwnOK ==
    /\ DOMAIN task = DOMAIN Asked
    /\ program # "gather" => task = Fresh
    /\ OwnAnswers

\* Only who is cast plays.
CastOK == \A p \in Proc : pc[p] # "idle" => p \in Bounds[program].cast

LEMMA CastNext ==
    ASSUME CastOK, CodeOK, [ProgramsNext]_programsVars
    PROVE  CastOK'
<1>1. UNCHANGED program
  BY ProgramFrame
<1>2. Within(Bounds[program]) \/ UNCHANGED programsVars
  BY DEF ProgramsNext, Browse, Certify, Demonstrate, DriveFleet, Mix, GatherCalls
<1> QED BY <1>1, <1>2 DEF Within, CastOK, programsVars, vars

\* What a task was handed is in what its process has seen.
Handed(l, i) ==
    \E j \in DOMAIN life[l].seen : life[l].seen[j] = LlmEvent(Asked[i], task[i].ans)

\* A task gets the event the cursor passes, or keeps what it has.
LEMMA HandsOver ==
    ASSUME Sound, DOMAIN task = DOMAIN Asked, NEW l \in Life,
           \A i \in DOMAIN Asked : task[i].at = "got" => Handed(l, i),
           NEW e, See(l, e), NEW i \in DOMAIN Asked, NEW at, NEW ans, TaskTo(i, at, ans),
           at = "got" => e = LlmEvent(Asked[i], ans),
           NEW j \in DOMAIN Asked, task'[j].at = "got"
    PROVE  Handed(l, j)'
<1>0. life \in [Proc -> LifeRow] /\ l \in Proc
  BY DEF Sound, Proc
<1>1. PICK s \in Seq(Event) : s = life[l].seen
  BY <1>0 DEF LifeRow
<1>2. life'[l].seen = Append(s, e)
  BY <1>0, <1>1 DEF See, LifeRow
<1>3. PICK t : t = Append(s, e)
  OBVIOUS
<1>4. /\ DOMAIN t = 1 .. Len(s) + 1 /\ t[Len(s) + 1] = e
      /\ \A k \in DOMAIN s : k \in DOMAIN t /\ t[k] = s[k]
  BY <1>3
<1>5. CASE j = i
  <2>1. task'[i] = [at |-> at, ans |-> ans] /\ at = "got"
    BY <1>5 DEF TaskTo
  <2>2. Len(s) + 1 \in DOMAIN t
    BY <1>4
  <2> QED BY <1>2, <1>3, <1>4, <1>5, <2>1, <2>2 DEF Handed
<1>6. CASE j # i
  <2>1. task'[j] = task[j]
    BY <1>6 DEF TaskTo
  <2> QED BY <1>1, <1>2, <1>3, <1>4, <2>1 DEF Handed
<1> QED BY <1>5, <1>6

LEMMA GatherOwns ==
    ASSUME Sound, DOMAIN task = DOMAIN Asked, OwnAnswers, GatherNext,
           \A l, q \in Life : pc[l] # "idle" /\ pc'[q] # "idle" => l = q
    PROVE  DOMAIN task' = DOMAIN Asked /\ OwnAnswers'
<1>0. life \in [Proc -> LifeRow] /\ pc \in [Proc -> PC]
  BY DEF Sound
<1>1. CASE task' = Fresh
  BY <1>1 DEF Fresh, OwnAnswers
<1>2. ASSUME NEW l \in Life, NEW i \in DOMAIN Asked, StartTask(l, i)
      PROVE  DOMAIN task' = DOMAIN Asked /\ OwnAnswers'
  <2>1. /\ l \in Proc /\ pc[l] = "agent" /\ UNCHANGED pc
        /\ DOMAIN task' = DOMAIN Asked
        /\ \A j \in DOMAIN Asked : task[j].at = "got" => Handed(l, j)
    BY <1>2 DEF StartTask, TaskTo, Proc, OwnAnswers, Handed
  <2>2. \A q \in Life : pc'[q] = "agent" => q = l
    BY <2>1
  <2>3. ASSUME NEW j \in DOMAIN Asked, task'[j].at = "got" PROVE Handed(l, j)'
    <3>1. CASE Replaying(l)
      <4>1. PICK e : e = NextRecorded(l)
        OBVIOUS
      <4>2. e \in Event
        BY <1>0, <2>1, <3>1, <4>1 DEF Replaying, NextRecorded, LifeRow
      <4>3. IsAsked(e, "LLM_CALLED", Asked[i]) => e = LlmEvent(Asked[i], e.ans)
        BY <4>2 DEF IsAsked, LlmEvent, Event
      <4>4. CASE IsAsked(e, "LLM_CALLED", Asked[i])
        <5>1. See(l, e) /\ TaskTo(i, "got", e.ans)
          BY <1>2, <3>1, <4>1, <4>4 DEF StartTask
        <5> QED BY <2>1, <2>3, <4>3, <4>4, <5>1, HandsOver
      <4>5. CASE ~IsAsked(e, "LLM_CALLED", Asked[i])
        <5>1. See(l, e) /\ TaskTo(i, "diverged", None)
          BY <1>2, <3>1, <4>1, <4>5 DEF StartTask
        <5> QED BY <2>1, <2>3, <5>1, HandsOver
      <4> QED BY <4>4, <4>5
    <3>2. CASE ~Replaying(l)
      BY <1>2, <2>1, <2>3, <3>2 DEF StartTask, TaskTo, Handed
    <3> QED BY <3>1, <3>2
  <2> QED BY <2>1, <2>2, <2>3 DEF OwnAnswers, Handed
<1>3. ASSUME NEW l \in Life, NEW i \in DOMAIN Asked, AnswerTask(l, i)
      PROVE  DOMAIN task' = DOMAIN Asked /\ OwnAnswers'
  <2>1. PICK response \in Answer :
            /\ Record(l, LlmEvent(Asked[i], response), "agent")
            /\ TaskTo(i, "got", response)
    BY <1>3 DEF AnswerTask
  <2>2. PICK e : e = LlmEvent(Asked[i], response)
    OBVIOUS
  <2>3. /\ l \in Proc /\ pc[l] = "agent" /\ DOMAIN task' = DOMAIN Asked
        /\ \A j \in DOMAIN Asked : task[j].at = "got" => Handed(l, j)
    BY <1>3, <2>1 DEF AnswerTask, TaskTo, Proc, OwnAnswers, Handed
  <2>4. \/ Goto(l, "agent") /\ See(l, e)
        \/ pc'[l] # "agent" /\ \A q \in Proc : q # l => pc'[q] = pc[q]
    BY <1>0, <2>1, <2>2, <2>3 DEF Record, Goto
  <2>5. CASE Goto(l, "agent") /\ See(l, e)
    <3>1. \A q \in Life : pc'[q] = "agent" => q = l
      BY <2>3
    <3>2. ASSUME NEW j \in DOMAIN Asked, task'[j].at = "got" PROVE Handed(l, j)'
      BY <2>1, <2>2, <2>3, <2>5, <3>2, HandsOver
    <3> QED BY <2>3, <3>1, <3>2 DEF OwnAnswers, Handed
  <2>6. CASE pc'[l] # "agent" /\ \A q \in Proc : q # l => pc'[q] = pc[q]
    <3>1. \A q \in Life : pc'[q] # "agent"
      BY <2>3, <2>6
    <3> QED BY <2>3, <3>1 DEF OwnAnswers
  <2> QED BY <2>4, <2>5, <2>6
<1> QED BY <1>1, <1>2, <1>3 DEF GatherNext, GatherOpen, Gathered, GatherDies

\* Whatever order the answers of concurrent ctx.llm calls come in, and whichever
\* of them a dead life had recorded, a call is handed an answer given to its own
\* prompt: the cursor of _replay_next and the comparison with the recorded
\* prompt are enough.
THEOREM GatherIsOwn == ProgramsSpec => []OwnAnswers
<1>1. ProgramsInit => CastOK /\ OwnOK
  BY DEF ProgramsInit, Init, ContextInit, CastOK, OwnOK, OwnAnswers, Fresh
<1>2. ProgramOK /\ CastOK /\ [ProgramsNext]_programsVars => CastOK'
  BY CastNext DEF ProgramOK
<1>3. ASSUME ProgramOK, program \in DOMAIN Bounds, CastOK, CastOK',
             OwnOK, [ProgramsNext]_programsVars
      PROVE  OwnOK'
  <2>1. UNCHANGED program /\ Sound
    BY <1>3, ProgramFrame DEF ProgramOK
  <2>2. CASE program = "gather" /\ GatherNext
    <3>1. PICK l \in Life : Bounds["gather"].cast \subseteq {l}
      BY <1>3, <2>2, BoundsAssumption
    <3>2. \A p, q \in Life : pc[p] # "idle" /\ pc'[q] # "idle" => p = q
      BY <1>3, <2>1, <2>2, <3>1 DEF CastOK, Proc
    <3> QED BY <1>3, <2>1, <2>2, <3>2, GatherOwns DEF OwnOK
  <2>3. CASE UNCHANGED task
    <3>1. CASE program = "gather"
      <4>1. GatherNext \/ UNCHANGED programsVars
        BY <1>3, <3>1 DEF ProgramsNext, Browse, Certify, Demonstrate, DriveFleet,
                          Mix, GatherCalls, Plays, Fleets
      <4> QED BY <1>3, <2>1, <2>2, <3>1, <4>1 DEF OwnOK, OwnAnswers, programsVars, vars
    <3>2. CASE program # "gather"
      BY <1>3, <2>1, <2>3, <3>2 DEF OwnOK, OwnAnswers, Fresh
    <3> QED BY <3>1, <3>2
  <2> QED BY <1>3, <2>2, <2>3, ProgramFrame DEF ProgramOK
<1>4. ProgramsInit => program \in DOMAIN Bounds
  BY DEF ProgramsInit
<1>5. ProgramOK /\ program \in DOMAIN Bounds /\ [ProgramsNext]_programsVars =>
          (program \in DOMAIN Bounds)'
  BY ProgramFrame DEF ProgramOK
<1>6. OwnOK => OwnAnswers
  BY DEF OwnOK
<1> QED BY ProgramsAreSound, <1>1, <1>2, <1>3, <1>4, <1>5, <1>6, PTL DEF ProgramsSpec

----------------------------------------------------------------------------
(* Who parks a run                                                         *)

\* A diary that awaits a decision ends on the question.
LEMMA AwaitsLast ==
    ASSUME Sound, NEW r \in Run, Awaiting(r)
    PROVE  \E n \in Nat \ {0} :
              DOMAIN diary[r] = 1 .. n /\ Ev(r, n).type = "APPROVAL_REQUESTED"
<1>1. PICK n \in Nat : DOMAIN diary[r] = 1 .. n
  BY DEF Sound, DenseDiary
<1>2. PICK s : s = ReadEvents(r)
  OBVIOUS
<1>3. s \in Seq(Event) /\ Len(s) = n /\ Walked(s, r)
  BY <1>1, <1>2, ReadSound
<1>4. s # << >> /\ s[n].type = "APPROVAL_REQUESTED"
  BY <1>2, <1>3 DEF Awaiting
<1>5. n # 0
  BY <1>3, <1>4
<1>6. n \in 1 .. n
  BY <1>5
<1> QED BY <1>1, <1>3, <1>4, <1>5, <1>6 DEF Walked, Ev

\* No agent writes after a question: it pauses there.
LEMMA StepAwaits ==
    ASSUME Sound, Sound', Fits, NEW p \in Proc, ContextStep(p), NEW r \in Run,
           Awaiting(r)
    PROVE  Awaiting(r)'
<1>0. LifeOK(p) /\ life[p] \in LifeRow /\ CursorAt(pc[p], life[p])
  BY DEF Sound, Fits, CursorOK
<1>1. SeesOn(p) /\ pc[p] \in Walking
  BY ContextSeesOn, ContextWalks
<1>2. CASE diary'[r] = diary[r]
  BY <1>2, AwaitsOn
<1>3. CASE diary'[r] # diary[r]
  <2>1. PICK n \in Nat \ {0} :
            DOMAIN diary[r] = 1 .. n /\ Ev(r, n).type = "APPROVAL_REQUESTED"
    BY AwaitsLast
  <2>2. PICK s \in Seq(Event) : s = life[p].seen
    BY <1>0 DEF LifeRow
  <2>3. r = life[p].run /\ DOMAIN diary'[r] = 1 .. Len(s) + 1 /\ Walked(s, r)
    BY <1>0, <1>1, <1>3, <2>2 DEF SeesOn, LifeOK
  <2>4. Adds(Code)
    BY ContextAddsSome
  <2>5. RowsKept
    BY <2>4, AddsKeep
  <2>6. n \in 1 .. Len(s) + 1
    <3>1. n \in DOMAIN diary[r]
      BY <2>1
    <3> QED BY <2>3, <2>5, <3>1 DEF RowsKept
  <2>7. CASE n = Len(s) + 1
    <3>1. n \in DOMAIN diary[r]
      BY <2>1
    <3>2. diary'[r][n].event.type = "APPROVAL_REQUESTED"
      BY <2>1, <2>5, <3>1 DEF RowsKept, Ev
    <3>3. Sound' => EveryQuestionAwaits'
      BY QuestionAwaits, PTL
    <3> QED BY <2>1, <2>3, <2>7, <3>2, <3>3 DEF EveryQuestionAwaits, Ev
  <2>8. CASE n # Len(s) + 1
    <3>1. Len(s) \in 1 .. n
      <4>1. \A i \in 1 .. Len(s) : i \in 1 .. n
        BY <2>1, <2>3 DEF Walked
      <4> QED BY <2>2, <2>6, <2>8, <4>1
    <3>2. n = Len(s)
      BY <2>2, <2>6, <2>8, <3>1
    <3>3. s[Len(s)].type = "APPROVAL_REQUESTED"
      BY <2>1, <2>3, <3>2 DEF Walked, Ev
    <3>4. pc[p] = "asked"
      BY <1>0, <1>1, <2>1, <2>2, <3>2, <3>3 DEF CursorAt, Walking
    <3>5. UNCHANGED diary
      BY <3>4 DEF ContextStep, ApplyPatch, ReplayLlm, CallModel, RecordLlm,
                  ReplayIntent, RecordIntent, ReplayCompleted, BeginEffect,
                  CommitEffect, ReplayRequest, RecordRequest, ReplayDecision, Pause,
                  Return, RaiseOwn, Asks, Replay, ReadOnly
    <3> QED BY <1>3, <3>5
  <2> QED BY <2>7, <2>8
<1> QED BY <1>2, <1>3

\* A run is claimed, or it does not start to run, and where it runs what waited
\* for a human goes on waiting.
Turns(r) ==
    \/ runs'[r].token > runs[r].token
    \/ /\ runs'[r].token = runs[r].token
       /\ runs'[r].status = "running" =>
             runs[r].status = "running" /\ (Waits(r) => Waits(r)')

LEMMA QuietTurns ==
    ASSUME NEW r, diary'[r] = diary[r], runs'[r].token = runs[r].token,
           runs'[r].status = "running" => runs[r].status = "running",
           UNCHANGED grant
    PROVE  Turns(r)
BY AwaitsOn DEF Turns, Waits, Pending

LEMMA StepTurns ==
    ASSUME Sound, Sound', Fits, NEW p \in Proc, ContextStep(p), UNCHANGED grant,
           NEW r \in Run
    PROVE  Turns(r)
<1>1. UNCHANGED runs
  BY ContextCarries DEF CarriesOn
<1> QED BY <1>1, StepAwaits DEF Turns, Waits, Pending

\* A worker's other steps write no event.
LEMMA WorkerTurns ==
    ASSUME Sound, Sound', Fits, NEW w \in Worker,
           WorkerStep(w) \/ Dies(w) \/ Fails(w), NEW r \in Run
    PROVE  Turns(r)
<1>0. w \in Proc /\ runs \in [Run -> RunRow] /\ LifeOK(w)
  BY DEF Sound, DiaryTypeOK, Proc
<1>1. CASE Step(w)
  BY <1>0, <1>1, StepTurns DEF Step
<1>2. ASSUME NEW q \in Run, Claim(w, q) PROVE Turns(r)
  <2>1. PICK row : row = ClaimedRow(runs[q], w)
    OBVIOUS
  <2>2. row.token = runs[q].token + 1 /\ runs[q].token \in Nat
    BY <1>0, <2>1 DEF ClaimedRow, RunRow
  <2>3. runs' = [runs EXCEPT ![q] = row] /\ UNCHANGED <<diary, grant>>
    BY <1>2, <2>1 DEF Claim, ClaimRun
  <2>4. CASE r = q
    BY <1>0, <2>2, <2>3, <2>4 DEF Turns
  <2>5. CASE r # q
    BY <1>0, <2>3, <2>5, QuietTurns
  <2> QED BY <2>4, <2>5
<1>3. CASE Complete(w)
  <2>1. /\ UNCHANGED <<diary, grant>>
        /\ runs'[r].token = runs[r].token
        /\ runs'[r].status = "running" => runs[r].status = "running"
    BY <1>0, <1>3 DEF Complete, RunRow
  <2> QED BY <2>1, QuietTurns
<1>4. CASE Park(w)
  <2>1. PICK q \in Run : q = life[w].run
    BY <1>0, <1>4 DEF Park, LifeOK
  <2>2. PICK row : row = ParkedRow(runs[q], ParkAs(w))
    OBVIOUS
  <2>3. row.token = runs[q].token /\ row.status \in {"paused", "failed"}
    <3>1. ParkAs(w) \in {"paused", "failed"}
      BY <1>4 DEF Park, ParkAs
    <3> QED BY <1>0, <2>2, <3>1 DEF ParkedRow, RunRow
  <2>4. /\ UNCHANGED <<diary, grant>>
        /\ UNCHANGED runs \/ runs' = [runs EXCEPT ![q] = row]
    BY <1>4, <2>1, <2>2 DEF Park
  <2> QED BY <1>0, <2>3, <2>4, QuietTurns
<1>5. CASE Start(w) \/ Drop(w) \/ Dies(w) \/ Fails(w)
  BY <1>5, QuietTurns DEF Start, OpenContext, Drop, Dies, Crash, Fails, Raise, ReadOnly
<1> QED BY <1>1, <1>2, <1>3, <1>4, <1>5 DEF WorkerStep

LEMMA LifeTurns ==
    ASSUME Sound, Sound', Fits, NEW l \in Life, LifeStep(l) \/ LifeDies(l), NEW r \in Run
    PROVE  Turns(r)
<1>0. l \in Proc /\ runs \in [Run -> RunRow]
  BY DEF Sound, DiaryTypeOK, Proc
<1>1. CASE Walk(l)
  BY <1>0, <1>1, StepTurns DEF Walk
<1>2. CASE Finish(l) \/ Suspend(l)
  <2>1. /\ UNCHANGED <<diary, grant>>
        /\ runs'[r].token = runs[r].token
        /\ runs'[r].status = "running" => runs[r].status = "running"
    BY <1>0, <1>2 DEF Finish, Suspend, SetRunStatus, RunRow
  <2> QED BY <2>1, QuietTurns
<1>3. CASE Open(l) \/ GiveUp(l) \/ LifeDies(l)
  BY <1>3, QuietTurns DEF Open, OpenContext, GiveUp, LifeDies, Crash, ReadOnly
<1> QED BY <1>1, <1>2, <1>3 DEF LifeStep

LEMMA OrdinarilyTurns ==
    ASSUME Sound, Sound', Fits, Ordinarily, Mortal = {}, NEW r \in Run, Exists(r)
    PROVE  Turns(r)
<1>0. runs \in [Run -> RunRow]
  BY DEF Sound, DiaryTypeOK
<1>1. ASSUME NEW h \in Human, GrantStep(h) PROVE Turns(r)
  BY <1>1, GrantEases DEF Eases, Turns
<1>2. CASE ForkSome /\ UNCHANGED grant
  <2>1. runs'[r] = runs[r]
    BY <1>0, <1>2 DEF ForkSome, ForkRun, NewRun, Exists
  <2>2. diary'[r] = diary[r]
    BY <1>2, ForkKeeps
  <2> QED BY <1>2, <2>1, <2>2, QuietTurns
<1>3. CASE Bookkeeping
  <2>1. /\ runs'[r].token = runs[r].token /\ UNCHANGED <<diary, grant>>
        /\ runs'[r].status = "running" => runs[r].status = "running"
    BY <1>3 DEF Bookkeeping
  <2> QED BY <2>1, QuietTurns
<1>4. UNCHANGED <<runs, diary, grant>> => Turns(r)
  BY QuietTurns
<1> QED BY <1>1, <1>2, <1>3, <1>4, WorkerTurns, LifeTurns
       DEF Ordinarily, TakeUp, Aborts, Quits, Halts, ReadOnly, tables

\* No worker has a token its run has not given out, and one whose run is its own
\* has come to a question only where a human is waited for.
WorkersWait(w) ==
    LET r == life[w].run
        n == Len(life[w].seen)
        m == Len(life[w].history)
        current == ~Stale(w) /\ runs[r].status = "running"
    IN  /\ r # None => life[w].token <= runs[r].token
        /\ pc[w] \in Walking /\ current /\ AtQuestion(diary[r], n, m) => Waits(r)
        /\ pc[w] = "paused" /\ current => Waits(r)

\* What happens to a run while its worker stands still.
LEMMA StandsWaiting ==
    ASSUME Sound, Sound', NEW w \in Worker, WorkersWait(w), StandsStill(w), RowsKept,
           NEW r, r = life[w].run, r \in Run /\ Exists(r) => Turns(r)
    PROVE  WorkersWait(w)'
<1>0. /\ w \in Proc /\ LifeOK(w) /\ life[w] \in LifeRow /\ runs \in [Run -> RunRow]
      /\ runs' \in [Run -> RunRow]
      /\ life'[w] = life[w] /\ pc'[w] = pc[w]
  BY DEF Sound, DiaryTypeOK, Proc, StandsStill
<1>1. CASE pc[w] = "idle"
  BY <1>0, <1>1, NoneAssumption DEF LifeOK, WorkersWait, Walking, NoLife
<1>2. CASE pc[w] # "idle"
  <2>1. /\ r \in Run /\ Turns(r) /\ r # None
        /\ Walked(life[w].history, r) /\ Walked(life[w].seen, r)
    BY <1>0, <1>2, NoneAssumption DEF LifeOK
  <2>2. PICK n \in Nat, m \in Nat : n = Len(life[w].seen) /\ m = Len(life[w].history)
    BY <1>0 DEF LifeRow
  <2>3. life[w].token <= runs[r].token /\ life[w].token \in Nat
        /\ runs[r].token \in Nat /\ runs'[r].token \in Nat
    BY <1>0, <2>1 DEF WorkersWait, LifeRow, RunRow
  <2>4. CASE runs'[r].token > runs[r].token
    <3>1. Stale(w)' /\ life'[w].token <= runs'[r].token
      BY <1>0, <2>1, <2>3, <2>4 DEF Stale
    <3> QED BY <1>0, <3>1 DEF WorkersWait
  <2>5. CASE /\ runs'[r].token = runs[r].token
             /\ runs'[r].status = "running" =>
                   runs[r].status = "running" /\ (Waits(r) => Waits(r)')
    <3>1. Stale(w)' <=> Stale(w)
      BY <1>0, <2>5 DEF Stale
    <3>2. AtQuestion(diary'[r], n, m) => AtQuestion(diary[r], n, m)
      <4>1. ASSUME NEW t \in {n, m}, t >= n, t >= m, t \in DOMAIN diary'[r],
                   diary'[r][t].event.type = "APPROVAL_REQUESTED", t > 0
            PROVE  AtQuestion(diary[r], n, m)
        <5>1. t \in DOMAIN diary[r]
          BY <2>1, <2>2, <4>1 DEF Walked
        <5>2. diary'[r][t] = diary[r][t]
          BY <2>1, <5>1 DEF RowsKept
        <5> QED BY <4>1, <5>1, <5>2 DEF AtQuestion
      <4>2. 0 \notin DOMAIN diary'[r]
        BY <2>1 DEF Sound, DiaryTypeOK
      <4>3. SUFFICES ASSUME NEW t \in {n, m}, t >= n, t >= m, t \in DOMAIN diary'[r],
                            diary'[r][t].event.type = "APPROVAL_REQUESTED"
                     PROVE  AtQuestion(diary[r], n, m)
        BY DEF AtQuestion
      <4>4. t > 0
        BY <4>2, <4>3
      <4> QED BY <4>1, <4>3, <4>4
    <3> QED BY <1>0, <2>2, <2>3, <2>5, <3>1, <3>2, SMTT(20) DEF WorkersWait
  <2> QED BY <2>1, <2>4, <2>5 DEF Turns
<1> QED BY <1>1, <1>2

\* The steps of a worker that make no event and move no other.
LEMMA StepWaiting ==
    ASSUME Sound, Sound', Fits, NEW v \in Worker, WorkersWait(v), ContextStep(v),
           UNCHANGED grant
    PROVE  WorkersWait(v)'
<1>0. v \in Proc /\ LifeOK(v) /\ life[v] \in LifeRow /\ CursorAt(pc[v], life[v])
  BY DEF Sound, Proc, Fits, CursorOK
<1>1. CarriesOn(v) /\ SeesOn(v) /\ pc[v] \in Walking /\ pc[v] # "idle"
  BY <1>0, ContextCarries, ContextSeesOn, ContextWalks DEF Walking
<1>2. PICK r, n, m : /\ r = life[v].run
                     /\ n = Len(life[v].seen) /\ m = Len(life[v].history)
  OBVIOUS
<1>3. /\ r \in Run /\ n \in Nat /\ m \in Nat /\ Walked(life[v].seen, r)
      /\ life'[v].run = r /\ Len(life'[v].history) = m
      /\ life'[v].token = life[v].token /\ runs' = runs
  BY <1>0, <1>1, <1>2 DEF LifeOK, LifeRow, SeesOn, CarriesOn
<1>4. Stale(v)' <=> Stale(v)
  BY <1>2, <1>3 DEF Stale
<1>5. ASSUME diary'[r] = diary[r], Waits(r) PROVE Waits(r)'
  BY <1>5, AwaitsOn DEF Waits, Pending
<1>6. ASSUME ~Stale(v), runs[r].status = "running", AtQuestion(diary[r], n, m)
      PROVE  Waits(r)
  BY <1>1, <1>2, <1>6 DEF WorkersWait
<1>7. PICK k : k = Len(life'[v].seen)
  OBVIOUS
<1>8. ASSUME ~Stale(v), runs[r].status = "running", AtQuestion(diary'[r], k, m)
      PROVE  Waits(r)'
  <2>1. CASE UNCHANGED diary /\ k = n
    BY <1>3, <1>5, <1>6, <1>8, <2>1
  <2>2. CASE UNCHANGED diary /\ n < m /\ k = n + 1
    <3>1. AtQuestion(diary[r], n, m)
      BY <1>3, <1>8, <2>2 DEF AtQuestion
    <3> QED BY <1>3, <1>5, <1>6, <1>8, <2>2, <3>1
  <2>3. CASE n >= m /\ k = n + 1 /\ DOMAIN diary'[r] = 1 .. n + 1
    <3>1. k \in Nat \ {0} /\ DOMAIN diary'[r] = 1 .. k
      BY <1>3, <2>3
    <3>2. diary'[r][k].event.type = "APPROVAL_REQUESTED"
      BY <1>3, <1>8, <2>3 DEF AtQuestion
    <3>3. Sound' => EveryQuestionAwaits'
      BY QuestionAwaits, PTL
    <3> QED BY <1>3, <3>1, <3>2, <3>3 DEF EveryQuestionAwaits, Waits, Ev
  <2> QED BY <1>1, <1>2, <1>7, <2>1, <2>2, <2>3 DEF SeesOn
<1>9. ASSUME pc'[v] = "paused", ~Stale(v), runs[r].status = "running"
      PROVE  Waits(r)'
  <2>1. pc[v] = "asked" /\ ~Replaying(v) /\ UNCHANGED diary
    <3>1. pc'[v] \notin Walking \cup {"diverged", "duplicate", "fenced"}
      BY <1>9 DEF Walking
    <3>2. ~Return(v) /\ ~RaiseOwn(v)
      BY <1>0, <1>9 DEF Return, RaiseOwn, Goto, Sound
    <3> QED BY <1>0, <3>1, <3>2, HowItEnds DEF Pause, ReadOnly
  <2>2. n > 0 /\ n >= m /\ life[v].seen[n].type = "APPROVAL_REQUESTED"
    BY <1>0, <1>2, <1>3, <2>1 DEF CursorAt, Replaying
  <2>3. n \in DOMAIN diary[r] /\ diary[r][n].event = life[v].seen[n]
    <3>1. n \in 1 .. Len(life[v].seen)
      BY <1>2, <1>3, <2>2
    <3> QED BY <1>3, <3>1 DEF Walked
  <2>4. AtQuestion(diary[r], n, m)
    BY <1>3, <2>2, <2>3 DEF AtQuestion
  <2> QED BY <1>3, <1>5, <1>6, <1>9, <2>1, <2>4
<1>10. life'[v].token <= runs'[r].token
  BY <1>2, <1>3, NoneAssumption DEF WorkersWait
<1> QED BY <1>3, <1>4, <1>7, <1>8, <1>9, <1>10 DEF WorkersWait

LEMMA OpenWaiting ==
    ASSUME Sound, NEW w \in Worker, WorkersWait(w), pc[w] = "claimed",
           NEW c \in Code, OpenContext(w, c), UNCHANGED grant
    PROVE  WorkersWait(w)'
<1>0. /\ w \in Proc /\ LifeOK(w) /\ life \in [Proc -> LifeRow]
      /\ pc \in [Proc -> PC]
  BY DEF Sound, Proc
<1>2. PICK r \in Run : r = life[w].run
  BY <1>0 DEF LifeOK
<1>3. PICK n \in Nat : DOMAIN diary[r] = 1 .. n
  BY DEF Sound, DenseDiary
<1>4. PICK s : s = ReadEvents(r)
  OBVIOUS
<1>5. Len(s) = n
  BY <1>3, <1>4, ReadSound
<1>6. /\ life'[w].run = r /\ life'[w].history = s /\ life'[w].seen = << >>
      /\ life'[w].token = life[w].token
      /\ pc'[w] = "agent" /\ UNCHANGED <<runs, diary, grant>>
  BY <1>0, <1>2, <1>4 DEF OpenContext, Goto, ReadOnly, LifeRow
<1>7. AtQuestion(diary[r], 0, n) => Waits(r)'
  <2>1. SUFFICES ASSUME n > 0, diary[r][n].event.type = "APPROVAL_REQUESTED"
                 PROVE  Waits(r)'
    BY <1>3 DEF AtQuestion
  <2>2. Awaiting(r)
    BY <1>3, <2>1, QuestionAwaits DEF EveryQuestionAwaits, Ev
  <2> QED BY <1>6, <2>2, AwaitsOn DEF Waits
<1>8. life'[w].token <= runs'[r].token
  BY <1>2, <1>6, NoneAssumption DEF WorkersWait
<1>9. Len(life'[w].seen) = 0
  BY <1>6
<1> QED BY <1>5, <1>6, <1>7, <1>8, <1>9 DEF WorkersWait

\* What a process may do on its own.
Acts(p) ==
    \/ p \in Worker /\ (WorkerStep(p) \/ Dies(p) \/ Fails(p))
    \/ p \in Life /\ (LifeStep(p) \/ LifeDies(p) \/ \E r \in Run : TakeUp(p, r))
    \/ Aborts(p) \/ Quits(p)

LEMMA OthersStill ==
    ASSUME Sound, NEW p \in Proc, Acts(p), NEW q \in Proc, q # p
    PROVE  pc'[q] = pc[q] /\ life'[q] = life[q]
<1>0. pc \in [Proc -> PC] /\ life \in [Proc -> LifeRow]
  BY DEF Sound
<1>1. CASE ContextStep(p)
  BY <1>1, ContextCarries DEF CarriesOn
<1>2. CASE p \in Worker /\ (WorkerStep(p) \/ Dies(p) \/ Fails(p)) /\ ~ContextStep(p)
  BY <1>0, <1>2 DEF WorkerStep, Claim, Start, Step, OpenContext, Complete, Park, Drop,
                    Dies, Crash, Fails, Raise, Leave, Goto
<1>3. CASE /\ p \in Life
           /\ LifeStep(p) \/ LifeDies(p) \/ \E r \in Run : TakeUp(p, r)
           /\ ~ContextStep(p)
  BY <1>0, <1>3 DEF LifeStep, Open, OpenContext, Walk, Finish, Suspend, GiveUp,
                    LifeDies, Crash, TakeUp, Leave, Goto
<1>4. CASE Aborts(p) \/ Quits(p)
  BY <1>0, <1>4 DEF Aborts, Quits, Leave, Goto
<1> QED BY <1>1, <1>2, <1>3, <1>4 DEF Acts

LEMMA MovesWaiting ==
    ASSUME Sound, Sound', Fits, NEW w \in Worker, WorkersWait(w), Acts(w)
    PROVE  WorkersWait(w)'
<1>0. /\ w \in Proc /\ runs \in [Run -> RunRow] /\ life \in [Proc -> LifeRow]
      /\ pc \in [Proc -> PC] /\ LifeOK(w)
  BY DEF Sound, DiaryTypeOK, Proc
<1>1. CASE ContextStep(w) /\ UNCHANGED grant
  BY <1>0, <1>1, StepWaiting
<1>2. ASSUME NEW r \in Run, Claim(w, r) PROVE WorkersWait(w)'
  <2>1. PICK token : token = runs'[r].token
    OBVIOUS
  <2>2. token \in Nat
    BY <2>1 DEF Sound, DiaryTypeOK, RunRow
  <2>3. /\ pc'[w] = "claimed"
        /\ life'[w].run = r /\ life'[w].token = token
    BY <1>0, <1>2, <2>1 DEF Claim, Goto, LifeRow
  <2> QED BY <2>1, <2>2, <2>3 DEF WorkersWait, Walking
<1>3. ASSUME NEW c \in Code, OpenContext(w, c), pc[w] = "claimed", UNCHANGED grant
      PROVE  WorkersWait(w)'
  BY <1>3, OpenWaiting
<1>4. CASE Leave(w, "idle")
  BY <1>0, <1>4 DEF Leave, Goto, NoLife, WorkersWait, Walking
<1>5. CASE Goto(w, "raised") /\ UNCHANGED <<runs, life>>
  <2>1. pc'[w] = "raised" /\ life'[w] = life[w] /\ UNCHANGED runs
    BY <1>0, <1>5 DEF Goto
  <2> QED BY <2>1 DEF WorkersWait, Walking
<1>6. ASSUME NEW r \in Run, TakeUp(w, r) PROVE WorkersWait(w)'
  <2>1. life[w].token = 0
    BY <1>0, <1>6 DEF TakeUp, LifeOK, NoLife
  <2>2. pc'[w] = "claimed" /\ life'[w].run = r /\ life'[w].token = 0
    BY <1>0, <1>6, <2>1 DEF TakeUp, Goto, LifeRow
  <2>3. runs'[r].token \in Nat
    BY DEF Sound, DiaryTypeOK, RunRow
  <2> QED BY <2>2, <2>3 DEF WorkersWait, Walking
<1>7. CASE WorkerStep(w) \/ Dies(w) \/ Fails(w)
  BY <1>1, <1>2, <1>3, <1>4, <1>5, <1>7
     DEF WorkerStep, Start, Step, Complete, Park, Drop, Dies, Crash, Fails, Raise
<1>8. CASE LifeStep(w) \/ LifeDies(w)
  BY <1>1, <1>3, <1>4, <1>8
     DEF LifeStep, Open, Walk, Finish, Suspend, GiveUp, LifeDies, Crash
<1>9. CASE Aborts(w) \/ Quits(w)
  BY <1>4, <1>5, <1>9 DEF Aborts, Quits, tables
<1> QED BY <1>6, <1>7, <1>8, <1>9 DEF Acts

LEMMA OrdinarilyWaits ==
    ASSUME Sound, Sound', Fits, Ordinarily, Mortal = {}, NEW w \in Worker,
           WorkersWait(w)
    PROVE  WorkersWait(w)'
<1>0. w \in Proc
  BY DEF Proc
<1>1. PICK r : r = life[w].run
  OBVIOUS
<1>2. r \in Run /\ Exists(r) => Turns(r)
  BY OrdinarilyTurns
<1>3. RowsKept
  <2>1. Adds(Code)
    BY OrdinarilyAddsSome
  <2> QED BY <2>1, AddsKeep
<1>4. ASSUME StandsStill(w) PROVE WorkersWait(w)'
  BY <1>1, <1>2, <1>3, <1>4, StandsWaiting
<1>5. ASSUME NEW p \in Proc, Acts(p) PROVE WorkersWait(w)'
  <2>1. CASE p = w
    BY <1>5, <2>1, MovesWaiting
  <2>2. CASE p # w
    BY <1>0, <1>4, <1>5, <2>2, OthersStill DEF StandsStill
  <2> QED BY <2>1, <2>2
<1>6. UNCHANGED <<pc, life>> => WorkersWait(w)'
  BY <1>4 DEF StandsStill
<1>7. Halts => WorkersWait(w)'
  BY <1>0 DEF Halts, NoLife, WorkersWait, Walking
<1> QED BY <1>5, <1>6, <1>7 DEF Ordinarily, Acts, Bookkeeping, Proc

\* Only a life that paused puts a run to sleep that nobody is about to wake.
LEMMA OrdinarilyWakes ==
    ASSUME Sound, Fits, Ordinarily, \A w \in Worker : WorkersWait(w),
           NEW r \in Run, Decided(r)', runs[r].status # "paused",
           runs'[r].status = "paused"
    PROVE  \/ Pending(r)
           \/ \E l \in Life : pc[l] = "paused" /\ life[l].run = r
<1>0. runs \in [Run -> RunRow]
  BY DEF Sound, DiaryTypeOK
<1>1. ASSUME NEW p \in Proc, ContextStep(p) PROVE FALSE
  BY <1>1, ContextCarries DEF CarriesOn
<1>2. ASSUME NEW w \in Worker, WorkerStep(w) \/ Dies(w) \/ Fails(w) PROVE Pending(r)
  <2>1. CASE Park(w)
    <3>1. PICK q : q = life[w].run
      OBVIOUS
    <3>2. StillOurs(w) /\ q = r /\ pc[w] = "paused"
      <4>1. PICK row : row = ParkedRow(runs[q], ParkAs(w))
        OBVIOUS
      <4>2. q \in Run
        BY <2>1, <3>1 DEF Park, Sound, LifeOK, Proc
      <4>3. StillOurs(w) /\ runs' = [runs EXCEPT ![q] = row]
        BY <2>1, <3>1, <4>1 DEF Park
      <4>4. q = r
        BY <1>0, <4>2, <4>3
      <4>5. row.status = ParkAs(w)
        BY <1>0, <4>1, <4>2 DEF ParkedRow, RunRow
      <4>6. ParkAs(w) = "paused"
        BY <1>0, <4>2, <4>3, <4>4, <4>5
      <4> QED BY <2>1, <4>3, <4>4, <4>6 DEF Park, ParkAs
    <3>3. ~Stale(w) /\ runs[r].status = "running"
      BY <3>1, <3>2 DEF StillOurs, Stale
    <3>4. Waits(r)
      BY <3>1, <3>2, <3>3 DEF WorkersWait
    <3>5. ~Awaiting(r)
      BY <2>1 DEF Park, Decided, Awaiting, ReadEvents
    <3> QED BY <3>4, <3>5 DEF Waits
  <2>2. CASE Complete(w)
    BY <1>0, <2>2 DEF Complete, RunRow
  <2>3. ASSUME NEW q \in Run, Claim(w, q) PROVE FALSE
    <3>1. PICK row : row = ClaimedRow(runs[q], w)
      OBVIOUS
    <3>2. row.status = "running" /\ runs' = [runs EXCEPT ![q] = row]
      BY <1>0, <2>3, <3>1 DEF Claim, ClaimRun, ClaimedRow, RunRow
    <3> QED BY <1>0, <3>2
  <2> QED BY <1>1, <1>2, <2>1, <2>2, <2>3
         DEF WorkerStep, Start, Step, OpenContext, Drop, Dies, Crash, Fails, Raise,
             ReadOnly, Proc
<1>3. ASSUME NEW l \in Life, LifeStep(l) \/ LifeDies(l)
      PROVE  pc[l] = "paused" /\ life[l].run = r
  <2>1. CASE Suspend(l) \/ Finish(l)
    BY <1>0, <2>1 DEF Suspend, Finish, SetRunStatus, RunRow
  <2> QED BY <1>1, <1>3, <2>1 DEF LifeStep, Open, OpenContext, Walk, GiveUp, LifeDies,
                                  Crash, ReadOnly, Proc
<1>4. ASSUME NEW h \in Human, GrantStep(h) \/ GrantStops(h) PROVE FALSE
  BY <1>0, <1>4 DEF GrantStep, GrantRead, GrantAppend, GrantRequeue, GrantStops,
                    SetRunStatus, RunRow
<1>5. CASE ForkSome
  BY <1>0, <1>5 DEF ForkSome, ForkRun, RunRow
<1>6. CASE Bookkeeping
  BY <1>6 DEF Bookkeeping
<1> QED BY <1>2, <1>3, <1>4, <1>5, <1>6
       DEF Ordinarily, TakeUp, Aborts, Quits, Halts, ReadOnly, tables

\* _park_run and set_run_status: of all the programs' processes, only a direct
\* life that paused before the answer puts a run to sleep behind an answered
\* question after its re-queue; a worker's park looks at the token and the
\* status, also beside direct lives, which look at neither.
THEOREM OnlyLivesOversleep ==
    ASSUME Mortal = {}
    PROVE  ProgramsSpec => OnlyALifeOversleeps
<1> DEFINE WaitsOn == program # "gather" => \A w \in Worker : WorkersWait(w)
<1>1. ProgramsInit => WaitsOn
  BY NoneAssumption DEF ProgramsInit, Init, ContextInit, NoLife, WorkersWait, Walking,
                        Proc
<1>2. ASSUME ProgramOK, ProgramOK', WaitsOn, [ProgramsNext]_programsVars
      PROVE  WaitsOn'
  BY <1>2, ProgramSteps, ProgramFrame, OrdinarilyWaits DEF ProgramOK
<1>3. ASSUME ProgramOK, WaitsOn, [ProgramsNext]_programsVars, NEW r \in Run,
             Decided(r)', runs[r].status # "paused", runs'[r].status = "paused"
      PROVE  \/ \E h \in Human : grant[h].at = "appended" /\ grant[h].run = r
             \/ \E l \in Life : pc[l] = "paused" /\ life[l].run = r
  <2>1. CASE program # "gather"
    BY <1>3, <2>1, ProgramSteps, OrdinarilyWakes DEF ProgramOK, Pending
  <2>2. CASE program = "gather"
    <3>0. runs \in [Run -> RunRow]
      BY <1>3 DEF ProgramOK, Sound, DiaryTypeOK
    <3>1. GatherNext \/ UNCHANGED programsVars
      BY <1>3, <2>2 DEF ProgramsNext, Browse, Certify, Demonstrate, DriveFleet, Mix,
                        GatherCalls, Plays, Fleets
    <3>2. ASSUME NEW q \in Run, Create(q) PROVE FALSE
      BY <1>3, <3>0, <3>2 DEF Create, CreateRun, RunRow
    <3>3. ASSUME NEW l \in Life, Gathered(l) PROVE FALSE
      BY <1>3, <3>0, <3>3 DEF Gathered, SetRunStatus, ReadOnly, RunRow
    <3>4. UNCHANGED runs => FALSE
      BY <1>3
    <3> QED BY <3>1, <3>2, <3>3, <3>4
           DEF GatherNext, GatherOpen, TakeUp, Open, OpenContext, ReadOnly, StartTask,
               AnswerTask, Record, GatherDies, LifeDies, Crash, programsVars, vars
  <2> QED BY <2>1, <2>2
<1>4. ProgramOK /\ WaitsOn /\ [ProgramsNext]_programsVars =>
          [\A r \in Run :
              Decided(r)' /\ runs[r].status # "paused" /\ runs'[r].status = "paused" =>
                  \/ \E h \in Human : grant[h].at = "appended" /\ grant[h].run = r
                  \/ \E l \in Life : pc[l] = "paused" /\ life[l].run = r]_systemVars
  BY <1>3
<1> QED BY ProgramsAreSound, <1>1, <1>2, <1>4, PTL DEF ProgramsSpec, OnlyALifeOversleeps

----------------------------------------------------------------------------
(* The two diaries of a diff                                               *)

LessThan == {pair \in Nat \X Nat : pair[1] < pair[2]}

LEMMA LeastOf ==
    ASSUME NEW T, T \subseteq Nat, T # {}
    PROVE  \E n \in T : \A m \in T : ~(m < n)
<1>1. IsWellFoundedOn(LessThan, Nat)
  BY ONLY NatLessThanWellFounded DEF OpToRel, LessThan
<1>2. \E n \in T : \A m \in T : <<m, n>> \notin LessThan
  BY <1>1, WFMin
<1>3. \A m, n \in T : m < n => <<m, n>> \in LessThan
  BY DEF LessThan
<1> QED BY <1>2, <1>3

\* Induction, for a set in the place of a formula.
LEMMA InductiveSet ==
    ASSUME NEW S, 0 \in S, \A n \in Nat : n \in S => n + 1 \in S
    PROVE  Nat \subseteq S
<1>1. PICK T : T = Nat \ S
  OBVIOUS
<1>2. SUFFICES ASSUME T # {} PROVE FALSE
  BY <1>1
<1>3. PICK n \in T : \A m \in T : ~(m < n)
  BY <1>1, <1>2, LeastOf
<1>4. n # 0 /\ n \in Nat
  BY <1>1, <1>3
<1>5. n - 1 \in Nat /\ n - 1 < n /\ n - 1 + 1 = n
  BY <1>4
<1> QED BY <1>1, <1>3, <1>4, <1>5

Blank(a, b) == [shared |-> 0, divergeAt |-> None, rows |-> Lines(a, b)]

IsLoop(a, b, n, f) ==
    f = [i \in 0 .. n |-> IF i = 0 THEN Blank(a, b) ELSE Compare(a, b, f[i - 1], i)]

\* The loop of diff_runs has a verdict after every turn.
LEMMA LoopsExist ==
    ASSUME NEW a, NEW b, NEW m \in Nat
    PROVE  \E f : IsLoop(a, b, m, f)
<1>1. PICK S : S = {n \in Nat : \E f : IsLoop(a, b, n, f)}
  OBVIOUS
<1>2. 0 \in S
  <2>1. PICK f : f = [i \in 0 .. 0 |-> Blank(a, b)]
    OBVIOUS
  <2>2. IsLoop(a, b, 0, f)
    BY <2>1 DEF IsLoop
  <2> QED BY <1>1, <2>2
<1>3. ASSUME NEW n \in Nat, n \in S PROVE n + 1 \in S
  <2>1. PICK f : IsLoop(a, b, n, f)
    BY <1>1, <1>3
  <2>2. PICK g : g = [i \in 0 .. n + 1 |->
                          IF i = n + 1 THEN Compare(a, b, f[n], n + 1) ELSE f[i]]
    OBVIOUS
  <2>3. ASSUME NEW i \in 0 .. n + 1
        PROVE  g[i] = IF i = 0 THEN Blank(a, b) ELSE Compare(a, b, g[i - 1], i)
    <3>1. CASE i = n + 1
      <4>1. i - 1 = n /\ n \in 0 .. n + 1 /\ n # n + 1 /\ i # 0
        BY <3>1
      <4> QED BY <2>2, <3>1, <4>1
    <3>2. CASE i # n + 1
      <4>1. /\ i \in 0 .. n
            /\ i # 0 => i - 1 \in 0 .. n /\ i - 1 \in 0 .. n + 1 /\ i - 1 # n + 1
        BY <3>2
      <4> QED BY <2>1, <2>2, <3>2, <4>1 DEF IsLoop
    <3> QED BY <3>1, <3>2
  <2>4. IsLoop(a, b, n + 1, g)
    BY <2>2, <2>3 DEF IsLoop
  <2>5. n + 1 \in Nat
    OBVIOUS
  <2> QED BY <1>1, <2>4, <2>5
<1>4. Nat \subseteq S
  BY <1>2, <1>3, InductiveSet
<1> QED BY <1>1, <1>4

LEMMA TurnedLoops ==
    ASSUME NEW a, NEW b, Len(Longer(a, b)) \in Nat
    PROVE  IsLoop(a, b, Len(Longer(a, b)), Turned(a, b))
<1>1. \E f : IsLoop(a, b, Len(Longer(a, b)), f)
  BY LoopsExist
<1> QED BY <1>1 DEF IsLoop, Turned, Blank

\* After i turns: whether the two have parted, and where.
JudgedTo(a, b, v, i) ==
    /\ v = [shared |-> v.shared, divergeAt |-> v.divergeAt, rows |-> Lines(a, b)]
    /\ v.shared \in 0 .. i
    /\ \A j \in 1 .. v.shared : Same(a, b, j)
    /\ v.divergeAt = None => v.shared = i
    /\ v.divergeAt # None =>
          v.divergeAt = v.shared + 1 /\ v.shared < i /\ ~Same(a, b, v.shared + 1)

LEMMA TurnJudges ==
    ASSUME NEW a, NEW b, NEW i \in Nat, NEW v, JudgedTo(a, b, v, i)
    PROVE  JudgedTo(a, b, Compare(a, b, v, i + 1), i + 1)
<1>0. /\ v.shared \in Nat /\ v.shared <= i /\ i + 1 \in Nat /\ None # i + 1
      /\ v = [shared |-> v.shared, divergeAt |-> v.divergeAt, rows |-> Lines(a, b)]
  BY NullAssumption DEF JudgedTo
<1>1. CASE v.divergeAt # None
  <2>1. Compare(a, b, v, i + 1) = v
    BY <1>1 DEF Compare
  <2> QED BY <1>0, <1>1, <2>1 DEF JudgedTo
<1>2. CASE v.divergeAt = None /\ Same(a, b, i + 1)
  <2>1. PICK w : w = [v EXCEPT !.shared = @ + 1]
    OBVIOUS
  <2>2. Compare(a, b, v, i + 1) = w
    BY <1>2, <2>1 DEF Compare
  <2>3. /\ w.shared = i + 1 /\ w.divergeAt = None
        /\ w = [shared |-> w.shared, divergeAt |-> w.divergeAt, rows |-> Lines(a, b)]
    BY <1>0, <1>2, <2>1 DEF JudgedTo
  <2>4. \A j \in 1 .. i + 1 : Same(a, b, j)
    <3>1. \A j \in 1 .. i + 1 : j \in 1 .. i \/ j = i + 1
      OBVIOUS
    <3> QED BY <1>2, <3>1 DEF JudgedTo
  <2> QED BY <1>0, <2>2, <2>3, <2>4 DEF JudgedTo
<1>3. CASE v.divergeAt = None /\ ~Same(a, b, i + 1)
  <2>1. PICK w : w = [v EXCEPT !.divergeAt = i + 1]
    OBVIOUS
  <2>2. Compare(a, b, v, i + 1) = w
    BY <1>3, <2>1 DEF Compare
  <2>3. /\ w.shared = i /\ w.divergeAt = i + 1
        /\ w = [shared |-> w.shared, divergeAt |-> w.divergeAt, rows |-> Lines(a, b)]
    BY <1>0, <1>3, <2>1 DEF JudgedTo
  <2> QED BY <1>0, <1>3, <2>2, <2>3 DEF JudgedTo
<1> QED BY <1>1, <1>2, <1>3

\* The verdict of diff_runs on any two diaries.
LEMMA DiffJudges ==
    ASSUME NEW a \in Seq(Event), NEW b \in Seq(Event)
    PROVE  JudgedTo(a, b, DiffRuns(a, b), Len(Longer(a, b)))
<1>1. PICK n \in Nat : n = Len(Longer(a, b))
  BY DEF Longer
<1>2. PICK f : f = Turned(a, b)
  OBVIOUS
<1>3. IsLoop(a, b, n, f)
  BY <1>1, <1>2, TurnedLoops
<1>4. PICK S : S = {i \in Nat : i <= n => JudgedTo(a, b, f[i], i)}
  OBVIOUS
<1>5. 0 \in S
  <2>1. f[0] = Blank(a, b)
    BY <1>3 DEF IsLoop
  <2>2. JudgedTo(a, b, Blank(a, b), 0)
    BY DEF JudgedTo, Blank
  <2> QED BY <1>4, <2>1, <2>2
<1>6. ASSUME NEW i \in Nat, i \in S PROVE i + 1 \in S
  <2>1. SUFFICES ASSUME i + 1 <= n PROVE JudgedTo(a, b, f[i + 1], i + 1)
    BY <1>4
  <2>2. JudgedTo(a, b, f[i], i)
    BY <1>4, <1>6, <2>1
  <2>3. f[i + 1] = Compare(a, b, f[i], i + 1)
    <3>1. i + 1 \in 0 .. n /\ i + 1 # 0 /\ i + 1 - 1 = i
      BY <2>1
    <3> QED BY <1>3, <3>1 DEF IsLoop
  <2> QED BY <2>2, <2>3, TurnJudges
<1>7. Nat \subseteq S
  BY <1>5, <1>6, InductiveSet
<1>8. JudgedTo(a, b, f[n], n)
  BY <1>4, <1>7
<1> QED BY <1>1, <1>2, <1>8 DEF DiffRuns

\* Every child is a fork of another run, and begins as that one does.
Kin == ForkSharesPrefix /\ \A r \in Run : runs[r].parent # r

\* Nobody who is there gets another parent.
KinStays ==
    \A r \in Run : Exists(r) => /\ runs'[r].parent = runs[r].parent
                                /\ runs'[r].forkSeq = runs[r].forkSeq

\* A reader of r and s has read r up to where one of them forks off the other.
Reaches(e, r, s) ==
    /\ e \in Seq(Event) /\ Prefix(e, ReadEvents(r))
    /\ runs[r].parent = s => runs[r].forkSeq < Len(e)
    /\ runs[s].parent = r => runs[s].forkSeq <= Len(e)

LEMMA ReadsReach ==
    ASSUME Sound, Kin, NEW r \in Run, NEW s \in Run
    PROVE  Reaches(ReadEvents(r), r, s)
<1>1. PICK n \in Nat : DOMAIN diary[r] = 1 .. n
  BY DEF Sound, DenseDiary
<1>2. PICK e \in Seq(Event) : e = ReadEvents(r) /\ Len(e) = n
  BY <1>1, ReadSound
<1>3. Prefix(e, e)
  BY DEF Prefix
<1>4. \A q \in Run : runs[q].forkSeq \in Nat
  BY DEF Sound, DiaryTypeOK, RunRow
<1>5. runs[r].parent = s => runs[r].forkSeq < n
  <2>1. runs[r].parent = s => runs[r].forkSeq + 1 \in 1 .. n
    BY <1>1, SharesDense, NoneAssumption DEF Kin, SharesWith
  <2> QED BY <1>4, <2>1
<1>6. runs[s].parent = r => runs[s].forkSeq <= n
  <2>1. runs[s].parent = r => \A i \in 1 .. runs[s].forkSeq : i \in 1 .. n
    BY <1>1, SharesDense, NoneAssumption DEF Kin, SharesWith
  <2>2. runs[s].forkSeq > 0 => runs[s].forkSeq \in 1 .. runs[s].forkSeq
    BY <1>4
  <2> QED BY <1>4, <2>1, <2>2
<1> QED BY <1>2, <1>3, <1>5, <1>6 DEF Reaches

LEMMA ReachesOn ==
    ASSUME Sound, Sound', RowsKept, KinStays, NEW r \in Run, NEW s \in Run,
           Exists(r), Exists(s), NEW e, Reaches(e, r, s)
    PROVE  Reaches(e, r, s)'
<1>1. PICK old, new : old = ReadEvents(r) /\ new = ReadEvents(r)'
  OBVIOUS
<1>2. Prefix(old, new) /\ Prefix(e, old)
  BY <1>1, KeptReads DEF Reaches
<1>3. e \in Seq(Event) /\ Len(e) \in Nat
  BY DEF Reaches
<1>4. Prefix(e, new)
  BY <1>2, <1>3 DEF Prefix
<1> QED BY <1>1, <1>3, <1>4 DEF Reaches, KinStays

LEMMA KinForks ==
    ASSUME Sound, Sound', Kin, RowsKept, SameKin \/ ForkSome
    PROVE  Kin' /\ KinStays
<1>1. CASE SameKin
  BY <1>1, KinShare DEF Kin, SameKin, KinStays
<1>2. CASE ForkSome
  <2>1. PICK parent \in Run, child \in Run, patch \in Patch :
            \E k \in DOMAIN diary[parent] : ForkRun(parent, k, child, patch)
    BY <1>2 DEF ForkSome
  <2>2. PICK k \in DOMAIN diary[parent] : ForkRun(parent, k, child, patch)
    BY <2>1
  <2>3. Exists(parent) /\ ~Exists(child)
    BY <2>2 DEF ForkRun, CanFork, NewRun
  <2>4. PICK row : row = [runs[child] EXCEPT !.status = "queued",
                                             !.parent = parent, !.forkSeq = k]
    OBVIOUS
  <2>5. runs' = [runs EXCEPT ![child] = row] /\ runs \in [Run -> RunRow]
    BY <2>2, <2>4 DEF ForkRun, Sound, DiaryTypeOK
  <2>6. row.parent = parent
    BY <2>4, <2>5 DEF RunRow
  <2>7. \A r \in Run : r # child => runs'[r] = runs[r]
    BY <2>5
  <2>8. \A r \in Run : runs'[r].parent # r
    BY <2>3, <2>5, <2>6, <2>7 DEF Kin
  <2>9. ForkSharesPrefix'
    BY <1>2, ForkShares DEF Kin
  <2> QED BY <2>3, <2>7, <2>8, <2>9 DEF Kin, KinStays
<1> QED BY <1>1, <1>2

LEMMA ViewsKin ==
    ASSUME Sound, PageOK, ViewsNext
    PROVE  SameKin \/ ForkSome
<1>1. CASE Next
  BY <1>1, NextKin DEF Branch
<1>2. CASE UNCHANGED vars
  BY <1>2 DEF vars, SameKin
<1>3. CASE ForkFromPage
  BY <1>3, ForkRunForks DEF ForkFromPage, PageOK
<1> QED BY <1>1, <1>2, <1>3
       DEF ViewsNext, OpenRun, ReadTimeline, ReadForks, ReadFirst, ReadSecond, Close

\* A verdict is that of what was read of the two, one after the other.
Compared ==
    \E x, y : /\ Reaches(x, page.run, page.other)
              /\ Reaches(y, page.other, page.run)
              /\ page.verdict = DiffRuns(x, y)

\* A diff that is open is of two runs that are there.
Diffing ==
    /\ page.at \in {"first", "diff"} =>
          /\ page.run \in Run /\ page.other \in Run
          /\ Exists(page.run) /\ Exists(page.other)
    /\ page.at = "first" => Reaches(page.events, page.run, page.other)
    /\ page.at = "diff" => Compared

LEMMA DiffingStands ==
    ASSUME Sound, Sound', RowsKept, KinStays, RunsStay, Diffing, UNCHANGED page
    PROVE  Diffing'
<1> SUFFICES ASSUME page.at \in {"first", "diff"} PROVE Diffing'
  BY DEF Diffing
<1>1. PICK r \in Run, s \in Run :
          r = page.run /\ s = page.other /\ Exists(r) /\ Exists(s)
  BY DEF Diffing
<1>2. Exists(r)' /\ Exists(s)'
  BY <1>1 DEF RunsStay
<1>3. CASE page.at = "first"
  <2>1. PICK e : e = page.events /\ Reaches(e, r, s)
    BY <1>1, <1>3 DEF Diffing
  <2>2. Reaches(e, r, s)'
    BY <1>1, <2>1, ReachesOn
  <2> QED BY <1>1, <1>2, <1>3, <2>1, <2>2 DEF Diffing
<1>4. CASE page.at = "diff"
  <2>1. PICK x, y : /\ Reaches(x, r, s) /\ Reaches(y, s, r)
                    /\ page.verdict = DiffRuns(x, y)
    BY <1>1, <1>4 DEF Diffing, Compared
  <2>2. Reaches(x, r, s)' /\ Reaches(y, s, r)'
    BY <1>1, <2>1, ReachesOn
  <2>3. Compared'
    BY <1>1, <2>1, <2>2 DEF Compared
  <2> QED BY <1>1, <1>2, <1>4, <2>3 DEF Diffing
<1> QED BY <1>3, <1>4

LEMMA ReachesStays ==
    ASSUME UNCHANGED <<runs, diary>>, NEW e, NEW r, NEW s, Reaches(e, r, s)
    PROVE  Reaches(e, r, s)'
BY DEF Reaches, ReadEvents

LEMMA ViewsDiff ==
    ASSUME Sound, Sound', Fits, NEW c, RunsOnly(c), PageOK, Kin, Diffing, ViewsNext
    PROVE  Kin' /\ Diffing'
<1>0. DOMAIN page = DOMAIN NoPage
  BY DEF PageOK
<1>1. Ordinarily
  BY BrowseSteps
<1>2. RowsKept /\ RunsStay
  <2>1. PICK C : C = {c} /\ Adds(C)
    BY <1>1, OrdinarilyAdds
  <2> QED BY <1>1, <2>1, AddsKeep, OrdinarilyStay
<1>3. Kin' /\ KinStays
  BY <1>2, ViewsKin, KinForks
<1>4. CASE UNCHANGED page
  BY <1>2, <1>3, <1>4, DiffingStands
<1>5. CASE page'.at \notin {"first", "diff"}
  BY <1>3, <1>5 DEF Diffing
<1>6. ASSUME NEW a \in Run, NEW b \in Run, ReadFirst(a, b) PROVE Diffing'
  <2>1. PICK e : e = ReadEvents(a)
    OBVIOUS
  <2>2. /\ page'.at = "first" /\ page'.run = a /\ page'.other = b /\ page'.events = e
        /\ Exists(a) /\ Exists(b) /\ UNCHANGED <<runs, diary>>
    BY <1>0, <1>6, <2>1 DEF ReadFirst, NoPage, vars
  <2>3. Reaches(e, a, b)
    BY <2>1, ReadsReach
  <2>4. Reaches(e, a, b)'
    BY <2>2, <2>3, ReachesStays
  <2> QED BY <2>2, <2>4 DEF Diffing, Exists
<1>7. CASE ReadSecond
  <2>1. PICK r \in Run, s \in Run :
            r = page.run /\ s = page.other /\ Exists(r) /\ Exists(s)
    BY <1>7 DEF ReadSecond, Diffing
  <2>2. PICK x, y : x = page.events /\ y = ReadEvents(s)
    OBVIOUS
  <2>3. PICK v : v = DiffRuns(x, y)
    OBVIOUS
  <2>4. /\ page'.at = "diff" /\ page'.run = r /\ page'.other = s /\ page'.verdict = v
        /\ UNCHANGED <<runs, diary>>
    BY <1>0, <1>7, <2>1, <2>2, <2>3 DEF ReadSecond, NoPage, vars
  <2>5. Reaches(x, r, s) /\ Reaches(y, s, r)
    BY <1>7, <2>1, <2>2, ReadsReach DEF ReadSecond, Diffing
  <2>6. Reaches(x, r, s)' /\ Reaches(y, s, r)'
    BY <2>4, <2>5, ReachesStays
  <2>7. Compared'
    BY <2>3, <2>4, <2>6 DEF Compared
  <2> QED BY <1>3, <2>1, <2>4, <2>7 DEF Diffing, Exists
<1>8. ASSUME NEW r \in Run, OpenRun(r) PROVE page'.at = "row"
  BY <1>0, <1>8 DEF OpenRun, NoPage
<1>9. ASSUME ReadTimeline PROVE page'.at = "timeline"
  <2>1. PICK e : e = ReadEvents(page.run)
    OBVIOUS
  <2> QED BY <1>0, <1>9, <2>1 DEF ReadTimeline, NoPage
<1>10. ASSUME ReadForks PROVE page'.at = "page"
  <2>1. PICK s : s = ChildrenOf(page.run)
    OBVIOUS
  <2> QED BY <1>0, <1>10, <2>1 DEF ReadForks, NoPage
<1>11. ForkFromPage \/ Close => page'.at = "none"
  BY DEF ForkFromPage, Close, NoPage
<1> QED BY <1>3, <1>4, <1>5, <1>6, <1>7, <1>8, <1>9, <1>10, <1>11
       DEF ViewsNext

DiffsOK ==
    /\ program \in Browsing => Kin /\ Diffing
    /\ program \notin Browsing => page = NoPage

LEMMA DiffsNext ==
    ASSUME ProgramOK, Sound', DiffsOK, [ProgramsNext]_programsVars
    PROVE  DiffsOK'
<1>0. /\ Sound /\ Fits /\ CodeOK /\ PageOK /\ UNCHANGED program
  BY ProgramFrame DEF ProgramOK, ScriptsOK
<1>1. CASE program \in Browsing /\ ViewsNext
  <2>1. PICK c : c = Bounds[program].code /\ RunsOnly(c)
    BY <1>0, ProgramVersion
  <2>2. Kin' /\ Diffing'
    BY <1>0, <1>1, <2>1, ViewsDiff DEF DiffsOK
  <2> QED BY <1>0, <1>1, <2>2 DEF DiffsOK
<1>2. CASE program \in Browsing /\ UNCHANGED programsVars
  <2>1. /\ UNCHANGED <<runs, diary, page, program>> /\ Kin /\ Diffing
    BY <1>2 DEF programsVars, vars, DiffsOK
  <2>2. Kin'
    BY <2>1 DEF Kin, ForkSharesPrefix, Last, Type
  <2>3. Diffing'
    BY <2>1 DEF Diffing, Compared, Reaches, ReadEvents, Exists
  <2> QED BY <1>2, <2>1, <2>2, <2>3 DEF DiffsOK
<1>3. CASE program \notin Browsing
  BY <1>0, <1>3, ProgramFrame DEF Browsing, DiffsOK
<1>4. program \in Browsing => ViewsNext \/ UNCHANGED programsVars
  BY DEF ProgramsNext, Browsing, Browse, Certify, Demonstrate, DriveFleet, Mix,
         GatherCalls, Plays, Fleets
<1> QED BY <1>1, <1>2, <1>3, <1>4

\* What was the same in what was read of two diaries is the same in the diaries.
LEMMA SameStands ==
    ASSUME NEW x \in Seq(Event), NEW a, Prefix(x, a), NEW y \in Seq(Event), NEW b,
           Prefix(y, b), NEW i \in Nat, i \in 1 .. Len(x), i \in 1 .. Len(y)
    PROVE  Same(x, y, i) <=> a[i] = b[i]
BY DEF Prefix, Same

\* The verdict on two beginnings of diaries holds of the diaries.
LEMMA VerdictStands ==
    ASSUME NEW x \in Seq(Event), NEW y \in Seq(Event),
           NEW a \in Seq(Event), NEW b \in Seq(Event), Prefix(x, a), Prefix(y, b),
           NEW v, v = DiffRuns(x, y)
    PROVE  /\ Agree(a, b, v.shared)
           /\ v.divergeAt # None => v.divergeAt = v.shared + 1
           /\ v.divergeAt = None => Len(v.rows) = v.shared
           /\ v.divergeAt # None =>
                 LET row == v.rows[v.divergeAt]
                 IN  Missing \notin {row.a, row.b} => ~Agree(a, b, v.divergeAt)
<1>1. PICK n \in Nat : n = Len(Longer(x, y)) /\ DOMAIN Longer(x, y) = 1 .. n
  BY DEF Longer
<1>2. JudgedTo(x, y, v, n)
  BY <1>1, DiffJudges
<1>3. PICK m \in Nat : m = v.shared /\ m <= n
  BY <1>2 DEF JudgedTo
<1>4. /\ v.rows = [i \in 1 .. n |->
                      [a |-> Shown(x, i), b |-> Shown(y, i), same |-> Same(x, y, i)]]
      /\ Len(v.rows) = n
  BY <1>1, <1>2 DEF JudgedTo, Lines
<1>5. \A i \in 1 .. m : i \in 1 .. Len(x) /\ i \in 1 .. Len(y) /\ x[i] = y[i]
  BY <1>2, <1>3 DEF JudgedTo, Same
<1>6. /\ Len(x) \in Nat /\ Len(y) \in Nat /\ Len(a) \in Nat /\ Len(b) \in Nat
      /\ Len(x) <= Len(a) /\ Len(y) <= Len(b)
  BY DEF Prefix
<1>7. m <= Len(a) /\ m <= Len(b)
  <2>1. m > 0 => m \in 1 .. m
    OBVIOUS
  <2> QED BY <1>5, <1>6, <2>1
<1>8. \A i \in 1 .. m : a[i] = b[i]
  BY <1>5 DEF Prefix
<1>9. Agree(a, b, m)
  <2>1. SubSeq(a, 1, m) = SubSeq(b, 1, m)
    BY <1>7, <1>8
  <2> QED BY <1>7, <2>1 DEF Agree
<1>10. ASSUME v.divergeAt # None,
              Missing \notin {v.rows[v.divergeAt].a, v.rows[v.divergeAt].b}
       PROVE  ~Agree(a, b, v.divergeAt)
  <2>1. PICK k \in 1 .. n : k = v.divergeAt /\ k = m + 1 /\ ~Same(x, y, k)
    BY <1>2, <1>3, <1>10 DEF JudgedTo
  <2>2. k \in DOMAIN x /\ k \in DOMAIN y
    BY <1>4, <1>10, <2>1 DEF Shown
  <2>3. a[k] # b[k]
    BY <2>1, <2>2, SameStands
  <2>4. ASSUME Agree(a, b, k) PROVE FALSE
    <3>1. SubSeq(a, 1, k)[k] = a[k] /\ SubSeq(b, 1, k)[k] = b[k]
      BY <2>4 DEF Agree
    <3> QED BY <2>3, <2>4, <3>1 DEF Agree
  <2> QED BY <2>1, <2>4
<1> QED BY <1>2, <1>3, <1>4, <1>9, <1>10 DEF JudgedTo

\* A fork and its parent, with what was read of them.
LEMMA VerdictForks ==
    ASSUME Sound, Kin, NEW r \in Run, NEW q \in Run, runs[r].parent = q,
           NEW x, NEW y, Reaches(x, r, q), Reaches(y, q, r),
           NEW v, v = DiffRuns(x, y) \/ v = DiffRuns(y, x)
    PROVE  LET k == runs[r].forkSeq
           IN  \/ v.divergeAt = k + 1
               \/ /\ Patched(q, k + 1)
                  /\ diary[q][k + 1].event = diary[r][k + 1].event
                  /\ v.shared > k
<1>1. PICK k \in Nat : k = runs[r].forkSeq
  BY DEF Sound, DiaryTypeOK, RunRow
<1>2. PICK n \in Nat, m \in Nat : DOMAIN diary[r] = 1 .. n /\ DOMAIN diary[q] = 1 .. m
  BY DEF Sound, DenseDiary
<1>3. PICK a, b : a = ReadEvents(r) /\ b = ReadEvents(q)
  OBVIOUS
<1>4. /\ a = [i \in 1 .. n |-> diary[r][i].event] /\ Len(a) = n
      /\ b = [i \in 1 .. m |-> diary[q][i].event] /\ Len(b) = m
      /\ a \in Seq(Event) /\ b \in Seq(Event)
  BY <1>2, <1>3, ReadDense, ReadSound
<1>5. /\ x \in Seq(Event) /\ y \in Seq(Event) /\ Prefix(x, a) /\ Prefix(y, b)
      /\ k < Len(x) /\ k <= Len(y)
  BY <1>1, <1>3 DEF Reaches
<1>6. /\ Len(x) \in Nat /\ Len(y) \in Nat /\ Len(x) <= n /\ Len(y) <= m
  BY <1>4, <1>5 DEF Prefix
<1>7. /\ diary[r][k + 1].event.type = "PATCH_APPLIED"
      /\ \A s \in 1 .. k : diary[r][s].event = diary[q][s].event
  BY <1>1, SharesDense, NoneAssumption DEF Kin, SharesWith, Type
<1>8. \A i \in 1 .. k : Same(x, y, i) /\ Same(y, x, i)
  <2>1. ASSUME NEW i \in 1 .. k PROVE Same(x, y, i) /\ Same(y, x, i)
    <3>1. i \in 1 .. Len(x) /\ i \in 1 .. Len(y) /\ i \in 1 .. n /\ i \in 1 .. m
      BY <1>5, <1>6
    <3>2. a[i] = b[i]
      BY <1>4, <1>7, <3>1
    <3>3. Same(x, y, i)
      BY <1>5, <3>1, <3>2, SameStands
    <3> QED BY <3>3 DEF Same
  <2> QED BY <2>1
<1>9. Same(x, y, k + 1) \/ Same(y, x, k + 1) =>
          /\ Patched(q, k + 1) /\ diary[q][k + 1].event = diary[r][k + 1].event
  <2>1. SUFFICES ASSUME Same(x, y, k + 1)
                 PROVE  /\ Patched(q, k + 1)
                        /\ diary[q][k + 1].event = diary[r][k + 1].event
    BY DEF Same
  <2>2. k + 1 \in 1 .. Len(x) /\ k + 1 \in 1 .. Len(y)
    BY <1>5, <2>1 DEF Same
  <2>3. k + 1 \in 1 .. n /\ k + 1 \in 1 .. m
    BY <1>6, <2>2
  <2>4. a[k + 1] = b[k + 1]
    BY <1>5, <2>1, <2>2, SameStands
  <2> QED BY <1>2, <1>4, <1>7, <2>3, <2>4 DEF Patched, Type
<1>10. ASSUME NEW s \in Seq(Event), NEW t \in Seq(Event), v = DiffRuns(s, t),
              k < Len(s) \/ k < Len(t), \A i \in 1 .. k : Same(s, t, i)
       PROVE  v.divergeAt = k + 1 \/ (v.shared > k /\ Same(s, t, k + 1))
  <2>1. PICK l \in Nat : l = Len(Longer(s, t)) /\ k < l
    BY <1>10 DEF Longer
  <2>2. JudgedTo(s, t, v, l)
    BY <1>10, <2>1, DiffJudges
  <2>3. v.shared \in Nat
    BY <2>2 DEF JudgedTo
  <2>4. v.shared >= k
    <3>1. SUFFICES ASSUME v.shared < k PROVE FALSE
      BY <2>3
    <3>2. v.divergeAt # None /\ ~Same(s, t, v.shared + 1)
      BY <2>1, <2>2, <3>1 DEF JudgedTo
    <3>3. v.shared + 1 \in 1 .. k
      BY <2>3, <3>1
    <3> QED BY <1>10, <3>2, <3>3
  <2>5. CASE v.shared = k
    BY <2>1, <2>2, <2>5 DEF JudgedTo
  <2>6. CASE v.shared > k
    <3>1. k + 1 \in 1 .. v.shared
      BY <2>3, <2>6
    <3> QED BY <2>2, <2>6, <3>1 DEF JudgedTo
  <2> QED BY <2>3, <2>4, <2>5, <2>6
<1> QED BY <1>1, <1>5, <1>8, <1>9, <1>10

LEMMA DiffsKeep == ProgramsSpec => [](ProgramOK /\ DiffsOK)
<1>1. ProgramsInit => DiffsOK
  <2> SUFFICES ASSUME ProgramsInit PROVE DiffsOK
    OBVIOUS
  <2>1. page = NoPage /\ \A r \in Run : runs[r].parent = None
    BY DEF ProgramsInit, Init, DiaryInit, AbsentRow
  <2> QED BY <2>1, NoneAssumption
         DEF DiffsOK, Kin, ForkSharesPrefix, Diffing, NoPage
<1>2. ProgramOK /\ ProgramOK' /\ DiffsOK /\ [ProgramsNext]_programsVars => DiffsOK'
  BY DiffsNext DEF ProgramOK
<1> QED BY <1>1, <1>2, ProgramsAreSound, PTL DEF ProgramsSpec

LEMMA OpenDiff ==
    ASSUME ProgramOK, DiffsOK, page.at = "diff"
    PROVE  Sound /\ Kin /\ Compared /\ page.run \in Run /\ page.other \in Run
BY DEF ProgramOK, DiffsOK, Diffing, NoPage

\* The verdict of diff_runs and the rows it lists were read from two diaries in
\* two statements, and both runs may have gone on since: what it reports of them
\* is still so.
THEOREM DiffsStand == ProgramsSpec => []DiffStands
<1>1. ASSUME ProgramOK, DiffsOK PROVE DiffStands
  <2>1. SUFFICES ASSUME page.at = "diff" PROVE DiffStands
    BY DEF DiffStands
  <2>2. PICK r \in Run, q \in Run : r = page.run /\ q = page.other
    BY <1>1, <2>1, OpenDiff
  <2>3. PICK x, y : Reaches(x, r, q) /\ Reaches(y, q, r) /\ page.verdict = DiffRuns(x, y)
    BY <1>1, <2>1, <2>2, OpenDiff DEF Compared
  <2>4. PICK a, b, v : a = ReadEvents(r) /\ b = ReadEvents(q) /\ v = page.verdict
    OBVIOUS
  <2>5. a \in Seq(Event) /\ b \in Seq(Event)
    BY <1>1, <2>1, <2>4, OpenDiff, ReadSound DEF Sound, DenseDiary
  <2>6. /\ Agree(a, b, v.shared)
        /\ v.divergeAt # None => v.divergeAt = v.shared + 1
        /\ v.divergeAt = None => Len(v.rows) = v.shared
        /\ v.divergeAt # None =>
              LET row == v.rows[v.divergeAt]
              IN  Missing \notin {row.a, row.b} => ~Agree(a, b, v.divergeAt)
    BY <2>3, <2>4, <2>5, VerdictStands DEF Reaches
  <2> QED BY <2>2, <2>4, <2>6 DEF DiffStands
<1> QED BY <1>1, DiffsKeep, PTL

\* diff_runs finds the fork point of a fork and its parent, whichever of the two
\* is named first and however far each had got when it was read; or the two
\* agree there, because the parent is itself a fork with the same patch at that
\* step.
THEOREM DiffsFindForks == ProgramsSpec => []DiffFindsForkPoint
<1>1. ASSUME ProgramOK, DiffsOK PROVE DiffFindsForkPoint
  <2>1. SUFFICES ASSUME page.at = "diff" PROVE DiffFindsForkPoint
    BY DEF DiffFindsForkPoint
  <2>2. PICK a \in Run, b \in Run : a = page.run /\ b = page.other
    BY <1>1, <2>1, OpenDiff
  <2>3. Sound /\ Kin /\ Compared
    BY <1>1, <2>1, OpenDiff
  <2>4. PICK x, y, v : /\ Reaches(x, a, b) /\ Reaches(y, b, a)
                       /\ v = page.verdict /\ v = DiffRuns(x, y)
    BY <2>2, <2>3 DEF Compared
  <2>5. ASSUME NEW r \in {a, b}, NEW q \in {a, b}, runs[r].parent = q
        PROVE  LET k == runs[r].forkSeq
               IN  \/ v.divergeAt = k + 1
                   \/ /\ Patched(q, k + 1)
                      /\ diary[q][k + 1].event = diary[r][k + 1].event
                      /\ v.shared > k
    <3>1. r # q
      BY <2>3, <2>5 DEF Kin
    <3>2. (r = a /\ q = b) \/ (r = b /\ q = a)
      BY <3>1
    <3>3. CASE r = a /\ q = b
      BY <2>3, <2>4, <2>5, <3>3, VerdictForks
    <3>4. CASE r = b /\ q = a
      BY <2>3, <2>4, <2>5, <3>4, VerdictForks
    <3> QED BY <3>2, <3>3, <3>4
  <2>6. /\ {page.run, page.other} = {a, b} /\ page.verdict = v
    BY <2>2, <2>4
  <2> QED BY <2>5, <2>6, Zenon DEF DiffFindsForkPoint
<1> QED BY <1>1, DiffsKeep, PTL
=============================================================================

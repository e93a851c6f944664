----------------------------- MODULE DemoProofs -----------------------------
(***************************************************************************)
(* Theorems of what the showcase and the benchmarks print, and of the bill *)
(* of each life of a script: where lives of one agent come one at a time,  *)
(* the diary that each of them leaves says what the next one asks of the   *)
(* model.                                                                  *)
(***************************************************************************)
EXTENDS CertificateProofs

\* Which demo plays, and whose brain has a script.
DemoPlays ==
    /\ program \in DOMAIN Bounds
    /\ program \in {"showcase", "benchmark"} => demo.demo = program
    /\ program \notin {"showcase", "benchmark"} => demo.at = "create"
    /\ program # "showcase" => brain.script = Unset

LEMMA DemoPlaysNext ==
    ASSUME ProgramOK, DemoPlays, [ProgramsNext]_programsVars
    PROVE  DemoPlays'
<1>0. /\ UNCHANGED program /\ BrainOK /\ DemoOK
      /\ CertNext \/ DemoNext \/ UNCHANGED brain
      /\ (program \in {"showcase", "benchmark"} /\ DemoNext) \/ UNCHANGED demo
  BY ProgramFrame DEF ProgramOK, ScriptsOK
<1>1. DemoNext => demo'.demo = demo.demo
  <2>0. DOMAIN demo = {"demo", "at", "run", "bills", "asked", "lost"}
    BY <1>0 DEF DemoOK, Demo
  <2>1. \A at : Cut(at) => demo'.demo = demo.demo
    BY <2>0 DEF Cut
  <2>2. \A l : Perform(l) \/ Restart(l) => demo'.demo = demo.demo
    BY <2>0 DEF Perform, Restart
  <2>3. \A l : Bill(l) => demo'.demo = demo.demo
    BY <2>0 DEF Bill
  <2>4. \A l : Enter(l) \/ Measure(l) => demo'.demo = demo.demo
    BY <2>1 DEF Enter, Measure
  <2>5. \A h : Approve(h) => demo'.demo = demo.demo
    BY <2>1 DEF Approve
  <2>6. Begin \/ ForkNearTheEnd => demo'.demo = demo.demo
    BY <2>1 DEF Begin, ForkNearTheEnd
  <2> QED BY <2>2, <2>3, <2>4, <2>5, <2>6 DEF DemoNext
<1>2. \A p : BrainAnswers(p) => brain'.script = brain.script
  BY <1>0 DEF BrainAnswers, Counted, BrainOK, NoBrain, Brain
<1>3. CertNext => brain'.script \in {brain.script, Unset}
  BY <1>2 DEF CertNext, FreshRun, Poll, Verdict, Launch, Killed, LivesOn, Quiet, Brain
<1>4. DemoNext /\ demo.demo # "showcase" => brain'.script \in {brain.script, Unset}
  <2>1. demo.demo # "showcase" => ~\E l : Perform(l) \/ Restart(l)
    BY DEF Perform, Restart, Scene
  <2>2. demo.demo # "showcase" => ~\E h : Approve(h)
    BY DEF Approve, Scene
  <2>3. \A l : Enter(l) \/ Measure(l) \/ Bill(l) => brain'.script \in {brain.script, Unset}
    BY <1>2 DEF Enter, Measure, Bill, Act, Brain
  <2>4. Begin \/ ForkNearTheEnd =>
            demo.demo = "showcase" \/ brain'.script \in {brain.script, Unset}
    BY DEF Begin, ForkNearTheEnd, Brain
  <2> QED BY <2>1, <2>2, <2>3, <2>4 DEF DemoNext
<1>5. program \in {"showcase", "benchmark"} \/ CertNext \/ UNCHANGED brain
  BY DEF ProgramsNext, Browse, Certify, Demonstrate, DriveFleet, Mix, GatherCalls,
         Plays, programsVars
<1> QED BY <1>0, <1>1, <1>3, <1>4, <1>5 DEF DemoPlays

----------------------------------------------------------------------------
(* The bill of one life                                                    *)

\* The benchmark too is alone with the database between its lives, and has a
\* new brain for the next one; a life that found an error was its last.
BenchAlone ==
    program = "benchmark" =>
        \/ NobodyLives /\ (demo.at \in {"open", "fork"} => brain.calls = 0)
        \/ demo.at = "life" /\ \E l \in Life : pc[l] # "idle" /\ Billed(l)

LEMMA BenchAloneNext ==
    ASSUME ProgramOK, DemoPlays, BenchAlone, [ProgramsNext]_programsVars
    PROVE  BenchAlone'
<1>0. UNCHANGED program /\ Sound /\ Fits /\ BrainOK /\ DemoOK
  BY ProgramFrame DEF ProgramOK, ScriptsOK
<1>1. SUFFICES ASSUME program = "benchmark" PROVE BenchAlone'
  BY <1>0 DEF BenchAlone
<1>2. /\ demo.demo = "benchmark"
      /\ \/ NobodyLives /\ (demo.at \in {"open", "fork"} => brain.calls = 0)
         \/ demo.at = "life" /\ \E l \in Life : pc[l] # "idle" /\ Billed(l)
      /\ pc \in [Proc -> PC] /\ Life \subseteq Proc
      /\ DOMAIN demo = {"demo", "at", "run", "bills", "asked", "lost"}
  BY <1>0, <1>1 DEF DemoPlays, BenchAlone, Sound, Proc, DemoOK, Demo
<1>3. ASSUME NEW l \in Life, pc[l] # "idle" PROVE demo.at = "life" /\ Billed(l)
  BY <1>2, <1>3 DEF NobodyLives, Billed, Sole
<1>4. CASE Begin \/ ForkNearTheEnd
  <2>1. UNCHANGED pc /\ NobodyLives /\ brain'.calls = 0
    BY <1>2, <1>4 DEF Begin, ForkNearTheEnd, Create, Scene, Brain
  <2> QED BY <2>1 DEF BenchAlone, NobodyLives
<1>5. ASSUME NEW l \in Life, Enter(l) PROVE BenchAlone'
  <2>1. /\ NobodyLives /\ brain'.calls = 0 /\ demo'.at = "life" /\ TakeUp(l, demo.run)
    BY <1>2, <1>5 DEF Enter, Cut
  <2>2. demo.run \in Run
    <3>1. PICK n : n = Len(demo.bills)
      OBVIOUS
    <3>2. /\ n \in Nat /\ n <= 4 /\ demo.run = (IF n = 0 THEN 1 ELSE n)
          /\ n = 4 => demo.at = "told"
      BY <1>0, <1>2, <3>1 DEF DemoOK
    <3>3. demo.at = "open"
      BY <1>5 DEF Enter
    <3> QED BY <3>2, <3>3, DemosAssumption, MaxRunAssumption DEF Run
  <2>3. Billed(l)' /\ pc'[l] = "claimed"
    BY <1>0, <2>1, <2>2, TakeBills, SoleTakes
  <2> QED BY <2>1, <2>3 DEF BenchAlone
<1>6. ASSUME NEW l \in Life, Measure(l) PROVE BenchAlone'
  <2>1. LifeStep(l) /\ BrainAnswers(l) /\ UNCHANGED demo /\ demo.at = "life"
    BY <1>6 DEF Measure, Act, Scene
  <2>2. pc[l] # "idle"
    BY <2>1, ContextWalks DEF LifeStep, Open, Walk, Finish, Suspend, GiveUp, Walking
  <2>3. Billed(l)
    BY <1>3, <2>2
  <2>4. \A q \in Proc : pc'[q] # "idle" => q = l
    BY <1>0, <2>1, <2>3, SoleSteps DEF Billed
  <2>5. pc'[l] # "idle" => Billed(l)'
    BY <1>0, <2>1, <2>3, StepBills
  <2>6. CASE pc'[l] = "idle"
    BY <2>1, <2>4, <2>6 DEF BenchAlone, NobodyLives
  <2>7. CASE pc'[l] # "idle"
    BY <2>1, <2>5, <2>7 DEF BenchAlone
  <2> QED BY <2>6, <2>7
<1>7. ASSUME NEW l \in Life, Bill(l) PROVE BenchAlone'
  <2>1. pc[l] # "idle" /\ Leave(l, "idle") /\ brain'.calls = 0
    BY <1>7 DEF Bill, Brain
  <2>2. Sole(l)
    BY <1>3, <2>1 DEF Billed
  <2>3. NobodyLives'
    BY <1>2, <2>1, <2>2 DEF NobodyLives, Sole, Leave, Goto
  <2> QED BY <2>1, <2>3 DEF BenchAlone
<1>8. ~\E l \in Life : Perform(l) \/ Restart(l)
  BY <1>2 DEF Perform, Restart, Scene
<1>9. ~\E h \in Human : Approve(h)
  BY <1>2 DEF Approve, Scene
<1>10. CASE UNCHANGED programsVars
  <2>1. UNCHANGED <<diary, pc, life, demo, brain>>
    BY <1>10 DEF programsVars, vars
  <2>2. \A l \in Life : Billed(l) => Billed(l)'
    BY <2>1 DEF Billed, Sole, Paid
  <2> QED BY <1>2, <2>1, <2>2 DEF BenchAlone, NobodyLives
<1>11. DemoNext \/ UNCHANGED programsVars
  BY <1>1 DEF ProgramsNext, Browse, Certify, Demonstrate, DriveFleet, Mix, GatherCalls,
              Plays, Fleets
<1> QED BY <1>4, <1>5, <1>6, <1>7, <1>8, <1>9, <1>10, <1>11 DEF DemoNext

\* A brain that is new in each life is paid for exactly the answers that this
\* life recorded, in chaos.py, refund_chaos.py and the benchmarks, whatever
\* their agent: a replayed call never reaches the model (context.py:125-133),
\* and in a script that waits for its lives nobody takes the slot of an answer
\* that was paid for.
THEOREM BillsAreOfNewSteps == ProgramsSpec => []BillIsNewSteps
<1>1. ProgramsInit => CertLives /\ DemoPlays /\ BenchAlone
  BY DEF ProgramsInit, Init, ContextInit, CertLives, NobodyLives, Script, DemoPlays,
         BenchAlone, Demo, NoBrain, Brain
<1>2. ProgramOK /\ CertLives /\ [ProgramsNext]_programsVars => CertLives'
  BY CertLivesNext
<1>3. ProgramOK /\ DemoPlays /\ [ProgramsNext]_programsVars => DemoPlays'
  BY DemoPlaysNext
<1>4. ProgramOK /\ DemoPlays /\ BenchAlone /\ [ProgramsNext]_programsVars => BenchAlone'
  BY BenchAloneNext
<1>5. ASSUME ProgramOK, CertLives, DemoPlays, BenchAlone PROVE BillIsNewSteps
  <2>1. ASSUME NEW l \in Life, At("life") \/ Scene("benchmark", "life"), pc[l] # "idle"
        PROVE  brain.calls = Cardinality(Paid(l))
    <3>1. l \in Proc
      BY DEF Proc
    <3>2. Scene("benchmark", "life") => program = "benchmark"
      BY <1>5 DEF DemoPlays, Scene
    <3>3. PICK q \in Life : pc[q] # "idle" /\ Billed(q)
      BY <1>5, <2>1, <3>1, <3>2 DEF CertLives, BenchAlone, NobodyLives, At
    <3>4. q = l
      BY <2>1, <3>1, <3>3 DEF Billed, Sole
    <3> QED BY <3>3, <3>4 DEF Billed
  <2> QED BY <2>1 DEF BillIsNewSteps, Paid
<1> QED BY ProgramsAreSound, <1>1, <1>2, <1>3, <1>4, <1>5, PTL DEF ProgramsSpec

----------------------------------------------------------------------------
(* 13_showcase.py                                                          *)

Has(h, type) == \E i \in 1 .. Len(h) : h[i].type = type

\* The agent of the showcase asks the model once, and on a yes refunds once.
RefundsOnce(c) ==
    \A h \in Seq(Event) :
        LET kind == Agent(c, h).kind
        IN  /\ kind = "llm" => ~Has(h, "LLM_CALLED")
            /\ kind = "effect" => ~Has(h, "TOOL_COMPLETED")
            /\ /\ kind = "return"
               /\ \A i \in 1 .. Len(h) : h[i].type = "APPROVAL" => h[i].ans = "yes"
               => Has(h, "LLM_CALLED") /\ Has(h, "TOOL_COMPLETED")

ShowcaseAgent ==
    "showcase" \in DOMAIN Bounds => RefundsOnce(Bounds["showcase"].code)

\* One life at a time, of run 1.
ShowLives ==
    \/ NobodyLives
    \/ /\ demo.at = "life"
       /\ \E l \in Life : /\ pc[l] # "idle" /\ life[l].run = 1 /\ Sole(l)
                          /\ pc[l] = "called" => ~Replaying(l)

\* Its effects are its own, and it was not refused.
ShowDiary ==
    \A s \in DOMAIN diary[1] :
        /\ Type(1, s) \in {"TOOL_INTENT", "TOOL_COMPLETED"} => Ev(1, s).ask = 1
        /\ Type(1, s) = "APPROVAL" => Ev(1, s).ans = "yes"

\* A line of the script that was used is in the diary.
ShowBrain ==
    demo.at # "create" =>
        /\ brain.script = <<Recommendation>>
        /\ brain.calls > 0 => \E s \in DOMAIN diary[1] : Type(1, s) = "LLM_CALLED"

ShowRuns ==
    program = "showcase" =>
        /\ ShowLives /\ ShowDiary /\ ShowBrain
        /\ demo.at = "told" => Completed(1)

\* A life of the showcase.
LEMMA ShowActs ==
    ASSUME ProgramOK, ProgramOK', DemoPlays, program = "showcase", ShowLives, ShowDiary,
           ShowBrain, NEW l \in Life, Perform(l), 1 \in Run
    PROVE  ShowLives' /\ ShowDiary' /\ ShowBrain' /\ (demo'.at = "told" => Completed(1)')
<1>0. /\ l \in Proc /\ Life \subseteq Proc /\ LifeStep(l) /\ BrainAnswers(l)
      /\ demo.at = "life" /\ Sound /\ Fits /\ Fits' /\ BrainOK
      /\ demo'.at = CASE pc[l] = "paused" -> "grant" [] pc[l] = "returned" -> "told"
                      [] OTHER -> "life"
      /\ pc \in [Proc -> PC] /\ life \in [Proc -> LifeRow] /\ runs \in [Run -> RunRow]
  BY DEF Proc, Perform, Scene, Act, ProgramOK, ScriptsOK, DemoOK, Demo, Sound,
         DiaryTypeOK
<1>1. PICK c : c = Bounds[program].code /\ RunsOnly(c)
  BY <1>0, ProgramVersion DEF ProgramOK
<1>2. pc[l] # "idle"
  BY <1>0, ContextWalks DEF LifeStep, Open, Walk, Finish, Suspend, GiveUp, Walking
<1>3. Sole(l) /\ life[l].run = 1
  BY <1>0, <1>2 DEF ShowLives, NobodyLives, Sole
<1>4. \A q \in Proc : pc'[q] # "idle" => q = l
  BY <1>0, <1>3, SoleSteps
<1>5. Sole(l)'
  BY <1>0, <1>3, SoleSteps
<1>6. CASE Walk(l)
  <2>1. ContextStep(l) /\ pc[l] \in Walking
    BY <1>6, ContextWalks DEF Walk
  <2>2. /\ life'[l].run = 1
        /\ pc'[l] = "called" => ~Replaying(l)'
    <3>1. life[l] \in LifeRow /\ SeesOn(l)
      BY <1>0, <2>1, ContextSeesOn
    <3>2. Sound'
      BY DEF ProgramOK
    <3>3. life'[l] \in LifeRow
      BY <1>0, <3>2 DEF Sound
    <3>4. PICK n \in Nat, m \in Nat : n = Len(life[l].seen) /\ m = Len(life[l].history)
      BY <3>1 DEF LifeRow
    <3> QED BY <1>3, <3>1, <3>4 DEF SeesOn, Replaying
  <2>3. demo'.at = "life"
    BY <1>0, <2>1 DEF Walking
  <2>4. ShowLives'
    <3>1. CASE pc'[l] = "idle"
      BY <1>4, <3>1 DEF ShowLives, NobodyLives
    <3>2. CASE pc'[l] # "idle"
      BY <1>5, <2>2, <2>3, <3>2 DEF ShowLives
    <3> QED BY <3>1, <3>2
  <2>5. ShowDiary'
    <3>1. CASE UNCHANGED <<diary, ledger>>
      BY <3>1 DEF ShowDiary, Type, Ev
    <3>2. ASSUME NEW n \in Nat, NEW e \in Event, Recalls(c, 1, n, e) \/ Results(c, 1, n, e)
          PROVE  ShowDiary'
      <4>1. Appends(1, n, e)
        BY <3>2 DEF Recalls, Results
      <4>2. DOMAIN diary[1] = 1 .. n /\ DOMAIN diary'[1] = 1 .. n + 1
        BY <4>1 DEF Appends
      <4>3. /\ diary'[1][n + 1].event = e
            /\ \A s \in 1 .. n : diary'[1][s] = diary[1][s]
        BY <4>1 DEF Appends
      <4>4. e.type = "TOOL_INTENT" => e.ask = 1
        <5>1. n + 1 \in DOMAIN diary'[1] /\ n + 1 + 1 \notin DOMAIN diary'[1]
          BY <4>2
        <5>2. Walkable(1)'
          BY <1>0 DEF Fits
        <5> QED BY <4>3, <5>1, <5>2 DEF Walkable, Ev
      <4>5. /\ e.type # "APPROVAL"
            /\ e.type = "TOOL_COMPLETED" => e.ask = 1
        BY <3>2 DEF Recalls, Results, Calls, CompletedEvent
      <4>6. \A s \in 1 .. n + 1 : s \in 1 .. n \/ s = n + 1
        OBVIOUS
      <4> QED BY <4>2, <4>3, <4>4, <4>5, <4>6 DEF ShowDiary, Type, Ev
    <3> QED BY <1>0, <1>1, <1>3, <2>1, <3>1, <3>2, StepWrites
  <2>6. ShowBrain'
    <3>1. brain'.script = brain.script
      BY <1>0 DEF BrainAnswers, Counted, BrainOK, NoBrain, Brain
    <3>2. RowsKept
      BY <1>0, <2>1, ContextAdds, AddsKeep
    <3>3. CASE pc[l] # "called"
      <4>1. UNCHANGED brain
        BY <1>0, <3>3 DEF BrainAnswers
      <4>2. \A s \in DOMAIN diary[1] : s \in DOMAIN diary'[1] /\ diary'[1][s] = diary[1][s]
        BY <3>2 DEF RowsKept
      <4> QED BY <1>0, <4>1, <4>2 DEF ShowBrain, Type
    <3>4. CASE pc[l] = "called"
      <4>1. RecordLlm(l)
        BY <2>1, <3>4 DEF ContextStep, ApplyPatch, ReplayLlm, CallModel, ReplayIntent,
              RecordIntent, ReplayCompleted, BeginEffect, CommitEffect, ReplayRequest,
              RecordRequest, ReplayDecision, Pause, Return, RaiseOwn, Asks
      <4>2. PICK answer \in Answer : Record(l, LlmEvent(Ask(l), answer), "agent")
        BY <4>1 DEF RecordLlm
      <4>3. InsertEvent(1, NextSeq(l), LlmEvent(Ask(l), answer), life[l].token)
        BY <1>0, <1>3, <2>1, <4>2, RecordAlone
      <4>4. PICK k, e, t : k = NextSeq(l) /\ e = LlmEvent(Ask(l), answer) /\ t = life[l].token
        OBVIOUS
      <4>5. /\ DOMAIN diary = Run
            /\ diary' = [diary EXCEPT ![1] = WithRow(@, k, e, t)]
        BY <1>0, <4>3, <4>4 DEF Sound, DiaryTypeOK, InsertEvent
      <4>6. k \in DOMAIN diary'[1] /\ diary'[1][k].event = e
        BY <4>5 DEF WithRow
      <4>7. e.type = "LLM_CALLED"
        BY <4>4 DEF LlmEvent
      <4> QED BY <1>0, <3>1, <4>6, <4>7 DEF ShowBrain, Type
    <3> QED BY <3>3, <3>4
  <2> QED BY <2>3, <2>4, <2>5, <2>6
<1>7. CASE ~Walk(l)
  <2>1. /\ UNCHANGED <<diary, ledger>> /\ pc[l] # "called"
        /\ pc'[l] \in {"agent", "idle"}
        /\ pc'[l] = "agent" => Open(l)
    BY <1>0, <1>7 DEF LifeStep, Open, OpenContext, Finish, Suspend, GiveUp, Leave, Goto,
                      SetRunStatus, ReadOnly
  <2>2. UNCHANGED brain
    BY <1>0, <2>1 DEF BrainAnswers
  <2>3. ShowDiary' /\ ShowBrain'
    BY <1>0, <2>1, <2>2 DEF ShowDiary, ShowBrain, Type, Ev
  <2>4. CASE pc'[l] = "idle"
    <3>1. ShowLives'
      BY <1>4, <2>4 DEF ShowLives, NobodyLives
    <3>2. ASSUME demo'.at = "told" PROVE runs'[1].status = "completed"
      <4>1. pc[l] = "returned"
        BY <1>0, <3>2
      <4>2. Finish(l)
        BY <1>0, <1>7, <4>1 DEF LifeStep, Open, Finish, Suspend, GiveUp
      <4> QED BY <1>0, <1>3, <4>2 DEF Finish, SetRunStatus, RunRow
    <3> QED BY <2>3, <3>1, <3>2 DEF Completed
  <2>5. CASE pc'[l] = "agent"
    <3>1. Open(l)
      BY <2>1, <2>5
    <3>2. life'[l].run = 1 /\ demo'.at = "life"
      BY <1>0, <1>3, <3>1 DEF Open, OpenContext
    <3> QED BY <1>5, <2>3, <2>5, <3>2 DEF ShowLives
  <2> QED BY <2>1, <2>4, <2>5
<1> QED BY <1>6, <1>7

LEMMA ShowApproves ==
    ASSUME ProgramOK, ShowDiary, 1 \in Run, NEW h \in Human, Approve(h)
    PROVE  ShowDiary'
<1>0. Sound /\ GrantStep(h) /\ \A s \in DOMAIN diary'[1] : diary'[1][s].event.ans # "no"
  BY DEF Approve, ProgramOK
<1>1. CASE UNCHANGED diary
  BY <1>1 DEF ShowDiary, Type, Ev
<1>2. ASSUME NEW r, NEW seq, NEW approved \in {"yes", "no"},
             InsertEvent(r, seq, DecisionEvent(approved), 0)
      PROVE  ShowDiary'
  <2>1. PICK e : e = DecisionEvent(approved)
    OBVIOUS
  <2>2. e.type = "APPROVAL" /\ e.ans \in {"yes", "no"}
    BY <2>1 DEF DecisionEvent
  <2>3. DOMAIN diary = Run /\ diary' = [diary EXCEPT ![r] = WithRow(@, seq, e, 0)]
    BY <1>0, <1>2, <2>1 DEF Sound, DiaryTypeOK, InsertEvent
  <2>4. ASSUME NEW s \in DOMAIN diary'[1]
        PROVE  \/ s \in DOMAIN diary[1] /\ diary'[1][s] = diary[1][s]
               \/ diary'[1][s].event = e
    BY <2>3, <2>4 DEF WithRow
  <2>5. ASSUME NEW s \in DOMAIN diary'[1]
        PROVE  /\ diary'[1][s].event.type \in {"TOOL_INTENT", "TOOL_COMPLETED"} =>
                      diary'[1][s].event.ask = 1
               /\ diary'[1][s].event.type = "APPROVAL" => diary'[1][s].event.ans = "yes"
    <3>1. diary'[1][s].event.ans # "no"
      BY <1>0
    <3> QED BY <2>2, <2>4, <3>1 DEF ShowDiary, Type, Ev
  <2> QED BY <2>5 DEF ShowDiary, Type, Ev
<1> QED BY <1>0, <1>1, <1>2 DEF GrantStep, GrantRead, GrantAppend, GrantRequeue,
                                SetRunStatus

LEMMA ShowMoves ==
    ASSUME ProgramOK, ProgramOK', DemoPlays, program = "showcase", ShowLives, ShowDiary,
           ShowBrain, DemoNext, 1 \in Run
    PROVE  ShowLives' /\ ShowDiary' /\ ShowBrain' /\ (demo'.at = "told" => Completed(1)')
<1>0. /\ demo.demo = "showcase" /\ demo.run = 1 /\ Sound /\ BrainOK
      /\ DOMAIN demo = {"demo", "at", "run", "bills", "asked", "lost"}
  BY DEF DemoPlays, ProgramOK, ScriptsOK, DemoOK, Demo
<1>1. \A at : Cut(at) => demo'.at = at
  BY <1>0 DEF Cut
<1>2. ASSUME UNCHANGED diary PROVE ShowDiary'
  BY <1>2 DEF ShowDiary, Type, Ev
<1>3. ASSUME NobodyLives, UNCHANGED pc PROVE ShowLives'
  BY <1>3 DEF ShowLives, NobodyLives
<1>4. ASSUME brain' = Brain(<<Recommendation>>, Unset) PROVE ShowBrain'
  BY <1>4 DEF ShowBrain, Brain
<1>5. CASE Begin
  <2>1. demo.at = "create" /\ UNCHANGED <<diary, pc>> /\ demo'.at = "open"
    BY <1>0, <1>1, <1>5 DEF Begin, Create, CreateRun
  <2>2. brain' = Brain(<<Recommendation>>, Unset)
    BY <1>0, <1>5 DEF Begin
  <2>3. NobodyLives
    BY <2>1 DEF ShowLives
  <2> QED BY <1>2, <1>3, <1>4, <2>1, <2>2, <2>3
<1>6. ASSUME NEW l \in Life, Enter(l)
      PROVE  ShowLives' /\ ShowDiary' /\ ShowBrain' /\ (demo'.at = "told" => Completed(1)')
  <2>1. demo.at = "open" /\ demo'.at = "life" /\ UNCHANGED brain /\ TakeUp(l, 1)
    BY <1>0, <1>1, <1>6 DEF Enter
  <2>2. UNCHANGED diary
    BY <2>1 DEF TakeUp, ReadOnly
  <2>3. NobodyLives
    BY <2>1 DEF ShowLives
  <2>4. Sole(l)' /\ pc'[l] = "claimed" /\ life'[l].run = 1
    BY <1>0, <2>1, <2>3, SoleTakes
  <2>5. ShowLives'
    BY <2>1, <2>4 DEF ShowLives
  <2>6. ShowBrain'
    BY <2>1, <2>2 DEF ShowBrain, Type
  <2> QED BY <1>2, <2>1, <2>2, <2>5, <2>6
<1>7. ASSUME NEW l \in Life, Perform(l)
      PROVE  ShowLives' /\ ShowDiary' /\ ShowBrain' /\ (demo'.at = "told" => Completed(1)')
  BY <1>7, ShowActs
<1>8. ASSUME NEW l \in Life, Restart(l)
      PROVE  ShowLives' /\ ShowDiary' /\ ShowBrain' /\ (demo'.at = "told" => Completed(1)')
  <2>1. /\ LifeDies(l) /\ brain' = Brain(<<Recommendation>>, Unset) /\ pc[l] # "idle"
        /\ UNCHANGED diary /\ demo'.at # "told" /\ l \in Proc
    BY <1>1, <1>8 DEF Restart, LifeDies, Crash, Proc
  <2>2. Sole(l)
    BY <2>1 DEF ShowLives, NobodyLives, Sole
  <2>3. NobodyLives'
    BY <1>0, <2>1, <2>2, SoleDies
  <2> QED BY <1>2, <1>4, <2>1, <2>3 DEF ShowLives, NobodyLives
<1>9. ASSUME NEW h \in Human, Approve(h)
      PROVE  ShowLives' /\ ShowDiary' /\ ShowBrain' /\ (demo'.at = "told" => Completed(1)')
  <2>1. /\ demo.at = "grant" /\ demo'.at \in {"open", "grant"}
        /\ UNCHANGED <<pc, life, brain>>
    BY <1>1, <1>9 DEF Approve, Scene
  <2>2. NobodyLives
    BY <2>1 DEF ShowLives
  <2>3. \A s \in DOMAIN diary[1] : s \in DOMAIN diary'[1] /\ diary'[1][s] = diary[1][s]
    <3>1. GrantStep(h) /\ DOMAIN diary = Run
      BY <1>0, <1>9 DEF Approve, Sound, DiaryTypeOK
    <3>2. \A r, s, e : InsertEvent(r, s, e, 0) /\ ~Taken(r, s) =>
              \A t \in DOMAIN diary[1] : t \in DOMAIN diary'[1] /\ diary'[1][t] = diary[1][t]
      BY <3>1 DEF InsertEvent, WithRow, Taken
    <3> QED BY <3>1, <3>2 DEF GrantStep, GrantRead, GrantAppend, GrantRequeue, SetRunStatus
  <2>4. ShowBrain'
    BY <2>1, <2>3 DEF ShowBrain, Type
  <2> QED BY <1>3, <1>9, <2>1, <2>2, <2>4, ShowApproves
<1>10. ~\E l \in Life : Measure(l) \/ Bill(l)
  BY <1>0 DEF Measure, Bill, Scene
<1>11. ~ForkNearTheEnd
  BY <1>0 DEF ForkNearTheEnd, Scene
<1> QED BY <1>5, <1>6, <1>7, <1>8, <1>9, <1>10, <1>11 DEF DemoNext

LEMMA ShowRunsNext ==
    ASSUME ProgramOK, ProgramOK', DemoPlays, ShowRuns, [ProgramsNext]_programsVars
    PROVE  ShowRuns'
<1>1. UNCHANGED program
  BY ProgramFrame DEF ProgramOK
<1>2. SUFFICES ASSUME program = "showcase"
               PROVE  /\ ShowLives' /\ ShowDiary' /\ ShowBrain'
                      /\ demo'.at = "told" => Completed(1)'
  BY <1>1 DEF ShowRuns
<1>3. DemoNext \/ UNCHANGED programsVars
  BY <1>2 DEF ProgramsNext, Browse, Certify, Demonstrate, DriveFleet, Mix, GatherCalls,
              Plays, Fleets
<1>4. ShowLives /\ ShowDiary /\ ShowBrain /\ (demo.at = "told" => Completed(1))
  BY <1>2 DEF ShowRuns
<1>5. CASE DemoNext
  BY <1>2, <1>4, <1>5, OneIsRun, ShowMoves
<1>6. CASE UNCHANGED programsVars
  <2>1. UNCHANGED <<diary, runs, pc, life, demo, brain>>
    BY <1>6 DEF programsVars, vars
  <2>2. ShowLives'
    <3>1. CASE NobodyLives
      BY <2>1, <3>1 DEF ShowLives, NobodyLives
    <3>2. ASSUME NEW l \in Life, demo.at = "life", pc[l] # "idle", life[l].run = 1, Sole(l),
                 pc[l] = "called" => ~Replaying(l)
          PROVE  ShowLives'
      <4>1. Sole(l)' /\ (pc'[l] = "called" => ~Replaying(l)')
        BY <2>1, <3>2 DEF Sole, Replaying
      <4> QED BY <2>1, <3>2, <4>1 DEF ShowLives
    <3> QED BY <1>4, <3>1, <3>2 DEF ShowLives
  <2> QED BY <1>4, <2>1, <2>2 DEF ShowDiary, ShowBrain, Completed, Type, Ev
<1> QED BY <1>3, <1>5, <1>6

\* Whoever calls the model finds no answer recorded, and the line of its script
\* unused.
FirstCall ==
    program = "showcase" =>
        \A l \in Life : pc[l] = "called" => ~Exhausted(brain) /\ ~Consulted

LEMMA ScriptIsEnough ==
    ASSUME ProgramOK, DemoPlays, ShowRuns, ShowcaseAgent
    PROVE  FirstCall
<1>1. SUFFICES ASSUME program = "showcase", NEW l \in Life, pc[l] = "called"
               PROVE  ~Exhausted(brain) /\ ~Consulted
  BY DEF FirstCall
<1>2. ~Exhausted(brain) /\ ~Consulted
  <2>0. /\ l \in Proc /\ Sound /\ Fits /\ BrainOK /\ LifeOK(l) /\ life[l] \in LifeRow
        /\ ShowLives /\ ShowBrain /\ 1 \in Run
    BY <1>1, OneIsRun DEF ShowRuns, ProgramOK, ScriptsOK, Sound, Proc
  <2>1. PICK c : c = Bounds[program].code
    OBVIOUS
  <2>2. RunsOnly(c) /\ RefundsOnce(c)
    BY <1>1, <2>0, <2>1, ProgramVersion DEF ProgramOK, ShowcaseAgent, DemoPlays
  <2>3. life[l].run = 1 /\ Sole(l) /\ ~Replaying(l) /\ demo.at = "life"
    BY <1>1, <2>0 DEF ShowLives, NobodyLives, Sole
  <2>4. PICK h \in Seq(Event), n \in Nat, m \in Nat :
            h = life[l].seen /\ n = Len(h) /\ m = Len(life[l].history)
    BY <2>0 DEF LifeRow
  <2>5. n >= m
    BY <2>3, <2>4 DEF Replaying
  <2>6. DOMAIN diary[1] = 1 .. n
    BY <1>1, <2>3, <2>4, <2>5 DEF Sole, Walking
  <2>7. Agent(c, h).kind = "llm"
    BY <1>1, <2>0, <2>2, <2>4 DEF LifeOK, RunsOnly, Walking
  <2>8. ~Has(h, "LLM_CALLED")
    BY <2>2, <2>4, <2>7 DEF RefundsOnce
  <2>9. ~Consulted /\ ~(brain.calls > 0)
    <3>1. Walked(h, 1)
      BY <1>1, <2>0, <2>3, <2>4 DEF LifeOK
    <3>2. \A s \in DOMAIN diary[1] : Type(1, s) # "LLM_CALLED"
      BY <2>4, <2>6, <2>8, <3>1 DEF Walked, Has, Type
    <3> QED BY <2>0, <2>3, <3>2 DEF ShowBrain, Consulted
  <2>10. brain.calls = 0 /\ brain.script = <<Recommendation>>
    BY <2>0, <2>3, <2>9 DEF ShowBrain, BrainOK
  <2>11. PICK script : script = <<Recommendation>>
    OBVIOUS
  <2>12. Len(script) = 1
    BY <2>11
  <2> QED BY <2>9, <2>10, <2>11, <2>12 DEF Exhausted
<1> QED BY <1>2

Calling == \E l \in Life : pc[l] = "called"

\* The model was called for the answer in the diary, for the one that is on its
\* way, and for those that died.
ShowCount ==
    program = "showcase" =>
        /\ demo.asked \in Nat /\ demo.lost \in Nat
        /\ demo.asked = demo.lost + One(Consulted \/ Calling)

LEMMA StillConsulted ==
    ASSUME Sound, NEW r, NEW s, NEW e, NEW t, e.type # "LLM_CALLED",
           InsertEvent(r, s, e, t), ~Taken(r, s), 1 \in Run
    PROVE  Consulted' <=> Consulted
<1>1. DOMAIN diary = Run /\ diary' = [diary EXCEPT ![r] = WithRow(@, s, e, t)]
  BY DEF Sound, DiaryTypeOK, InsertEvent
<1>2. CASE r # 1
  BY <1>1, <1>2 DEF Consulted, Type
<1>3. CASE r = 1
  <2>1. diary'[1] = WithRow(diary[1], s, e, t) /\ s \notin DOMAIN diary[1]
    BY <1>1, <1>3 DEF Taken
  <2>2. /\ DOMAIN diary'[1] = DOMAIN diary[1] \cup {s}
        /\ diary'[1][s].event = e
        /\ \A i \in DOMAIN diary[1] : diary'[1][i] = diary[1][i]
    BY <2>1 DEF WithRow
  <2> QED BY <2>2 DEF Consulted, Type
<1> QED BY <1>2, <1>3

\* Only the answer to a call puts a recommendation in the diary.
LEMMA OthersConsultNobody ==
    ASSUME Sound, NEW l \in Life, LifeStep(l), pc[l] # "called", 1 \in Run
    PROVE  Consulted' <=> Consulted
<1>1. CASE UNCHANGED diary
  BY <1>1 DEF Consulted, Type
<1>2. ASSUME NEW e, NEW next, Record(l, e, next), e.type # "LLM_CALLED"
      PROVE  Consulted' <=> Consulted
  BY <1>1, <1>2, StillConsulted DEF Record
<1>3. CASE RecordIntent(l)
  BY <1>2, <1>3 DEF RecordIntent, IntentEvent
<1>4. CASE RecordRequest(l)
  BY <1>2, <1>4 DEF RecordRequest, RequestEvent
<1>5. CASE CommitEffect(l)
  <2>1. PICK r, e : /\ r = life[l].run
                    /\ e = CompletedEvent(r, IF life[l].found THEN keys[r][KeySeq(l)]
                                                              ELSE ActingOp(l).ask)
    OBVIOUS
  <2>2. e.type = "TOOL_COMPLETED"
    BY <2>1 DEF CompletedEvent
  <2>3. CASE Conflict(l)
    BY <1>1, <1>5, <2>3 DEF CommitEffect
  <2>4. CASE ~Conflict(l)
    <3>1. InsertEvent(r, NextSeq(l), e, life[l].token) /\ ~Taken(r, NextSeq(l))
      BY <1>5, <2>1, <2>4 DEF CommitEffect, Conflict
    <3> QED BY <2>2, <3>1, StillConsulted
  <2> QED BY <2>3, <2>4
<1>6. ASSUME ContextStep(l) PROVE Consulted' <=> Consulted
  <2>1. ~RecordLlm(l)
    BY DEF RecordLlm
  <2>2. CASE ApplyPatch(l) \/ ReplayLlm(l) \/ CallModel(l) \/ ReplayIntent(l)
             \/ ReplayCompleted(l) \/ BeginEffect(l) \/ ReplayRequest(l)
             \/ ReplayDecision(l) \/ Pause(l) \/ Return(l) \/ RaiseOwn(l)
    <3>1. UNCHANGED diary
      BY <2>2 DEF ApplyPatch, ReplayLlm, CallModel, ReplayIntent, ReplayCompleted,
                  BeginEffect, ReplayRequest, ReplayDecision, Pause, Return, RaiseOwn,
                  Replay, ReadOnly
    <3> QED BY <1>1, <3>1
  <2> QED BY <1>3, <1>4, <1>5, <1>6, <2>1, <2>2 DEF ContextStep
<1>7. CASE ~Walk(l)
  <2>1. UNCHANGED diary
    BY <1>7 DEF LifeStep, Open, OpenContext, Finish, Suspend, GiveUp, SetRunStatus, ReadOnly
  <2> QED BY <1>1, <2>1
<1> QED BY <1>6, <1>7 DEF Walk

\* A call is counted when it goes out, and as lost when its process dies.
LEMMA ShowCounts ==
    ASSUME ProgramOK, DemoPlays, ShowRuns, FirstCall, FirstCall', ShowCount,
           program = "showcase", UNCHANGED program, DemoNext, 1 \in Run
    PROVE  ShowCount'
<1>0. /\ demo.demo = "showcase" /\ Sound /\ Fits /\ pc \in [Proc -> PC]
      /\ Life \subseteq Proc /\ ShowLives
      /\ DOMAIN demo = {"demo", "at", "run", "bills", "asked", "lost"}
      /\ demo.asked \in Nat /\ demo.lost \in Nat
      /\ demo.asked = demo.lost + One(Consulted \/ Calling)
  BY DEF DemoPlays, ProgramOK, ScriptsOK, DemoOK, Demo, Sound, Proc, ShowRuns, ShowCount
<1>1. ASSUME UNCHANGED <<demo.asked, demo.lost>>,
             (Consulted \/ Calling)' <=> (Consulted \/ Calling)
      PROVE  ShowCount'
  BY <1>0, <1>1 DEF ShowCount, One
<1>2. \A at : Cut(at) => UNCHANGED <<demo.asked, demo.lost>>
  BY <1>0 DEF Cut
<1>3. CASE Begin
  <2>1. UNCHANGED <<diary, pc>>
    BY <1>3 DEF Begin, Create, CreateRun
  <2>2. (Consulted \/ Calling)' <=> (Consulted \/ Calling)
    BY <2>1 DEF Consulted, Calling, Type
  <2> QED BY <1>1, <1>2, <1>3, <2>2 DEF Begin
<1>4. ASSUME NEW l \in Life, Enter(l) PROVE ShowCount'
  <2>1. UNCHANGED diary /\ pc[l] = "idle" /\ pc' = [pc EXCEPT ![l] = "claimed"]
    BY <1>4 DEF Enter, TakeUp, ReadOnly, Goto
  <2>2. \A q \in Life : pc'[q] = "called" <=> pc[q] = "called"
    BY <1>0, <2>1
  <2>3. (Consulted \/ Calling)' <=> (Consulted \/ Calling)
    BY <2>1, <2>2 DEF Consulted, Calling, Type
  <2> QED BY <1>1, <1>2, <1>4, <2>3 DEF Enter
<1>5. ASSUME NEW l \in Life, pc[l] # "idle"
      PROVE  Sole(l) /\ (Calling <=> pc[l] = "called")
  <2>1. Sole(l)
    BY <1>0, <1>5 DEF ShowLives, NobodyLives, Sole
  <2> QED BY <1>0, <2>1 DEF Sole, Calling
<1>6. ASSUME NEW l \in Life, Perform(l) PROVE ShowCount'
  <2>1. /\ LifeStep(l)
        /\ demo'.asked = demo.asked + One(pc'[l] = "called")
        /\ demo'.lost = demo.lost
    BY <1>0, <1>6 DEF Perform, Act
  <2>2. pc[l] # "idle"
    BY <2>1, ContextWalks DEF LifeStep, Open, Walk, Finish, Suspend, GiveUp, Walking
  <2>3. Sole(l) /\ (Calling <=> pc[l] = "called")
    BY <1>5, <2>2
  <2>4. \A q \in Proc : pc'[q] # "idle" => q = l
    BY <1>0, <2>1, <2>3, SoleSteps
  <2>5. Calling' <=> pc'[l] = "called"
    BY <1>0, <2>4 DEF Calling
  <2>6. CASE pc[l] = "called"
    <3>1. RecordLlm(l)
      BY <2>1, <2>6 DEF LifeStep, Open, Finish, Suspend, GiveUp, Walk, ContextStep,
            ApplyPatch, ReplayLlm, CallModel, ReplayIntent, RecordIntent,
            ReplayCompleted, BeginEffect, CommitEffect, ReplayRequest, RecordRequest,
            ReplayDecision, Pause, Return, RaiseOwn, Asks
    <3>2. PICK e : e.type = "LLM_CALLED" /\ Record(l, e, "agent")
      BY <3>1 DEF RecordLlm, LlmEvent
    <3>3. /\ InsertEvent(life[l].run, NextSeq(l), e, life[l].token)
          /\ pc'[l] # "called" /\ life[l].run = 1
      <4>1. /\ InsertEvent(life[l].run, NextSeq(l), e, life[l].token)
            /\ ~Taken(life[l].run, NextSeq(l))
        BY <1>0, <2>3, <2>6, <3>2, RecordAlone DEF Walking
      <4>2. pc'[l] # "called"
        BY <1>0, <3>2 DEF Record, Goto
      <4>3. life[l].run = 1
        BY <1>0, <2>2, <2>3 DEF ShowLives, NobodyLives, Sole
      <4> QED BY <4>1, <4>2, <4>3
    <3>4. Consulted'
      <4>1. PICK k, t : k = NextSeq(l) /\ t = life[l].token
        OBVIOUS
      <4>2. diary' = [diary EXCEPT ![1] = WithRow(@, k, e, t)] /\ DOMAIN diary = Run
        BY <1>0, <3>3, <4>1 DEF InsertEvent, Sound, DiaryTypeOK
      <4>3. k \in DOMAIN diary'[1] /\ diary'[1][k].event = e
        BY <4>2 DEF WithRow
      <4> QED BY <3>2, <4>3 DEF Consulted, Type
    <3> QED BY <1>1, <2>1, <2>3, <2>6, <1>0, <3>3, <3>4 DEF One
  <2>7. CASE pc[l] # "called"
    <3>1. Consulted' <=> Consulted
      BY <1>0, <2>1, <2>7, OthersConsultNobody
    <3>2. pc'[l] = "called" => ~Consulted'
      BY DEF FirstCall
    <3>3. CASE pc'[l] = "called"
      <4>1. ~(Consulted \/ Calling) /\ (Consulted \/ Calling)'
        BY <2>3, <2>5, <2>7, <3>1, <3>2, <3>3
      <4> QED BY <1>0, <2>1, <3>3, <4>1 DEF ShowCount, One
    <3>4. CASE pc'[l] # "called"
      <4>1. (Consulted \/ Calling)' <=> (Consulted \/ Calling)
        BY <2>3, <2>5, <2>7, <3>1, <3>4
      <4> QED BY <1>0, <1>1, <2>1, <3>4, <4>1 DEF One
    <3> QED BY <3>3, <3>4
  <2> QED BY <2>6, <2>7
<1>7. ASSUME NEW l \in Life, Restart(l) PROVE ShowCount'
  <2>1. /\ LifeDies(l) /\ pc[l] # "idle" /\ UNCHANGED diary
        /\ demo'.asked = demo.asked
        /\ demo'.lost = demo.lost + One(pc[l] = "called")
    BY <1>0, <1>7 DEF Restart, LifeDies, Crash
  <2>2. Sole(l) /\ (Calling <=> pc[l] = "called")
    BY <1>5, <2>1
  <2>3. ~Calling'
    BY <1>0, <2>1, <2>2, SoleDies DEF NobodyLives, Calling
  <2>4. Consulted' <=> Consulted
    BY <2>1 DEF Consulted, Type
  <2>5. pc[l] = "called" => ~Consulted
    BY DEF FirstCall
  <2>6. CASE pc[l] = "called"
    BY <1>0, <2>1, <2>2, <2>3, <2>4, <2>5, <2>6 DEF ShowCount, One
  <2>7. CASE pc[l] # "called"
    BY <1>0, <1>1, <2>1, <2>2, <2>3, <2>4, <2>7 DEF One
  <2> QED BY <2>6, <2>7
<1>8. ASSUME NEW h \in Human, Approve(h) PROVE ShowCount'
  <2>1. GrantStep(h) /\ UNCHANGED pc
    BY <1>8 DEF Approve
  <2>2. \A ans : DecisionEvent(ans).type # "LLM_CALLED"
    BY DEF DecisionEvent
  <2>3. UNCHANGED diary => (Consulted' <=> Consulted)
    BY DEF Consulted, Type
  <2>4. Consulted' <=> Consulted
    BY <1>0, <2>1, <2>2, <2>3, StillConsulted
       DEF GrantStep, GrantRead, GrantAppend, GrantRequeue, SetRunStatus
  <2> QED BY <1>1, <1>2, <1>8, <2>1, <2>4 DEF Approve, Calling
<1>9. ~\E l \in Life : Measure(l) \/ Bill(l)
  BY <1>0 DEF Measure, Bill, Scene
<1>10. ~ForkNearTheEnd
  BY <1>0 DEF ForkNearTheEnd, Scene
<1> QED BY <1>3, <1>4, <1>6, <1>7, <1>8, <1>9, <1>10 DEF DemoNext

LEMMA ShowCountNext ==
    ASSUME ProgramOK, DemoPlays, ShowRuns, FirstCall, FirstCall', ShowCount,
           [ProgramsNext]_programsVars
    PROVE  ShowCount'
<1>1. UNCHANGED program
  BY ProgramFrame DEF ProgramOK
<1>2. CASE program # "showcase"
  BY <1>1, <1>2 DEF ShowCount
<1>3. CASE program = "showcase" /\ DemoNext
  BY <1>1, <1>3, OneIsRun, ShowCounts
<1>4. CASE UNCHANGED programsVars
  <2>1. UNCHANGED <<diary, pc, demo, program>>
    BY <1>4 DEF programsVars, vars
  <2>2. (Consulted \/ Calling)' <=> (Consulted \/ Calling)
    BY <2>1 DEF Consulted, Calling, Type
  <2> QED BY <2>1, <2>2 DEF ShowCount, One
<1>5. program = "showcase" => DemoNext \/ UNCHANGED programsVars
  BY DEF ProgramsNext, Browse, Certify, Demonstrate, DriveFleet, Mix, GatherCalls,
         Plays, Fleets
<1> QED BY <1>2, <1>3, <1>4, <1>5

\* No call of the model and no refund after another one.
LEMMA RefundsAreOne ==
    ASSUME Sound, Fits, NEW c, AllPlayed(c), RefundsOnce(c), NEW r \in Run,
           NEW type \in {"LLM_CALLED", "TOOL_COMPLETED"}
    PROVE  \A s, t \in DOMAIN diary[r] : Type(r, s) = type /\ Type(r, t) = type => s = t
<1>1. PICK m \in Nat : DOMAIN diary[r] = 1 .. m
  BY DEF Sound, DenseDiary
<1>2. SUFFICES ASSUME NEW s \in DOMAIN diary[r], NEW t \in DOMAIN diary[r], s < t,
                      Type(r, s) = type, Type(r, t) = type
               PROVE  FALSE
  <2>1. ASSUME NEW s \in DOMAIN diary[r], NEW t \in DOMAIN diary[r],
               Type(r, s) = type, Type(r, t) = type
        PROVE  ~(s < t) /\ ~(t < s)
    BY <1>2, <2>1
  <2> QED BY <1>1, <2>1
<1>3. ASSUME NEW k \in Nat, k + 1 \in DOMAIN diary[r], s \in 1 .. k, NEW kind,
             Agent(c, Before(diary[r], k + 1)).kind = kind
      PROVE  \E h \in Seq(Event) : Agent(c, h).kind = kind /\ Has(h, type)
  <2>1. PICK h : h = Before(diary[r], k + 1)
    OBVIOUS
  <2>2. \A i \in 1 .. k : i \in DOMAIN diary[r]
    BY <1>1, <1>3
  <2>3. h \in Seq(Event) /\ Len(h) = k /\ \A i \in 1 .. k : h[i] = Ev(r, i)
    BY <2>1, <2>2, BeforeIsSeq
  <2>4. h[s].type = type
    BY <1>2, <1>3, <2>3 DEF Type, Ev
  <2> QED BY <1>3, <2>1, <2>3, <2>4 DEF Has
<1>4. CASE type = "LLM_CALLED"
  <2>1. PICK k \in Nat : t = k + 1
    <3>1. t - 1 \in Nat /\ t = (t - 1) + 1
      BY <1>1
    <3> QED BY <3>1
  <2>2. s \in 1 .. k
    BY <1>1, <1>2, <2>1
  <2>3. PlayedAt(c, diary[r], t)
    BY DEF AllPlayed, Played
  <2>4. Agent(c, Before(diary[r], k + 1)).kind = "llm"
    BY <1>2, <1>4, <2>1, <2>3 DEF PlayedAt, Calls, Requested, Type
  <2> QED BY <1>3, <1>4, <2>1, <2>2, <2>4 DEF RefundsOnce
<1>5. CASE type = "TOOL_COMPLETED"
  <2>1. PICK k \in Nat : /\ t = k + 2 /\ k + 1 \in DOMAIN diary[r]
                         /\ Type(r, k + 1) = "TOOL_INTENT"
    BY <1>2, <1>5, ResultOfIntent
  <2>2. s \in 1 .. k
    <3>1. s # k + 1
      BY <1>2, <1>5, <2>1
    <3> QED BY <1>1, <1>2, <2>1, <3>1
  <2>3. PlayedAt(c, diary[r], k + 1)
    BY <2>1 DEF AllPlayed, Played
  <2>4. Agent(c, Before(diary[r], k + 1)).kind = "effect"
    BY <2>1, <2>3 DEF PlayedAt, Calls, Requested, Type
  <2> QED BY <1>3, <1>5, <2>1, <2>2, <2>4 DEF RefundsOnce
<1> QED BY <1>4, <1>5

\* What the showcase tells at the end.
LEMMA OneRefund ==
    ASSUME ProgramOK, DemoPlays, ShowRuns, ShowCount, ShowcaseAgent,
           Scene("showcase", "told")
    PROVE  /\ Completed(1) /\ Len(ledger[1]) = 1
           /\ demo.asked = 1 + demo.lost
<1>0. /\ program = "showcase" /\ 1 \in Run /\ Sound /\ Fits
      /\ ShowDiary /\ Completed(1)
  BY OneIsRun DEF DemoPlays, ShowRuns, ProgramOK, Scene
<1>1. PICK c : c = Bounds[program].code
  OBVIOUS
<1>2. RefundsOnce(c) /\ AllPlayed(c) /\ EndsWell(c)
  BY <1>0, <1>1 DEF ProgramOK, PlayOK, ShowcaseAgent, DemoPlays
<1>3. FinishedFor({c}, 1)
  BY <1>0, <1>2 DEF EndsWell, Completed
<1>4. PICK n \in Nat : DOMAIN diary[1] = 1 .. n
  BY <1>0 DEF Sound, DenseDiary
<1>5. PICK h : h = Before(diary[1], n + 1)
  OBVIOUS
<1>6. /\ h \in Seq(Event) /\ Len(h) = n /\ \A i \in 1 .. n : h[i] = Ev(1, i)
  BY <1>0, <1>4, <1>5, BeforeIsSeq
<1>7. Agent(c, h).kind = "return"
  BY <1>0, <1>3, <1>4, <1>5, FinishedReads
<1>8. Has(h, "LLM_CALLED") /\ Has(h, "TOOL_COMPLETED")
  <2>1. \A i \in 1 .. Len(h) : h[i].type = "APPROVAL" => h[i].ans = "yes"
    BY <1>0, <1>4, <1>6 DEF ShowDiary, Type, Ev
  <2> QED BY <1>2, <1>6, <1>7, <2>1 DEF RefundsOnce
<1>9. \A type \in {"LLM_CALLED", "TOOL_COMPLETED"} :
          \A s, t \in DOMAIN diary[1] : Type(1, s) = type /\ Type(1, t) = type => s = t
  BY <1>0, <1>2, RefundsAreOne
<1>10. PICK a \in 1 .. n : Type(1, a) = "LLM_CALLED"
  BY <1>6, <1>8 DEF Has, Type, Ev
<1>11. PICK t \in 1 .. n : Type(1, t) = "TOOL_COMPLETED"
  BY <1>6, <1>8 DEF Has, Type, Ev
<1>12. demo.asked = 1 + demo.lost
  <2>1. Consulted
    BY <1>4, <1>10 DEF Consulted
  <2> QED BY <1>0, <2>1 DEF ShowCount, One
<1>13. Len(ledger[1]) = 1
  <2>1. PICK S : S = [seq : Nat \ {0}, fn : Fn]
    OBVIOUS
  <2>2. PICK led \in Seq(S) : led = ledger[1]
    BY <1>0, <2>1 DEF Sound, DiaryTypeOK
  <2>3. Performed(1)
    BY <1>0 DEF Fits
  <2>4. \A i \in DOMAIN led : led[i].seq \in Nat
    <3>1. \A i \in DOMAIN led : led[i] \in S
      OBVIOUS
    <3> QED BY <2>1, <3>1
  <2>5. ASSUME NEW i \in DOMAIN led PROVE led[i].seq + 1 = t
    <3>1. PICK entry : entry = ledger[1][i]
      OBVIOUS
    <3>2. Completes(1, entry)
      BY <2>2, <2>3, <2>5, <3>1 DEF Performed
    <3>3. entry.seq + 1 \in DOMAIN diary[1] /\ Type(1, entry.seq + 1) = "TOOL_COMPLETED"
      BY <3>2 DEF Completes, CompletedEvent, Type
    <3> QED BY <1>4, <1>9, <1>11, <2>2, <3>1, <3>3
  <2>6. \A i, j \in DOMAIN led : i = j
    <3>1. ASSUME NEW i \in DOMAIN led, NEW j \in DOMAIN led PROVE i = j
      <4>1. led[i].seq = led[j].seq
        BY <2>4, <2>5
      <4> QED BY <2>2, <2>3, <4>1 DEF Performed
    <3> QED BY <3>1
  <2>7. \E i \in DOMAIN led : TRUE
    <3>1. t \in DOMAIN diary[1] /\ diary[1][t].event.ask = 1
      BY <1>0, <1>4, <1>11 DEF ShowDiary, Ev
    <3> QED BY <1>11, <2>2, <2>3, <3>1 DEF Performed
  <2>8. PICK k \in Nat : k = Len(led) /\ DOMAIN led = 1 .. k
    OBVIOUS
  <2>9. k = 1
    <3>1. k >= 1
      BY <2>7, <2>8
    <3>2. ~(k >= 2)
      <4>1. k >= 2 => 1 \in 1 .. k /\ 2 \in 1 .. k
        OBVIOUS
      <4> QED BY <2>6, <2>8, <4>1
    <3> QED BY <3>1, <3>2
  <2> QED BY <2>2, <2>8, <2>9
<1> QED BY <1>0, <1>12, <1>13

\* What 13_showcase.py:111-114 prints is so wherever its process died: the life
\* that resumes has the recommendation from the diary if it was recorded, so
\* nobody asks for it again, and whoever does ask has a line of its script left;
\* over all processes the model was consulted once, and once more for each that
\* died with an answer it had not recorded; and the refund was paid once, as a
\* refund that committed has its completion.  The agent is one that asks the
\* model once and refunds once, on a yes.
THEOREM ShowcaseTells ==
    ASSUME ShowcaseAgent
    PROVE  ProgramsSpec => []ShowcaseHolds
<1>1. ProgramsInit => DemoPlays
  BY DEF ProgramsInit, DemoPlays, Demo, NoBrain, Brain
<1>2. ProgramsInit => ShowRuns /\ ShowCount
  <2>1. SUFFICES ASSUME ProgramsInit
                 PROVE  /\ ShowLives /\ ShowDiary /\ ShowBrain /\ demo.at # "told"
                        /\ ShowCount
    BY DEF ShowRuns
  <2>2. /\ \A p \in Proc : pc[p] = "idle"
        /\ \A r \in Run : diary[r] = << >>
        /\ demo.at = "create" /\ demo.asked = 0 /\ demo.lost = 0
    BY <2>1 DEF ProgramsInit, Init, ContextInit, DiaryInit, Demo
  <2>3. DOMAIN << >> = {}
    OBVIOUS
  <2>4. ~Consulted /\ ~Calling
    BY <2>2, <2>3, OneIsRun DEF Consulted, Calling, Proc
  <2> QED BY <2>2, <2>3, <2>4, OneIsRun
          DEF ShowLives, NobodyLives, ShowDiary, ShowBrain, ShowCount, One
<1>3. ProgramOK /\ DemoPlays /\ [ProgramsNext]_programsVars => DemoPlays'
  BY DemoPlaysNext
<1>4. ProgramOK /\ ProgramOK' /\ DemoPlays /\ ShowRuns /\ [ProgramsNext]_programsVars
        => ShowRuns'
  BY ShowRunsNext
<1>5. ProgramOK /\ DemoPlays /\ ShowRuns => FirstCall
  BY ScriptIsEnough
<1>6. /\ ProgramOK /\ DemoPlays /\ ShowRuns /\ ShowCount
      /\ FirstCall /\ FirstCall' /\ [ProgramsNext]_programsVars
      => ShowCount'
  BY ShowCountNext
<1>7. ASSUME ProgramOK, DemoPlays, ShowRuns, FirstCall, ShowCount PROVE ShowcaseHolds
  <2>1. Scene("showcase", "life") => program = "showcase"
    BY <1>7 DEF DemoPlays, Scene
  <2> QED BY <1>7, <2>1, OneRefund DEF ShowcaseHolds, FirstCall
<1> QED BY ProgramsAreSound, <1>1, <1>2, <1>3, <1>4, <1>5, <1>6, <1>7, PTL
        DEF ProgramsSpec

----------------------------------------------------------------------------
(* The bills of the benchmark                                              *)

\* h without its event k.
Without(h, k) == [i \in 1 .. Len(h) - 1 |-> IF i < k THEN h[i] ELSE h[i + 1]]

\* The agent asks the model, and a patch is nothing to it.
AsksOn(c) ==
    /\ Makes(c, {"llm"})
    /\ \A h \in Seq(Event), k \in Nat :
          k \in 1 .. Len(h) /\ h[k].type = "PATCH_APPLIED" =>
              Agent(c, h) = Agent(c, Without(h, k))

BenchmarkAgent ==
    "benchmark" \in DOMAIN Bounds =>
        Seed # Unset /\ AsksOn(Bounds["benchmark"].code)

\* An answer of the brain with that seed.
Seeded(e) == e.type = "LLM_CALLED" /\ e.ans = Reply(Seed, e.ask)

LEMMA LastIs ==
    ASSUME NEW r, NEW n \in Nat, DOMAIN diary[r] = 1 .. n
    PROVE  Last(r) = n
BY FS_Interval, 1 \in Int, n \in Int DEF Last

\* A life of the benchmark adds one answer of the brain.
LEMMA BenchWrites ==
    ASSUME Sound, Fits, Fits', NEW c, RunsOnly(c), AsksOn(c),
           brain.script = Unset, brain.seed = Seed, Seed # Unset,
           NEW l \in Proc, NEW r \in Run, r = life[l].run,
           ContextStep(l), BrainAnswers(l),
           \A s \in DOMAIN diary[r] : Type(r, s) # "TOOL_INTENT"
    PROVE  \/ UNCHANGED diary
           \/ \E n \in Nat, e \in Event : Appends(r, n, e) /\ Seeded(e)
<1>1. SUFFICES ASSUME NEW n \in Nat, NEW e \in Event,
                      Recalls(c, r, n, e) \/ Results(c, r, n, e),
                      AnsweredBy(brain, c, r, n, e)
               PROVE  Appends(r, n, e) /\ Seeded(e)
  BY StepWrites
<1>2. PICK h : h = Before(diary[r], n + 1)
  OBVIOUS
<1>3. Appends(r, n, e)
  BY <1>1 DEF Recalls, Results
<1>4. h \in Seq(Event)
  <2>1. \A i \in 1 .. n : i \in DOMAIN diary[r]
    BY <1>3 DEF Appends
  <2> QED BY <1>2, <2>1, BeforeIsSeq
<1>5. PICK op : op = Agent(c, h)
  OBVIOUS
<1>6. op.kind \in {"llm", "return"}
  BY <1>4, <1>5 DEF AsksOn, Makes
<1>7. e.type = "LLM_CALLED" /\ op.ask = e.ask
  <2>1. CASE Recalls(c, r, n, e)
    BY <1>2, <1>5, <1>6, <2>1 DEF Recalls, Calls, Requested
  <2>2. CASE Results(c, r, n, e)
    <3>1. e.type = "TOOL_COMPLETED" /\ n > 0
      BY <2>2 DEF Results, CompletedEvent
    <3>2. AddsWork(c, r, n, e)
      BY <2>2, <3>1 DEF AddsWork, WorkType
    <3>3. Type(r, n) = "TOOL_INTENT"
      BY <3>1, <3>2, WorkFollows
    <3>4. n \in DOMAIN diary[r]
      BY <1>3, <3>1 DEF Appends
    <3> QED BY <3>3, <3>4
  <2> QED BY <1>1, <2>1, <2>2
<1>8. e.ans \in Answers(brain, e.ask)
  BY <1>1, <1>2, <1>5, <1>7 DEF AnsweredBy
<1> QED BY <1>3, <1>7, <1>8 DEF Answers, Seeded

\* What follows n answers in the diary of an agent that plays c.
LEMMA NextSeeded ==
    ASSUME NEW c, AllPlayed(c), NEW r \in Run, NEW s \in DOMAIN diary[r],
           Seeded(Ev(r, s)), NEW op, op = Agent(c, Before(diary[r], s))
    PROVE  op.kind = "llm" /\ Ev(r, s).ask = op.ask
BY DEF AllPlayed, Played, PlayedAt, Seeded, Requested, Calls, Ev

\* Two runs of nothing but seeded answers, both at their end, are the same.
LEMMA Twins ==
    ASSUME Sound, NEW c, AllPlayed(c), NEW q \in Run, NEW r \in Run,
           FinishedFor({c}, q), FinishedFor({c}, r),
           NEW m \in Nat, DOMAIN diary[q] = 1 .. m,
           NEW n \in Nat, DOMAIN diary[r] = 1 .. n,
           \A s \in 1 .. m : Seeded(Ev(q, s)), \A s \in 1 .. n : Seeded(Ev(r, s))
    PROVE  m = n /\ \A s \in 1 .. n : Ev(q, s) = Ev(r, s)
<1>1. ASSUME NEW k \in Nat, \A s \in 1 .. k : s \in 1 .. m /\ s \in 1 .. n,
             \A s \in 1 .. k : Ev(q, s) = Ev(r, s)
      PROVE  Before(diary[q], k + 1) = Before(diary[r], k + 1)
  <2>1. k + 1 - 1 = k
    OBVIOUS
  <2> QED BY <1>1, <2>1 DEF Before, Ev
<1>2. \A p \in Run : \A s \in DOMAIN diary[p] : Ev(p, s) \in Event
  BY DEF Sound, DiaryTypeOK, EventRow, Ev
<1>3. PICK S : S = {k \in Nat : k <= m /\ k <= n => \A s \in 1 .. k : Ev(q, s) = Ev(r, s)}
  OBVIOUS
<1>4. 0 \in S
  BY <1>3
<1>5. ASSUME NEW k \in Nat, k \in S PROVE k + 1 \in S
  <2>1. SUFFICES ASSUME k + 1 <= m, k + 1 <= n
                 PROVE  \A s \in 1 .. k + 1 : Ev(q, s) = Ev(r, s)
    BY <1>3
  <2>2. \A s \in 1 .. k : Ev(q, s) = Ev(r, s)
    BY <1>3, <1>5, <2>1
  <2>3. k + 1 \in 1 .. m /\ k + 1 \in 1 .. n
    BY <2>1
  <2>4. Before(diary[q], k + 1) = Before(diary[r], k + 1)
    BY <1>1, <2>1, <2>2
  <2>5. Ev(q, k + 1).ask = Ev(r, k + 1).ask
    BY <2>3, <2>4, NextSeeded
  <2>6. Ev(q, k + 1) = Ev(r, k + 1)
    <3>1. Ev(q, k + 1) \in Event /\ Ev(r, k + 1) \in Event
      BY <1>2, <2>3
    <3>2. Seeded(Ev(q, k + 1)) /\ Seeded(Ev(r, k + 1))
      BY <2>3
    <3> QED BY <2>5, <3>1, <3>2 DEF Seeded, Event
  <2>7. \A s \in 1 .. k + 1 : s \in 1 .. k \/ s = k + 1
    OBVIOUS
  <2> QED BY <2>2, <2>6, <2>7
<1>6. Nat \subseteq S
  BY <1>4, <1>5, InductiveSet
<1>7. ~(m < n)
  <2>1. SUFFICES ASSUME m < n PROVE FALSE
    OBVIOUS
  <2>2. \A s \in 1 .. m : Ev(q, s) = Ev(r, s)
    BY <1>3, <1>6, <2>1
  <2>3. Before(diary[q], m + 1) = Before(diary[r], m + 1)
    BY <1>1, <2>1, <2>2
  <2>4. Agent(c, Before(diary[q], m + 1)).kind = "return"
    BY FinishedReads
  <2>5. m + 1 \in 1 .. n
    BY <2>1
  <2>6. Agent(c, Before(diary[r], m + 1)).kind = "llm"
    BY <2>5, NextSeeded
  <2> QED BY <2>3, <2>4, <2>6
<1>8. ~(n < m)
  <2>1. SUFFICES ASSUME n < m PROVE FALSE
    OBVIOUS
  <2>2. \A s \in 1 .. n : Ev(q, s) = Ev(r, s)
    BY <1>3, <1>6, <2>1
  <2>3. Before(diary[q], n + 1) = Before(diary[r], n + 1)
    BY <1>1, <2>1, <2>2
  <2>4. Agent(c, Before(diary[r], n + 1)).kind = "return"
    BY FinishedReads
  <2>5. n + 1 \in 1 .. m
    BY <2>1
  <2>6. Agent(c, Before(diary[q], n + 1)).kind = "llm"
    BY <2>5, NextSeeded
  <2> QED BY <2>3, <2>4, <2>6
<1>9. m = n
  BY <1>7, <1>8
<1> QED BY <1>3, <1>6, <1>9

\* A fork at the last step but one goes that last step again.
LEMMA LastStepAgain ==
    ASSUME Sound, NEW c, AsksOn(c), AllPlayed(c), NEW q \in Run, NEW r \in Run,
           FinishedFor({c}, q), FinishedFor({c}, r),
           NEW n \in Nat, n > 0, DOMAIN diary[q] = 1 .. n,
           NEW m \in Nat, DOMAIN diary[r] = 1 .. m,
           SharesWith(r, q, n - 1),
           \A s \in 1 .. n : Seeded(Ev(q, s)),
           \A s \in 1 .. m : s # n => Seeded(Ev(r, s))
    PROVE  m = n + 1 /\ Ev(r, n + 1) = Ev(q, n)
<1>1. /\ n - 1 \in Nat /\ n - 1 + 1 = n /\ n \in 1 .. m /\ Type(r, n) = "PATCH_APPLIED"
      /\ \A s \in 1 .. n - 1 : s \in 1 .. m /\ s \in 1 .. n /\ Ev(r, s) = Ev(q, s)
  BY DEF SharesWith, Ev
<1>2. n <= m
  BY <1>1
<1>3. PICK g, h : g = Before(diary[r], n + 1) /\ h = Before(diary[q], n)
  OBVIOUS
<1>4. /\ g \in Seq(Event) /\ Len(g) = n /\ \A i \in 1 .. n : g[i] = Ev(r, i)
      /\ h \in Seq(Event) /\ Len(h) = n - 1 /\ \A i \in 1 .. n - 1 : h[i] = Ev(q, i)
  <2>1. /\ g \in Seq(Event) /\ Len(g) = n /\ \A i \in 1 .. n : g[i] = Ev(r, i)
    <3>1. \A i \in 1 .. n : i \in DOMAIN diary[r]
      BY <1>2
    <3> QED BY <1>3, <3>1, BeforeIsSeq
  <2>2. /\ h \in Seq(Event) /\ Len(h) = n - 1 /\ \A i \in 1 .. n - 1 : h[i] = Ev(q, i)
    <3>1. PICK k \in Nat : k = n - 1 /\ k + 1 = n
      BY <1>1
    <3>2. \A i \in 1 .. k : i \in DOMAIN diary[q]
      BY <3>1
    <3> QED BY <1>3, <3>1, <3>2, BeforeIsSeq
  <2> QED BY <2>1, <2>2
<1>5. Agent(c, g) = Agent(c, h)
  <2>1. Without(g, n) = h
    <3>1. Without(g, n) = [i \in 1 .. n - 1 |-> g[i]]
      BY <1>4 DEF Without
    <3>2. h = [i \in 1 .. n - 1 |-> h[i]]
      BY <1>4
    <3>3. \A i \in 1 .. n - 1 : g[i] = h[i]
      BY <1>1, <1>4
    <3> QED BY <3>1, <3>2, <3>3
  <2>2. n \in 1 .. Len(g) /\ g[n].type = "PATCH_APPLIED"
    BY <1>1, <1>4 DEF Type, Ev
  <2> QED BY <1>4, <2>1, <2>2 DEF AsksOn
<1>6. Agent(c, h).kind = "llm" /\ Ev(q, n).ask = Agent(c, h).ask
  <2>1. n \in DOMAIN diary[q] /\ Seeded(Ev(q, n))
    BY <1>1
  <2> QED BY <1>3, <2>1, NextSeeded
<1>7. m # n
  <2>1. SUFFICES ASSUME m = n PROVE FALSE
    OBVIOUS
  <2>2. Agent(c, g).kind = "return"
    BY <1>3, <2>1, FinishedReads
  <2> QED BY <1>5, <1>6, <2>2
<1>8. n + 1 \in 1 .. m /\ n + 1 # n
  BY <1>2, <1>7
<1>9. Seeded(Ev(r, n + 1)) /\ Ev(r, n + 1).ask = Ev(q, n).ask
  <2>1. n + 1 \in DOMAIN diary[r] /\ Seeded(Ev(r, n + 1))
    BY <1>8
  <2> QED BY <1>3, <1>5, <1>6, <2>1, NextSeeded
<1>10. Ev(r, n + 1) = Ev(q, n)
  <2>1. Ev(r, n + 1) \in Event /\ Ev(q, n) \in Event /\ Seeded(Ev(q, n))
    BY <1>1, <1>8 DEF Sound, DiaryTypeOK, EventRow, Ev
  <2> QED BY <1>9, <2>1 DEF Seeded, Event
<1>11. ~(m > n + 1)
  <2>1. SUFFICES ASSUME m > n + 1 PROVE FALSE
    OBVIOUS
  <2>2. PICK x, y : x = Before(diary[r], n + 1 + 1) /\ y = Before(diary[q], n + 1)
    OBVIOUS
  <2>3. /\ x \in Seq(Event) /\ Len(x) = n + 1 /\ \A i \in 1 .. n + 1 : x[i] = Ev(r, i)
    <3>1. \A i \in 1 .. n + 1 : i \in DOMAIN diary[r]
      BY <2>1
    <3>2. n + 1 \in Nat
      OBVIOUS
    <3> QED BY <2>2, <3>1, <3>2, BeforeIsSeq
  <2>4. /\ y \in Seq(Event) /\ Len(y) = n /\ \A i \in 1 .. n : y[i] = Ev(q, i)
    BY <2>2, BeforeIsSeq
  <2>5. Without(x, n) = y
    <3>1. Without(x, n) = [i \in 1 .. n |-> IF i < n THEN x[i] ELSE x[i + 1]]
      BY <2>3 DEF Without
    <3>2. y = [i \in 1 .. n |-> y[i]]
      BY <2>4
    <3>3. ASSUME NEW i \in 1 .. n PROVE (IF i < n THEN x[i] ELSE x[i + 1]) = y[i]
      <4>1. CASE i < n
        <5>1. i \in 1 .. n - 1 /\ i \in 1 .. n + 1
          BY <4>1
        <5> QED BY <1>1, <2>3, <2>4, <4>1, <5>1
      <4>2. CASE ~(i < n)
        <5>1. i = n /\ n + 1 \in 1 .. n + 1
          BY <4>2
        <5> QED BY <1>10, <2>3, <2>4, <4>2, <5>1
      <4> QED BY <4>1, <4>2
    <3> QED BY <3>1, <3>2, <3>3
  <2>6. Agent(c, x) = Agent(c, y)
    <3>1. n \in 1 .. Len(x) /\ x[n].type = "PATCH_APPLIED"
      BY <1>1, <2>3 DEF Type, Ev
    <3> QED BY <2>3, <2>5, <3>1 DEF AsksOn
  <2>7. Agent(c, y).kind = "return"
    BY <2>2, FinishedReads
  <2>8. Agent(c, x).kind = "llm"
    <3>1. n + 1 + 1 \in DOMAIN diary[r] /\ n + 1 + 1 \in 1 .. m /\ n + 1 + 1 # n
      BY <2>1
    <3>2. Seeded(Ev(r, n + 1 + 1))
      BY <3>1
    <3> QED BY <2>2, <3>1, <3>2, NextSeeded
  <2> QED BY <2>6, <2>7, <2>8
<1> QED BY <1>8, <1>10, <1>11

LEMMA HowMany ==
    ASSUME NEW m \in Nat, NEW n \in Nat, n >= m
    PROVE  Cardinality(m + 1 .. n) = n - m
<1>1. Cardinality(m + 1 .. n) = IF m + 1 > n THEN 0 ELSE n - (m + 1) + 1
  BY FS_Interval, m + 1 \in Int, n \in Int
<1> QED BY <1>1

\* What the brain of a life was asked that found m of the n steps of its run.
LEMMA BillIs ==
    ASSUME Sound, NEW l \in Proc, Billed(l), pc[l] # "idle",
           NEW r \in Run, r = life[l].run, NEW n \in Nat, DOMAIN diary[r] = 1 .. n,
           NEW m \in Nat, m = Len(life[l].history),
           NEW k \in Nat, k = Len(life[l].seen), n = (IF k > m THEN k ELSE m),
           \A s \in m + 1 .. n : Type(r, s) = "LLM_CALLED"
    PROVE  brain.calls = n - m
<1>1. \A i \in 1 .. k : life[l].seen[i] = Ev(r, i)
  BY DEF Sound, LifeOK, Walked, Ev
<1>2. m + 1 .. k = m + 1 .. n /\ n >= m
  OBVIOUS
<1>3. Paid(l) = m + 1 .. n
  <2>1. ASSUME NEW i \in m + 1 .. k PROVE life[l].seen[i].type = "LLM_CALLED"
    <3>1. i \in 1 .. k /\ i \in m + 1 .. n
      BY <1>2
    <3> QED BY <1>1, <3>1 DEF Type, Ev
  <2> QED BY <1>2, <2>1 DEF Paid
<1>4. Cardinality(m + 1 .. n) = n - m
  BY <1>2, HowMany
<1> QED BY <1>3, <1>4 DEF Billed

\* How many bills there are, and what the benchmark knows by then.
Rounds == Len(demo.bills)

BenchCode == Bounds["benchmark"].code

Forked == Rounds = 4 \/ (Rounds = 3 /\ demo.at # "fork")

\* The steps that the life of this round finds in its run: the first life of a
\* run finds none, the others as many as run 1 has.
Found == IF Rounds \in {1, 3} THEN Last(1) ELSE 0

Over(r) == Exists(r) /\ FinishedFor({BenchCode}, r)

BenchPlace ==
    /\ program \in DOMAIN Bounds
    /\ \/ demo.at = "create" /\ Rounds \in {0, 2}
       \/ demo.at \in {"open", "life"} /\ Rounds \in 0 .. 3
       \/ demo.at = "fork" /\ Rounds = 3
       \/ demo.at = "told" /\ Rounds = 4
    /\ demo.at # "create" => brain.seed = Seed
    /\ demo.at = "open" => brain.calls = 0 /\ Last(demo.run) = Found
    /\ demo.at = "fork" => brain.calls = 0

\* All answers are the brain's; the fork has one patch, where run 1 ends.
BenchRows ==
    \A r \in Run : \A s \in DOMAIN diary[r] :
        \/ Seeded(Ev(r, s))
        \/ Forked /\ r = 3 /\ s = Last(1) /\ Type(r, s) = "PATCH_APPLIED"

BenchBills ==
    /\ Rounds >= 1 => Over(1) /\ demo.bills[1] = Last(1)
    /\ Rounds >= 2 => demo.bills[2] = 0
    /\ Rounds >= 3 => Over(2) /\ demo.bills[3] = Last(1)
    /\ Rounds = 4 => FinishedFor({BenchCode}, 3) /\ demo.bills[4] = 1
    /\ Forked => Last(1) > 0 /\ SharesWith(3, 1, Last(1) - 1)

\* A life that has returned has seen its whole diary, or has it in its snapshot.
BenchLife(l) ==
    LET n == Len(life[l].seen)
        m == Len(life[l].history)
    IN  /\ pc[l] # "idle" /\ life[l].run = demo.run /\ Billed(l)
        /\ IF pc[l] = "claimed" THEN Last(demo.run) = Found ELSE m = Found
        /\ pc[l] = "returned" => DOMAIN diary[demo.run] = 1 .. (IF n > m THEN n ELSE m)

BenchLives ==
    \/ NobodyLives
    \/ demo.at = "life" /\ \E l \in Life : BenchLife(l)

BenchRuns ==
    program = "benchmark" => BenchPlace /\ BenchRows /\ BenchBills /\ BenchLives

LEMMA BenchIsRun == 1 \in Run /\ 2 \in Run /\ 3 \in Run
BY DemosAssumption, MaxRunAssumption DEF Run

LEMMA LastIsNat ==
    ASSUME Sound, NEW r \in Run
    PROVE  Last(r) \in Nat /\ DOMAIN diary[r] = 1 .. Last(r)
<1>1. PICK n \in Nat : DOMAIN diary[r] = 1 .. n
  BY DEF Sound, DenseDiary
<1> QED BY <1>1, LastIs

\* What is over stays so, and the bills with it.
LEMMA BillsStand ==
    ASSUME Sound, RowsKept, \A r \in Run : Exists(r) => Exists(r)',
           \A r \in Run : Over(r) => diary'[r] = diary[r],
           BenchBills, Rounds \in 0 .. 3, UNCHANGED demo.bills,
           (demo.at = "fork") <=> (demo'.at = "fork")
    PROVE  /\ BenchBills' /\ (Found' = Found) /\ (Forked' <=> Forked)
           /\ Forked => Last(1)' = Last(1)
<1>0. 1 \in Run /\ 2 \in Run /\ 3 \in Run
  BY BenchIsRun
<1>1. Rounds' = Rounds /\ (Forked' <=> Forked)
  BY DEF Rounds, Forked
<1>2. ASSUME NEW r \in Run, Over(r) PROVE Over(r)' /\ Last(r)' = Last(r)
  <2>1. diary'[r] = diary[r] /\ Exists(r)'
    BY <1>2 DEF Over
  <2>2. FinishedFor({BenchCode}, r)'
    BY <1>2, <2>1 DEF Over, FinishedFor, Midway, ReadEvents
  <2> QED BY <2>1, <2>2 DEF Over, Last
<1>3. Rounds >= 1 => Over(1) /\ Over(1)' /\ Last(1)' = Last(1)
  BY <1>0, <1>2 DEF BenchBills
<1>4. Rounds >= 3 => Over(2)'
  BY <1>0, <1>2 DEF BenchBills
<1>5. Forked => Rounds = 3
  BY DEF Forked
<1>6. Found' = Found
  BY <1>1, <1>3 DEF Found
<1>7. ASSUME Forked PROVE (Last(1) > 0 /\ SharesWith(3, 1, Last(1) - 1))'
  <2>1. Last(1)' = Last(1) /\ Last(1) \in Nat /\ Last(1) > 0
    BY <1>0, <1>3, <1>5, <1>7, LastIsNat DEF BenchBills
  <2>2. PICK k \in Nat : k = Last(1) - 1
    BY <2>1
  <2>3. SharesWith(3, 1, k)
    BY <1>7, <2>2 DEF BenchBills
  <2>4. SharesWith(3, 1, k)'
    BY <1>0, <2>3, KeptShares
  <2> QED BY <2>1, <2>2, <2>4 DEF SharesWith
<1>8. BenchBills'
  BY <1>1, <1>3, <1>4, <1>5, <1>7 DEF BenchBills
<1> QED BY <1>1, <1>3, <1>5, <1>6, <1>8

\* A life of the benchmark.
LEMMA BenchActs ==
    ASSUME BenchmarkAgent, ProgramOK, ProgramOK', DemoPlays, program = "benchmark",
           BenchPlace, BenchRows, BenchBills, NEW l \in Life, BenchLife(l),
           demo.at = "life", LifeStep(l), BrainAnswers(l), pc[l] # "returned",
           UNCHANGED demo
    PROVE  /\ BenchRows' /\ BenchBills' /\ brain'.seed = Seed
           /\ pc'[l] # "idle" => BenchLife(l)'
           /\ \A q \in Proc : pc'[q] # "idle" => q = l
<1>0. /\ l \in Proc /\ Sound /\ Sound' /\ Fits /\ Fits' /\ BrainOK /\ DemoOK
      /\ pc \in [Proc -> PC] /\ life \in [Proc -> LifeRow] /\ runs \in [Run -> RunRow]
      /\ demo.demo = "benchmark" /\ brain.script = Unset /\ brain.seed = Seed
      /\ life[l] \in LifeRow
  BY DEF Proc, ProgramOK, ScriptsOK, DemoPlays, BenchPlace, Sound, DiaryTypeOK
<1>1. PICK c : c = BenchCode
  OBVIOUS
<1>2. RunsOnly(c) /\ AllPlayed(c) /\ AsksOn(c) /\ Seed # Unset
  BY <1>0, <1>1, ProgramVersion
     DEF ProgramOK, PlayOK, BenchCode, BenchmarkAgent, BenchPlace
<1>3. Rounds \in 0 .. 3
  BY DEF BenchPlace
<1>4. PICK r \in Run : r = demo.run /\ r = life[l].run
  <2>1. demo.run = IF Rounds = 0 THEN 1 ELSE Rounds
    BY <1>0 DEF DemoOK, Rounds
  <2>2. Rounds \in {0, 1, 2, 3}
    BY <1>3
  <2>3. demo.run \in Run
    BY <2>1, <2>2, BenchIsRun
  <2> QED BY <2>3 DEF BenchLife
<1>5. Sole(l) /\ Billed(l) /\ pc[l] # "idle"
  BY DEF BenchLife, Billed
<1>6. \A q \in Proc : pc'[q] # "idle" => q = l
  BY <1>0, <1>5, SoleSteps
<1>7. \A s \in DOMAIN diary[r] : Type(r, s) # "TOOL_INTENT"
  BY DEF BenchRows, Seeded, Type, Ev
<1>8. CASE ~Walk(l)
  <2>1. /\ UNCHANGED diary /\ pc[l] # "called"
        /\ pc'[l] \in {"agent", "idle"}
        /\ pc'[l] = "agent" => Open(l)
    BY <1>0, <1>8 DEF LifeStep, Open, OpenContext, Finish, Suspend, GiveUp, Leave, Goto,
                      SetRunStatus, ReadOnly
  <2>2. UNCHANGED brain
    BY <2>1 DEF BrainAnswers
  <2>3. \A q \in Run : Exists(q) => Exists(q)'
    <3>1. CASE Suspend(l)
      BY <1>0, <3>1 DEF Suspend, SetRunStatus, Exists, RunRow
    <3>2. CASE ~Suspend(l)
      BY <1>8, <3>2 DEF LifeStep, Open, OpenContext, Finish, GiveUp, ReadOnly, Exists
    <3> QED BY <3>1, <3>2
  <2>4. RowsKept
    BY <2>1 DEF RowsKept
  <2>5. BenchBills' /\ (Found' = Found) /\ (Forked' <=> Forked) /\ Last(1)' = Last(1)
    BY <1>0, <1>3, <2>1, <2>3, <2>4, BillsStand DEF Last
  <2>6. BenchRows'
    BY <2>1, <2>5 DEF BenchRows, Ev, Type
  <2>7. ASSUME pc'[l] = "agent" PROVE BenchLife(l)'
    <3>1. Open(l)
      BY <2>1, <2>7
    <3>2. PICK h : h = ReadEvents(r)
      OBVIOUS
    <3>3. life'[l].run = r /\ life'[l].history = h
      <4>1. PICK d \in Code : OpenContext(l, d)
        BY <3>1 DEF Open
      <4> QED BY <1>0, <1>4, <3>2, <4>1 DEF OpenContext, LifeRow
    <3>4. Len(h) = Last(r) /\ Last(r) = Found
      <4>1. Last(r) \in Nat /\ DOMAIN diary[r] = 1 .. Last(r)
        BY <1>0, LastIsNat
      <4>2. Len(h) = Last(r)
        BY <1>0, <3>2, <4>1, ReadSound
      <4>3. pc[l] = "claimed"
        BY <3>1 DEF Open
      <4> QED BY <1>4, <4>2, <4>3 DEF BenchLife
    <3>5. Billed(l)'
      BY <1>0, <1>5, <2>7, StepBills
    <3> QED BY <1>4, <2>5, <2>7, <3>3, <3>4, <3>5 DEF BenchLife
  <2> QED BY <1>0, <1>6, <2>1, <2>2, <2>5, <2>6, <2>7
<1>9. CASE Walk(l)
  <2>1. ContextStep(l) /\ pc[l] \in Walking /\ CarriesOn(l) /\ SeesOn(l)
    BY <1>0, <1>9, ContextWalks, ContextCarries, ContextSeesOn DEF Walk
  <2>2. UNCHANGED diary \/ \E n \in Nat, e \in Event : Appends(r, n, e) /\ Seeded(e)
    BY <1>0, <1>2, <1>4, <1>7, <2>1, BenchWrites
  <2>3. RowsKept /\ \A q \in Run : Over(q) => diary'[q] = diary[q]
    <3>1. life[l].code = c
      BY <1>0, <1>2, <2>1 DEF RunsOnly
    <3>2. Adds({c})
      BY <1>0, <2>1, <3>1, ContextAdds
    <3>3. RowsKept /\ \A q \in Run : Exists(q) /\ FinishedFor({c}, q) => diary'[q] = diary[q]
      BY <1>0, <3>2, AddsKeep
    <3> QED BY <1>1, <3>3 DEF Over
  <2>4. \A q \in Run : Exists(q) => Exists(q)'
    BY <2>1 DEF CarriesOn, Exists
  <2>5. /\ BenchBills' /\ (Found' = Found) /\ (Forked' <=> Forked)
        /\ Forked => Last(1)' = Last(1)
    BY <1>0, <1>3, <2>3, <2>4, BillsStand
  <2>6. BenchRows'
    <3>1. CASE UNCHANGED diary
      BY <2>5, <3>1 DEF BenchRows, Ev, Type, Last
    <3>2. ASSUME NEW n \in Nat, NEW e \in Event, Appends(r, n, e), Seeded(e)
          PROVE  BenchRows'
      <4>1. DOMAIN diary[r] = 1 .. n /\ DOMAIN diary'[r] = 1 .. n + 1
        BY <3>2 DEF Appends
      <4>2. /\ diary'[r][n + 1].event = e
            /\ \A s \in 1 .. n : diary'[r][s] = diary[r][s]
            /\ \A q \in Run : q # r => diary'[q] = diary[q]
        BY <3>2 DEF Appends
      <4>3. \A s \in 1 .. n + 1 : s \in 1 .. n \/ s = n + 1
        OBVIOUS
      <4>4. ASSUME NEW q \in Run, NEW s \in DOMAIN diary'[q]
            PROVE  \/ s \in DOMAIN diary[q] /\ diary'[q][s] = diary[q][s]
                   \/ diary'[q][s].event = e
        BY <4>1, <4>2, <4>3
      <4> QED BY <2>5, <3>2, <4>4 DEF BenchRows, Ev, Type
    <3> QED BY <2>2, <3>1, <3>2
  <2>7. brain'.seed = Seed
    BY <1>0 DEF BrainAnswers, Counted, BrainOK, NoBrain, Brain
  <2>8. pc'[l] \in Walking \/ Pause(l) \/ Return(l) \/ RaiseOwn(l)
    BY <1>0, <1>2, <1>5, <2>1, SoleGoes
  <2>9. pc'[l] # "claimed" /\ (pc'[l] = "returned" => Return(l))
    BY <1>0, <2>8 DEF Walking, Pause, Return, RaiseOwn, Goto
  <2>10. ASSUME pc'[l] # "idle" PROVE BenchLife(l)'
    <3>1. Billed(l)'
      BY <1>0, <1>5, <2>10, StepBills
    <3>2. life'[l].run = r /\ Len(life'[l].history) = Found
      BY <1>4, <2>1 DEF SeesOn, BenchLife, Walking
    <3>3. ASSUME Return(l)
          PROVE  LET n == Len(life'[l].seen)
                     m == Len(life'[l].history)
                 IN  DOMAIN diary'[r] = 1 .. (IF n > m THEN n ELSE m)
      BY <1>4, <1>5, <2>1, <3>3 DEF Return, ReadOnly, Sole
    <3> QED BY <1>4, <2>5, <2>9, <2>10, <3>1, <3>2, <3>3 DEF BenchLife
  <2> QED BY <1>6, <2>5, <2>6, <2>7, <2>10
<1> QED BY <1>8, <1>9

\* A round costs the steps that its life did not find.
LEMMA BenchPrice ==
    ASSUME BenchmarkAgent, ProgramOK, DemoPlays, program = "benchmark",
           BenchPlace, BenchRows, BenchBills, NEW l \in Life, BenchLife(l),
           demo.at = "life", pc[l] = "returned",
           NEW r \in Run, r = demo.run
    PROVE  /\ Over(r)
           /\ r = (IF Rounds = 0 THEN 1 ELSE Rounds) /\ Rounds \in {0, 1, 2, 3}
           /\ Rounds \in {0, 2} => brain.calls = Last(1)
           /\ Rounds = 1 => brain.calls = 0
           /\ Rounds = 3 => brain.calls = 1
<1>0. /\ l \in Proc /\ Sound /\ Fits /\ DemoOK
      /\ demo.demo = "benchmark" /\ program \in DOMAIN Bounds
      /\ life[l] \in LifeRow /\ LifeOK(l)
  BY DEF Proc, ProgramOK, ScriptsOK, DemoPlays, BenchPlace, Sound
<1>1. PICK c : c = BenchCode
  OBVIOUS
<1>2. AllPlayed(c) /\ EndsWell(c) /\ AsksOn(c)
  BY <1>0, <1>1 DEF ProgramOK, PlayOK, BenchCode, BenchmarkAgent
<1>3. Rounds \in {0, 1, 2, 3} /\ (Rounds = 3 => Forked)
  BY DEF BenchPlace, Forked
<1>4. r = IF Rounds = 0 THEN 1 ELSE Rounds
  BY <1>0 DEF DemoOK, Rounds
<1>5. life[l].run = r /\ Billed(l) /\ pc[l] # "idle" /\ Len(life[l].history) = Found
  BY DEF BenchLife
<1>6. Over(r) /\ FinishedFor({c}, r)
  BY <1>0, <1>1, <1>2, <1>5 DEF EndsWell, LifeOK, Over
<1>7. PICK n \in Nat : n = Last(r) /\ DOMAIN diary[r] = 1 .. n
  BY <1>0, LastIsNat
<1>8. PICK k \in Nat, m \in Nat : k = Len(life[l].seen) /\ m = Len(life[l].history)
  BY <1>0 DEF LifeRow
<1>9. n = (IF k > m THEN k ELSE m)
  <2>1. DOMAIN diary[r] = 1 .. (IF k > m THEN k ELSE m)
    BY <1>8 DEF BenchLife
  <2>2. (IF k > m THEN k ELSE m) \in Nat
    OBVIOUS
  <2>3. Last(r) = (IF k > m THEN k ELSE m)
    BY <2>1, <2>2, LastIs
  <2> QED BY <1>7, <2>3
<1>10. \A s \in m + 1 .. n : Type(r, s) = "LLM_CALLED"
  <2>1. SUFFICES ASSUME NEW s \in m + 1 .. n PROVE Type(r, s) = "LLM_CALLED"
    OBVIOUS
  <2>2. s \in DOMAIN diary[r] /\ s # m
    BY <1>7
  <2>3. ~(Forked /\ s = Last(1))
    BY <1>3, <1>5, <1>8, <2>2 DEF Forked, Found
  <2> QED BY <2>2, <2>3 DEF BenchRows, Seeded, Type, Ev
<1>11. brain.calls = n - m
  BY <1>0, <1>5, <1>7, <1>8, <1>9, <1>10, BillIs
<1>12. CASE Rounds = 0
  BY <1>3, <1>4, <1>5, <1>6, <1>7, <1>8, <1>11, <1>12 DEF Found
<1>13. CASE Rounds = 1
  BY <1>3, <1>4, <1>5, <1>6, <1>7, <1>8, <1>11, <1>13 DEF Found
<1>14. CASE Rounds \in {2, 3}
  <2>0. 1 \in Run /\ FinishedFor({c}, 1)
    BY <1>1, <1>14, BenchIsRun DEF BenchBills, Over
  <2>1. PICK a \in Nat : a = Last(1) /\ DOMAIN diary[1] = 1 .. a
    BY <1>0, <2>0, LastIsNat
  <2>2. \A s \in 1 .. a : Seeded(Ev(1, s))
    BY <2>0, <2>1 DEF BenchRows
  <2>3. CASE Rounds = 2
    <3>1. \A s \in 1 .. n : Seeded(Ev(r, s))
      BY <1>4, <1>7, <2>3 DEF BenchRows, Forked
    <3>2. a = n
      BY <1>0, <1>2, <1>6, <1>7, <2>0, <2>1, <2>2, <3>1, Twins
    <3> QED BY <1>3, <1>4, <1>5, <1>6, <1>7, <1>8, <1>11, <2>1, <2>3, <3>2 DEF Found
  <2>4. CASE Rounds = 3
    <3>1. Forked /\ r = 3 /\ m = a
      BY <1>3, <1>4, <1>5, <1>8, <2>1, <2>4 DEF Found
    <3>2. a > 0 /\ SharesWith(r, 1, a - 1)
      BY <2>1, <3>1 DEF BenchBills
    <3>3. \A s \in 1 .. n : s # a => Seeded(Ev(r, s))
      BY <1>7, <2>1 DEF BenchRows
    <3>4. n = a + 1
      BY <1>0, <1>2, <1>6, <1>7, <2>0, <2>1, <2>2, <3>2, <3>3, LastStepAgain
    <3>5. brain.calls = 1
      BY <1>11, <3>1, <3>4
    <3> QED BY <1>3, <1>4, <1>6, <2>4, <3>5
  <2> QED BY <1>14, <2>3, <2>4
<1> QED BY <1>3, <1>12, <1>13, <1>14

LEMMA BenchIsBilled ==
    ASSUME BenchmarkAgent, ProgramOK, DemoPlays, program = "benchmark",
           BenchPlace, BenchRows, BenchBills, NEW l \in Life, BenchLife(l), Bill(l),
           UNCHANGED program
    PROVE  BenchPlace' /\ BenchRows' /\ BenchBills' /\ NobodyLives'
<1>0. /\ l \in Proc /\ Sound /\ DemoOK /\ demo.at = "life" /\ pc[l] = "returned"
      /\ demo.demo = "benchmark" /\ program \in DOMAIN Bounds
      /\ pc \in [Proc -> PC] /\ demo.run \in Run
  <2>1. life[l].run \in Run /\ life[l].run = demo.run
    BY DEF BenchLife, ProgramOK, Sound, LifeOK, Proc
  <2> QED BY <2>1 DEF Proc, ProgramOK, ScriptsOK, DemoPlays, BenchPlace, Sound, Bill, Scene
<1>1. PICK b, calls, n : b = Rounds /\ calls = brain.calls /\ n = Last(1)
  OBVIOUS
<1>2. /\ Over(demo.run) /\ demo.run = (IF b = 0 THEN 1 ELSE b) /\ b \in {0, 1, 2, 3}
      /\ b \in {0, 2} => calls = n
      /\ b = 1 => calls = 0
      /\ b = 3 => calls = 1
  BY <1>0, <1>1, BenchPrice
<1>3. /\ brain' = Brain(Unset, Seed) /\ UNCHANGED <<diary, runs>> /\ Leave(l, "idle")
      /\ demo' = [demo EXCEPT !.bills = Append(@, calls), !.run = b + 1,
                              !.at = <<"open", "create", "fork", "told">>[b + 1]]
  BY <1>1 DEF Bill, ReadOnly, Rounds
<1>4. PICK bills \in Seq(Nat) : bills = demo.bills /\ Len(bills) = b
  BY <1>0, <1>1 DEF DemoOK, Rounds
<1>5. PICK after : after = Append(bills, calls)
  OBVIOUS
<1>6. /\ Len(after) = b + 1 /\ after[b + 1] = calls
      /\ \A i \in 1 .. b : after[i] = bills[i]
  BY <1>4, <1>5
<1>7. /\ demo'.bills = after /\ demo'.run = b + 1
      /\ demo'.at = <<"open", "create", "fork", "told">>[b + 1]
  BY <1>0, <1>3, <1>4, <1>5 DEF DemoOK, Demo
<1>8. Rounds' = b + 1
  BY <1>6, <1>7 DEF Rounds
<1>9. NobodyLives'
  <2>1. pc' = [pc EXCEPT ![l] = "idle"]
    BY <1>3 DEF Leave, Goto
  <2>2. \A q \in Proc : pc[q] # "idle" => q = l
    BY DEF BenchLife, Billed, Sole
  <2> QED BY <1>0, <2>1, <2>2 DEF NobodyLives
<1>10. \A r : Last(r)' = Last(r) /\ (Over(r) => Over(r)')
  BY <1>3 DEF Last, Over, Exists, FinishedFor, Midway, ReadEvents
<1>11. /\ b = 0 => demo'.at = "open"
       /\ b = 1 => demo'.at = "create"
       /\ b = 2 => demo'.at = "fork"
       /\ b = 3 => demo'.at = "told"
  BY <1>7
<1>12. Forked' <=> Forked
  BY <1>0, <1>1, <1>2, <1>8, <1>11 DEF Forked
<1>13. BenchRows'
  BY <1>3, <1>10, <1>12 DEF BenchRows, Ev, Type
<1>14. BenchPlace'
  BY <1>0, <1>2, <1>3, <1>7, <1>8, <1>10, <1>11 DEF BenchPlace, Brain, Found
<1>15. BenchBills'
  <2>1. Forked => (Last(1) > 0 /\ SharesWith(3, 1, Last(1) - 1))'
    BY <1>3, <1>10 DEF BenchBills, SharesWith, Type
  <2>2. CASE b = 0
    BY <1>1, <1>2, <1>6, <1>7, <1>8, <1>10, <1>12, <2>1, <2>2 DEF BenchBills
  <2>3. CASE b = 1
    <3>1. 1 \in 1 .. b
      BY <2>3
    <3> QED BY <1>1, <1>2, <1>4, <1>6, <1>7, <1>8, <1>10, <1>12, <2>1, <2>3, <3>1
            DEF BenchBills
  <2>4. CASE b = 2
    <3>1. 1 \in 1 .. b /\ 2 \in 1 .. b
      BY <2>4
    <3> QED BY <1>1, <1>2, <1>4, <1>6, <1>7, <1>8, <1>10, <1>12, <2>1, <2>4, <3>1
            DEF BenchBills
  <2>5. CASE b = 3
    <3>1. 1 \in 1 .. b /\ 2 \in 1 .. b /\ 3 \in 1 .. b
      BY <2>5
    <3>2. FinishedFor({BenchCode}, 3)
      BY <1>2, <2>5 DEF Over
    <3>3. FinishedFor({BenchCode}, 3)'
      BY <1>3, <3>2 DEF FinishedFor, Midway, ReadEvents
    <3> QED BY <1>1, <1>2, <1>4, <1>6, <1>7, <1>8, <1>10, <1>12, <2>1, <2>5, <3>1, <3>3
            DEF BenchBills
  <2> QED BY <1>2, <2>2, <2>3, <2>4, <2>5
<1> QED BY <1>9, <1>13, <1>14, <1>15

LEMMA BenchBegins ==
    ASSUME ProgramOK, DemoPlays, program = "benchmark", UNCHANGED program,
           BenchPlace, BenchRows, BenchBills, BenchLives, Begin
    PROVE  BenchPlace' /\ BenchRows' /\ BenchBills' /\ BenchLives'
<1>0. /\ Sound /\ DemoOK /\ demo.demo = "benchmark" /\ program \in DOMAIN Bounds
      /\ demo.at = "create" /\ Rounds \in {0, 2} /\ runs \in [Run -> RunRow]
  BY DEF ProgramOK, ScriptsOK, DemoPlays, BenchPlace, Begin, Sound, DiaryTypeOK
<1>1. /\ UNCHANGED <<demo.bills, demo.run>> /\ demo'.at = "open"
      /\ brain' = Brain(Unset, Seed) /\ CreateRun(demo.run)
      /\ UNCHANGED <<diary, pc, life>>
  BY <1>0 DEF Begin, Cut, DemoOK, Demo, Create, CreateRun
<1>2. PICK r \in Run : r = demo.run
  <2>1. demo.run = IF Rounds = 0 THEN 1 ELSE Rounds
    BY <1>0 DEF DemoOK, Rounds
  <2> QED BY <1>0, <2>1, BenchIsRun
<1>3. Last(r) = 0
  <2>1. DOMAIN diary[r] = {}
    BY <1>0, <1>1, <1>2 DEF CreateRun, NewRun, Sound, DenseDiary
  <2> QED BY <2>1, FS_EmptySet DEF Last
<1>4. \A q \in Run : Exists(q) => Exists(q)'
  BY <1>0, <1>1, <1>2 DEF CreateRun, Exists, RunRow
<1>5. RowsKept /\ \A q : Last(q)' = Last(q)
  BY <1>1 DEF RowsKept, Last
<1>6. BenchBills' /\ (Found' = Found) /\ (Forked' <=> Forked)
  <2>1. Rounds \in 0 .. 3
    BY <1>0
  <2> QED BY <1>0, <1>1, <1>4, <1>5, <2>1, BillsStand
<1>7. BenchRows'
  BY <1>1, <1>5, <1>6 DEF BenchRows, Ev, Type
<1>8. Rounds' = Rounds /\ Found = 0
  <2>1. Rounds' = Rounds
    BY <1>1 DEF Rounds
  <2>2. Rounds \notin {1, 3}
    BY <1>0
  <2> QED BY <2>1, <2>2 DEF Found
<1>9. BenchPlace'
  BY <1>0, <1>1, <1>2, <1>3, <1>5, <1>6, <1>8 DEF BenchPlace, Brain
<1>10. BenchLives'
  BY <1>0, <1>1 DEF BenchLives, NobodyLives
<1> QED BY <1>6, <1>7, <1>9, <1>10

LEMMA BenchEnters ==
    ASSUME ProgramOK, DemoPlays, program = "benchmark", UNCHANGED program,
           BenchPlace, BenchRows, BenchBills, BenchLives, NEW l \in Life, Enter(l)
    PROVE  BenchPlace' /\ BenchRows' /\ BenchBills' /\ BenchLives'
<1>0. /\ Sound /\ DemoOK /\ demo.demo = "benchmark" /\ program \in DOMAIN Bounds
      /\ demo.at = "open" /\ Rounds \in 0 .. 3
  BY DEF ProgramOK, ScriptsOK, DemoPlays, BenchPlace, Enter
<1>1. /\ UNCHANGED <<demo.bills, demo.run, brain>> /\ demo'.at = "life"
      /\ TakeUp(l, demo.run) /\ UNCHANGED <<diary, runs>>
  BY <1>0 DEF Enter, Cut, DemoOK, Demo, TakeUp, ReadOnly
<1>2. PICK r \in Run : r = demo.run
  <2>1. demo.run = IF Rounds = 0 THEN 1 ELSE Rounds
    BY <1>0 DEF DemoOK, Rounds
  <2>2. Rounds \in {0, 1, 2, 3}
    BY <1>0
  <2> QED BY <2>1, <2>2, BenchIsRun
<1>3. /\ RowsKept /\ \A q : Last(q)' = Last(q)
      /\ \A q \in Run : Exists(q) => Exists(q)'
  BY <1>1 DEF RowsKept, Last, Exists
<1>4. BenchBills' /\ (Found' = Found) /\ (Forked' <=> Forked)
  BY <1>0, <1>1, <1>3, BillsStand
<1>5. BenchRows'
  BY <1>1, <1>3, <1>4 DEF BenchRows, Ev, Type
<1>6. BenchPlace'
  <2>1. Rounds' = Rounds
    BY <1>1 DEF Rounds
  <2> QED BY <1>0, <1>1, <2>1 DEF BenchPlace
<1>7. BenchLife(l)'
  <2>1. NobodyLives
    BY <1>0 DEF BenchLives
  <2>2. brain'.calls = 0 /\ Last(r) = Found
    BY <1>0, <1>1, <1>2 DEF BenchPlace
  <2>3. Billed(l)' /\ pc'[l] = "claimed" /\ life'[l].run = r
    BY <1>0, <1>1, <1>2, <2>1, <2>2, TakeBills, SoleTakes
  <2> QED BY <1>1, <1>2, <1>3, <1>4, <2>2, <2>3 DEF BenchLife
<1> QED BY <1>1, <1>4, <1>5, <1>6, <1>7 DEF BenchLives

LEMMA BenchForks ==
    ASSUME ProgramOK, DemoPlays, program = "benchmark", UNCHANGED program,
           BenchPlace, BenchRows, BenchBills, BenchLives, ForkNearTheEnd
    PROVE  BenchPlace' /\ BenchRows' /\ BenchBills' /\ BenchLives'
<1>0. /\ Sound /\ DemoOK /\ demo.demo = "benchmark" /\ program \in DOMAIN Bounds
      /\ demo.at = "fork" /\ Rounds = 3 /\ brain.calls = 0 /\ brain.seed = Seed
      /\ runs \in [Run -> RunRow] /\ DOMAIN diary = Run
      /\ 1 \in Run /\ 2 \in Run /\ 3 \in Run
  BY BenchIsRun
     DEF ProgramOK, ScriptsOK, DemoPlays, BenchPlace, ForkNearTheEnd, Scene, Sound,
         DiaryTypeOK
<1>1. /\ UNCHANGED <<demo.bills, demo.run, brain, pc, life>> /\ demo'.at = "open"
      /\ demo.run = 3
  BY <1>0 DEF ForkNearTheEnd, Cut, DemoOK, Demo, Rounds
<1>2. PICK patch \in Patch : ForkRun(1, Last(1) - 1, 3, patch)
  BY <1>1 DEF ForkNearTheEnd
<1>3. PICK n \in Nat : n = Last(1) /\ DOMAIN diary[1] = 1 .. n
  BY <1>0, LastIsNat
<1>4. PICK k : k = n - 1
  OBVIOUS
<1>5. k \in 1 .. n /\ k + 1 = n /\ k \in Nat
  <2>1. k \in 1 .. Len(ReadEvents(1))
    BY <1>2, <1>3, <1>4 DEF ForkRun, CanFork
  <2>2. Len(ReadEvents(1)) = n
    BY <1>0, <1>3, ReadSound
  <2> QED BY <1>4, <2>1, <2>2
<1>6. PICK rows : rows = WithRow(CopiedPrefix(1, k), k + 1, PatchEvent(patch), 0)
  OBVIOUS
<1>7. /\ DOMAIN rows = 1 .. n
      /\ \A s \in 1 .. k : rows[s].event = diary[1][s].event
      /\ rows[n].event = PatchEvent(patch)
  <2>1. /\ DOMAIN rows = 1 .. k + 1
        /\ \A s \in 1 .. k : rows[s].event = diary[1][s].event
        /\ rows[k + 1].event = PatchEvent(patch)
    <3>1. 1 \in Run /\ DOMAIN diary[1] = 1 .. n
      BY <1>0, <1>3
    <3>2. patch \in Patch /\ k \in 1 .. n /\ n \in Nat
      BY <1>2, <1>3, <1>5
    <3> QED BY <1>6, <3>1, <3>2, ForkedRows
  <2> QED BY <1>5, <2>1
<1>8. diary'[3] = rows /\ \A q \in Run : q # 3 => diary'[q] = diary[q]
  BY <1>0, <1>2, <1>3, <1>4, <1>6 DEF ForkRun
<1>9. /\ \A q \in Run : Exists(q) => Exists(q)'
      /\ ~Exists(3)
  BY <1>0, <1>2 DEF ForkRun, NewRun, Exists, RunRow
<1>10. Last(1)' = n /\ Last(3)' = n
  <2>1. Last(1)' = n
    <3>1. diary'[1] = diary[1]
      BY <1>0, <1>8
    <3> QED BY <1>3, <3>1 DEF Last
  <2>2. Cardinality(1 .. n) = n
    BY FS_Interval, 1 \in Int, n \in Int
  <2> QED BY <1>7, <1>8, <2>1, <2>2 DEF Last
<1>11. /\ Rounds' = 3 /\ Forked' /\ Found' = n
  BY <1>0, <1>1, <1>10 DEF Rounds, Forked, Found
<1>12. ~Forked
  BY <1>0 DEF Forked
<1>13. BenchRows'
  <2>1. ASSUME NEW q \in Run, q # 3, NEW s \in DOMAIN diary'[q]
        PROVE  Seeded(diary'[q][s].event)
    BY <1>8, <1>12, <2>1 DEF BenchRows, Ev
  <2>2. ASSUME NEW s \in DOMAIN diary'[3]
        PROVE  \/ Seeded(diary'[3][s].event)
               \/ s = n /\ diary'[3][s].event.type = "PATCH_APPLIED"
    <3>1. s \in 1 .. k \/ s = n
      BY <1>5, <1>7, <1>8
    <3>2. CASE s \in 1 .. k
      <4>1. s \in DOMAIN diary[1]
        BY <1>3, <1>5, <3>2
      <4>2. Seeded(diary[1][s].event)
        BY <1>0, <1>12, <4>1 DEF BenchRows, Ev
      <4> QED BY <1>7, <1>8, <3>2, <4>2
    <3>3. CASE s = n
      BY <1>7, <1>8, <3>3 DEF PatchEvent
    <3> QED BY <3>1, <3>2, <3>3
  <2> QED BY <1>10, <1>11, <2>1, <2>2 DEF BenchRows, Ev, Type
<1>14. \A q \in Run : Over(q) => Over(q)'
  BY <1>8, <1>9 DEF Over, FinishedFor, Midway, ReadEvents
<1>15. SharesWith(3, 1, k)'
  <2>1. k + 1 \in DOMAIN diary'[3] /\ diary'[3][k + 1].event.type = "PATCH_APPLIED"
    BY <1>5, <1>7, <1>8 DEF PatchEvent
  <2>2. \A s \in 1 .. k : /\ s \in DOMAIN diary'[1]
                          /\ diary'[3][s].event = diary'[1][s].event
    BY <1>0, <1>3, <1>5, <1>7, <1>8
  <2> QED BY <2>1, <2>2 DEF SharesWith, Type
<1>16. BenchBills'
  <2>1. Over(1)' /\ Over(2)'
    BY <1>0, <1>14 DEF BenchBills
  <2>2. (Last(1) > 0 /\ SharesWith(3, 1, Last(1) - 1))'
    <3>1. Last(1)' - 1 = k /\ Last(1)' > 0
      BY <1>4, <1>5, <1>10
    <3> QED BY <1>15, <3>1 DEF SharesWith
  <2> QED BY <1>0, <1>1, <1>3, <1>10, <1>11, <2>1, <2>2 DEF BenchBills
<1>17. BenchPlace'
  BY <1>0, <1>1, <1>10, <1>11 DEF BenchPlace
<1>18. BenchLives'
  BY <1>0, <1>1 DEF BenchLives, NobodyLives
<1> QED BY <1>13, <1>16, <1>17, <1>18

LEMMA BenchMoves ==
    ASSUME BenchmarkAgent, ProgramOK, ProgramOK', DemoPlays, program = "benchmark",
           UNCHANGED program, BenchPlace, BenchRows, BenchBills, BenchLives, DemoNext
    PROVE  BenchPlace' /\ BenchRows' /\ BenchBills' /\ BenchLives'
<1>0. demo.demo = "benchmark"
  BY DEF DemoPlays
<1>1. ASSUME demo.at = "life", NEW l \in Life, pc[l] # "idle" PROVE BenchLife(l)
  <2>1. PICK q \in Life : BenchLife(q)
    BY <1>1 DEF BenchLives, NobodyLives, Proc
  <2>2. q = l
    BY <1>1, <2>1 DEF BenchLife, Billed, Sole, Proc
  <2> QED BY <2>1, <2>2
<1>2. CASE Begin
  BY <1>2, BenchBegins
<1>3. CASE ForkNearTheEnd
  BY <1>3, BenchForks
<1>4. ASSUME NEW l \in Life, Enter(l)
      PROVE  BenchPlace' /\ BenchRows' /\ BenchBills' /\ BenchLives'
  BY <1>4, BenchEnters
<1>5. ASSUME NEW l \in Life, Bill(l)
      PROVE  BenchPlace' /\ BenchRows' /\ BenchBills' /\ BenchLives'
  <2>1. BenchLife(l)
    BY <1>1, <1>5 DEF Bill, Scene
  <2> QED BY <1>5, <2>1, BenchIsBilled DEF BenchLives
<1>6. ASSUME NEW l \in Life, Measure(l)
      PROVE  BenchPlace' /\ BenchRows' /\ BenchBills' /\ BenchLives'
  <2>1. /\ demo.at = "life" /\ pc[l] # "returned" /\ LifeStep(l) /\ BrainAnswers(l)
        /\ UNCHANGED demo
    BY <1>6 DEF Measure, Scene, Act
  <2>2. pc[l] # "idle"
    BY <2>1, ContextWalks DEF LifeStep, Open, Walk, Finish, Suspend, GiveUp, Walking
  <2>3. BenchLife(l)
    BY <1>1, <2>1, <2>2
  <2>4. /\ BenchRows' /\ BenchBills' /\ brain'.seed = Seed
        /\ pc'[l] # "idle" => BenchLife(l)'
        /\ \A q \in Proc : pc'[q] # "idle" => q = l
    BY <2>1, <2>3, BenchActs
  <2>5. BenchLives'
    <3>1. CASE pc'[l] = "idle"
      BY <2>4, <3>1 DEF BenchLives, NobodyLives
    <3>2. CASE pc'[l] # "idle"
      BY <2>1, <2>4, <3>2 DEF BenchLives
    <3> QED BY <3>1, <3>2
  <2>6. BenchPlace'
    <3>1. Rounds' = Rounds
      BY <2>1 DEF Rounds
    <3> QED BY <2>1, <2>4, <3>1 DEF BenchPlace
  <2> QED BY <2>4, <2>5, <2>6
<1>7. /\ ~\E l \in Life : Perform(l) \/ Restart(l)
      /\ ~\E h \in Human : Approve(h)
  BY <1>0 DEF Perform, Restart, Approve, Scene
<1> QED BY <1>2, <1>3, <1>4, <1>5, <1>6, <1>7 DEF DemoNext

LEMMA BenchRunsNext ==
    ASSUME BenchmarkAgent, ProgramOK, ProgramOK', DemoPlays, BenchRuns,
           [ProgramsNext]_programsVars
    PROVE  BenchRuns'
<1>1. UNCHANGED program
  BY ProgramFrame DEF ProgramOK
<1>2. SUFFICES ASSUME program = "benchmark"
               PROVE  BenchPlace' /\ BenchRows' /\ BenchBills' /\ BenchLives'
  BY <1>1 DEF BenchRuns
<1>3. BenchPlace /\ BenchRows /\ BenchBills /\ BenchLives
  BY <1>2 DEF BenchRuns
<1>4. CASE DemoNext
  BY <1>1, <1>2, <1>3, <1>4, BenchMoves
<1>5. CASE UNCHANGED programsVars
  <2>1. UNCHANGED <<diary, runs, pc, life, demo, brain, program>>
    BY <1>5 DEF programsVars, vars
  <2>2. /\ (Forked' <=> Forked) /\ Rounds' = Rounds /\ Found' = Found
        /\ \A r : Last(r)' = Last(r)
    BY <2>1 DEF Forked, Rounds, Found, Last
  <2>3. BenchPlace'
    BY <1>3, <2>1, <2>2 DEF BenchPlace
  <2>4. BenchRows'
    BY <1>3, <2>1, <2>2 DEF BenchRows, Ev, Type
  <2>5. BenchBills'
    <3>1. \A r : Over(r) => Over(r)'
      BY <2>1 DEF Over, Exists, FinishedFor, Midway, ReadEvents
    <3>2. FinishedFor({BenchCode}, 3)' <=> FinishedFor({BenchCode}, 3)
      BY <2>1 DEF FinishedFor, Midway, ReadEvents
    <3>3. SharesWith(3, 1, Last(1) - 1)' <=> SharesWith(3, 1, Last(1) - 1)
      BY <2>1, <2>2 DEF SharesWith, Type
    <3> QED BY <1>3, <2>1, <2>2, <3>1, <3>2, <3>3 DEF BenchBills
  <2>6. BenchLives'
    <3>1. CASE NobodyLives
      BY <2>1, <3>1 DEF BenchLives, NobodyLives
    <3>2. ASSUME demo.at = "life", NEW l \in Life, BenchLife(l) PROVE BenchLives'
      <4>1. Billed(l)'
        BY <2>1, <3>2 DEF BenchLife, Billed, Sole, Paid
      <4>2. BenchLife(l)'
        BY <2>1, <2>2, <3>2, <4>1 DEF BenchLife
      <4> QED BY <2>1, <3>2, <4>2 DEF BenchLives
    <3> QED BY <1>3, <3>1, <3>2 DEF BenchLives
  <2> QED BY <2>3, <2>4, <2>5, <2>6
<1>6. DemoNext \/ UNCHANGED programsVars
  BY <1>2 DEF ProgramsNext, Browse, Certify, Demonstrate, DriveFleet, Mix, GatherCalls,
              Plays, Fleets
<1> QED BY <1>4, <1>5, <1>6

\* When it is told, all three runs are over.
LEMMA BenchIsTold ==
    ASSUME BenchmarkAgent, ProgramOK, DemoPlays, BenchRuns
    PROVE  BillsAreTrue
<1>0. SUFFICES ASSUME demo.demo = "benchmark", demo.at = "told"
               PROVE  /\ demo.bills = <<Last(1), 0, Last(1), 1>>
                      /\ Responses(2) = Responses(1)
                      /\ Last(3) = Last(1) + 1
                      /\ diary[3][Last(3)].event = diary[1][Last(1)].event
  BY DEF BillsAreTrue
<1>1. /\ program = "benchmark" /\ BenchPlace /\ BenchRows /\ BenchBills
      /\ Sound /\ DemoOK /\ 1 \in Run /\ 2 \in Run /\ 3 \in Run
  BY <1>0, BenchIsRun DEF DemoPlays, BenchRuns, ProgramOK, ScriptsOK
<1>2. PICK c : c = BenchCode
  OBVIOUS
<1>3. AllPlayed(c) /\ AsksOn(c)
  BY <1>1, <1>2 DEF ProgramOK, PlayOK, BenchCode, BenchmarkAgent, BenchPlace
<1>4. Rounds = 4 /\ Forked
  BY <1>0, <1>1 DEF BenchPlace, Forked
<1>5. PICK n \in Nat : n = Last(1) /\ DOMAIN diary[1] = 1 .. n
  BY <1>1, LastIsNat
<1>6. PICK k \in Nat : k = Last(2) /\ DOMAIN diary[2] = 1 .. k
  BY <1>1, LastIsNat
<1>7. PICK m \in Nat : m = Last(3) /\ DOMAIN diary[3] = 1 .. m
  BY <1>1, LastIsNat
<1>8. /\ FinishedFor({c}, 1) /\ FinishedFor({c}, 2) /\ FinishedFor({c}, 3)
      /\ demo.bills[1] = n /\ demo.bills[2] = 0 /\ demo.bills[3] = n /\ demo.bills[4] = 1
      /\ n > 0 /\ SharesWith(3, 1, n - 1)
  BY <1>1, <1>2, <1>4, <1>5 DEF BenchBills, Over
<1>9. /\ \A s \in 1 .. n : Seeded(Ev(1, s))
      /\ \A s \in 1 .. k : Seeded(Ev(2, s))
      /\ \A s \in 1 .. m : s # n => Seeded(Ev(3, s))
  BY <1>1, <1>5, <1>6, <1>7 DEF BenchRows
<1>10. k = n /\ \A s \in 1 .. n : Ev(2, s) = Ev(1, s)
  BY <1>1, <1>3, <1>5, <1>6, <1>8, <1>9, Twins
<1>11. m = n + 1 /\ Ev(3, n + 1) = Ev(1, n)
  BY <1>1, <1>3, <1>5, <1>7, <1>8, <1>9, LastStepAgain
<1>12. Responses(2) = Responses(1)
  BY <1>5, <1>6, <1>10 DEF Responses, Ev
<1>13. demo.bills = <<n, 0, n, 1>>
  <2>1. demo.bills \in Seq(Nat) /\ Len(demo.bills) = 4
    BY <1>0, <1>1, <1>4 DEF DemoOK, Rounds
  <2>2. PICK bills \in Seq(Nat) : bills = demo.bills
    BY <2>1
  <2> QED BY <1>8, <2>1, <2>2
<1>14. Last(3) = Last(1) + 1
  BY <1>5, <1>7, <1>11
<1>15. diary[3][Last(3)].event = diary[1][Last(1)].event
  BY <1>5, <1>7, <1>11 DEF Ev
<1> QED BY <1>5, <1>12, <1>13, <1>14, <1>15

\* What the benchmark reports of the model calls (benchmarks.py:57-60, 73-90),
\* for an agent that only asks the model and that a patch does not disturb: the
\* brains of its lives have one seed, so the run from scratch goes as the first
\* one went, and the fork goes as the first run did but for its patch.
THEOREM BenchmarksTell ==
    ASSUME BenchmarkAgent
    PROVE  ProgramsSpec => []BillsAreTrue
<1>1. ProgramsInit => DemoPlays
  BY DEF ProgramsInit, DemoPlays, Demo, NoBrain, Brain
<1>2. ProgramsInit => BenchRuns
  <2>1. SUFFICES ASSUME ProgramsInit, program = "benchmark"
                 PROVE  BenchPlace /\ BenchRows /\ BenchBills /\ BenchLives
    BY DEF BenchRuns
  <2>2. /\ \A p \in Proc : pc[p] = "idle"
        /\ \A r \in Run : diary[r] = << >>
        /\ demo.at = "create" /\ demo.bills = << >> /\ program \in DOMAIN Bounds
    BY <2>1 DEF ProgramsInit, Init, ContextInit, DiaryInit, Demo
  <2>3. Rounds = 0 /\ DOMAIN << >> = {} /\ ~Forked
    <3>1. Len(<< >>) = 0 /\ DOMAIN << >> = {}
      OBVIOUS
    <3> QED BY <2>2, <3>1 DEF Rounds, Forked
  <2> QED BY <2>2, <2>3 DEF BenchPlace, BenchRows, BenchBills, BenchLives, NobodyLives
<1>3. ProgramOK /\ DemoPlays /\ [ProgramsNext]_programsVars => DemoPlays'
  BY DemoPlaysNext
<1>4. ProgramOK /\ ProgramOK' /\ DemoPlays /\ BenchRuns /\ [ProgramsNext]_programsVars
        => BenchRuns'
  BY BenchRunsNext
<1>5. ProgramOK /\ DemoPlays /\ BenchRuns => BillsAreTrue
  BY BenchIsTold
<1> QED BY ProgramsAreSound, <1>1, <1>2, <1>3, <1>4, <1>5, PTL DEF ProgramsSpec
=============================================================================

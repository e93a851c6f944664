# Timefork in TLA+

Timefork runs agents that survive crashes: everything an agent learns from
outside (model answers, results of side effects, human decisions) is a row of
an append-only diary in Postgres, and a process that takes a run over walks the
agent's code again and hands it the recorded answers until it reaches the end.
This directory models that machinery, checks it with TLC and proves its core
with TLAPS.  File names below are relative to the repository.

## The system

| component | state it keeps | operations | what makes it right |
|---|---|---|---|
| diary (`timefork/events.py`, `db/*.sql`) | `runs`, `events`, `completed_keys` | `create_run`, `append_event` (fenced or not), `read_events`, `set_run_status` | seq dense, rows never change, one row per slot |
| queue (`timefork/queue.py`) | the status, owner, lease and token columns of `runs` | `enqueue_run`, `claim_run`, `heartbeat`, `sweep_expired` | a claim outdates every earlier token; a lapsed run is swept |
| replay context (`timefork/context.py`) | per life: the snapshot of the diary and a cursor | `llm`, `side_effect`, `approval`, patches, `_record`, `_perform_once` | what a life saw is a prefix of the diary; an effect happens once |
| approval (`grant_approval`) | the locals of a call | read, append, re-queue: three transactions | one decision per question; a decided run goes on |
| fork (`timefork/fork.py`) | none of its own | `fork_run` | a child replays the parent's steps, then its patch |
| worker (`timefork/worker.py`) | the run it executes, the heartbeat thread | claim, execute, complete, park, drop | a run is completed only at the end of its diary; zombies write nothing |
| fleet (`harness/fleet.py`, `harness/worker.py`) | worker processes | sweep, `kill -9`, `SIGSTOP`, `SIGCONT` | every queued run settles |
| direct lives (`harness/agent.py`, `harness/refund.py`, tests) | one process without a lease | open a context, walk, set the status | the primary keys alone keep the diary right |
| `crash.py`, `harness/chaos.py`, `harness/refund_chaos.py` | the pin of a life; the script's place | kill a life at a named point and step, live again, compare | every run ends like the one nobody killed |
| fleet scripts (`harness/fleet.py`) | workers they spawned, counters they read | enqueue, wait, kill, freeze, thaw, terminate, judge | the certificate holds, in time or not |
| `llm.py`, `mock_llm.py` | the calls a brain counted | one call, one answer | the bill is that of the new steps |
| `cli.py`, `dashboard.py` | what a page has read so far | show, diff, fork, approve | a page is not taken back by what is written later |
| `diff.py` | | compare two diaries | the runs part where it says |
| `bench/`, `examples/13_showcase.py` | the bills so far | lives, forks and approvals in a script | recovery is free, a fork is paid from its patch on |
| `examples/` 01 to 12 | | narrated uses | |

Nothing is shared but the database.  Workers, direct lives, humans and forks
interleave at the granularity of its transactions, and each computes what it
writes from something it read in an earlier transaction.  That is where the
hard behaviour is: two lives of one run at once (a worker presumed dead goes
on), a snapshot that others extend, a grant racing the park of the run it
answers, an effect whose transaction stays open while others want the same
row, and code that changes between two lives.

## The modules

    Diary            tables and short transactions of events.py
      Queue          queue.py
      Context        one life: context.py
      Approval       grant_approval
      Fork           fork.py
      Diff           diff.py, as operators on two diaries
        Fleet            worker.py and the fleet: composes the first four
        DiaryProperties  what holds with and without leases
          FleetProperties  the rest of what the fleet promises
          Lives            direct lives: composes Context, Approval, Fork
    DurableAgent     the abstract program both implement
    MockLLM          mock_llm.py

    Programs         the programs around the library, one at a time:
      Views            cli.py and dashboard.py beside a fleet
      Certificates     chaos.py and refund_chaos.py over direct lives
      Demos            the showcase and the benchmarks
      FleetHarness     run_fleet, run_chaos, run_zombie
      System           workers and direct lives on one database
      Gather           an agent with several model calls in flight

    MCAgents, MCFleet, MCLives, MCPrograms   agents and instances for TLC

    DiaryProofs          types, dense diaries, lives that walked a prefix;
                         what a cursor stands on; replay and exactly-once
      HistoryProofs        steps of the tables and DurableAgent; what a step
                           may add; what a version of the code plays
        FleetProofs          the fleet: type, replay, effects, refinement, tokens
          PromiseProofs        history, forks, payment, divergence, pauses, ends
        LivesProofs          the same for direct lives
          ProgramsProofs       (from both) the invariants under every program;
                               pages, diffs, gathered calls, who pauses a run
            CertificateProofs    what the scripts of harness/ assert
              DemoProofs           bills; the showcase and the benchmarks

### How state and actions correspond to the code

* `runs[r]`, `diary[r]`, `keys[r]` are the rows of `runs`, `events` and
  `completed_keys`; a row that was not inserted is `AbsentRow`, or outside the
  domain.  `ledger[r]` stands for the table the effects write (`counters` in
  `harness/refund.py`), one entry for each committed effect.  Run ids are
  numbered in the order of `created_at`, which is all that the code compares.
* A transaction that commits before its function returns is one action.  The
  exception is `_perform_once`, which keeps a transaction open while it calls
  the effect: `BeginEffect` takes the fence, which locks the runs row, and looks
  up the key; `CommitEffect` is the effect, the key, the completion and COMMIT.
  `lock[r]` is that row lock.  Every other statement that needs the row has
  `Unlocked(r)` in its guard (`SKIP LOCKED` passes such a row over); an INSERT
  into `events` needs it for its foreign key.  A statement whose WHERE
  already fails on the committed row does not wait.
* `life[p]` is what a process remembers: run, token (0 without one), code
  version, `history` (the snapshot) and `seen` (what the cursor walked over, so
  the cursor is its length and the next seq one more).  `pc[p]` says where it
  is: "called" between the model's answer and its append, "acting" between
  intent and effect, "tx" in the effect transaction, "asked" between request and
  decision; "fenced", "diverged" and "duplicate" are `StaleFenceError`,
  `ReplayDivergenceError` and `DuplicateSequenceError` on their way up.
* The agent is a constant: `Agent(code, seen)` is the operation a version of
  the code asks for next after what it has seen.  Theorems hold for every such
  function; the runs use those of `MCAgents`.  Pending patches are applied first at
  every call, so what an agent reads from its config is a function of `seen`
  too.
* A lease is "live" or "lapsed".  It lapses without a fault when nobody renews it
  (`LapseDead`), and as a fault when the beats of a living worker are late.  A
  heartbeat looks at owner and status, not at the token, as the code does.
* `grant_approval` is three actions; humans in `Mortal` may stop between them.
* Agents, faults (crash, exception, late beat, stall) and runs are bounded by
  `MaxFaults` and `MaxRun`.  The programs have three bounds more: `Runs`,
  `Tries` and `Jobs`, for the numbers their command lines and loops have.

The programs are state machines of their own on top of these actions:

* `page` (`Views`) is what a reader has read: `show` reads row, timeline and
  forks in three statements, `diff` two diaries in two, and the fleet goes on
  between them.  A fork from the dashboard uses a page of any age and any step:
  the form has no maximum, and `fork_run` looks at the parent as it is by then, so
  a stale page may fork steps it never showed.
* `cert` and `brain` (`Certificates`): the scripts draw a crash point and a
  step at random, here every draw is possible.  `Passes` says where a life
  calls `maybe_crash(point, seq)`.  In `refund_chaos` there is no brain.  The
  pin of `after_append` counts from the cursor after the append, so with it
  no life dies behind the last append; that crash is a step of `Lives`.
* `demo` (`Demos`): one script of one line for the showcase, a new seeded brain
  for each life of a benchmark, and what each was asked.  `asked` and `lost` only
  observe: the model calls of all processes of the showcase, and the processes
  that died between an answer and its append.
* `boss` (`FleetHarness`): the script, the workers it has spawned, and the
  counters it read.  A wait ends by what it waits for or by its timeout, which
  counts as a fault; the sleep of `run_zombie` ends when the lease has lapsed.
* `wrote` (`System`): who has run its effect in the transaction it has open.
  A worker holds the runs row (the fence) and then writes the effect's row; a
  direct life writes first and needs the runs row for its completion.
  `Entangled` is the cycle, `DeadlockVictim` what Postgres does about it.
* `task` (`Gather`): each task passes the replay check in its first turn, in
  task order; answers come back in any order and take the next seq.
* `Programs` starts one of them; each runs with the database to itself, its own
  processes and its own agent (a version of the code), given in `Bounds`.

## What the runs check

The passing runs, with what they are for:

| run | instance | what it shows |
|---|---|---|
| `refund` | 1 run, 2 workers, 2 humans, 2 faults; model call, gate, effect | diaries stay replayable, the effect happens once, stale lives write nothing, two simultaneous decisions give one, no pause hides a decision |
| `fork` | 3 runs, 1 worker, 1 human who may stop, 1 patch, 1 fault | forks of runs and of forks at every legal step while the parent runs; children share the prefix; refinement |
| `deploy` | 1 run, 2 workers, 2 code versions, 3 faults, stalls everywhere | a rolling deployment: a replay that diverges stops and writes nothing, diaries keep their grammar, and each step is one that some version asks for after what is recorded (versions may take turns, so one diary may hold steps of both); refinement |
| `live` | 1 run, 2 workers, 1 human, 2 faults | queued runs settle, decided runs go on |
| `stall` | 2 runs, 3 workers, 1 fault, stalls for ever outside an effect | nobody is starved; a stalled owner's run is swept and carried on |
| `lives` | a run and its fork, 2 direct lives, 1 human, 2 answers, 1 fault | the same guarantees by the primary keys alone; refinement |
| `programs` | eleven programs, below | what the harness, the commands and the demonstrations rely on |

The programs of the last run (rows of `runs` / faults at most):

| program | processes | what it is |
|---|---|---|
| `browse`, `browse_forks` | 1 worker (2 / 0) | pages read while a run is worked on, forked and finished; asking the model, or performing effects |
| `chaos`, `refund_chaos` | 1 life at a time (2 / 3) | the baseline and one run that is killed up to three times |
| `showcase` | 1 life, 1 human (1 / 2) | the refund demonstration, killed twice anywhere |
| `benchmark` | 1 life at a time (3 / 0) | a run, its recovery, a rerun, a fork |
| `fleet`, `fleet_chaos` | 2 workers (2 / 1) | two jobs; a kill, a late beat or a timeout at any moment |
| `zombie` | 2 workers (1 / 2) | a worker frozen anywhere, thawed when its successor is done |
| `mixed` | 1 worker, 1 life, 1 human (1 / 1) | both on one run: a gate and then an effect |
| `gather` | 1 life at a time (1 / 2) | two model calls in flight, dying and resumed |

Operators commented as variants (`NextSeqFromZero`, `AlwaysHolds`, ...) are
plausible mistakes, each put beside the definition it would replace; no action uses
them.  PROJECT.json names, for each property of a run, the variant that violates
it.

The properties are stated where they belong.

* `DiaryProperties`: `DiaryReplayable`, `ExactlyOnce`, `TokensOrdered`,
  `ForkSharesPrefix`, `AgentSeesDiary`, `HistoryStands`, and
  `ImplementsDurableAgent`: with `log` the diaries and `done` the ledger, every
  behaviour is one of `DurableAgent`, where there are no processes, retries or
  leases, and an effect happens exactly when its completion is logged.
* `FleetProperties`: `PaysOnlyForNewSteps`, `UniqueHolder`, `SameCodeReplays`,
  `CompletedMeansFinished`, `PausedIsWaiting`, `StaleNeverWrites`,
  `QueuedSettles`, `DecisionResumes`.  `Lives`: `LivesNeverDiverge`.
* `Certificates`: `Certified`, the assertions of both scripts.
* `Demos`: `BillIsNewSteps`, of the lives of the certificates and the benchmarks;
  `ShowcaseHolds`: nobody asks the model for what is recorded, so all processes
  together called it once, and once more for each that died with the answer;
  `BillsAreTrue`.
* `FleetHarness`: `FleetCertificate`, `ZombieCertificate`, `QueueDrains`.
* `Views`: `ShownCompletedIsWhole`, `DiffStands`, `DiffFindsForkPoint`, and
  `ForkAgreesWithPage`: a fork from a stale page has the steps the page showed, as
  far as it goes, and no others if the page said "completed".
* `System`: `OnlyALifeOversleeps` (of the two ways to pause a run only a
  direct life's can overwrite a wake-up).
* `Gather`: `OwnAnswers`.

Five runs end in a counterexample, each against a sentence of the repository:

* `stranded`: a granter that stops between the decision and the re-queue
  leaves the run paused for ever; calling `grant_approval` again is refused.
* `frozen`: `sweep_expired` waits for the row lock of a worker that hangs inside an
  effect; until it goes away, no run of the fleet fails over.
* `called_twice`: the model is called for one step by a worker whose lease
  lapsed and by its successor, so a resume is not always free.
* `grabbed`: a grant that overtakes the park re-queues a run whose owner is
  alive, and a second worker claims it.  Nothing breaks, thanks to the fence.
* `stale_result`: the result of an effect is handed to changed code that asked for
  another effect, since an intent does not say what it intends.

### Bounds and why they are enough

Interleavings of interest need two lives of a run (one current, one stale), so
two workers; the third in `stall` is there because one may be lost for ever while
two runs compete.  Two faults let a worker lapse, come back as a zombie and the
successor die too; `deploy` has three, for a stall, a lapse and a crash.  Two
humans are needed for two simultaneous decisions.  Three runs give a run, its
fork, and a fork of the fork or a second fork.  Agents are as long as the kinds
of operations need: each has at most three operations of its own.  A second answer of
the model matters where two lives may both record, in `lives`; in the other runs the
question is who records, not what.  A fixed `MaxFaults` also makes liveness
meaningful: a worker that fails for ever cannot finish anything.

The programs have agents of two or three operations, so that a crash point has
a step before and after it.  `Tries` is 3 where the scripts allow 50 and 60: a
life that is killed leaves only the diary behind, so the number of lives does
not matter beyond what one can record and the next die on.  Two jobs and two
workers let each worker meet what the other left.

Workers, humans and lives are symmetric in runs without liveness.  Deadlock is
not an error: the system stops when every run is settled and no human answers,
and a program when it has printed its verdict.

### Fairness

`FairSpec` assumes that a worker which is not stalled takes steps (`run_worker`
polls for ever), that time passes on leases nobody renews, that the sweeper
runs (a loop of the fleet's process), and that a grant once begun goes on
unless its process stops.  All of it is weak.  Nobody has to enqueue, answer,
fork or thaw.  The fairness is on a worker's steps together, not on claims:
a run is not starved because a claim takes the oldest queued run and every
run settles.

`ProgramsFairness` states each program's own, and asks nothing while another one
plays.  For `QueueDrains`: the spawned workers, the passing of time, the sweep
in the script's loop and the script itself; not the kill, and not the timeout.
That a worker and a direct life which wait for each other's rows (`mixed`) do not
wait for ever is Postgres' deadlock detection and not this code's doing, so it is
not a property here; what is checked is that the victim leaves nothing behind.

## What is proved

Every invariant and every safety action property that a run checks has a
theorem, for every value of the constants: any number of runs, workers, lives,
humans and faults, and any agent unless the theorem says which.

Assumed of the constants, by name: `MaxRunAssumption`, `MaxFaultsAssumption`
(the bounds are numbers), `NoneAssumption`, `CodeAssumption`, `NullAssumption`
(NULL is no id, no version and no seq), `FleetAssumption` (where a worker may
stall, which humans may stop), and for the programs that jobs and runs fit the
tables (`HarnessAssumption`, `CertificatesAssumption`, `DemosAssumption`), that
what is gathered is a sequence of prompts (`AskedAssumption`) and that the tasks of a
gather are those of one process (`BoundsAssumption`).

| property | fleet (`Spec`) | direct lives (`LivesSpec`) |
|---|---|---|
| `TypeOK`, `LivesTypeOK` | `TypeCorrect` | `LivesTypeCorrect` |
| `AgentSeesDiary` | `SeesDiary` | `LivesSeeDiary` |
| `DiaryReplayable` | `AlwaysReplayable` | `LivesReplayable` |
| `ExactlyOnce` | `EffectsOnce` | `LivesOnce` |
| `ImplementsDurableAgent` | `FleetIsDurable` | `LivesAreDurable` |
| `HistoryStands` | `FinishedStands` | `LivesStand` |
| `SameCodeReplays`, `LivesNeverDiverge`, if `Code = {c}` | `SameCodeAgrees` | `LivesSameCode` |
| `CompletedMeansFinished`, if `Code = {c}` | `CompletedIsFinished` | not stated |
| `UniqueHolder`, `StaleNeverWrites`, `TokensOrdered` | `OneHolder`, `ZombiesNeverWrite`, `RowsInTokenOrder` | no tokens |
| `ForkSharesPrefix` | `ChildrenShare` | not stated |
| `PaysOnlyForNewSteps` | `NewStepsOnly` | no tokens |
| `PausedIsWaiting`, if `Mortal = {}` | `PausesWaitForHumans` | not true of them |

`Code = {c}` is needed: what a changing agent finished, or replays, under one
version need not be what another asks for.  `Mortal = {}` is needed: the run
`stranded` shows what a granter that stops leaves behind.

| property of the programs (`ProgramsSpec`) | theorem | for which agent |
|---|---|---|
| the invariants below them (`Sound`, `Fits`) | `ProgramsAreSound` | any |
| `ExactlyOnce` | `ProgramsOnce` | any |
| `ShownCompletedIsWhole`, `ForkAgreesWithPage` | `ShownIsWhole`, `ForksAgreeWithPages` | any |
| `DiffStands`, `DiffFindsForkPoint` | `DiffsStand`, `DiffsFindForks` | any |
| `OwnAnswers` | `GatherIsOwn` | any, any prompts |
| `OnlyALifeOversleeps`, if `Mortal = {}` | `OnlyLivesOversleep` | any |
| `BillIsNewSteps` | `BillsAreOfNewSteps` | any |
| `Certified` | `ScriptsCertify` | `ScriptAgents` |
| `ShowcaseHolds` | `ShowcaseTells` | `ShowcaseAgent` |
| `FleetCertificate`, `ZombieCertificate` | `FleetsCertify`, `ZombiesCertify` | `FleetAgents` |
| `BillsAreTrue` | `BenchmarksTell` | `BenchmarkAgent` |

A script asserts something of its own agent, so the last five theorems say
what they need of it, and no other agent would do:

* `ScriptAgents`: what it asks for depends on the kinds and the answers it has
  seen, not on the id of its run (`harness/agent.py`, `harness/refund.py`); for
  `refund_chaos`, it asks for no effect it has the result of; brains have a seed;
* `ShowcaseAgent`: one question to the model, one refund, and on a yes both
  before it returns (`examples/13_showcase.py`);
* `FleetAgents`: each counter is charged once before the job returns, with
  anything else in between (`harness/worker.py`);
* `BenchmarkAgent`: it asks the model and nothing else, and what it asks does not
  depend on a patch (`bench/benchmarks.py`: fixed prompts); the brain has a seed.

The agents of `MCPrograms` are such agents; TLC evaluated these definitions for
them over histories of bounded length.

### The library

Each layer strengthens the one below, because none of these is inductive.

* **`Sound`** (`DiaryProofs`), for types.  That a snapshot is a sequence of
  events needs the diary to be dense, because `read_events` orders whatever rows
  there are; that it stays dense needs to know that every writer writes at most
  one past the end: a life because it has walked over a prefix of the diary
  (`LifeOK`), a granter because it counted the rows when it read them
  (`GrantOK`), a fork because it copies a prefix.  Preservation is proved per
  operation for any process, with or without a token, using that diaries and
  keys only grow (`Grows`).  An insert below the end is impossible, so a free
  slot is the next one (`InsertNext`).
* **`Fits`** (`DiaryProofs`), for replay and exactly-once.  The tables alone do
  not say why a completion follows its intent: `CursorOK` ties `pc` to the last
  event a life has seen, so that a slot it finds free behind an intent can only
  get that intent's completion.  `Walkable` is the resulting grammar of a diary;
  `Performed` ties ledger, keys and completions together.
* **Refinement** (`HistoryProofs`).  From `Sound`, `Fits` and `InsertNext`: an
  insert that succeeds comes from a life that has seen the whole log, so what it
  asked for is what the abstract program asks for now; and an effect commits only
  with its completion.  All other steps leave log and ledger alone.
* **`Adds`** (`HistoryProofs`): a step leaves the diaries alone, adds one row at
  the end of one, or makes a fork.  History and shared prefixes rest on it.
* **`AllPlayed(c)`** (`HistoryProofs`): every event of every diary, forks and
  their patches included, is the one `c` asks for after those before it, and
  every result is that of the effect asked for.  A replay asks the same, so it
  agrees.  This needs that there is one version of the code.
* **`EndsWell(c)`** (`HistoryProofs`): where a life has returned, and where a run
  is completed, the diary is one at whose end `c` returns.  Patches are why this
  is not obvious: an agent could return before it has walked over one that is
  still to come.  `KnowsPatches` says that a life has every patch in its snapshot,
  since only a fork writes one, before anybody opens the child.
* **`FenceSound`** (`FleetProofs`).  A life's token is at most its row's, and in
  "tx" it equals it because the life has kept the row locked, so no claim can
  have come in between.  `TokensOrdered` follows with `TokensGrow`: a fenced insert
  carries the largest token yet.
* **`UpToDate`** (`PromiseProofs`): what a current life does not know yet of its
  diary was written by a human: its snapshot and what it has seen cover all but an
  answer.  That is why it pays only for new steps, and why its slot is free.
* **`PausesWait`** (`PromiseProofs`): a life that may still park its run has come
  to a question which waits, or whose granter is between the answer and the
  re-queue.

### The programs

* **`ProgramOK`** (`ProgramsProofs`).  Whichever program plays, a step of it is one
  of a worker, of a life or of a human, touches only rows of `runs`
  (`Bookkeeping`), rolls back a transaction (`Aborts`) or ends lives (`Quits`,
  `Halts`): that is `Ordinarily`.  Only the tasks of a gather do something else
  (`InGather`).  So `Sound` and `Fits` are proved once for all programs, and what
  follows is about one of them each.
* **Pages**: `Telling`: what a page has read of a run is a prefix of its diary,
  and, if the status it read first was "completed", all of it, for a finished run
  gets no more events.  A fork copies the parent's diary as it is by then, which
  the page is a prefix of (`ForkAgrees`).
* **Diffs**: the verdict is computed by a loop, in the model a recursive function
  over the turns.  `JudgedTo` is its loop invariant, and says in turn i that the two
  agree up to `shared` and, if they have parted, not at the next row.  That it
  holds after each turn is an induction; the library's rule for the naturals has
  an operator as its parameter, which the provers here cannot instantiate, but the
  well-foundedness of < on them is a fact about sets, and gives the induction
  for the set of turns where `JudgedTo` holds (`InductiveSet`).  `Reaches` says that
  what was read of a fork and of its parent, in either order, goes as far as the
  fork, and `Kin` what their diaries share.
* **Gather**: `OwnOK`: an answer a task has is that of a row the life has seen, with
  the task's prompt.
* **Pauses**: `WorkersWait`: a worker whose run is still its own has come to a
  question only where a human is waited for.  `Turns`: whatever others do meanwhile,
  the run is claimed again, or stops running, or what waited for a human goes on
  waiting.
* **Bills** (`CertificateProofs`, `DemoProofs`): `Sole`: the life that plays is
  alone, so what its diary holds it has seen or has in its snapshot, and its
  appends are never refused; `Billed` counts.
* **chaos.py, refund_chaos.py**: `ScriptDiary`: a run echoes the baseline row by
  row (`Echoes`), since at the end of its diary an agent that has seen the
  same asks for the same, and a seeded brain answers the same; effects are
  committed in turn (`InOrder`), so that as many steps as counters means that each
  was charged once.  `ScriptPlace` says where the script is.
* **Showcase** (`DemoProofs`): `ShowBrain`: a line of the script that was used is in
  the diary, so who asks the model again has not found it there and has the line
  left. `ShowCount`: the calls so far are those whose process died with the
  answer, and one if an answer is recorded or on its way.  `ShowDiary`: the effects are the
  run's own and nobody refused, so at its end the refund is there, and the agent
  asks for it once (`OneRefund`).
* **Fleet scripts**: `Owns`, `FleetPlace`: a completed job has returned (`EndsWell`),
  so its diary has each effect, and `ExactlyOnce` makes the counters one.
* **Zombie**: `ZombiePlace`: who can write with the token the script has read.  Nobody
  while A is frozen, as every other life of the run has a larger one; nor after
  the thaw, as a life's token is not that of a completed run (`Spent`), and the
  fence refuses it.
* **Benchmarks** (`DemoProofs`): `BenchRows`: all answers are the seeded brain's.
  Two such runs of one agent agree as far as both go (`Twins`), so the rerun is as
  long as the first; the fork is the first run without its last step, then the
  patch, and an agent that does not heed the patch asks for that step and returns.

## What is only model-checked

`QueuedSettles`, `DecisionResumes` and `QueueDrains`: liveness under fairness, and with it `ENABLED`, are out of the prover's reach.  Of the programs
it is not proved that they reach their end (TLC plays each to its end, `chaos`
within its `Tries`), only that what they assert there holds.  That the programs
implement `DurableAgent` is not stated, nor are the properties of tokens and
payment for workers beside direct lives.

## What the models say about the code

Beside the five runs above:

* a run whose gathered calls were recorded in another order than that of the
  tasks cannot be replayed: the next life diverges, loudly.  With
  two equal prompts it does not notice, and the answers may be swapped; `Asked` has
  distinct prompts;
* the result of an effect is not compared with the effect that is asked for, nor a
  step with the version that wrote it: a diary that two versions wrote in turn is
  replayed as long as kinds and prompts agree (`stale_result`);
* from a page that is out of date the dashboard forks steps it never showed, if
  they are posted (`ForkFromPage`); what it did show, the fork has (`ForkAgreesWithPage`);
* a direct life that pauses after the grant has re-queued its run overwrites the
  status, and nobody wakes the run (`OnlyALifeOversleeps` says nobody else
  does that);
* the docstring of `diff_runs` has `diverge_at` None when one run is a prefix of
  the other; the code (`diff.py:55-58`) gives the first extra seq, as the model
  does.  So that part of the verdict changes while both are being written;
  `DiffStands` says which parts never do.

## What is not modelled

* the `agent_name` filter of claim and list functions: one kind of agent;
* default values of `ctx.config`, and payloads beyond what an answer
  distinguishes; what an effect returns is its name;
* an agent that hangs while its heartbeat goes on: the code sets no limit, so
  nothing is promised; a worker that stalls takes its heartbeat with it;
* an agent that gathers effects or approvals, and one that catches what a gather raises;
* `per_step_overhead` and the times the benchmarks measure;
* the examples 01 to 12, which narrate subsets of what the modules have;
* command-line and HTML output; the provider behind `ClaudeLLM`, which is any
  function from a prompt to some answer or an error.

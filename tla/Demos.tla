------------------------------- MODULE Demos -------------------------------
(***************************************************************************)
(* examples/13_showcase.py and the scenarios of bench/benchmarks.py: direct  *)
(* lives one after the other, and the bill of the model.                   *)
(*                                                                         *)
(* The showcase keeps one scripted brain for both lives of its run, and     *)
(* grants the approval in between; its process may also die at any point,   *)
(* and another then takes the run up with a brain of its own.  The          *)
(* benchmark lives a run, the same run again (recovery_time), another one   *)
(* from scratch, and a fork of the first at its last step but one            *)
(* (fork_vs_rerun), each with a new brain; it sets no status.              *)
(***************************************************************************)
EXTENDS Certificates

CONSTANT Recommendation   \* the one line of the showcase's script

\* The benchmark has three runs.
ASSUME DemosAssumption == MaxRun >= 3

\* `asked` and `lost` only observe the showcase: how often its model was called
\* by all of its processes, and how many of them died with the answer.  No bill
\* tells, as a brain goes with its process.
VARIABLE demo   \* the demo, where it is, its run, and the bills so far

Demo(name) == [demo |-> name, at |-> "create", run |-> 1, bills |-> << >>,
               asked |-> 0, lost |-> 0]

Scene(name, at) == demo.demo = name /\ demo.at = at

Cut(at) == demo' = [demo EXCEPT !.at = at]

One(b) == IF b THEN 1 ELSE 0

----------------------------------------------------------------------------
\* create_run, and a first brain: make_brain, or that of fork_vs_rerun.
Begin ==
    /\ demo.at = "create"
    /\ Create(demo.run)
    /\ brain' = IF demo.demo = "showcase" THEN Brain(<<Recommendation>>, Unset)
                                          ELSE Brain(Unset, Seed)
    /\ Cut("open")

Enter(l) ==
    /\ demo.at = "open"
    /\ TakeUp(l, demo.run)
    /\ Cut("life")
    /\ UNCHANGED brain

Act(l) ==
    /\ demo.at = "life"
    /\ LifeStep(l)
    /\ BrainAnswers(l)

(* run_life and main of the showcase                                       *)

Perform(l) ==
    /\ Scene("showcase", "life")
    /\ Act(l)
    /\ demo' = [demo EXCEPT
            !.at = CASE pc[l] = "paused" -> "grant"
                     [] pc[l] = "returned" -> "told"
                     [] OTHER -> "life",
            !.asked = @ + One(pc'[l] = "called")]

\* grant_approval(conn, run_id, approved=True)
Approve(h) ==
    /\ Scene("showcase", "grant")
    /\ GrantStep(h)
    /\ \A s \in DOMAIN diary'[1] : diary'[1][s].event.ans # "no"
    /\ Cut(IF grant[h].at = "appended" THEN "open" ELSE "grant")
    /\ UNCHANGED <<pc, life, brain>> /\ NoFault

\* The process is gone, its brain too.
Restart(l) ==
    /\ Scene("showcase", "life")
    /\ LifeDies(l)
    /\ brain' = Brain(<<Recommendation>>, Unset)
    /\ demo' = [demo EXCEPT !.at = IF Awaiting(1) THEN "grant" ELSE "open",
                            !.lost = @ + One(pc[l] = "called")]

(* recovery_time and fork_vs_rerun                                         *)

Measure(l) ==
    /\ Scene("benchmark", "life")
    /\ pc[l] # "returned"
    /\ Act(l)
    /\ UNCHANGED demo

\* The agent's loop is over; the bill is what this brain was asked.
Bill(l) ==
    /\ Scene("benchmark", "life")
    /\ pc[l] = "returned"
    /\ Leave(l, "idle")
    /\ ReadOnly /\ UNCHANGED grant /\ NoFault
    /\ brain' = Brain(Unset, Seed)
    /\ demo' = LET n == Len(demo.bills) + 1
               IN  [demo EXCEPT !.bills = Append(@, brain.calls),
                                !.run = n,
                                !.at = <<"open", "create", "fork", "told">>[n]]

\* fork_run(conn, parent, n_steps - 1, ...)
ForkNearTheEnd ==
    /\ Scene("benchmark", "fork")
    /\ \E patch \in Patch : ForkRun(1, Last(1) - 1, demo.run, patch)
    /\ Cut("open")
    /\ UNCHANGED <<pc, life, grant, brain>> /\ NoFault

DemoNext ==
    \/ Begin \/ ForkNearTheEnd
    \/ \E l \in Life : Enter(l) \/ Perform(l) \/ Restart(l) \/ Measure(l) \/ Bill(l)
    \/ \E h \in Human : Approve(h)

----------------------------------------------------------------------------
\* The recommendation is in the diary.
Consulted == \E s \in DOMAIN diary[1] : Type(1, s) = "LLM_CALLED"

\* Wherever the process died, before, at or after the gate, the model is never
\* called when its answer is in the diary, and whoever calls it has a line of
\* the script left; at the end it was called once, and once more for each
\* process that died between the answer and its append, and the refund was
\* paid once (13_showcase.py:111-114, context.py:133-139).
ShowcaseHolds ==
    /\ Scene("showcase", "life") =>
          \A l \in Life : pc[l] = "called" => ~Exhausted(brain) /\ ~Consulted
    /\ Scene("showcase", "told") =>
          /\ Completed(1)
          /\ Len(ledger[1]) = 1
          /\ demo.asked = 1 + demo.lost

\* A brain that is new in each life bills exactly the model calls that life
\* recorded, in the certificates and in the benchmarks, over any kills, retries
\* and forks: replayed calls are free, and none that was paid for is asked for
\* again by the same life (mock_llm.py:4-6, benchmarks.py:57-60).
BillIsNewSteps ==
    \A l \in Life : (At("life") \/ Scene("benchmark", "life")) /\ pc[l] # "idle" =>
        brain.calls = Cardinality(
            {i \in Len(life[l].history) + 1 .. Len(life[l].seen) :
                life[l].seen[i].type = "LLM_CALLED"})

\* Recovery asks the model nothing, a rerun asks it everything again, a fork
\* at the last step but one asks it once and ends with the same answers
\* (benchmarks.py:58-60, 73-90).
BillsAreTrue ==
    demo.demo = "benchmark" /\ demo.at = "told" =>
        /\ demo.bills = <<Last(1), 0, Last(1), 1>>
        /\ Responses(2) = Responses(1)
        /\ Last(3) = Last(1) + 1
        /\ diary[3][Last(3)].event = diary[1][Last(1)].event
=============================================================================

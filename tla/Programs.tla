------------------------------ MODULE Programs ------------------------------
(***************************************************************************)
(* The programs around the library, each with the database to itself: a     *)
(* behaviour runs one of them from beginning to end.                       *)
(***************************************************************************)
EXTENDS Views, Certificates, Demos, FleetHarness, System, Gather

CONSTANTS
    Bounds   \* per program: its processes, its code, and how many rows of
             \* `runs` and faults there may be

\* The tasks that gather starts are those of one process.
ASSUME BoundsAssumption ==
    "gather" \in DOMAIN Bounds => \E l \in Life : Bounds["gather"].cast \subseteq {l}

VARIABLE program

programsVars == <<vars, page, cert, brain, demo, boss, wrote, task, program>>

NoBrain == Brain(Unset, Unset)

ProgramsInit ==
    /\ Init /\ page = NoPage /\ wrote = {} /\ task = Fresh /\ brain = NoBrain
    /\ program \in DOMAIN Bounds
    /\ cert = Script(IF program = "refund_chaos" THEN program ELSE "chaos")
    /\ demo = Demo(IF program = "benchmark" THEN program ELSE "showcase")
    /\ boss = Boss(IF program \in {"fleet", "zombie"} THEN program ELSE "chaos")

\* Only run_zombie freezes a process.
Within(bound) ==
    /\ faults' <= bound.faults
    /\ \A r \in Run : Exists(r)' => r <= bound.rows
    /\ \A p \in Proc : pc'[p] # "idle" => p \in bound.cast
    /\ \A p \in Proc : life'[p].code \in {None, bound.code}
    /\ stalled' # {} => program = "zombie"

Fleets == {"fleet", "fleet_chaos", "zombie"}

Plays(programs) == program \in programs /\ UNCHANGED program

Browse ==
    /\ Plays({"browse", "browse_forks"})
    /\ ViewsNext
    /\ UNCHANGED <<cert, brain, demo, boss, wrote, task>>
    /\ Within(Bounds[program])

Certify ==
    /\ Plays({"chaos", "refund_chaos"})
    /\ CertNext
    /\ UNCHANGED <<page, demo, boss, wrote, task, stalled>>
    /\ Within(Bounds[program])

Demonstrate ==
    /\ Plays({"showcase", "benchmark"})
    /\ DemoNext
    /\ UNCHANGED <<page, cert, boss, wrote, task, stalled>>
    /\ Within(Bounds[program])

DriveFleet ==
    /\ Plays(Fleets)
    /\ HarnessNext
    /\ UNCHANGED <<page, cert, brain, demo, wrote, task>>
    /\ Within(Bounds[program])

Mix ==
    /\ Plays({"mixed"})
    /\ SystemNext
    /\ UNCHANGED <<page, cert, brain, demo, boss, task>>
    /\ Within(Bounds[program])

GatherCalls ==
    /\ Plays({"gather"})
    /\ GatherNext
    /\ UNCHANGED <<page, cert, brain, demo, boss, wrote, stalled>>
    /\ Within(Bounds[program])

ProgramsNext ==
    Browse \/ Certify \/ Demonstrate \/ DriveFleet \/ Mix \/ GatherCalls

\* Each program's own fairness, which asks nothing while another one plays.
ProgramsFairness ==
    /\ \A w \in Worker : WF_bossVars(Plays(Fleets) /\ Works(w))
    /\ \A r \in Run : WF_bossVars(Plays(Fleets) /\ TimePasses(r))
    /\ WF_bossVars(Plays(Fleets) /\ Sweeper)
    /\ WF_bossVars(Plays(Fleets) /\ ScriptGoesOn)

ProgramsSpec == ProgramsInit /\ [][ProgramsNext]_programsVars /\ ProgramsFairness
=============================================================================

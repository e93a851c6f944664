---------------------------- MODULE FleetHarness ----------------------------
(***************************************************************************)
(* harness/fleet.py: the scripts that drive a fleet of worker processes     *)
(* (harness/worker.py) and judge it by its counters.                       *)
(*                                                                         *)
(* A worker exists from its spawn to its end; a killed one is replaced at   *)
(* once.  A script's clock is abstract: a wait ends when what it waits for  *)
(* is there, or by its timeout, which counts as a fault, and a sleep that   *)
(* is longer than a lease ends when the lease has lapsed.                  *)
(***************************************************************************)
EXTENDS FleetProperties

CONSTANTS
    Jobs,             \* bound: how many jobs run_fleet and run_chaos enqueue
    ZombieA, ZombieB  \* the workers of run_zombie

ASSUME HarnessAssumption ==
    /\ Jobs \in 1 .. MaxRun
    /\ ZombieA \in Worker /\ ZombieB \in Worker

VARIABLE boss   \* the script: where it is, its workers, and what it has read

bossVars == <<vars, boss>>

Boss(script) ==
    [script |-> script, at |-> "enqueue", alive |-> {}, inTime |-> TRUE,
     tokenA |-> 0, before |-> 0, afterB |-> << >>, afterThaw |-> << >>, after |-> 0,
     incomplete |-> {}, bad |-> {}]

In(script, at) == boss.script = script /\ boss.at = at

To(at) == boss' = [boss EXCEPT !.at = at]

Still == UNCHANGED vars

Wanted == IF boss.script = "zombie" THEN 1 ELSE Jobs

\* value of the counter of each effect, as _counters reads them
Counters(r) == [fn \in Fn |-> Cardinality({i \in DOMAIN ledger[r] :
                                              ledger[r][i].fn = fn})]

EachOnce == [fn \in Fn |-> 1]

\* No row has the token of a run that was never claimed.
EventsWithToken(r, token) ==
    IF token = 0 THEN 0
    ELSE Cardinality({s \in DOMAIN diary[r] : diary[r][s].token = token})

Is(status, r) == runs[r].status = status

----------------------------------------------------------------------------
(* What the scripts share                                                  *)

EnqueueJob ==
    /\ boss.at = "enqueue"
    /\ \E r \in Run : Enqueue(r)
    /\ LET spawn == IF boss.script = "zombie" THEN {ZombieA} ELSE Worker
       IN  boss' = IF \E r \in Run : Exists(r)' /\ r = Wanted
                      THEN [boss EXCEPT !.at = "wait", !.alive = spawn]
                      ELSE boss

\* while time.time() - start < timeout
TimesOut(after) ==
    /\ boss' = [boss EXCEPT !.at = after, !.inTime = FALSE]
    /\ UNCHANGED <<tables, lock, pc, life, grant, stalled>> /\ Fault

\* A worker that is terminated, or killed when it does not react, takes
\* its transaction with it.
Terminate ==
    /\ boss.at = "terminate"
    /\ pc' = [p \in Proc |-> "idle"]
    /\ life' = [p \in Proc |-> NoLife]
    /\ lock' = [r \in Run |-> None]
    /\ stalled' = {}
    /\ boss' = [boss EXCEPT !.at = "check", !.alive = {}]
    /\ UNCHANGED <<tables, grant>> /\ NoFault

----------------------------------------------------------------------------
(* run_fleet and run_chaos                                                 *)

Drained ==
    /\ boss.script # "zombie" /\ boss.at = "wait"
    /\ \/ (\A r \in 1 .. Jobs : Is("completed", r)) /\ To("terminate") /\ Still
       \/ TimesOut("terminate")

\* kill -9 in the middle of a job; the fresh worker comes up idle.
KillOne(w) == In("chaos", "wait") /\ Dies(w) /\ UNCHANGED boss

Sweeper == In("chaos", "wait") /\ Sweep /\ UNCHANGED boss

\* _check
Check ==
    /\ boss.script # "zombie" /\ boss.at = "check"
    /\ boss' = [boss EXCEPT
            !.at = "done",
            !.incomplete = {r \in 1 .. Jobs : ~Is("completed", r)},
            !.bad = {r \in 1 .. Jobs : Counters(r) # EachOnce}]
    /\ Still

----------------------------------------------------------------------------
(* run_zombie: A is frozen, its run swept and given to B, then A goes on.  *)

SeesRunning ==
    /\ In("zombie", "wait")
    /\ \/ Is("running", 1) /\ To("token") /\ Still
       \/ TimesOut("token")

ReadTokenA ==
    /\ In("zombie", "token")
    /\ boss' = [boss EXCEPT !.at = "freeze", !.tokenA = runs[1].token]
    /\ Still

Freeze ==
    /\ In("zombie", "freeze")
    /\ Stall(ZombieA)
    /\ boss' = [boss EXCEPT !.at = "sleep",
                            !.before = EventsWithToken(1, boss.tokenA)]

\* Longer than the lease; then one sweep, and B.
SweepForB ==
    /\ In("zombie", "sleep")
    /\ ~(Is("running", 1) /\ runs[1].lease = "live")
    /\ IF Expired(1) THEN Sweep ELSE Still
    /\ boss' = [boss EXCEPT !.at = "waitB", !.alive = {ZombieA, ZombieB}]

SeesCompleted ==
    /\ In("zombie", "waitB")
    /\ \/ Is("completed", 1) /\ To("readB") /\ Still
       \/ TimesOut("readB")

ThawA ==
    /\ In("zombie", "readB")
    /\ Thaw(ZombieA)
    /\ boss' = [boss EXCEPT !.at = "sleep2", !.afterB = Counters(1)]

\* After any while.
ReadAgain ==
    /\ In("zombie", "sleep2")
    /\ boss' = [boss EXCEPT !.at = "terminate", !.afterThaw = Counters(1),
                            !.after = EventsWithToken(1, boss.tokenA)]
    /\ Still

Report ==
    /\ In("zombie", "check")
    /\ boss' = [boss EXCEPT !.at = "done",
                            !.incomplete = {r \in {1} : ~Is("completed", r)}]
    /\ Still

----------------------------------------------------------------------------
ScriptStep ==
    \/ EnqueueJob \/ Drained \/ Check \/ Terminate \/ Sweeper
    \/ \E w \in Worker : KillOne(w)
    \/ SeesRunning \/ ReadTokenA \/ Freeze \/ SweepForB
    \/ SeesCompleted \/ ThawA \/ ReadAgain \/ Report

\* The workers the script spawned, their heartbeats, and the passing of time.
Crew ==
    /\ \/ \E w \in boss.alive : WorkerStep(w) \/ \E r \in Run : Beat(w, r)
       \/ \E r \in Run : LapseDead(r) \/ LapseLive(r)
    /\ UNCHANGED boss

HarnessNext == ScriptStep \/ Crew

----------------------------------------------------------------------------
\* What is fair: workers and clocks go on, and so do the scripts' loops; no
\* timeout has to come, and no kill.
Works(w) == w \in boss.alive /\ WorkerStep(w) /\ UNCHANGED boss

TimePasses(r) == LapseDead(r) /\ UNCHANGED boss

ScriptGoesOn == EnqueueJob \/ Check \/ Terminate \/ (Drained /\ NoFault)

\* When a fleet drained in time, whoever was killed in whatever step, every
\* job is completed and every counter is exactly 1; and never, timeout or not,
\* is a job completed with other counters (fleet.py:7-8, 63-67).
FleetCertificate ==
    boss.at = "done" /\ boss.script # "zombie" =>
        /\ boss.inTime => boss.incomplete = {} /\ boss.bad = {}
        /\ boss.bad \subseteq boss.incomplete

\* A zombie that is thawed when its successor is done, wherever it was frozen,
\* changes no counter and adds no event under its old token (fleet.py:202-204).
ZombieCertificate ==
    boss.at = "done" /\ boss.script = "zombie" /\ boss.inTime =>
        /\ boss.incomplete = {}
        /\ boss.afterB = EachOnce /\ boss.afterThaw = EachOnce
        /\ boss.after = boss.before

\* Without a timeout the queue drains: killed workers' jobs come back by their
\* leases and are finished by the others (fleet.py:131).
QueueDrains == boss.at = "wait" /\ boss.script = "chaos" ~> boss.at = "done"
=============================================================================

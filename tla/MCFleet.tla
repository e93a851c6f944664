------------------------------ MODULE MCFleet ------------------------------
(***************************************************************************)
(* FleetProperties with the agents of MCAgents, for TLC.                       *)
(***************************************************************************)
EXTENDS FleetProperties, MCAgents, TLC

AnyWorker == Permutations(Worker)

AnyHuman == Permutations(Human)

AnyLife == Permutations(Life)

Anyone == AnyWorker \cup AnyHuman \cup AnyLife
=============================================================================

------------------------------ MODULE MCLives ------------------------------
(***************************************************************************)
(* Lives with the agents of MCAgents, for TLC.                                 *)
(***************************************************************************)
EXTENDS Lives, MCAgents, TLC

AnyWorker == Permutations(Worker)

AnyHuman == Permutations(Human)

AnyLife == Permutations(Life)

Anyone == AnyWorker \cup AnyHuman \cup AnyLife
=============================================================================

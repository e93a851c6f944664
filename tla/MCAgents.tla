------------------------------ MODULE MCAgents ------------------------------
(***************************************************************************)
(* Agents for model checking.  Each is a small program over what it has     *)
(* seen, written as the next operation it asks for.                        *)
(***************************************************************************)
EXTENDS Context

CONSTANTS p1, p2, q1, f1, f2, v1, v2

DoOp(kind, ask) == [kind |-> kind, ask |-> ask]

Quit == DoOp("return", None)

Seen(seen, type) == \E i \in DOMAIN seen : seen[i].type = type

Got(seen, ans) == \E i \in DOMAIN seen : seen[i].ans = ans

Count(seen, type) == Cardinality({i \in DOMAIN seen : seen[i].type = type})

\* Ask the model, ask a human, perform the effect on a yes, fail on a no.
RefundAgent(c, seen) ==
    CASE ~Seen(seen, "LLM_CALLED") -> DoOp("llm", p1)
      [] Seen(seen, "LLM_CALLED") /\ ~Seen(seen, "APPROVAL") -> DoOp("gate", q1)
      [] Got(seen, "no") -> DoOp("raise", None)
      [] Got(seen, "yes") /\ ~Seen(seen, "TOOL_COMPLETED") -> DoOp("effect", f1)
      [] OTHER -> Quit

\* Perform an effect, ask a human on a patch and go on with what the patch
\* asks for: one model call for each patch.
PatchedAgent(c, seen) ==
    CASE ~Seen(seen, "TOOL_COMPLETED") -> DoOp("effect", f1)
      [] Seen(seen, "TOOL_COMPLETED") /\ Seen(seen, "PATCH_APPLIED")
            /\ ~Seen(seen, "APPROVAL") -> DoOp("gate", q1)
      [] Seen(seen, "APPROVAL")
            /\ Count(seen, "LLM_CALLED") < Count(seen, "PATCH_APPLIED") ->
            DoOp("llm", p1)
      [] OTHER -> Quit

\* Both versions start with an effect, not the same one; then the first asks
\* the model and the second goes on acting.
DeployedAgent(c, seen) ==
    CASE Count(seen, "TOOL_COMPLETED") = 0 ->
            DoOp("effect", IF c = v1 THEN f1 ELSE f2)
      [] Count(seen, "TOOL_COMPLETED") = 1 /\ ~Seen(seen, "LLM_CALLED") ->
            IF c = v1 THEN DoOp("llm", p1) ELSE DoOp("effect", f1)
      [] OTHER -> Quit
=============================================================================

----------------------------- MODULE MCPrograms -----------------------------
(***************************************************************************)
(* The programs with their agents, for TLC.  Each program runs a version of *)
(* the code of its own.                                                    *)
(***************************************************************************)
EXTENDS Programs, MCAgents

CONSTANTS w1, w2, l1, a1, a2,
          asking, acting, working, refunding, deciding

Steps(seen, ops) ==
    LET done == Cardinality({i \in DOMAIN seen :
                    seen[i].type \in {"LLM_CALLED", "TOOL_COMPLETED"}})
    IN  IF done < Len(ops) THEN ops[done + 1] ELSE Quit

\* harness/agent.py and the agents of the benchmarks; harness/refund.py and
\* the effects of a job; a job of harness/worker.py; examples/13_showcase.py;
\* a run that acts on an approval.
ProgramsAgent(c, seen) ==
    CASE c = asking    -> Steps(seen, <<DoOp("llm", p1), DoOp("llm", p2)>>)
      [] c = acting    -> Steps(seen, <<DoOp("effect", f1), DoOp("effect", f2)>>)
      [] c = working   -> Steps(seen, <<DoOp("llm", p1), DoOp("effect", f1),
                                        DoOp("effect", f2)>>)
      [] c = refunding -> RefundAgent(c, seen)
      [] c = deciding  ->
            CASE ~Seen(seen, "APPROVAL") -> DoOp("gate", q1)
              [] Got(seen, "yes") /\ ~Seen(seen, "TOOL_COMPLETED") -> DoOp("effect", f1)
              [] OTHER -> Quit

Play(cast, code, rows, most) ==
    [cast |-> cast, code |-> code, rows |-> rows, faults |-> most]

ProgramsBounds ==
    [browse |-> Play({w1}, asking, 2, 0),
     browse_forks |-> Play({w1}, acting, 2, 0),
     chaos |-> Play({l1}, asking, 2, 3),
     refund_chaos |-> Play({l1}, acting, 2, 3),
     showcase |-> Play({l1}, refunding, 1, 2),
     benchmark |-> Play({l1}, asking, 3, 0),
     fleet |-> Play({w1, w2}, working, 2, 1),
     fleet_chaos |-> Play({w1, w2}, acting, 2, 1),
     zombie |-> Play({w1, w2}, working, 1, 2),
     mixed |-> Play({w1, l1}, deciding, 1, 1),
     gather |-> Play({l1}, asking, 1, 2)]

SeededReply(seed, prompt) == IF prompt = p1 THEN a1 ELSE a2

TwoPrompts == <<p1, p2>>
=============================================================================

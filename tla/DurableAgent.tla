---------------------------- MODULE DurableAgent ----------------------------
(***************************************************************************)
(* What Timefork promises an agent: one program per run that never dies,    *)
(* asks for one thing at a time, and remembers every answer.               *)
(*                                                                         *)
(* There are no processes, leases, retries or replays here.  A run's log    *)
(* grows by exactly the event its program asks for next, or by the human's  *)
(* answer, and an effect happens exactly when its completion is logged.     *)
(***************************************************************************)
EXTENDS Naturals, Sequences

CONSTANTS
    Run, None, Answer, Patch,
    Code,         \* the versions of the program; each next step is one's
    Agent(_, _)   \* what a version asks for after a log

VARIABLES
    log,    \* per run, the events so far
    done    \* per run, the effects performed

event(type, ask, ans) == [type |-> type, ask |-> ask, ans |-> ans]

Extend(r, e) == log' = [log EXCEPT ![r] = Append(@, e)]

Ends(r, type) == log[r] # << >> /\ log[r][Len(log[r])].type = type

\* No operation of the run is half way.
Ready(r) == ~Ends(r, "TOOL_INTENT") /\ ~Ends(r, "APPROVAL_REQUESTED")

Wants(op, kind) == op.kind = kind

AskModel(r, c) ==
    LET op == Agent(c, log[r])
    IN  /\ Ready(r)
        /\ Wants(op, "llm")
        /\ \E answer \in Answer : Extend(r, event("LLM_CALLED", op.ask, answer))
        /\ UNCHANGED done

Intend(r, c) ==
    /\ Ready(r)
    /\ Wants(Agent(c, log[r]), "effect")
    /\ Extend(r, event("TOOL_INTENT", r, None))
    /\ UNCHANGED done

\* The effect asked for before its intent happens and is logged, at once.
Perform(r, c) ==
    LET n  == Len(log[r])
        op == Agent(c, SubSeq(log[r], 1, n - 1))
    IN  /\ Ends(r, "TOOL_INTENT")
        /\ Wants(op, "effect")
        /\ Extend(r, event("TOOL_COMPLETED", r, op.ask))
        /\ done' = [done EXCEPT ![r] = Append(@, [seq |-> n, fn |-> op.ask])]

AskHuman(r, c) ==
    LET op == Agent(c, log[r])
    IN  /\ Ready(r)
        /\ Wants(op, "gate")
        /\ Extend(r, event("APPROVAL_REQUESTED", op.ask, None))
        /\ UNCHANGED done

Decide(r) ==
    /\ Ends(r, "APPROVAL_REQUESTED")
    /\ \E approved \in {"yes", "no"} : Extend(r, event("APPROVAL", None, approved))
    /\ UNCHANGED done

\* A new run starts from the first k events of another and a patch.
Fork(r, k, child, patch) ==
    LET shared == SubSeq(log[r], 1, k)
    IN  /\ log[child] = << >> /\ child # r
        /\ log[r][k].type \notin {"TOOL_INTENT", "APPROVAL_REQUESTED"}
        /\ log' = [log EXCEPT ![child] =
                      Append(shared, event("PATCH_APPLIED", None, patch))]
        /\ UNCHANGED done

Init ==
    /\ log = [r \in Run |-> << >>]
    /\ done = [r \in Run |-> << >>]

Next ==
    \E r \in Run :
        \/ \E c \in Code : AskModel(r, c) \/ Intend(r, c) \/ Perform(r, c)
                             \/ AskHuman(r, c)
        \/ Decide(r)
        \/ \E k \in 1 .. Len(log[r]), child \in Run, patch \in Patch :
              Fork(r, k, child, patch)

Spec == Init /\ [][Next]_<<log, done>>
=============================================================================

------------------------------ MODULE MockLLM ------------------------------
(***************************************************************************)
(* mock_llm.py: the model of the tests and the harness.  A brain lives in   *)
(* the memory of one process and counts its calls.                         *)
(***************************************************************************)
EXTENDS Naturals, Sequences

CONSTANTS
    Replies,        \* what a random brain may answer
    Reply(_, _),    \* what a brain seeded so answers to a prompt, in any process
    Unset           \* Python's None

Brain(script, seed) == [script |-> script, seed |-> seed, calls |-> 0]

\* ScriptExhaustedError, raised before the call is counted.
Exhausted(b) == b.script # Unset /\ b.calls >= Len(b.script)

\* Variant: the seed is ignored.
AnyReply(b, prompt) ==
    IF b.script # Unset THEN {b.script[b.calls + 1]} ELSE Replies

\* The answers b may give to its next call.
Answers(b, prompt) ==
    CASE b.script # Unset -> {b.script[b.calls + 1]}
      [] b.script = Unset /\ b.seed # Unset -> {Reply(b.seed, prompt)}
      [] OTHER -> Replies

Counted(b) == [b EXCEPT !.calls = @ + 1]
=============================================================================

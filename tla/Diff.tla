-------------------------------- MODULE Diff --------------------------------
(***************************************************************************)
(* diff.py: two diaries side by side, the length of what they share and the *)
(* first seq at which they part.                                           *)
(***************************************************************************)
EXTENDS Diary

\* NULL is no sequence number.
ASSUME NullAssumption == None \notin Nat

\* What a row is shown as: its type, and its prompt, key or question, or else
\* its payload.  (The run part of a key: rows that meet in a diff have one seq.)
Describe(e) ==
    <<e.type, IF e.type \in {"PATCH_APPLIED", "APPROVAL"} THEN e.ans ELSE e.ask>>

Missing == << >>

Shown(log, i) == IF i \in DOMAIN log THEN Describe(log[i]) ELSE Missing

Same(a, b, i) == i \in DOMAIN a \cap DOMAIN b /\ a[i] = b[i]

Longer(a, b) == IF Len(a) < Len(b) THEN b ELSE a

\* Variant: the walk counts every row that agrees, not only the first ones.
CountAllSame(a, b, verdict, i) ==
    CASE Same(a, b, i) -> [verdict EXCEPT !.shared = @ + 1]
      [] ~Same(a, b, i) /\ verdict.divergeAt = None ->
            [verdict EXCEPT !.divergeAt = i]
      [] OTHER -> verdict

\* One turn of the loop: nothing counts once the two have parted.
Compare(a, b, verdict, i) ==
    CASE verdict.divergeAt # None -> verdict
      [] verdict.divergeAt = None /\ Same(a, b, i) ->
            [verdict EXCEPT !.shared = @ + 1]
      [] OTHER -> [verdict EXCEPT !.divergeAt = i]

\* What the display shows of the rows, whatever the verdict.
Lines(a, b) ==
    [i \in DOMAIN Longer(a, b) |->
        [a |-> Shown(a, i), b |-> Shown(b, i), same |-> Same(a, b, i)]]

\* The verdict after each turn of the loop.
Turned(a, b) ==
    LET verdict[i \in 0 .. Len(Longer(a, b))] ==
            IF i = 0 THEN [shared |-> 0, divergeAt |-> None, rows |-> Lines(a, b)]
                     ELSE Compare(a, b, verdict[i - 1], i)
    IN  verdict

DiffRuns(a, b) == Turned(a, b)[Len(Longer(a, b))]
=============================================================================

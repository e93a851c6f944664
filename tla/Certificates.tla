---------------------------- MODULE Certificates ----------------------------
(***************************************************************************)
(* harness/chaos.py and harness/refund_chaos.py: a clean life makes the      *)
(* baseline; then every run is lived again and again, each life killed at a *)
(* named point (crash.py) pinned to a step, until one gets through.        *)
(*                                                                         *)
(* The scripts draw the pins at random; here every draw is possible, which  *)
(* is bounded by Tries instead of 50 and 60.  A life is a process of its    *)
(* own, so its brain is new; the script waits for it to end.               *)
(***************************************************************************)
EXTENDS Lives, MockLLM

CONSTANTS
    Runs,    \* bound: how many runs a script certifies, the baseline included
    Tries,   \* bound: how many lives a run has before its clean one
    Seed     \* of the brains of harness/agent.py

ASSUME CertificatesAssumption == Runs \in 1 .. MaxRun /\ Tries \in Nat

VARIABLES
    cert,    \* the script, where it is, its run, the pin of the life
    brain    \* the model client of the life in progress

Pins == [chaos |-> {"before_call", "before_append", "after_append"},
         refund_chaos |-> {"before_intent", "before_effect", "before_commit",
                           "after_effect"}]

Unpinned == [point |-> "none", seq |-> 0]

Script(name) == [script |-> name, at |-> "fresh", run |-> 0, tries |-> 0,
                 pin |-> Unpinned, steps |-> 0]

At(place) == cert.at = place

Quiet == UNCHANGED <<livesVars, brain>>

----------------------------------------------------------------------------
(* crash.py                                                                *)

\* The last event of p's diary was recorded in this life, and just now.
JustRecorded(p, type) ==
    LET seen == life[p].seen
    IN  /\ pc[p] = "agent"
        /\ Len(seen) > Len(life[p].history)
        /\ seen[Len(seen)].type = type

\* p is about to call maybe_crash(point, seq).
Passes(p, point, seq) ==
    LET live(kind) == Asks(p, kind) /\ ~Replaying(p)
        next == NextSeq(p)
    IN  CASE point = "before_call"   -> live("llm") /\ seq = next
          [] point = "before_append" -> pc[p] = "called" /\ seq = next
          [] point = "after_append"  -> JustRecorded(p, "LLM_CALLED") /\ seq = next
          [] point = "before_intent" -> live("effect") /\ seq = next
          [] point = "before_effect" -> pc[p] = "acting" /\ ~Replaying(p) /\ seq = next
          [] point = "before_commit" -> pc[p] = "tx" /\ seq = next
          [] point = "after_effect"  -> JustRecorded(p, "TOOL_COMPLETED")
                                          /\ seq = next - 1
          [] OTHER -> FALSE

----------------------------------------------------------------------------
(* The scripts                                                             *)

\* The clean life of the baseline comes first, and is not polled for.
FreshRun ==
    LET r == cert.run + 1
    IN  /\ At("fresh")
        /\ Create(r)
        /\ cert' = [cert EXCEPT !.at = IF r = 1 THEN "launch" ELSE "poll",
                                !.run = r, !.tries = 0, !.pin = Unpinned]
        /\ UNCHANGED brain

Completed(r) == runs[r].status = "completed"

Draw == \E point \in Pins[cert.script], seq \in 1 .. cert.steps :
            cert' = [cert EXCEPT !.at = "launch", !.tries = @ + 1,
                                 !.pin = [point |-> point, seq |-> seq]]

\* Out of tries, one life is launched without a pin.
Poll ==
    /\ At("poll")
    /\ \/ Completed(cert.run) /\ cert' = [cert EXCEPT !.at = "verdict"]
       \/ ~Completed(cert.run) /\ cert.tries < Tries /\ Draw
       \/ /\ ~Completed(cert.run) /\ cert.tries = Tries
          /\ cert' = [cert EXCEPT !.at = "launch", !.pin = Unpinned]
    /\ Quiet

Launch(l) ==
    /\ At("launch")
    /\ TakeUp(l, cert.run)
    /\ cert' = [cert EXCEPT !.at = "life"]
    /\ brain' = IF cert.script = "chaos" THEN Brain(Unset, Seed)
                                         ELSE Brain(Unset, Unset)

Killed(l) ==
    /\ At("life")
    /\ Passes(l, cert.pin.point, cert.pin.seq)
    /\ LifeDies(l)
    /\ cert' = [cert EXCEPT !.at = "poll"]
    /\ UNCHANGED brain

\* The call of p that comes back in this step is answered by its brain.
BrainAnswers(p) ==
    IF pc[p] = "called"
       THEN LET seen == life'[p].seen
            IN  /\ pc'[p] = "agent" => seen[Len(seen)].ans \in Answers(brain, Ask(p))
                /\ brain' = Counted(brain)
       ELSE UNCHANGED brain

LivesOn(l) ==
    /\ At("life")
    /\ ~Passes(l, cert.pin.point, cert.pin.seq)
    /\ LifeStep(l)
    /\ BrainAnswers(l)
    /\ IF pc'[l] # "idle"
          THEN UNCHANGED cert
          ELSE cert' = [cert EXCEPT
                  !.at = IF cert.pin = Unpinned THEN "verdict" ELSE "poll"]

\* The assertions hold: see Certified.  The baseline's steps are counted in
\* events by chaos.py, and as two for each counter by refund_chaos.py.
Verdict ==
    /\ At("verdict")
    /\ cert' = [cert EXCEPT
            !.at = IF cert.run = Runs THEN "done" ELSE "fresh",
            !.steps = IF cert.run > 1 THEN @
                      ELSE IF cert.script = "chaos" THEN Last(1)
                      ELSE 2 * Cardinality(DOMAIN ledger[1])]
    /\ Quiet

CertNext ==
    \/ FreshRun \/ Poll \/ Verdict
    \/ \E l \in Life : Launch(l) \/ Killed(l) \/ LivesOn(l)

----------------------------------------------------------------------------
Responses(r) == [s \in DOMAIN diary[r] |-> diary[r][s].event.ans]

Counter(r, fn) == Cardinality({i \in DOMAIN ledger[r] : ledger[r][i].fn = fn})

\* Whatever sequence of pins killed its lives, a run that reaches the
\* assertions of its script passes them: completed, as many events as the
\* baseline, the same answers (chaos.py:76-78), the baseline's counters, every
\* one exactly 1 (refund_chaos.py:74-76).
Certified ==
    At("verdict") =>
        /\ Completed(cert.run)
        /\ cert.run > 1 => DOMAIN diary[cert.run] = 1 .. cert.steps
        /\ Responses(cert.run) = Responses(1)
        /\ \A fn \in Fn : Counter(cert.run, fn) = Counter(1, fn)
        /\ \A fn \in Fn : Counter(1, fn) <= 1
=============================================================================

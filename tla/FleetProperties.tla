--------------------------- MODULE FleetProperties ---------------------------
(***************************************************************************)
(* What the fleet promises: about the tables, about what a life sees of     *)
(* them, about what a step may do to them, and about what must happen.     *)
(***************************************************************************)
EXTENDS Fleet, DiaryProperties

\* Every variable stays in its type, in every module the fleet is made of
\* (schema.sql, 002 to 007, and the locals of context.py and worker.py).
TypeOK ==
    /\ DiaryTypeOK
    /\ ContextTypeOK
    /\ ApprovalTypeOK
    /\ stalled \subseteq Worker

----------------------------------------------------------------------------
(* The lives                                                               *)

\* The run of w was claimed again since w took it up.
Stale(w) ==
    life[w].run # None /\ runs[life[w].run].token # life[w].token

\* A worker whose token is current pays for a model call, or performs an
\* effect, only at the end of the diary: recorded steps are free.
PaysOnlyForNewSteps ==
    \A w \in Worker :
        pc[w] \in {"called", "tx"} /\ ~Stale(w) =>
            Len(life[w].seen) = Last(life[w].run)

\* No two lives hold the same token of one run: a second claim always
\* outdates the first, also after a sweep that left the token alone.
UniqueHolder ==
    \A v, w \in Worker :
        v # w /\ life[v].run # None /\ life[v].run = life[w].run =>
            life[v].token # life[w].token

\* While the code stays as it is, no replay ever diverges and no worker ever
\* finds its slot taken.
SameCodeReplays == \A w \in Worker : pc[w] \notin {"diverged", "duplicate"}

\* A run is marked completed only when the agent, having seen its whole
\* diary, returns.
CompletedMeansFinished ==
    \A r \in Run : runs[r].status = "completed" =>
        \E c \in Code : Agent(c, ReadEvents(r)).kind = "return"

\* A paused run waits for a human: its diary ends on the question, or the
\* decision is recorded and its granter is about to re-queue the run.  A park
\* that came after the re-queue would strand the run.
PausedIsWaiting ==
    \A r \in Run : runs[r].status = "paused" =>
        \/ Awaiting(r)
        \/ \E h \in Human : grant[h].at = "appended" /\ grant[h].run = r

----------------------------------------------------------------------------
(* What a step may do                                                      *)

Moves(w) == pc'[w] # pc[w] \/ life'[w] # life[w]

\* A life whose run was claimed again changes nothing durable, wherever it
\* had stopped: no event, no effect, no status.
StaleNeverWrites ==
    [][\A w \in Worker : Stale(w) /\ Moves(w) => UNCHANGED tables]_vars

----------------------------------------------------------------------------
(* What must happen                                                        *)

Settled(r) == runs[r].status \in {"paused", "completed", "failed"}

\* A queued run is carried until it is done, fails, or waits for a human.
QueuedSettles == \A r \in Run : runs[r].status = "queued" ~> Settled(r)

Decided(r) == ReadEvents(r) # << >> /\
              ReadEvents(r)[Len(ReadEvents(r))].type = "APPROVAL"

\* Once a decision is recorded the run goes on from it: it does not stay
\* paused behind a question that was answered.
DecisionResumes ==
    \A r \in Run : Decided(r) /\ runs[r].status = "paused" ~>
                       runs[r].status # "paused"

----------------------------------------------------------------------------
(* What the documentation says and the code does not always do             *)

\* llm.py:6-8: on replay the recorded answer is read back, so the model is
\* never called twice.  Two lives waiting for the model at the same step of
\* the same run pay for it twice.
ModelCalledOnce ==
    \A v, w \in Worker :
        v # w /\ pc[v] = "called" /\ pc[w] = "called"
              /\ life[v].run = life[w].run =>
            Len(life[v].seen) # Len(life[w].seen)

\* queue.py:4-5: two workers never grab the same run.  A claim takes a run
\* no live worker still renews.
ClaimedAlone ==
    [][\A r \in Run : runs'[r].token > runs[r].token =>
                          runs[r].lease # "live"]_vars

\* context.py:27-29: when the code changed, a life refuses to hand back a
\* stale answer.  Here: the result it hands back for an effect is the result
\* of the effect the code asks for.
ResultIsOfThisEffect ==
    [][\A w \in Worker :
          pc[w] = "acting" /\ pc'[w] = "agent" =>
              LET seen == life'[w].seen
              IN  seen[Len(seen)].ans = ActingOp(w).ask]_vars

\* queue.py:88-90: a lapsed lease sends its run back to the queue, so that a
\* healthy worker takes it over.  Here: a run nobody holds locked.
LapsedIsSwept ==
    \A r \in Run : Expired(r) /\ Unlocked(r) ~> ~(Expired(r) /\ Unlocked(r))
=============================================================================

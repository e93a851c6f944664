------------------------------- MODULE Gather -------------------------------
(***************************************************************************)
(* An agent with several model calls in flight: asyncio.gather of one       *)
(* ctx.llm for each prompt.                                                *)
(*                                                                         *)
(* The tasks start in their order, up to their first await: there each has  *)
(* passed the replay check.  Answers come in any order, and each is         *)
(* recorded at the cursor of the moment.                                   *)
(***************************************************************************)
EXTENDS Lives

CONSTANT Asked   \* the prompts, in the order of the tasks

ASSUME AskedAssumption == Asked \in Seq(Prompt)

VARIABLE task    \* the tasks of the life in progress

gatherVars == <<livesVars, task>>

Fresh == [i \in DOMAIN Asked |-> [at |-> "new", ans |-> None]]

TaskTo(i, at, ans) == task' = [task EXCEPT ![i] = [at |-> at, ans |-> ans]]

Started(i) == task[i].at # "new"

GatherOpen(l) ==
    /\ \E r \in Run : Create(r) \/ (runs[r].status = "running" /\ TakeUp(l, r))
          \/ (life[l].run = r /\ Open(l))
    /\ task' = Fresh

\* The first turn of task i.  A prompt that differs is found after the
\* cursor has moved on.
StartTask(l, i) ==
    /\ pc[l] = "agent"
    /\ ~Started(i) /\ \A j \in 1 .. (i - 1) : Started(j)
    /\ IF Replaying(l)
          THEN LET e == NextRecorded(l)
               IN  /\ See(l, e)
                   /\ IF IsAsked(e, "LLM_CALLED", Asked[i])
                         THEN TaskTo(i, "got", e.ans)
                         ELSE TaskTo(i, "diverged", None)
          ELSE TaskTo(i, "flight", None) /\ UNCHANGED life
    /\ ReadOnly
    /\ UNCHANGED <<pc, grant>> /\ NoFault

AnswerTask(l, i) ==
    /\ pc[l] = "agent" /\ task[i].at = "flight"
    /\ \E response \in Answer :
          /\ Record(l, LlmEvent(Asked[i], response), "agent")
          /\ TaskTo(i, "got", response)
    /\ UNCHANGED grant /\ NoFault

\* gather returns, or raises what a task raised; the loop then cancels the
\* tasks that are left, which until then may have gone on.
Gathered(l) ==
    /\ pc[l] = "agent"
    /\ \/ /\ \A i \in DOMAIN task : task[i].at = "got"
          /\ SetRunStatus(life[l].run, "completed")
       \/ (\E i \in DOMAIN task : task[i].at = "diverged") /\ ReadOnly
    /\ Leave(l, "idle")
    /\ task' = Fresh
    /\ UNCHANGED grant /\ NoFault

GatherDies(l) == LifeDies(l) /\ task' = Fresh

GatherNext ==
    \E l \in Life :
        \/ GatherOpen(l) \/ Gathered(l) \/ GatherDies(l)
        \/ \E i \in DOMAIN Asked : StartTask(l, i) \/ AnswerTask(l, i)

----------------------------------------------------------------------------
\* In whatever order answers came and lives died, a task is handed an answer
\* that was given to its own prompt, or diverges; it never takes its
\* neighbour's (context.py:126-132).  (With one prompt twice it may.)
OwnAnswers ==
    \A l \in Life, i \in DOMAIN Asked : task[i].at = "got" /\ pc[l] = "agent" =>
        \E j \in DOMAIN life[l].seen :
            life[l].seen[j] = LlmEvent(Asked[i], task[i].ans)
=============================================================================

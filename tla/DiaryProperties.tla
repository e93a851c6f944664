--------------------------- MODULE DiaryProperties ---------------------------
(***************************************************************************)
(* What the tables promise whoever writes to them, workers under a lease   *)
(* or direct lives without one, and what a life sees of them.              *)
(***************************************************************************)
EXTENDS Context, Approval, Fork

(* The tables                                                              *)

Last(r) == Cardinality(DOMAIN diary[r])

Type(r, s) == diary[r][s].event.type

\* A diary is always one that replay can walk: seq is dense, a completion
\* directly follows the intent with its key, a decision directly follows the
\* request, and nothing else follows either.  Lives, zombies, granters and
\* forks all append to it, each at a seq it computed from an older read.
DiaryReplayable ==
    \A r \in Run :
        /\ DOMAIN diary[r] = 1 .. Last(r)
        /\ \A s \in DOMAIN diary[r] :
              /\ Type(r, s) = "TOOL_COMPLETED" =>
                    /\ s > 1
                    /\ Type(r, s - 1) = "TOOL_INTENT"
                    /\ diary[r][s - 1].event.ask = diary[r][s].event.ask
              /\ Type(r, s) = "APPROVAL" =>
                    s > 1 /\ Type(r, s - 1) = "APPROVAL_REQUESTED"
              /\ s < Last(r) /\ Type(r, s) = "TOOL_INTENT" =>
                    Type(r, s + 1) = "TOOL_COMPLETED"
              /\ s < Last(r) /\ Type(r, s) = "APPROVAL_REQUESTED" =>
                    Type(r, s + 1) = "APPROVAL"

Completes(r, entry) ==
    /\ entry.seq + 1 \in DOMAIN diary[r]
    /\ diary[r][entry.seq + 1].event = CompletedEvent(r, entry.fn)

\* Whatever crashes, stalls and is swept, an effect commits once per key, and
\* the effect, its key and its completion are there together or not at all;
\* the completions a fork copied belong to its parent's keys.
ExactlyOnce ==
    \A r \in Run :
        /\ \A i, j \in DOMAIN ledger[r] :
              ledger[r][i].seq = ledger[r][j].seq => i = j
        /\ \A i \in DOMAIN ledger[r] : Completes(r, ledger[r][i])
        /\ DOMAIN keys[r] = {ledger[r][i].seq : i \in DOMAIN ledger[r]}
        /\ \A s \in DOMAIN diary[r] :
              Type(r, s) = "TOOL_COMPLETED" /\ diary[r][s].event.ask = r =>
                \E i \in DOMAIN ledger[r] : ledger[r][i].seq + 1 = s

\* The tokens the fenced rows carry only grow along a diary, and none is
\* newer than the row's: once a claim's life has written, no earlier claim's
\* life ever did or will write after it.  (Rows that a human or a fork wrote
\* carry 0.)
TokensOrdered ==
    \A r \in Run : \A s \in DOMAIN diary[r] :
        /\ diary[r][s].token <= runs[r].token
        /\ \A t \in DOMAIN diary[r] :
              s < t /\ diary[r][t].token # 0 =>
                  diary[r][s].token <= diary[r][t].token

\* A child keeps its parent's steps up to the fork point, whatever has become
\* of the parent, and its patch comes right after them.
ForkSharesPrefix ==
    \A r \in Run : runs[r].parent # None =>
        LET k == runs[r].forkSeq
        IN  /\ k < Last(r) /\ Type(r, k + 1) = "PATCH_APPLIED"
            /\ \A s \in 1 .. k :
                  /\ s \in DOMAIN diary[runs[r].parent]
                  /\ diary[r][s].event = diary[runs[r].parent][s].event

----------------------------------------------------------------------------
(* The lives                                                               *)

Prefix(s, t) == Len(s) <= Len(t) /\ \A i \in 1 .. Len(s) : s[i] = t[i]

\* Every life, one that was fenced out long ago included, has seen only what
\* the diary holds, in its order: no answer is ever replayed to one life and
\* not to another.
AgentSeesDiary ==
    \A p \in Proc : life[p].run # None =>
        /\ Prefix(life[p].history, ReadEvents(life[p].run))
        /\ Prefix(life[p].seen, ReadEvents(life[p].run))

----------------------------------------------------------------------------
(* What a step may do                                                      *)

\* An operation of the run has begun and not ended.
Midway(r) ==
    LET events == ReadEvents(r)
    IN  events # << >>
        /\ events[Len(events)].type \in {"TOOL_INTENT", "APPROVAL_REQUESTED"}

Finished(r) ==
    /\ ~Midway(r)
    /\ \A c \in Code : LET op == Agent(c, ReadEvents(r))
                       IN  op \in Op /\ op.kind = "return"

\* Committed rows stay as they are, new ones go to the end, and nothing is
\* added to a diary on which the agent returns, also when a late grant sends
\* a completed run back to the queue.
HistoryStands ==
    [][\A r \in Run :
          /\ Prefix(ReadEvents(r), ReadEvents(r)')
          /\ Exists(r) /\ Finished(r) => diary'[r] = diary[r]]_tables
----------------------------------------------------------------------------
(* The abstract program                                                    *)

Durable == INSTANCE DurableAgent
    WITH log <- [r \in Run |-> ReadEvents(r)], done <- ledger

\* Read as one log per run, what many processes write is what a single
\* program that never dies would write: every event is the one some version
\* of the code asks for after exactly the events before it, an effect
\* happens with its completion and never otherwise.
ImplementsDurableAgent == Durable!Spec

=============================================================================

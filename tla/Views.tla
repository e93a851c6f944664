------------------------------- MODULE Views -------------------------------
(***************************************************************************)
(* The command line (cli.py) and the dashboard (dashboard.py) beside a      *)
(* fleet that goes on working.                                             *)
(*                                                                         *)
(* show and diff read in several statements, each of which sees what was    *)
(* committed when it ran: `page` is what one reader has read so far.  Forks *)
(* and approvals by command are the actions Branch and Grant of the fleet; *)
(* a fork from the dashboard is asked for from a page that may be out of    *)
(* date.  ls and the index are one statement, and read only.               *)
(***************************************************************************)
EXTENDS FleetProperties, Diff

Seqs == INSTANCE SequencesExt

VARIABLE page

viewVars == <<vars, page>>

NoPage == [at |-> "none", run |-> None, other |-> None, status |-> "absent",
           events |-> << >>, forks |-> << >>, verdict |-> None]

----------------------------------------------------------------------------
(* cmd_show, show_run: the row, the diary, the children.                   *)

OpenRun(r) ==
    /\ page.at = "none"
    /\ Exists(r)
    /\ page' = [page EXCEPT !.at = "row", !.run = r, !.status = runs[r].status]
    /\ UNCHANGED vars

ReadTimeline ==
    /\ page.at = "row"
    /\ page' = [page EXCEPT !.at = "timeline", !.events = ReadEvents(page.run)]
    /\ UNCHANGED vars

\* ORDER BY fork_seq, created_at
ChildrenOf(r) ==
    LET before(c, d) == \/ runs[c].forkSeq < runs[d].forkSeq
                        \/ runs[c].forkSeq = runs[d].forkSeq /\ c < d
        children == Seqs!SetToSortSeq({c \in Run : runs[c].parent = r}, before)
    IN  [i \in DOMAIN children |->
            [child |-> children[i], at |-> runs[children[i]].forkSeq]]

\* Variant: the row is read last.
ReadForksThenRow ==
    /\ page.at = "timeline"
    /\ page' = [page EXCEPT !.at = "page", !.forks = ChildrenOf(page.run),
                            !.status = runs[page.run].status]
    /\ UNCHANGED vars

ReadForks ==
    /\ page.at = "timeline"
    /\ page' = [page EXCEPT !.at = "page", !.forks = ChildrenOf(page.run)]
    /\ UNCHANGED vars

\* do_fork: the page is of any age, and the step that is posted need not be
\* one it showed, for the form has no maximum; fork_run looks at the parent as
\* it is by now.  Then the browser is sent to the child.  A fork point that is
\* refused gets a page that says so: see Close.
ForkFromPage ==
    /\ page.at = "page"
    /\ \E k \in DOMAIN diary[page.run], child \in Run, patch \in Patch :
          ForkRun(page.run, k, child, patch)
    /\ page' = NoPage
    /\ UNCHANGED <<pc, life, grant, faults, stalled>>

(* cmd_diff, show_diff                                                     *)

ReadFirst(a, b) ==
    /\ page.at = "none"
    /\ Exists(a) /\ Exists(b)
    /\ page' = [page EXCEPT !.at = "first", !.run = a, !.other = b,
                            !.events = ReadEvents(a)]
    /\ UNCHANGED vars

ReadSecond ==
    /\ page.at = "first"
    /\ page' = [page EXCEPT !.at = "diff",
                            !.verdict = DiffRuns(page.events, ReadEvents(page.other))]
    /\ UNCHANGED vars

Close ==
    /\ page.at \in {"page", "diff"}
    /\ page' = NoPage
    /\ UNCHANGED vars

ViewsNext ==
    \/ Next /\ UNCHANGED page
    \/ \E r \in Run : OpenRun(r)
    \/ \E a, b \in Run : ReadFirst(a, b)
    \/ ReadTimeline \/ ReadForks \/ ForkFromPage \/ ReadSecond \/ Close

----------------------------------------------------------------------------
\* A page that says "completed" shows the whole run, for ever, although the
\* status and the timeline come from two statements (dashboard.py:67-73,
\* cli.py:32-38).
ShownCompletedIsWhole ==
    page.at \in {"timeline", "page"} /\ page.status = "completed" =>
        page.events = ReadEvents(page.run)

\* A fork asked for from a page (dashboard.py:91-112), whatever was written
\* since it was read and whatever step was posted, never contradicts the page:
\* the child has the steps that were shown, up to its fork point, and a page
\* that said "completed" showed all that any fork of the run can start with.
ForkAgreesWithPage ==
    [][\A child \in Run :
          page.at = "page" /\ page'.at = "none" /\ ~Exists(child) /\ Exists(child)' =>
              LET k == runs'[child].forkSeq
              IN  /\ \A s \in 1 .. k :
                        s \in DOMAIN page.events =>
                            diary'[child][s].event = page.events[s]
                  /\ page.status = "completed" => k \in DOMAIN page.events]_viewVars

Agree(a, b, n) == n <= Len(a) /\ n <= Len(b) /\ SubSeq(a, 1, n) = SubSeq(b, 1, n)

\* What diff_runs reports stays true while both runs go on: the shared prefix
\* is shared for ever, and where both had a row and the rows differed, the
\* runs part there for ever, and no later (diff.py:40-59).
DiffStands ==
    page.at = "diff" =>
        LET a == ReadEvents(page.run)
            b == ReadEvents(page.other)
            v == page.verdict
        IN  /\ Agree(a, b, v.shared)
            /\ v.divergeAt # None => v.divergeAt = v.shared + 1
            /\ v.divergeAt = None => Len(v.rows) = v.shared
            /\ v.divergeAt # None =>
                  LET row == v.rows[v.divergeAt]
                  IN  Missing \notin {row.a, row.b} =>
                          ~Agree(a, b, v.divergeAt)

Patched(r, s) == s \in DOMAIN diary[r] /\ Type(r, s) = "PATCH_APPLIED"

\* The diff of a fork and its parent, read in either order while both grow,
\* parts at the fork point and not before, unless the parent took the
\* same patch at the same step (test_diff.py:25-26).
DiffFindsForkPoint ==
    page.at = "diff" =>
        \A r, q \in {page.run, page.other} : runs[r].parent = q =>
            LET k == runs[r].forkSeq
            IN  \/ page.verdict.divergeAt = k + 1
                \/ /\ Patched(q, k + 1)
                   /\ diary[q][k + 1].event = diary[r][k + 1].event
                   /\ page.verdict.shared > k
=============================================================================

---------------------------- MODULE ForgePromote ----------------------------
(***************************************************************************)
(* How the work of one ticket reaches the base branch, or is thrown away:  *)
(* the promote, approve, waive-policy and discard routes                   *)
(* (src/api/forge-routes.ts), the cleanup of merged sandboxes and the boot *)
(* reconciliation (src/forge/runs.ts), next to the runs of the ticket.     *)
(*                                                                         *)
(* A route reads, awaits and writes; each of its awaits is a boundary      *)
(* between two actions here.  Runs appear only as far as they matter to    *)
(* the routes: at most one is active at a time (RunUniqueness of           *)
(* ForgeRunsProofs), it commits in its work stage, and its review          *)
(* evaluates the protected paths and writes a verdict.                     *)
(*                                                                         *)
(* Abstracted: the contents of commits, except whether they touch a        *)
(* protected path; exports; what edits and gate overrides say; uncommitted *)
(* edits.  Sandbox and branch exist together.                              *)
(***************************************************************************)
EXTENDS Naturals

CONSTANTS
  Requests,    \* requests to the routes, one route each
  Boot,        \* the boot reconciliation, one of them
  Routes,      \* what requests may ask for
  MaxRuns,     \* bound: runs of the ticket
  MaxCommits,  \* bound: commits of its workers
  MaxCrashes,  \* bound: how often the server dies
  Overlap      \* TRUE: a run may start while a request is being served

RouteKinds == {"promote", "approve", "waive", "discard", "cleanup"}

ASSUME PromoteAssumption ==
  /\ Boot \in Requests
  /\ Routes \subseteq RouteKinds
  /\ MaxRuns \in Nat /\ MaxCommits \in Nat /\ MaxCrashes \in Nat
  /\ Overlap \in BOOLEAN

Commits == 1..MaxCommits

VARIABLES
  status,     \* tickets.status
  run,        \* stage of the active run, "over" when there is none
  last,       \* number of the newest run, 0 before the first
  outcome,    \* status of the newest run
  violating,  \* its row records protected-path violations
  waived,     \* and that they are waived
  sandbox,    \* worktree and branch of the ticket exist
  branch,     \* commits on the branch
  base,       \* commits in the workdir
  made,       \* number of commits made so far
  tainted,    \* commits that touch protected paths
  verdict,    \* newest review comment: its verdict, and the newest run by then
  passed,     \* history: commits that were on the branch when a verdict passed it
  recorded,   \* history: commits that some run's violations were about
  excused,    \* history: commits that were on the branch when a waiver was given
  due,        \* history: commits that a close by promote promised to land
  stranded,   \* history: those of them whose reopening an edit of the ticket overtook
  op, pc,     \* per request: what it asks for, and where it is
  current,    \* requests whose copy of the ticket is up to date
  crashes

promises == <<due, stranded>>
ticket   == <<status, promises>>
theRun   == <<run, last, outcome, violating, waived>>
excuses  == <<recorded, excused>>
git      == <<sandbox, branch, base, made, tainted>>
reviews  == <<verdict, passed>>
requests == <<op, pc, current>>
vars     == <<ticket, theRun, git, reviews, excuses, requests, crashes>>

Steps == {"idle", "busy", "policy", "verdict", "read", "commits", "close", "merge",
          "failed", "reopen", "cleanup", "mark", "comment", "destroy", "bounce", "done"}

RunTypes ==
  /\ status \in {"open", "planned", "in_progress", "review", "closed"}
  /\ run \in {"begin", "work", "review", "verdict", "settle", "orphan", "over"}
  /\ outcome \in {"none", "running", "passed", "rejected", "failed", "stopped", "interrupted"}
  /\ violating \in BOOLEAN /\ waived \in BOOLEAN /\ sandbox \in BOOLEAN

CountTypes ==
  /\ last \in 0..MaxRuns /\ made \in 0..MaxCommits /\ crashes \in 0..MaxCrashes
  /\ verdict \in [kind : {"none", "pass", "fail"}, run : 0..MaxRuns]

CommitTypes ==
  /\ branch \subseteq Commits /\ base \subseteq Commits /\ tainted \subseteq Commits
  /\ passed \subseteq Commits /\ due \subseteq Commits /\ stranded \subseteq Commits
  /\ recorded \subseteq Commits /\ excused \subseteq Commits

RequestTypes ==
  /\ op \in [Requests -> RouteKinds \cup {"none", "reconcile"}]
  /\ pc \in [Requests -> Steps]
  /\ current \subseteq Requests

TypeOK == RunTypes /\ CountTypes /\ CommitTypes /\ RequestTypes

Init ==
  /\ status = "open" /\ run = "over" /\ last = 0 /\ outcome = "none"
  /\ violating = FALSE /\ waived = FALSE
  /\ sandbox = FALSE /\ branch = {} /\ base = {} /\ made = 0 /\ tainted = {}
  /\ verdict = [kind |-> "none", run |-> 0]
  /\ passed = {} /\ recorded = {} /\ excused = {} /\ due = {} /\ stranded = {}
  /\ op = [q \in Requests |-> "none"] /\ pc = [q \in Requests |-> "idle"]
  /\ current = {} /\ crashes = 0

-----------------------------------------------------------------------------
(* Helpers *)

Active == run # "over"

\* rev-list HEAD..branch counts commits; without a branch git fails and the count
\* is NaN, which is not more than zero.
HasCommits == sandbox /\ ~(branch \subseteq base)

(* Mutant of LastVerdict: the review of an earlier run still counts. *)
AnyVerdict == verdict.kind

\* A review written before the newest run started is a previous run's.
LastVerdict == IF verdict.run < last THEN "none" ELSE verdict.kind

\* updateTicket: every write makes all copies of the ticket stale.
Write(s) == status' = s /\ current' = {}

\* The ticket is read.
Load(q) == current' = current \cup {q}

\* Nobody waits for what a promote promised any more.
PromisesEnd == due' = {} /\ stranded' = {}

At(q, route, step) == op[q] = route /\ pc[q] = step
Goto(q, step) == pc' = [pc EXCEPT ![q] = step]

\* sandbox.ts cleanup: worktree and branch go.
RemoveSandbox == sandbox' = FALSE /\ branch' = {}

-----------------------------------------------------------------------------
(* The runs of the ticket *)

\* startPipeline, afresh, for rework, or for a resume (ForgeRuns has the details).
\* Nothing keeps it from starting while the boot reconciliation is under way.
StartRun ==
  /\ ~Active /\ last < MaxRuns
  /\ Overlap \/ \A q \in Requests \ {Boot} : pc[q] \in {"idle", "done"}
  /\ \/ /\ \/ status \in {"open", "planned"}
           \/ status = "in_progress" /\ outcome = "interrupted"
        /\ run' = "begin"
     \/ /\ outcome \in {"interrupted", "failed", "stopped"}
        /\ status # "closed" /\ HasCommits
        /\ run' = "review"
  /\ last' = last + 1
  /\ outcome' = "running"
  /\ violating' = FALSE /\ waived' = FALSE
  /\ UNCHANGED <<ticket, git, reviews, excuses, requests, crashes>>

\* Agents take minutes, requests seconds: none ends while a request is at work.
AgentEnds == \A q \in Requests : pc[q] \in {"idle", "busy", "done"}

RunEnds(how) == run' = "over" /\ outcome' = how

\* The run plans and claims the ticket, and gets its sandbox; or it ends before
\* that, perhaps with the plan made: closed under it, stopped or failed.
Claim ==
  /\ run = "begin"
  /\ \/ /\ status # "closed" /\ Write("in_progress")
        /\ run' = "work" /\ sandbox' = TRUE
        /\ UNCHANGED outcome
     \/ /\ \E how \in {"failed", "stopped"} : RunEnds(how)
        /\ UNCHANGED <<status, current>> \/ (status = "open" /\ Write("planned"))
        /\ UNCHANGED sandbox
  /\ UNCHANGED <<promises, last, violating, waived, branch, base, made, tainted, reviews,
                 excuses, op, pc, crashes>>

\* The worker is done and what it wrote is committed, if it wrote anything and the
\* sandbox is still there.  A failing or stopped run bounces the ticket.
WorkEnds ==
  /\ run = "work" /\ AgentEnds
  /\ \/ UNCHANGED <<branch, made, tainted>>
     \/ /\ sandbox /\ made < MaxCommits
        /\ made' = made + 1
        /\ branch' = branch \cup {made + 1}
        /\ tainted' \in {tainted, tainted \cup {made + 1}}
  /\ \/ /\ sandbox /\ status # "closed" /\ Write("review")
        /\ run' = "review" /\ UNCHANGED outcome
     \/ /\ \E how \in {"failed", "stopped"} : RunEnds(how)
        /\ IF status = "in_progress" THEN Write("planned") ELSE UNCHANGED <<status, current>>
  /\ UNCHANGED <<promises, last, violating, waived, sandbox, base, reviews, excuses, op, pc,
                 crashes>>

Violations == (branch \ base) \cap tainted

\* A conflict with the base gets a FAIL at once.  Else the protected paths are
\* evaluated on the diff of branch and base, and reach the row with the reviewer's
\* pid or with the end of the run, which may come before they are evaluated.
EnterReview ==
  /\ run = "review"
  /\ \/ /\ verdict' = [kind |-> "fail", run |-> last]
        /\ run' = "settle" /\ UNCHANGED <<outcome, violating, recorded>>
     \/ /\ violating' = (Violations # {}) /\ recorded' = recorded \cup Violations
        /\ \/ run' = "verdict" /\ UNCHANGED outcome
           \/ \E how \in {"failed", "stopped"} : RunEnds(how)
        /\ UNCHANGED verdict
     \/ /\ \E how \in {"failed", "stopped"} : RunEnds(how)
        /\ UNCHANGED <<verdict, violating, recorded>>
  /\ UNCHANGED <<ticket, last, waived, git, passed, excused, requests, crashes>>

\* The review comment, after which the run settles; or no verdict.
Verdict ==
  /\ run = "verdict" /\ AgentEnds
  /\ \/ \E kind \in {"pass", "fail"} :
          /\ verdict' = [kind |-> kind, run |-> last]
          /\ passed' = IF kind = "pass" THEN passed \cup branch ELSE passed
          /\ run' = "settle" /\ UNCHANGED outcome
     \/ (\E how \in {"failed", "stopped"} : RunEnds(how)) /\ UNCHANGED reviews
  /\ UNCHANGED <<ticket, last, violating, waived, git, excuses, requests, crashes>>

\* A FAIL sends the ticket back to planned, unless it was closed meanwhile.
SettleRun ==
  /\ run = "settle"
  /\ \/ verdict.kind = "pass" /\ RunEnds("passed") /\ UNCHANGED <<status, current>>
     \/ verdict.kind = "fail" /\ status # "closed" /\ RunEnds("rejected") /\ Write("planned")
     \/ verdict.kind = "fail" /\ status = "closed" /\ RunEnds("failed")
        /\ UNCHANGED <<status, current>>
  /\ UNCHANGED <<promises, last, violating, waived, git, reviews, excuses, op, pc, crashes>>

\* After a crash the boot scan marks the run interrupted, at once or when the agent
\* it reattached to has exited.
OrphanEnds ==
  /\ run = "orphan" /\ RunEnds("interrupted")
  /\ UNCHANGED <<ticket, last, violating, waived, git, reviews, excuses, requests, crashes>>

-----------------------------------------------------------------------------
(* The first steps of the routes *)

Ask(q) ==
  /\ q # Boot /\ pc[q] = "idle"
  /\ \E route \in Routes : op' = [op EXCEPT ![q] = route]
  /\ Goto(q, "busy")
  /\ UNCHANGED <<ticket, theRun, git, reviews, excuses, current, crashes>>

\* What a route reads, or does, once it knows that no run is active.
After(route) == CASE route = "approve" -> "comment"
                  [] route \in {"discard", "cleanup"} -> "read"
                  [] OTHER -> "policy"

(* Mutant of NotBusy: the active runs are not looked at. *)
BusyIgnored(q) ==
  /\ pc[q] = "busy"
  /\ Goto(q, IF ~sandbox /\ op[q] \in {"approve", "discard", "cleanup"}
             THEN "done" ELSE After(op[q]))
  /\ UNCHANGED <<ticket, theRun, git, reviews, excuses, op, current, crashes>>

\* hasActiveRun, in every route; approve and discard then want a sandbox, and the
\* cleanup only finds tickets that have one.
NotBusy(q) ==
  /\ pc[q] = "busy"
  /\ Goto(q, IF Active \/ (~sandbox /\ op[q] \in {"approve", "discard", "cleanup"})
             THEN "done" ELSE After(op[q]))
  /\ UNCHANGED <<ticket, theRun, git, reviews, excuses, op, current, crashes>>

(* Mutant of Policy: violations do not hold up a promote. *)
PolicyIgnored(q) ==
  /\ pc[q] = "policy"
  /\ Goto(q, IF op[q] = "promote" THEN "verdict" ELSE "mark")
  /\ UNCHANGED <<ticket, theRun, git, reviews, excuses, op, current, crashes>>

\* latestRunPolicy: promote is refused while the newest run has violations that are
\* not waived; waive is refused without any.
Policy(q) ==
  /\ pc[q] = "policy"
  /\ \/ op[q] = "promote" /\ Goto(q, IF violating /\ ~waived THEN "done" ELSE "verdict")
     \/ op[q] = "waive"   /\ Goto(q, IF violating /\ ~waived THEN "mark" ELSE "done")
  /\ UNCHANGED <<ticket, theRun, git, reviews, excuses, op, current, crashes>>

-----------------------------------------------------------------------------
(* promote *)

ReadVerdict(q) ==
  /\ At(q, "promote", "verdict")
  /\ Goto(q, IF sandbox /\ LastVerdict = "pass" THEN "commits" ELSE "done")
  /\ UNCHANGED <<ticket, theRun, git, reviews, excuses, op, current, crashes>>

ReadCommits(q) ==
  /\ At(q, "promote", "commits")
  /\ Goto(q, IF HasCommits THEN "close" ELSE "done")
  /\ UNCHANGED <<ticket, theRun, git, reviews, excuses, op, current, crashes>>

\* The ticket is read and closed, before the merge; a write in between fails the
\* request, as does a close that wants a verification.
Close(q) ==
  /\ At(q, "promote", "close")
  /\ \/ /\ Write("closed")
        /\ due' = due \cup branch /\ stranded' = stranded \ branch
        /\ Goto(q, "merge")
     \/ UNCHANGED <<ticket, current>> /\ Goto(q, "done")
  /\ UNCHANGED <<theRun, git, reviews, excuses, op, crashes>>

\* promoteSandbox.  It fails on a dirty workdir, a conflict or a missing branch.
Merge(q) ==
  /\ At(q, "promote", "merge")
  /\ \/ sandbox /\ base' = base \cup branch /\ Goto(q, "cleanup")
     \/ UNCHANGED base /\ Goto(q, "failed")
  /\ UNCHANGED <<ticket, theRun, sandbox, branch, made, tainted, reviews, excuses, op,
                 current, crashes>>

MergeFailed(q) ==
  /\ At(q, "promote", "failed")
  /\ Load(q)
  /\ Goto(q, "reopen")
  /\ UNCHANGED <<ticket, theRun, git, reviews, excuses, op, crashes>>

(* Mutant of Reopen: the compensation only comments. *)
ReopenOnlyComments(q) ==
  /\ At(q, "promote", "reopen")
  /\ Goto(q, "done")
  /\ UNCHANGED <<ticket, theRun, git, reviews, excuses, op, current, crashes>>

\* The compensation for a merge that failed: back to review, if nobody wrote the
\* ticket since it was read.
Reopen(q) ==
  /\ At(q, "promote", "reopen")
  /\ IF q \in current THEN Write("review") /\ PromisesEnd ELSE UNCHANGED <<ticket, current>>
  /\ Goto(q, "done")
  /\ UNCHANGED <<theRun, git, reviews, excuses, op, crashes>>

\* The sandbox goes after the merge, unless the setting keeps it or this fails.
DropSandbox(q) ==
  /\ At(q, "promote", "cleanup")
  /\ RemoveSandbox \/ UNCHANGED <<sandbox, branch>>
  /\ Goto(q, "done")
  /\ UNCHANGED <<ticket, theRun, base, made, tainted, reviews, excuses, op, current, crashes>>

-----------------------------------------------------------------------------
(* approve, waive-policy, discard *)

\* The admin has inspected the diff and writes a passing review.
Approve(q) ==
  /\ At(q, "approve", "comment")
  /\ verdict' = [kind |-> "pass", run |-> last]
  /\ passed' = passed \cup branch
  /\ Goto(q, "done")
  /\ UNCHANGED <<ticket, theRun, git, excuses, op, current, crashes>>

\* markPolicyWaived, on the row that was the newest when the policy was read.
Waive(q) ==
  /\ At(q, "waive", "mark")
  /\ waived' = TRUE \/ (Overlap /\ UNCHANGED waived)
  /\ excused' = excused \cup branch
  /\ Goto(q, "done")
  /\ UNCHANGED <<ticket, run, last, outcome, violating, git, reviews, recorded, op,
                 current, crashes>>

ReadTicket(q) ==
  /\ pc[q] = "read" /\ op[q] \in {"discard", "cleanup"}
  /\ Load(q)
  /\ Goto(q, IF op[q] = "discard" THEN "destroy"
             ELSE IF status = "closed" THEN "commits" ELSE "done")
  /\ UNCHANGED <<ticket, theRun, git, reviews, excuses, op, crashes>>

Discard(q) ==
  /\ At(q, "discard", "destroy")
  /\ RemoveSandbox
  /\ Goto(q, IF q \in current /\ status = "review" THEN "bounce" ELSE "done")
  /\ UNCHANGED <<ticket, theRun, base, made, tainted, reviews, excuses, op, current, crashes>>

\* A ticket in review goes back to planned.
DiscardBounce(q) ==
  /\ At(q, "discard", "bounce")
  /\ IF q \in current THEN Write("planned") ELSE UNCHANGED <<status, current>>
  /\ Goto(q, "done")
  /\ UNCHANGED <<promises, theRun, git, reviews, excuses, op, crashes>>

-----------------------------------------------------------------------------
(* Cleanup of merged sandboxes, boot reconciliation *)

(* Mutant of CleanupCommits: every closed ticket is cleaned up. *)
CleanupClosed(q) ==
  /\ At(q, "cleanup", "commits")
  /\ Goto(q, "destroy")
  /\ UNCHANGED <<ticket, theRun, git, reviews, excuses, op, current, crashes>>

\* cleanupMergedSandboxes keeps a branch with commits that are not in the base.
CleanupCommits(q) ==
  /\ At(q, "cleanup", "commits")
  /\ Goto(q, IF HasCommits THEN "done" ELSE "destroy")
  /\ UNCHANGED <<ticket, theRun, git, reviews, excuses, op, current, crashes>>

CleanupDestroy(q) ==
  /\ At(q, "cleanup", "destroy")
  /\ RemoveSandbox
  /\ Goto(q, "done")
  /\ UNCHANGED <<ticket, theRun, base, made, tainted, reviews, excuses, op, current, crashes>>

\* reconcileMergedTickets: tickets in review or in_progress are read, ...
Reconcile ==
  /\ At(Boot, "reconcile", "read")
  /\ Load(Boot)
  /\ Goto(Boot, IF status \in {"review", "in_progress"} /\ outcome = "passed"
                THEN "commits" ELSE "done")
  /\ UNCHANGED <<ticket, theRun, git, reviews, excuses, op, crashes>>

ReconcileCommits ==
  /\ At(Boot, "reconcile", "commits")
  /\ Goto(Boot, IF HasCommits THEN "done" ELSE "close")
  /\ UNCHANGED <<ticket, theRun, git, reviews, excuses, op, current, crashes>>

(* Mutant of ReconcileClose: without the version check. *)
ReconcileCloseAnyway ==
  /\ At(Boot, "reconcile", "close")
  /\ Write("closed")
  /\ Goto(Boot, "done")
  /\ UNCHANGED <<promises, theRun, git, reviews, excuses, op, crashes>>

\* ... and closed when the newest run passed and nothing is left to land, unless the
\* ticket was written in between.
ReconcileClose ==
  /\ At(Boot, "reconcile", "close")
  /\ IF Boot \in current THEN Write("closed") ELSE UNCHANGED <<status, current>>
  /\ Goto(Boot, "done")
  /\ UNCHANGED <<promises, theRun, git, reviews, excuses, op, crashes>>

-----------------------------------------------------------------------------
(* The operator's edits, crashes *)

\* A promote has read the ticket that it is about to reopen.
Reopening == \E q \in current : At(q, "promote", "reopen")

\* PATCH /tickets/:id: "Request changes" plans again; close; reopen.  Any other edit,
\* of the title or the body (the gate override writes the body), keeps the status, but
\* makes all copies of the ticket stale as well: a promote whose merge has failed then
\* cannot reopen the ticket.
Patch ==
  /\ \/ (\E s \in {"planned", "closed"} \ {status} : Write(s)) /\ PromisesEnd
     \/ /\ Write(status) /\ UNCHANGED due
        /\ stranded' = IF Reopening THEN stranded \cup due ELSE stranded
  /\ UNCHANGED <<theRun, git, reviews, excuses, op, pc, crashes>>

\* The server dies: requests are lost, and the boot that follows reconciles.
Crash ==
  /\ crashes < MaxCrashes
  /\ crashes' = crashes + 1
  /\ run' = IF Active THEN "orphan" ELSE "over"
  /\ op' = [op EXCEPT ![Boot] = "reconcile"]
  /\ pc' = [q \in Requests |-> IF q = Boot THEN "read"
                               ELSE IF pc[q] = "idle" THEN "idle" ELSE "done"]
  /\ current' = {}
  /\ UNCHANGED <<ticket, last, outcome, violating, waived, git, reviews, excuses>>

-----------------------------------------------------------------------------
(* Specification *)

RunStep == StartRun \/ Claim \/ WorkEnds \/ EnterReview \/ Verdict \/ SettleRun \/ OrphanEnds

RequestStep(q) ==
  \/ Ask(q) \/ NotBusy(q) \/ Policy(q)
  \/ ReadVerdict(q) \/ ReadCommits(q) \/ Close(q) \/ Merge(q) \/ MergeFailed(q) \/ Reopen(q)
  \/ DropSandbox(q) \/ Approve(q) \/ Waive(q) \/ ReadTicket(q) \/ Discard(q)
  \/ DiscardBounce(q) \/ CleanupCommits(q) \/ CleanupDestroy(q)

Next ==
  \/ RunStep
  \/ \E q \in Requests : RequestStep(q)
  \/ Reconcile \/ ReconcileCommits \/ ReconcileClose
  \/ Patch \/ Crash

Spec == Init /\ [][Next]_vars

-----------------------------------------------------------------------------
(* Properties *)

\* Only what somebody passed lands: a promote never merges a commit that came onto
\* the branch after the review it relies on (the promote gate and lastVerdict).
LandedWasPassed == base \subseteq passed

\* Promote merges nothing while the newest run's protected-path violations are not
\* waived.
PolicyHonoured == [][base' # base => ~violating \/ waived]_vars

\* Commits that have not landed are only ever destroyed by a discard: neither the
\* cleanup nor the end of a promote takes unmerged work with it.
WorkKept ==
  [][\A c \in branch \ base :
       c \in branch' \/ \E q \in Requests : At(q, "discard", "destroy") /\ pc'[q] # pc[q]]_vars

\* A ticket that promote closed has its code in the base, once no promote is at work:
\* "a closed ticket whose code never landed is worse than the race".  The one way
\* around it, short of a crash, is an edit of the ticket between the two steps of the
\* compensation: getTicket, the comment, updateTicket.
MergeOrReopen ==
  status = "closed" /\ crashes = 0 /\ (\A q \in Requests : op[q] = "promote" => pc[q] = "done")
    => due \subseteq base \cup stranded

\* The boot reconciliation never closes a ticket that has work to land or a run under
\* way, whatever happened since it looked.
ReconcilesLanded ==
  [][At(Boot, "reconcile", "close") /\ pc'[Boot] = "done" /\ status' # status
       => ~HasCommits /\ ~Active]_vars

\* "Promote is impossible mid-run" (README.md).
PromoteWhileIdle == [][base' # base => ~Active]_vars

\* "A protected-path violation is a durable fact on the run row; a normal Approve
\* cannot clear it" (waive-policy): what a run recorded lands only after a waiver.
ProtectedNeedsWaiver == base \cap recorded \subseteq excused

(***************************************************************************)
(* The inductive invariant behind LandedWasPassed, when no run starts      *)
(* while a request is being served.  A verdict counts only until the next  *)
(* run starts, and a run writes its verdict after its last commit; so as   *)
(* long as a verdict counts, it covers the whole branch.                   *)
(***************************************************************************)
ServedAlone ==
  Active => \A q \in Requests \ {Boot} : pc[q] \in {"idle", "busy", "done"}

VerdictComesLast ==
  /\ verdict.run <= last
  /\ run \in {"begin", "work", "review", "verdict"} => verdict.run < last

VerdictCovers == LastVerdict = "pass" => branch \subseteq passed

PassedAhead ==
  \A q \in Requests :
    op[q] = "promote" /\ pc[q] \in {"commits", "close", "merge"} => branch \subseteq passed

PromoteInv ==
  /\ TypeOK
  /\ op[Boot] \in {"none", "reconcile"}
  /\ ServedAlone /\ VerdictComesLast /\ VerdictCovers /\ PassedAhead
  /\ LandedWasPassed
=============================================================================

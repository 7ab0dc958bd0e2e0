----------------------------- MODULE ForgeRuns -----------------------------
(***************************************************************************)
(* The life of forge runs (src/forge/runs.ts): the admission checks of     *)
(* startPipeline, the plan / work / review pipeline, stop, the stall       *)
(* sweep, and what a restart of the server does with the runs it finds.    *)
(*                                                                         *)
(* The code runs on one Node event loop, so an action is what happens      *)
(* between two awaits that matter; other requests, timers and the agents'  *)
(* operating system processes interleave between actions.                  *)
(*                                                                         *)
(* Abstracted: what agents write and say (an outcome is a choice), prompts *)
(* and logs, accounts and retries on them, comments other than the effect  *)
(* of a verdict, the trimming of finished runs, promote and discard.       *)
(* Comments and git commands succeed; the several reviewers of an          *)
(* oversized diff count as one agent.                                      *)
(***************************************************************************)
EXTENDS Naturals, FiniteSets

CONSTANTS
  Tickets,
  Runs,        \* start requests; each becomes at most one run
  TicketOf,    \* the ticket each request is about
  None,        \* no run
  MaxActive,   \* the setting forge.maxActiveRuns
  Hazards,     \* the adversities of this instance, see below
  Patches,     \* statuses an operator may give a ticket while runs go on
  MaxCrashes   \* bound: how often the server dies

\* "overlap":   start requests overlap each other and the boot scan
\* "edit":      an edit of the ticket can beat a run's own status write
\* "wedged":    a killed agent may live on, and what follows a kill may take longer
\*              than the minute to the next stall sweep
\* "spawnloss": the server may die between a spawn and the write of its pid
HazardKinds == {"overlap", "edit", "wedged", "spawnloss"}

Statuses == {"open", "planned", "in_progress", "review", "closed"}

ASSUME ForgeAssumption ==
  /\ None \notin Runs
  /\ TicketOf \in [Runs -> Tickets]
  /\ MaxActive \in Nat \ {0}
  /\ Hazards \subseteq HazardKinds
  /\ Patches \subseteq Statuses
  /\ MaxCrashes \in Nat

VARIABLES
  status,    \* tickets.status
  row,       \* forge_runs.status; "running" means finished_at is null
  rowStage,  \* forge_runs.stage
  unsaved,   \* runs whose row does not name the agent spawned last
  latest,    \* per ticket, the run with the newest row
  rs,        \* status of the in-memory Run; "none": not in the runs map
  pc,        \* where the request, its pipeline or its log tail is
  mode,      \* resumeStage of the request, or "reattached"
  stage,     \* stage of the in-memory Run
  fate,      \* what becomes of the run once its pipeline has cleaned up
  stopped,   \* runs with stopped set
  stalled,   \* runs with stallReason set
  sweeping,  \* runs whose work the stall sweep is saving
  checks,    \* runs whose check commands are executing
  agent,     \* the OS process of the current stage
  dirty,     \* tickets whose sandbox has uncommitted edits
  commits,   \* tickets whose branch has commits to promote
  scan,      \* rows the boot scan has fetched and not yet handled
  up,        \* the server is running
  crashes

memory   == <<rs, mode, stage, fate, stopped, stalled, sweeping, checks>>
database == <<status, row, rowStage, unsaved, latest>>
disk     == <<dirty, commits>>
server   == <<scan, up, crashes>>
vars     == <<pc, memory, database, agent, disk, server>>

Stages    == {"plan", "work", "review"}
Resumable == {"interrupted", "failed", "stopped"}       \* RESUMABLE_STATUSES
Settled   == Resumable \cup {"passed", "rejected"}
Modes     == {"fresh", "work", "review"}
Asking    == {"busy", "cap", "read", "register"}
Awaiting  == {"plan", "work", "review"}                 \* run.child is set
Pipeline  == Awaiting \cup {"begin", "claim", "prep", "save", "bounce", "report",
                            "review0", "gate", "checks", "verdict", "tail"}
Over      == {"idle", "refused", "end", "lost"}
Live      == {"reader", "worker"}  \* a worker edits the sandbox, a reader a throwaway view
Gone      == {"read", "worked"}

TypeOK ==
  /\ status \in [Tickets -> Statuses]
  /\ row \in [Runs -> {"none", "running"} \cup Settled]
  /\ rowStage \in [Runs -> Stages]
  /\ unsaved \in SUBSET Runs
  /\ latest \in [Tickets -> Runs \cup {None}]
  /\ rs \in [Runs -> {"none", "running"} \cup Settled]
  /\ pc \in [Runs -> Asking \cup Pipeline \cup Over]
  /\ mode \in [Runs -> Modes \cup {"reattached"}]
  /\ stage \in [Runs -> Stages]
  /\ fate \in [Runs -> {"none", "report", "benign", "failed", "stopped"}]
  /\ stopped \in SUBSET Runs
  /\ stalled \in SUBSET Runs
  /\ sweeping \in SUBSET Runs
  /\ checks \in SUBSET Runs
  /\ agent \in [Runs -> Live \cup Gone \cup {"none", "reused"}]
  /\ dirty \in SUBSET Tickets
  /\ commits \in SUBSET Tickets
  /\ scan \in SUBSET Runs
  /\ up \in BOOLEAN
  /\ crashes \in 0..MaxCrashes

Init ==
  /\ status = [t \in Tickets |-> "open"]
  /\ row = [r \in Runs |-> "none"]
  /\ rowStage = [r \in Runs |-> "plan"]
  /\ unsaved = {}
  /\ latest = [t \in Tickets |-> None]
  /\ rs = [r \in Runs |-> "none"]
  /\ pc = [r \in Runs |-> "idle"]
  /\ mode = [r \in Runs |-> "fresh"]
  /\ stage = [r \in Runs |-> "plan"]
  /\ fate = [r \in Runs |-> "none"]
  /\ stopped = {} /\ stalled = {} /\ sweeping = {} /\ checks = {}
  /\ agent = [r \in Runs |-> "none"]
  /\ dirty = {} /\ commits = {}
  /\ scan = {} /\ up = TRUE /\ crashes = 0

-----------------------------------------------------------------------------
(* Helpers *)

Goto(r, to) == pc' = [pc EXCEPT ![r] = to]

(* Mutant of ActiveRuns: reattached runs are not counted. *)
ActiveRunsOwn == {r \in Runs : rs[r] = "running" /\ mode[r] # "reattached"}

ActiveRuns == {r \in Runs : rs[r] = "running"}

\* The settle write is on its way: the database still shows the run as active.
Unwritten(r) == rs[r] \in Settled /\ row[r] = "running"

HasActiveRun(t) ==
  \E r \in Runs : TicketOf[r] = t /\ (rs[r] = "running" \/ row[r] = "running")

\* In memory when this process knows the newest run, its row otherwise.
LatestRunStatus(t) ==
  LET r == latest[t] IN
  IF r = None THEN "none" ELSE IF rs[r] # "none" THEN rs[r] ELSE row[r]

(* Mutant of Settle: a later settle overrides the first. *)
SettleAgain(r, s) == rs' = [rs EXCEPT ![r] = s]

\* The first settle wins.
Settle(r, s) == rs' = [rs EXCEPT ![r] = IF @ = "running" THEN s ELSE @]

(* Mutant of Bounce: a bounce only comments. *)
BounceOnlyComments(t) == UNCHANGED status

\* An in_progress ticket goes back to planned; a stale version is swallowed.
Bounce(t) ==
  \/ /\ status[t] = "in_progress"
     /\ status' = [status EXCEPT ![t] = "planned"]
  \/ /\ status[t] = "in_progress" => "edit" \in Hazards
     /\ UNCHANGED status

\* setStatus, and on to the next step; a closed ticket or two stale versions
\* throw, which the pipeline's catch turns into a failed run.
SetStatus(r, s, to) ==
  \/ /\ status[TicketOf[r]] # "closed"
     /\ status' = [status EXCEPT ![TicketOf[r]] = s]
     /\ Goto(r, to)
     /\ UNCHANGED fate
  \/ /\ status[TicketOf[r]] = "closed" \/ "edit" \in Hazards
     /\ Goto(r, "bounce")
     /\ fate' = [fate EXCEPT ![r] = "failed"]
     /\ UNCHANGED status

\* forgeCommit: a no-op on a clean tree.
Commit(t) ==
  /\ commits' = IF t \in dirty THEN commits \cup {t} ELSE commits
  /\ dirty' = dirty \ {t}

Dead(kind) == IF kind = "worker" THEN "worked" ELSE "read"

\* killTree and killPidTree give up after a while.
Kill(r) ==
  \/ /\ agent[r] \in Live
     /\ agent' = [agent EXCEPT ![r] = Dead(@)]
  \/ /\ agent[r] \in Live => "wedged" \in Hazards
     /\ UNCHANGED agent

\* recordSpawn, which kills the agent of a run stopped in the meantime.
Spawn(r, kind) ==
  /\ \/ r \notin stopped /\ agent' = [agent EXCEPT ![r] = kind]
     \/ r \in stopped /\ agent' = [agent EXCEPT ![r] = Dead(kind)]
     \/ r \in stopped /\ "wedged" \in Hazards /\ agent' = [agent EXCEPT ![r] = kind]
  /\ unsaved' = unsaved \cup {r}

-----------------------------------------------------------------------------
(* Asking for a run: the routes, then startPipeline *)

\* listInterruptedRuns: how the newest run of t can be resumed, if it can.
ResumeMode(t) ==
  LET r == latest[t] IN
  IF rowStage[r] = "plan" THEN "fresh"
  ELSE IF t \in commits THEN "review"
  ELSE IF rowStage[r] = "work" THEN "work" ELSE "none"

(* Mutant of ResumeModes: without the exception for a crash that left the ticket *)
(* in_progress.                                                                   *)
ResumeModesByStage(t) ==
  IF latest[t] # None /\ row[latest[t]] \in Resumable /\ status[t] # "closed"
  THEN {ResumeMode(t)} \cap {"work", "review"} ELSE {}

\* What POST /forge/tickets/:id/resume asks for, apart from a fresh start.
ResumeModes(t) ==
  LET known == latest[t] # None /\ row[latest[t]] \in Resumable /\ status[t] # "closed"
  IN  IF known /\ ResumeMode(t) = "none" THEN {}
      ELSE IF status[t] = "in_progress" /\ LatestRunStatus(t) = "interrupted" THEN {"work"}
      ELSE IF known THEN {ResumeMode(t)} \cap {"work", "review"} ELSE {}

\* What .../rework asks for: Continue after a rejection.
ReworkModes(t) ==
  IF ~HasActiveRun(t) /\ LatestRunStatus(t) = "rejected" THEN {"work"} ELSE {}

\* A request comes in; without overlap, when nobody else is starting and the boot
\* scan is over.
Request(r) ==
  /\ pc[r] = "idle" /\ up
  /\ "overlap" \notin Hazards => scan = {} /\ \A q \in Runs : pc[q] \notin Asking
  /\ \E m \in {"fresh"} \cup ResumeModes(TicketOf[r]) \cup ReworkModes(TicketOf[r]) :
       mode' = [mode EXCEPT ![r] = m]
  /\ Goto(r, "busy")
  /\ UNCHANGED <<database, rs, stage, fate, stopped, stalled, sweeping, checks,
                 agent, disk, server>>

(* Mutant of CheckBusy: the active runs of the ticket are not looked at. *)
CheckBusyNever(r) ==
  /\ pc[r] = "busy" /\ up
  /\ Goto(r, "cap")
  /\ UNCHANGED <<memory, database, agent, disk, server>>

\* activeRuns() has no run of this ticket.
CheckBusy(r) ==
  /\ pc[r] = "busy" /\ up
  /\ Goto(r, IF \E q \in ActiveRuns : TicketOf[q] = TicketOf[r] THEN "refused" ELSE "cap")
  /\ UNCHANGED <<memory, database, agent, disk, server>>

\* After the await of the setting: fewer runs than the cap.
CheckCap(r) ==
  /\ pc[r] = "cap" /\ up
  /\ Goto(r, IF Cardinality(ActiveRuns) < MaxActive THEN "read" ELSE "refused")
  /\ UNCHANGED <<memory, database, agent, disk, server>>

\* The ticket is read and its status, or the branch for a resume to review,
\* allows the start.  The embedded database executes statements in order, so the
\* settle writes issued before this read are done when it answers.
ReadTicket(r) ==
  /\ pc[r] = "read" /\ up
  /\ \A q \in Runs : ~Unwritten(q)
  /\ LET t == TicketOf[r]
         allowed == CASE mode[r] = "review" -> t \in commits
                      [] mode[r] = "work" -> status[t] \in {"open", "planned", "in_progress"}
                      [] OTHER -> status[t] \in {"open", "planned"}
     IN  Goto(r, IF allowed THEN "register" ELSE "refused")
  /\ UNCHANGED <<memory, database, agent, disk, server>>

\* runs.set and the first persistRun; from here on the run is active.
Register(r) ==
  /\ pc[r] = "register" /\ up
  /\ rs' = [rs EXCEPT ![r] = "running"]
  /\ row' = [row EXCEPT ![r] = "running"]
  /\ latest' = [latest EXCEPT ![TicketOf[r]] = r]
  /\ Goto(r, "begin")
  /\ UNCHANGED <<status, rowStage, unsaved, mode, stage, fate, stopped, stalled,
                 sweeping, checks, agent, disk, server>>

-----------------------------------------------------------------------------
(* The pipeline: plan and work *)

\* Straight to review, straight to work with the plan there is, or plan first.  A
\* request for work is only made when a plan exists, and keeps it unless the ticket
\* is open; a fresh start plans again when the spec was edited since.
Begin(r) ==
  /\ pc[r] = "begin" /\ up
  /\ \/ /\ mode[r] = "review"
        /\ stage' = [stage EXCEPT ![r] = "review"]
        /\ Goto(r, "review0")
        /\ UNCHANGED <<agent, unsaved>>
     \/ /\ mode[r] # "review" /\ status[TicketOf[r]] # "open"
        /\ Goto(r, "claim")
        /\ UNCHANGED <<stage, agent, unsaved>>
     \/ /\ mode[r] = "fresh" \/ (mode[r] = "work" /\ status[TicketOf[r]] = "open")
        /\ Goto(r, "plan")
        /\ Spawn(r, "reader")
        /\ UNCHANGED stage
  /\ UNCHANGED <<status, row, rowStage, latest, rs, mode, fate, stopped, stalled,
                 sweeping, checks, disk, server>>

\* The planner is done: stopped, stalled or failed, else the plan is posted.
AfterPlan(r) ==
  /\ pc[r] = "plan" /\ up /\ agent[r] \notin Live
  /\ \/ /\ r \in stopped
        /\ Settle(r, "stopped")
        /\ Goto(r, "end")
        /\ UNCHANGED <<status, fate>>
     \/ /\ r \notin stopped
        /\ Goto(r, "bounce")
        /\ fate' = [fate EXCEPT ![r] = "failed"]
        /\ UNCHANGED <<status, rs>>
     \/ /\ r \notin stopped \cup stalled
        /\ SetStatus(r, "planned", "claim")
        /\ UNCHANGED rs
  /\ UNCHANGED <<row, rowStage, unsaved, latest, mode, stage, stopped, stalled,
                 sweeping, checks, agent, disk, server>>

\* enterStage("work") and the claim.
Claim(r) ==
  /\ pc[r] = "claim" /\ up
  /\ stage' = [stage EXCEPT ![r] = "work"]
  /\ SetStatus(r, "in_progress", "prep")
  /\ UNCHANGED <<row, rowStage, unsaved, latest, rs, mode, stopped, stalled,
                 sweeping, checks, agent, disk, server>>

\* The sandbox is made or reused and the worker starts; a failure here throws.
Prep(r) ==
  /\ pc[r] = "prep" /\ up
  /\ \/ Goto(r, "work") /\ Spawn(r, "worker") /\ UNCHANGED fate
     \/ /\ Goto(r, "bounce") /\ fate' = [fate EXCEPT ![r] = "failed"]
        /\ UNCHANGED <<agent, unsaved>>
  /\ UNCHANGED <<status, row, rowStage, latest, rs, mode, stage, stopped, stalled,
                 sweeping, checks, disk, server>>

\* The worker is done.  In this order: it escaped the sandbox or leaked into the
\* dependencies, the run is stalled, it is stopped, the worker failed (perhaps
\* with an error known to be harmless), the worker succeeded.
AfterWork(r) ==
  /\ pc[r] = "work" /\ up /\ agent[r] \notin Live
  /\ \E f \in {"failed"}
           \cup (IF r \in stalled THEN {}
                 ELSE IF r \in stopped THEN {"stopped"} ELSE {"benign", "report"}) :
       fate' = [fate EXCEPT ![r] = f]
  /\ Goto(r, "save")
  /\ UNCHANGED <<database, rs, mode, stage, stopped, stalled, sweeping, checks,
                 agent, disk, server>>

(* Mutant of Save: the stop path forgets the WIP commit. *)
SaveUnlessStopped(r) ==
  /\ pc[r] = "save" /\ up
  /\ IF fate[r] = "stopped" THEN UNCHANGED disk ELSE Commit(TicketOf[r])
  /\ Goto(r, IF fate[r] \in {"report", "benign"} THEN "report" ELSE "bounce")
  /\ UNCHANGED <<database, memory, agent, server>>

\* forgeCommit on every path.  A harmless failure goes on to review only if it
\* saved something and nobody stopped or stalled the run meanwhile.
Save(r) ==
  /\ pc[r] = "save" /\ up
  /\ Commit(TicketOf[r])
  /\ \/ fate[r] = "report" /\ Goto(r, "report") /\ UNCHANGED fate
     \/ /\ fate[r] = "benign" /\ TicketOf[r] \in dirty /\ r \notin stopped \cup stalled
        /\ Goto(r, "report") /\ UNCHANGED fate
     \/ fate[r] = "benign" /\ Goto(r, "bounce") /\ fate' = [fate EXCEPT ![r] = "failed"]
     \/ fate[r] \in {"failed", "stopped"} /\ Goto(r, "bounce") /\ UNCHANGED fate
  /\ UNCHANGED <<database, rs, mode, stage, stopped, stalled, sweeping, checks,
                 agent, server>>

\* The end of every failing path: bounce, then settle.
BounceAndSettle(r) ==
  /\ pc[r] = "bounce" /\ up
  /\ Bounce(TicketOf[r])
  /\ Settle(r, fate[r])
  /\ Goto(r, "end")
  /\ UNCHANGED <<row, rowStage, unsaved, latest, mode, stage, fate, stopped, stalled,
                 sweeping, checks, agent, disk, server>>

\* The report is posted and the ticket goes to review.
Report(r) ==
  /\ pc[r] = "report" /\ up
  /\ SetStatus(r, "review", "review0")
  /\ UNCHANGED <<row, rowStage, unsaved, latest, rs, mode, stage, stopped, stalled,
                 sweeping, checks, agent, disk, server>>

-----------------------------------------------------------------------------
(* The pipeline: review *)

\* reviewStage up to the base sync: stopped, in conflict with the base (a FAIL
\* comment, then as Verdict), a failing sandbox, or on to the gate.
EnterReview(r) ==
  /\ pc[r] = "review0" /\ up
  /\ stage' = [stage EXCEPT ![r] = "review"]
  /\ \/ r \in stopped /\ Settle(r, "stopped") /\ Goto(r, "end") /\ UNCHANGED <<status, fate>>
     \/ r \notin stopped /\ Goto(r, "gate") /\ UNCHANGED <<status, rs, fate>>
     \/ /\ r \notin stopped
        /\ Goto(r, "bounce")
        /\ fate' = [fate EXCEPT ![r] = "failed"]
        /\ UNCHANGED <<status, rs>>
     \/ /\ r \notin stopped
        /\ SetStatus(r, "planned", "end")
        /\ IF pc'[r] = "end" THEN Settle(r, "rejected") ELSE UNCHANGED rs
  /\ UNCHANGED <<row, rowStage, unsaved, latest, mode, stopped, stalled, sweeping,
                 checks, agent, disk, server>>

\* The mechanical gate ran: the check commands start, and next to them the
\* reviewer, unless the run was stalled meanwhile.
Gate(r) ==
  /\ pc[r] = "gate" /\ up
  /\ \/ /\ r \in stopped /\ Settle(r, "stopped") /\ Goto(r, "end")
        /\ UNCHANGED <<checks, agent, unsaved>>
     \/ /\ r \notin stopped
        /\ checks' = checks \cup {r}
        /\ Goto(r, "review")
        /\ IF r \in stalled THEN UNCHANGED <<agent, unsaved>> ELSE Spawn(r, "reader")
        /\ UNCHANGED rs
  /\ UNCHANGED <<status, row, rowStage, latest, mode, stage, fate, stopped, stalled,
                 sweeping, disk, server>>

\* The reviewer is done.  Only a stop does not wait for the checks.
AfterReview(r) ==
  /\ pc[r] = "review" /\ up /\ agent[r] \notin Live
  /\ \/ /\ r \in stopped /\ Settle(r, "stopped") /\ Goto(r, "end")
        /\ UNCHANGED fate
     \/ /\ r \notin stopped /\ r \in stalled /\ r \notin checks
        /\ Goto(r, "bounce") /\ fate' = [fate EXCEPT ![r] = "failed"]
        /\ UNCHANGED rs
     \/ r \notin stopped \cup stalled /\ Goto(r, "checks") /\ UNCHANGED <<rs, fate>>
  /\ UNCHANGED <<database, mode, stage, stopped, stalled, sweeping, checks,
                 agent, disk, server>>

ChecksDone(r) ==
  /\ r \in checks /\ up
  /\ checks' = checks \ {r}
  /\ UNCHANGED <<pc, database, rs, mode, stage, fate, stopped, stalled, sweeping,
                 agent, disk, server>>

(* Mutant of AfterChecks: nobody waits for the checks. *)
AfterChecksEarly(r) ==
  /\ pc[r] = "checks" /\ up
  /\ Goto(r, "bounce") /\ fate' = [fate EXCEPT ![r] = "failed"]
  /\ UNCHANGED <<database, rs, mode, stage, stopped, stalled, sweeping, checks,
                 agent, disk, server>>

\* The last look at stopped; then a reviewer that failed or wrote files, or a verdict.
AfterChecks(r) ==
  /\ pc[r] = "checks" /\ up /\ r \notin checks
  /\ \/ /\ r \in stopped /\ Settle(r, "stopped") /\ Goto(r, "end")
        /\ UNCHANGED fate
     \/ /\ r \notin stopped
        /\ Goto(r, "bounce") /\ fate' = [fate EXCEPT ![r] = "failed"]
        /\ UNCHANGED rs
     \/ r \notin stopped /\ Goto(r, "verdict") /\ UNCHANGED <<rs, fate>>
  /\ UNCHANGED <<database, mode, stage, stopped, stalled, sweeping, checks,
                 agent, disk, server>>

\* The review comment is written; a FAIL sends the ticket back to planned.
Verdict(r) ==
  /\ pc[r] = "verdict" /\ up
  /\ \/ Settle(r, "passed") /\ Goto(r, "end") /\ UNCHANGED <<status, fate>>
     \/ /\ SetStatus(r, "planned", "end")
        /\ IF pc'[r] = "end" THEN Settle(r, "rejected") ELSE UNCHANGED rs
  /\ UNCHANGED <<row, rowStage, unsaved, latest, mode, stage, stopped, stalled,
                 sweeping, checks, agent, disk, server>>

-----------------------------------------------------------------------------
(* Stop, the stall sweep, database writes, agents, the operator *)

StopRun(r) ==
  /\ up /\ rs[r] = "running" /\ r \notin stopped
  /\ stopped' = stopped \cup {r}
  /\ Kill(r)
  /\ UNCHANGED <<pc, database, rs, mode, stage, fate, stalled, sweeping, checks,
                 disk, server>>

\* The sweep finds a run silent for the whole window.  With a child in flight it
\* kills it and leaves the rest to the pipeline; without one it takes the run for
\* a reattached survivor and saves the work itself.  Between agents only the gate's
\* probes and the checks last long enough to look silent.
Stall(r) ==
  /\ up /\ rs[r] = "running" /\ r \notin stalled
  /\ pc[r] \in Awaiting \cup {"tail", "gate", "checks"}
  /\ stalled' = stalled \cup {r}
  /\ sweeping' = IF pc[r] \in Awaiting THEN sweeping ELSE sweeping \cup {r}
  /\ Kill(r)
  /\ UNCHANGED <<pc, database, rs, mode, stage, fate, stopped, checks, disk, server>>

SweepSave(r) ==
  /\ up /\ r \in sweeping
  /\ IF stage[r] = "work" THEN Commit(TicketOf[r]) ELSE UNCHANGED disk
  /\ Bounce(TicketOf[r])
  /\ Settle(r, "failed")
  /\ sweeping' = sweeping \ {r}
  /\ UNCHANGED <<pc, row, rowStage, unsaved, latest, mode, stage, fate, stopped,
                 stalled, checks, agent, server>>

(* Mutant of SweepForce: a run that was stalled once is never looked at again. *)
SweepForceNever(r) == FALSE /\ UNCHANGED vars

\* The next sweep settles a run whose pipeline did not come back.
SweepForce(r) ==
  /\ "wedged" \in Hazards /\ up /\ rs[r] = "running" /\ r \in stalled
  /\ Settle(r, "failed")
  /\ UNCHANGED <<pc, database, mode, stage, fate, stopped, stalled, sweeping, checks,
                 agent, disk, server>>

PersistSpawn(r) ==
  /\ up /\ r \in unsaved /\ rs[r] # "none"
  /\ unsaved' = unsaved \ {r}
  /\ rowStage' = [rowStage EXCEPT ![r] = stage[r]]
  /\ UNCHANGED <<pc, status, row, latest, memory, agent, disk, server>>

PersistSettle(r) ==
  /\ up /\ Unwritten(r)
  /\ row' = [row EXCEPT ![r] = rs[r]]
  /\ rowStage' = [rowStage EXCEPT ![r] = stage[r]]
  /\ unsaved' = unsaved \ {r}
  /\ UNCHANGED <<pc, status, latest, memory, agent, disk, server>>

AgentExit(r) ==
  /\ agent[r] \in Live
  /\ agent' = [agent EXCEPT ![r] = Dead(@)]
  /\ UNCHANGED <<pc, memory, database, disk, server>>

AgentEdit(r) ==
  /\ agent[r] = "worker" /\ TicketOf[r] \notin dirty
  /\ dirty' = dirty \cup {TicketOf[r]}
  /\ UNCHANGED <<pc, memory, database, agent, commits, server>>

\* PATCH /tickets/:id by an operator.
Patch(t) ==
  /\ up
  /\ \E s \in Patches \ {status[t]} : status' = [status EXCEPT ![t] = s]
  /\ UNCHANGED <<pc, row, rowStage, unsaved, latest, memory, agent, disk, server>>

-----------------------------------------------------------------------------
(* The server dies and comes back *)

\* Memory is lost.  Agents are detached and survive, except those of the sdk and
\* http lanes, which have no process of their own.
Crash ==
  /\ up /\ crashes < MaxCrashes
  /\ "spawnloss" \in Hazards \/ unsaved = {}
  /\ up' = FALSE
  /\ crashes' = crashes + 1
  /\ \E S \in SUBSET {r \in Runs : agent[r] \in Live} :
       agent' = [r \in Runs |-> IF r \in S THEN Dead(agent[r]) ELSE agent[r]]
  /\ rs' = [r \in Runs |-> "none"]
  /\ pc' = [r \in Runs |-> IF pc[r] \in Over THEN pc[r] ELSE "lost"]
  /\ mode' = [r \in Runs |-> "fresh"]
  /\ stage' = [r \in Runs |-> "plan"]
  /\ fate' = [r \in Runs |-> "none"]
  /\ stopped' = {} /\ stalled' = {} /\ sweeping' = {} /\ checks' = {} /\ scan' = {}
  /\ UNCHANGED <<database, disk>>

\* While the server is down the OS gives the pid of a dead agent to another program.
ReusePid(r) ==
  /\ ~up /\ agent[r] \in Gone /\ row[r] = "running" /\ r \notin unsaved
  /\ agent' = [agent EXCEPT ![r] = "reused"]
  /\ UNCHANGED <<pc, memory, database, disk, server>>

\* Boot: the reaper bounces in_progress tickets nothing has touched for long, and
\* markInterruptedRuns fetches the rows without finished_at.
Restart ==
  /\ ~up
  /\ up' = TRUE
  /\ scan' = {r \in Runs : row[r] = "running"}
  /\ \E S \in SUBSET {t \in Tickets : status[t] = "in_progress"} :
       status' = [t \in Tickets |-> IF t \in S THEN "planned" ELSE status[t]]
  /\ UNCHANGED <<pc, row, rowStage, unsaved, latest, memory, agent, disk, crashes>>

(* Mutants of OwnAgentAlive: a pid that answers is taken for the agent; survivors *)
(* are given up.                                                                   *)
PidAnswers(r) == r \notin unsaved /\ agent[r] \in Live \cup {"reused"}
NobodyOurs(r) == FALSE

\* The row names a pid that is alive and was started when the row says.
OwnAgentAlive(r) == r \notin unsaved /\ agent[r] \in Live

\* One row of the boot scan: reattach to a survivor, or mark it interrupted.
ScanRow(r) ==
  /\ up /\ r \in scan
  /\ scan' = scan \ {r}
  /\ IF OwnAgentAlive(r)
       THEN /\ rs' = [rs EXCEPT ![r] = "running"]
            /\ stage' = [stage EXCEPT ![r] = rowStage[r]]
            /\ mode' = [mode EXCEPT ![r] = "reattached"]
            /\ Goto(r, "tail")
            /\ UNCHANGED row
       ELSE /\ row' = [row EXCEPT ![r] = "interrupted"]
            /\ UNCHANGED <<rs, stage, mode, pc>>
  /\ UNCHANGED <<status, rowStage, unsaved, latest, fate, stopped, stalled, sweeping,
                 checks, agent, disk, up, crashes>>

\* tailUntilExit, one poll; it holds off while the stall sweep is saving the work.
TailEnd(r) ==
  /\ pc[r] = "tail" /\ up
  /\ r \in stalled => rs[r] # "running"
  /\ r \in stopped \/ agent[r] \in Gone
  /\ Settle(r, IF r \in stopped THEN "stopped" ELSE "interrupted")
  /\ Goto(r, "end")
  /\ UNCHANGED <<database, mode, stage, fate, stopped, stalled, sweeping, checks,
                 agent, disk, server>>

-----------------------------------------------------------------------------
(* Specification *)

Start(r) == Request(r) \/ CheckBusy(r) \/ CheckCap(r) \/ ReadTicket(r) \/ Register(r)

Continue(r) ==
  \/ Begin(r) \/ AfterPlan(r) \/ Claim(r) \/ Prep(r) \/ AfterWork(r) \/ Save(r)
  \/ BounceAndSettle(r) \/ Report(r) \/ EnterReview(r) \/ Gate(r) \/ AfterReview(r)
  \/ AfterChecks(r) \/ Verdict(r) \/ TailEnd(r)

Next ==
  \/ \E r \in Runs :
       \/ Start(r) \/ Continue(r) \/ ChecksDone(r)
       \/ StopRun(r) \/ Stall(r) \/ SweepSave(r) \/ SweepForce(r)
       \/ PersistSpawn(r) \/ PersistSettle(r)
       \/ AgentExit(r) \/ AgentEdit(r) \/ ReusePid(r) \/ ScanRow(r)
  \/ \E t \in Tickets : Patch(t)
  \/ Crash \/ Restart

\* The event loop, the database and the timers keep going.  Nothing makes an agent
\* exit, but one that does not exit falls silent in the end; requests, stops and
\* crashes need never happen.
Fairness ==
  /\ WF_vars(Restart)
  /\ \A r \in Runs :
       /\ WF_vars(Continue(r))
       /\ WF_vars(ChecksDone(r))
       /\ WF_vars(Stall(r))
       /\ WF_vars(SweepSave(r))
       /\ WF_vars(SweepForce(r))
       /\ WF_vars(PersistSettle(r))
       /\ WF_vars(ScanRow(r))

Spec == Init /\ [][Next]_vars /\ Fairness

-----------------------------------------------------------------------------
(* Properties *)

\* Two runs never work on one ticket at a time: the ConflictError "already has an
\* active run" of startPipeline, across restarts and reattached runs.
OneRunPerTicket ==
  \A p, q \in Runs :
    rs[p] = "running" /\ rs[q] = "running" /\ TicketOf[p] = TicketOf[q] => p = q

\* forge.maxActiveRuns "limits simultaneous pipeline runs" (docs/AGENT_CLIS.md).
CapRespected == Cardinality({r \in Runs : rs[r] = "running"}) <= MaxActive

\* Two workers never edit one sandbox at a time, whatever died in between: a run is
\* only resumed once the agent it left behind is dead or has been adopted.
SoleWorker ==
  \A p, q \in Runs :
    agent[p] = "worker" /\ agent[q] = "worker" /\ TicketOf[p] = TicketOf[q] => p = q

\* A run that failed or was stopped in its work stage has left nothing uncommitted
\* that a later discard would destroy; reattached runs keep their edits in the tree
\* unless the stall sweep saves them.
EditsSaved ==
  \A r \in Runs :
    /\ pc[r] = "end" /\ r \notin sweeping /\ agent[r] = "worked" /\ latest[TicketOf[r]] = r
    /\ rs[r] = "failed" \/ (rs[r] = "stopped" /\ mode[r] # "reattached")
    => TicketOf[r] \notin dirty

\* A failed run whose pipeline is over does not leave its ticket in_progress ("the
\* never-stuck-in_progress invariant", in startPipeline).
NeverStuck ==
  \A r \in Runs :
    pc[r] = "end" /\ r \notin sweeping /\ rs[r] = "failed" /\ latest[TicketOf[r]] = r
      => status[TicketOf[r]] # "in_progress"

\* An in_progress ticket has a run, or can be resumed ("Recover it like a planned ticket",
\* POST .../resume), or was passed and can be promoted: a resume straight to review
\* leaves the status as it finds it.
Recoverable ==
  up /\ scan = {} =>
    \A t \in Tickets :
      status[t] = "in_progress"
        => HasActiveRun(t) \/ ResumeModes(t) # {} \/ LatestRunStatus(t) = "passed"

\* Unless it was stopped or stalled, a run does not settle while its checks still
\* run in the sandbox: "a resume would start a second set" (reviewStage).
ChecksOver ==
  \A r \in checks : rs[r] \in Settled => r \in stopped \cup stalled

\* A run that accepted a stop lands on "stopped", or on "failed" where the pipeline
\* gave up first: stopRun, "so a running stage still lands on stopped".
StopLands == \A r \in stopped : rs[r] \notin {"passed", "rejected"}

\* Pipeline, log tail and both sweeps may all settle a run; the first wins.
SettledIsFinal ==
  [][up' => \A r \in Runs : rs[r] \in Settled => rs'[r] = rs[r]]_vars

\* No agent works for nobody: its run is watched by the server, or, while the server is
\* down or has not yet come to the row, the row is open and names its pid (recordSpawn
\* "persists its pid so a restart can find the live OS process").  And no run watches, and
\* would kill, a stranger's program that was given the pid of its dead agent (the guard
\* "is the point" of markInterruptedRuns).
AgentsWatched ==
  \A r \in Runs :
    /\ agent[r] \in Live =>
         IF up /\ r \notin scan THEN rs[r] = "running"
         ELSE row[r] = "running" /\ r \notin unsaved
    /\ agent[r] = "reused" /\ up /\ r \notin scan => rs[r] # "running"

\* Every run on record is finished in the end, also when its agent wedges, refuses
\* to die or outlives the server; until then promote, approve and rework are refused.
RowsSettle == \A r \in Runs : row[r] = "running" ~> row[r] # "running"

(***************************************************************************)
(* The inductive invariant behind OneRunPerTicket when starts do not       *)
(* overlap.  What counts is the open row, which outlives the server: a     *)
(* ticket has at most one, because a start that got past ReadTicket has    *)
(* seen that there is none, and nobody else can add one before it does.    *)
(***************************************************************************)
StartsAlone ==
  \A r \in Runs : pc[r] \in Asking =>
    up /\ scan = {} /\ \A q \in Runs : pc[q] \in Asking => q = r

FateKnown == \A r \in Runs : pc[r] = "bounce" => fate[r] \in {"failed", "stopped"}

NotYetRun == \A r \in Runs : pc[r] \in Asking \cup {"idle", "refused"} => row[r] = "none"

OpenRowKnown ==
  \A r \in Runs :
    /\ rs[r] = "running" => row[r] = "running"
    /\ r \in scan => row[r] = "running" /\ rs[r] = "none"
    /\ row[r] = "running" /\ up /\ r \notin scan => rs[r] # "none"
    /\ ~up => rs[r] = "none" /\ scan = {}

TicketFree ==
  \A r, q \in Runs :
    TicketOf[q] = TicketOf[r] =>
      /\ pc[r] \in {"cap", "read", "register"} => rs[q] # "running"
      /\ pc[r] = "register" => row[q] # "running"

OneOpenRow ==
  \A p, q \in Runs :
    row[p] = "running" /\ row[q] = "running" /\ TicketOf[p] = TicketOf[q] => p = q

RunInv ==
  /\ TypeOK /\ FateKnown
  /\ StartsAlone /\ NotYetRun /\ OpenRowKnown /\ TicketFree /\ OneOpenRow
=============================================================================

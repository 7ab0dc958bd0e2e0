# VibeOps in TLA+

VibeOps is a local control plane for coding agents. A TypeScript server (`src/src`) keeps work
orders (tickets) in an embedded PGlite database, drives agent CLIs through a plan / work / review
pipeline in git worktrees (the *forge*), and offers chat, council, browser automation, issue sync
and MCP on top. A desktop client (`src/app`) and a Chrome extension (`src/extension`) talk to it.

The server is one Node event loop: what goes wrong in it goes wrong *between two awaits*, between
the server and the processes it spawned, or between two lives of the server. The modules here are
cut along those lines: an action is what the code does from one await that matters to the next.

## Inventory

| Component | State | Operations | Interacts with | Hard because | Correct means |
|---|---|---|---|---|---|
| Embedded database lock (`db/lifecycle.ts`) | lock file with pid and start time, `PG_VERSION` | open, close | other VibeOps processes on the directory | kills, recycled pids, check-then-act on files | one engine per directory; a live lock is kept; a stale one never blocks |
| Forge runs (`forge/runs.ts`, `relay/invoke.ts`) | map of runs, `forge_runs` rows, agent processes | start, resume, rework, stop, stall sweep, boot scan | tickets, sandboxes, agents, database | everything at once: awaits, kills, timeouts, crashes, survivors | one run per ticket; every run settles, once; no work and no ticket lost |
| Landing of work (`api/forge-routes.ts`, `forge/sandbox.ts`) | ticket status and version, branch, base, newest verdict, policy columns | promote, approve, waive, discard, cleanup, reconcile | runs, git, comments | long check-then-act sequences over three stores that share no transaction | only passed work lands; nothing unmerged is destroyed; closed means landed |
| Sandboxes on disk (`forge/sandbox.ts`) | worktrees, links to dependency folders, a manifest of links | create, relink, discard, sweep | runs, the repository's own folders | deleting through a link deletes the repository's folder | the repository's folders are kept; no unmerged work removed |
| Gate and review (`forge/gate.ts`, `policy.ts`, `checks.ts`) | the sandbox's tree while a probe has it at the base | gate, probe, checks, chunked review | sandboxes, reviewer | a probe that is interrupted leaves the tree changed | what is reviewed is the whole change; a pass means a clean gate |
| Boot recovery (`api/server.ts`, `services/reaper.ts`) | rows of the last life | mark interrupted, reattach, reconcile, reap | runs, tickets | pids that answer but are not ours | an interrupted ticket can always go on |
| Browser channel (`browser/channel.ts`, `extension/worker.js`) | per instance a queue, a batch in flight, a held poll | register, poll, submit, result | routes, chat and MCP tools, extension | a worker that Chrome kills, lost connections, timers | at most one execution, one answer; the queue never stalls |
| Browser page (`extension/segments.js`, `execute.js`, `snapshot.js`) | tabs, numbered references, results of steps | snapshot, steps of a batch | channel, grants, pages | pages that leave and change between snapshot and step | steps act on the elements and the site they were allowed for; the answer tells what was done |
| Browser grants (`browser/grants.ts`, `pending-grants.ts`, `risk.ts`) | one JSON setting, one-shot grants, a ledger of calls | allow, take, look up, drain | chat, MCP, channel | read-modify-write of a whole setting | every act was allowed; each one-shot is used once |
| Chat (`chat/turns.ts`, `store.ts`, `http-lane.ts`) | running set, live output, messages | start turn, tools, delete, rename | agents, knowledge index | deletion next to a starting turn | one turn per session; nothing indexed for a deleted one |
| Council (`council/runs.ts`, `store.ts`, `briefing.ts`) | sessions in memory and one snapshot | start, answer, resume, make ticket, restore | agents, tickets | snapshots not awaited; late personas | what is shown as running runs; failed sessions can resume |
| Accounts and invocations (`relay/accounts.ts`, `account-state.ts`, `invoke*.ts`) | state per account in settings; a child process | choose, mark, invoke, kill | forge, chat, council | exit, close, timeout and poll race; whole-value writes | every invocation ends once; an exhausted account stays marked |
| Relay configuration (`relay/config.ts`, `bootstrap-config.ts`, `doctor.ts`, `forge/sentinel.ts`) | `relay.json` and its copy, doctor cache, guards of a run | load, write, bootstrap, guard | routes, runs | whole-file writers; a guard that restores bytes | the file loads; a run's tampering is undone and seen |
| Relay runner (`relay/runner.ts`) | none of its own | plan, work, review a ticket | HTTP API | another client moves the ticket | one claim at a time; closed as reviewed |
| Issue sync (`sync/*`) | link table, cursors | push, import | remote trackers | changes during a run, crash between issue and link | one issue per ticket; no change lost |
| Backups, exports, shutdown, degraded mode (`services/backup.ts`, `export-debounce.ts`, `db/recovery.ts`, `api/shutdown.ts`) | timers, files, marker | arm, fire, dump, restore, repair, shutdown | every mutation | dumps without a transaction, kills in the middle of a file | every request's write is exported; a restore is whole; a loss is told |
| Actors and caches (`services/actors.ts`, `actor-cache.ts`, `api/auth.ts`) | rows, TTL caches, throttle | check key, revoke | every request | load against invalidate | staleness bounded by one TTL; failures are throttled |
| Projects (`services/projects.ts`) | rows of all tables | create, import, delete | runs, comments, hooks | late writers, foreign keys, a batch that fails half way | deleted wholly or not at all |
| Notes, knowledge, recall (`services/notes.ts`, `knowledge.ts`, `recall.ts`) | rows, chunks, vectors | save, index, sweep, clear, search | embedder, jobs | slow embedding between read and write | the index says what is written |
| Vaults and transcripts (`ingest/*`) | watchers, timers, rows | watch, reindex, rescan, read tails | files of others | files change while they are read | the index ends at the newest version |
| Skills (`skills/marketplace.ts`, `forge/skills.ts`) | two lists in settings, folders | add, remove, install, uninstall | git, the user's own folders | lists written back whole, copies half done | the user's folders are kept; list and folders agree |
| Forge view of the client (`app/src/routes/forge/useForgeRun.ts`) | the run followed, the output shown, an offset | select, start, poll, derive | forge routes | answers that arrive when another ticket is selected; polls that overlap | the output shown is the run's own, whole and in order |
| Wiring (`mcp/autowire.ts`, `mcp/clients.ts`) | entries in the files of other programs, a shared key, flags | check, install, flag | relay.json, actors, CLIs | passes that overlap, files others edit | one key; an opt-out and a hand-made entry are kept |
| Local models (`laya/client.ts`, `knowledge/embedder.ts`) | a shared process and its idle timer; a queue with an adaptive interval | decide, close, embed, back off | chat, recall, notes | a connection that fails while it is being replaced | memory is given back; nothing closed under a call |
| MCP tools, HTTP plumbing, events, usage, rest of the client, scripts | little | – | – | – | views, queries and conversions |

`PROJECT.json` lists every component with its sources and status, and every hazard at its line.

## Modules

| Module | Models | Checked by | Proved in |
|---|---|---|---|
| `DbLock` | lock on the data directory | `db_lock`, `db_lock_race` | `DataProofs` |
| `ForgeRuns` | life of forge runs and their agents, crashes, boot | `forge_serial`, `forge_settles`, `forge_race`, `forge_stop` | `ForgeRunsProofs` |
| `ForgePromote` | how work lands or is thrown away, next to the runs of a ticket | `promote`, `promote_midrun`, `promote_policy` | `ForgeReviewProofs` |
| `Gate` | the review of a change with its probe | `promote` | `ForgeReviewProofs` |
| `Sandboxes` | worktrees and their links on disk | `promote` | `ForgeReviewProofs` |
| `Console` | the client's view of a ticket's run and its output | `promote` | `ForgeReviewProofs` |
| `BrowserChannel` | queue, long poll, extension worker | `browser`, `browser_wake` | `BrowserAgentsProofs` |
| `BrowserRpc` | abstract: what the channel promises a caller | refined by `BrowserChannel` | `BrowserAgentsProofs` (safety) |
| `Page` | a batch of steps in the agent's window | `browser` | `BrowserAgentsProofs` |
| `AgentCalls` | one invocation of an agent on any lane, with its account | `browser` | `BrowserAgentsProofs` |
| `Backups` | exports, restore, snapshots, repair, shutdown | `db_lock` | `DataProofs` |
| `Access` | keys, caches and throttle | `db_lock` | `DataProofs` |
| `Projects` | projects and their rows | `db_lock` | `BoardProofs` |
| `IssueSync` | pull and push with a tracker | `db_lock` | `BoardProofs` |
| `Notes` | notes and their index | `db_lock` | `BoardProofs` |
| `SourceDocs` | documents and their index | `db_lock` | `DataProofs` |
| `Chat`, `ChatTools`, `HttpLane` | turns and sessions; tools, grants and ledger; one HTTP turn | `services` | `ServiceProofs`, `ServicesHold` |
| `Council` | council sessions | `services` | `ServiceProofs` |
| `Briefing` | the repository briefing (pure functions) | `services` | – |
| `RelayFile` | `relay.json`, bootstrap, doctor, the two guards of a work stage | `services` | `ServiceProofs`, `ServicesHold` |
| `VaultWatch`, `ProjectVaults` | ingest: one vault, and which vaults | `services` | `ServicesHold` |
| `Transcripts` | ingest: transcripts of agent CLIs | `services` | `ServicesHold` |
| `Runner` | the stand-alone relay runner | `services` | `ServiceProofs`, `ServicesHold` |
| `Recall` | search and recall (pure functions) | `services` | – |
| `Policies` | command screen, wall, directives, choice of agents (pure functions) | `services` | `ServicesHold` |
| `Skills` | marketplaces, installed skills, the skills of a stage | `services` | `ServicesHold` |
| `Lists` | what a filter of an array keeps, for `Skills`, `Policies`, `Transcripts` and `Page` | `services`, `browser` | `ListProofs` |
| `Wiring` | how the server writes itself into the configuration of agent CLIs | `services` | `ServiceProofs`, `ServicesHold` |
| `Laya`, `Voyage` | the local decision model and its life; the throttled queue of the remote embedder | `services` | `ServiceProofs`, `ServicesHold` |

Each `MC...` module extends these with what TLC needs (symmetry, small inputs, which request is
about which ticket).

**How components are composed.** Where components share state they are in one module or one refines
the other: runs and tickets and boot in `ForgeRuns`, routes and runs and git in `ForgePromote`,
channel and worker in `BrowserChannel`, which implements `BrowserRpc`. Where they share none,
`MCData`, `MCForgeReview`, `MCBrowserAgents` and `MCServices` put them in one run: the first state
chooses the component that acts (`acting`, `focus`), the others stay as they are, and the state
spaces add up instead of multiplying. Nothing is lost by that, since a component's actions neither
read nor write another's variables (within `services`, passes and sessions that are alike act in a
fixed order, one client program is set up at a time and one persona answers late at a time, to
keep the sum small; the properties are evaluated where their components act, since those that do not
act stay in their first state). TLC counts such a disjunct as one action; that every action and
every branch of every component is taken in these instances was confirmed with TLC's coverage of
subexpressions, with one exception: `SaveReply` of `Chat` never meets a deleted session, because the
embedded database answers in order (see below) and a deletion that got past its check is over by then.

`ForgePromote` abstracts `ForgeRuns`: it keeps one active run at a time, which is what
`RunUniqueness` proves of `ForgeRuns`, and the steps of a run that the routes can see.

Properties of one run that belong together are conjunctions of the invariants of their modules
(`BoardInv == ProjectsInv /\ IssueSyncInv /\ NotesInv`, and so on); each of those is itself a conjunction of named
parts that are stated, with the code they are about, at the end of the module. Every property has a
mutant in `PROJECT.json`: a plausible bug in one definition that makes TLC find it violated.

### DbLock

`pc[p]` is where a process is in `openEmbedded` or `closeEmbedded`; every file system call is a
step. `file` tells a lock that was just created (`openSync "wx"`) from one that names its holder
(`writeSync`), because `readLock` returns null for the first. `holder` is the process that created
the current file. `Stamp` writes to the inode the process created, which need no longer be the
lock. A directory without `PG_VERSION` is opened without a lock file (`DropFresh`) and locked
again afterwards (`late`). `Kill` leaves the file; `Recycle` gives the dead pid to another
program, and `StartKnown` says whether a start time can be compared.

### ForgeRuns

`pc[r]` follows a start request through `startPipeline`, then its pipeline, then, after a restart,
the tail of a reattached agent's log. `rs` is the in-memory `Run.status`, `row` the database row:
they differ between a settle and its write (`Unwritten`), and after a crash. `agent[r]` is the OS
process of the current stage. `stopped`, `stalled` are the flags of the `Run` the pipeline looks
at between stages; `fate` is what it decided before it cleaned up.

`Hazards` names the adversities an instance includes, so that a property can be checked under
those it is meant to survive:

- `overlap`: start requests overlap each other and the boot scan;
- `edit`: an operator's edit can beat the run's own status write (two stale versions);
- `wedged`: a killed agent may live on, and the cleanup after a kill may outlast the minute to the
  next stall sweep, which then settles the run by force (`SweepForce`);
- `spawnloss`: the server may die between a spawn and the write of the pid.

Stops, stalls, failures of every stage, patches by the operator and crashes are always included.
`ReadTicket` waits until settle writes are done: the embedded database runs statements in the
order they were issued, so a read issued later sees them.

### ForgePromote, Gate, Sandboxes

One step per await of each route. `current` holds the requests whose copy of the ticket is still
the newest version; every write empties it, and a write by a request outside it fails with
StaleVersionError. `passed`, `recorded`, `excused`, `due` are history variables: what a verdict
covered, what a run's violations were about, what a waiver covered, what a close promised to land.
`Patch` is any other writer of the ticket: it moves it, or, like an edit of the title or body and
the gate override, only makes the copies stale. `stranded` is what was due when such an edit came
between the two steps of a compensation.
`AgentEnds` is a timing assumption: an agent takes minutes and a request seconds, so no agent
*ends* while a request is past its first check. `Overlap` says whether a run may *start* there.

`Gate` refines what `ForgePromote` calls a verdict: the tree of the sandbox file by file, the
mutation probe that takes it back to the base and restores it, the check command as a process with
an exit and pipes, chunks of the diff. `Sandboxes` is the disk underneath: a worktree, the links
into the repository's own dependency folders, and the manifest that lists them.

### BrowserChannel, Page

`queue`, `inFlight`, `waiter` are the fields of an `Instance`; `pump` runs inside every action
that calls it. A waiter is "held" by the worker, or "gone" when the connection broke and the
server has not noticed. The worker dies, wakes up without its `instanceId`, is told to relink, and
loses results. The refinement mapping to `BrowserRpc` maps the call's state (`CallOf`) and counts
executions: a batch is executed at most once, a result answers only the batch that was executed,
and every call ends. It does *not* promise that a batch without a result was not executed: after
a 504 the batch may still run, and a caller that retries runs it twice.

`Page` is what a batch does when it got there. A reference is a position among the page's controls
at the last snapshot; pages insert and remove elements, and leave, between any two steps. `meant`
keeps which element the caller saw under a number, `acts` every change to a page with the grant it
was allowed by; `told` is the answer.

### AgentCalls, Chat, ChatTools, HttpLane, Council

`AgentCalls` follows one invocation: the account row that is read and written back whole, the child
(`process`), what Node has learned of it, the pipe a descendant may hold open, and the timers.
`Chat` keeps the queue of statements of the embedded database (`chatQueue`): it answers one at a
time, in the order they were issued, and the code behind an await runs up to its next await before
the next answer. With `DATABASE_URL` statements go through a pool, and nothing of `NoOrphan` is
claimed. `ChatTools` keeps the grants as the setting and as what each writer read of it.
`HttpLane` keeps the conversation as the replies each message still owes. In `Council`, `unsaved`
is the chain of snapshots nobody waits for, `saved` what a restart finds.

### The server's data

`Backups` has a dump read table by table (`dumping`) while rows are written, files that may be cut,
and the life of the server around them. `Access` has a clock; a request keeps the throttle entry it
read until it writes it. `Projects` has the tables of one project, deleted in the order of the
transaction, and writers that hold a bare id. `IssueSync` has a tracker with its own clock.
`Notes` and `SourceDocs` separate the three writes an index entry takes. `VaultWatch` gives the file
timers, a start that lists the folder once and then reads what it listed, and readings and removals
that fail (`swallowed`). `ProjectVaults` has the chain of rescans, each of which may throw where it
awaits or writes (`RescanThrows`) and then leaves projects behind (`leftOut`). `Transcripts` has
windows on a growing file.

### RelayFile, Runner, Skills, Wiring, Laya, Voyage

`RelayFile` has every reader and writer of `relay.json` with what it read, and the two guards that
compare before and after a work stage; the bytes of a copy carry the run whose agent wrote them, if
one did, because a guard that restores may restore what another run's agent wrote. `Runner` has processes that only share a ticket's version.
`Skills` has two lists that are read, and later written, whole, and the folders they speak of; an entry
of what is installed names the request that made it, which stands for the time the code keeps in it
(`installedAt`): a skill that was installed again has a new entry.
`Wiring` has passes that check, install and check again lane by lane; an entry is the key it carries
or somebody's own. `Laya` numbers the connections, so that a promise that was replaced can be told
from the current one. `Voyage` has a clock in ticks; `gap` is the time since any request, whatever
the code remembers.

### Console

Effects of React run before the next event, so `Settle` derives what the view follows and which
polls still count within the action that changed their dependencies. An answer to a poll is computed
when it is asked for and lands at any later time. The answers under way to readings of a
whole output are a set of runs: two readings of one run bring the same. `crossed` and `strayed` mark
the answers that met another offset, or another ticket, than they were asked for; `strayed` is also
set when a ticket is selected again before the runs of the one between were known, since the key the
effect remembers then says that nothing is to be derived.

### Pure functions

`Briefing`, `Recall`, `Policies` and parts of `Transcripts`, `Projects`, `Skills` and `Page` have one
action per question, which picks an input of a small set and keeps the answer; the invariant
compares it with what the function is for, stated without its algorithm (the innermost repository,
the longest beginning that fits, the folder the shell is in), over all those inputs.

## Runs

| Run | Instance | Shows |
|---|---|---|
| `db_lock` (`MCData`) | 4 processes, 3 kills, serial opens; or one of: 2 boots with 3 exports and a repair; 2 keys and 2 requests; 1 project with 2 late writers and 2 imports; 2 projects, issues and tickets with a crash; 1 note with 2 editors, a sweep and a capture; 2 documents | `OneEngine`, `LockInv`, `LiveLockKept`, `StaleLockReclaimed`; `BackupsInv`, `AccessInv`, `BoardInv`, `KnowledgeInv` |
| `db_lock_race` | 3 processes, 1 kill, overlapping opens | `OneEngine` is violated |
| `forge_serial` | 1 ticket, 2 requests, 1 crash, serial starts | the safety of runs |
| `forge_settles` | 1 ticket, 1 request, 2 crashes, every hazard of a single run | `SettledIsFinal`, `RowsSettle` |
| `forge_race` | 2 tickets, 2 overlapping requests, cap 1 | `CapRespected` is violated |
| `forge_stop` | 1 request | `StopLands` is violated |
| `promote` (`MCForgeReview`) | 2 requests of any of 5 kinds, 2 runs, 2 commits, 1 crash; or one gate with a crash; or a sandbox of 2 actors with sweeps, discards and crashes; or 2 tickets with a run each as a client shows them | the safety of landing; `ReviewInv`, `SandInv` |
| `promote_midrun` | 1 promote, a run may start under it | `PromoteWhileIdle` is violated |
| `promote_policy` | approve and promote, 2 runs | `ProtectedNeedsWaiver` is violated |
| `browser` (`MCBrowserAgents`) | 2 batches (one acts), 2 registrations, 1 death, 1 server restart, relinks; or batches of up to 3 steps on 2 sites; or 2 invocations on 2 accounts | channel invariants, refinement, liveness; `PageInv`, `PageRead`; `CallsInv`, `CallsSettle` |
| `browser_wake` | 1 batch, 2 registrations, 1 death | `CollectedOnWake` is violated |
| `services` (`MCServices`) | one of the other components (see the table of modules), each on its own small instance | `TurnsInv`, `CouncilInv`, `ReadsInv`, `FilesInv`, `IngestInv`, `OutsideInv`, `SkillsInv` |

Why these bounds suffice. Every failure the properties describe needs two actors on one object, or
one actor and a crash: two openers and a corpse, two runs of one ticket, a run and a request, two
requests, two lives of a worker, two writers of one list. A third of each adds length, not a new
kind of interleaving. Where a third one matters (a lock that is reclaimed while a third process
opens; an export at boot, one by the timer and one at shutdown; an edit between two conflicts of a
pull) the instance has it. Constants were raised until every branch of every module is taken.
`db_lock` has four processes because three may be killed. For the browser, one batch in flight and
one queued exercise every branch of `pump` and of the timer; a longer queue only repeats the
second. Caps are small (`DepCap` 2 for 100, `KeepExports` 1, `CouncilMax` 1) so that inputs reach
both of their sides. CHECK_DEADLOCK is off because every one of these systems may stop: requests,
processes and batches are finite, and the bounds end the rest.

### Fairness

Only liveness runs use it.

- `ForgeRuns`: the event loop, the database and the timers go on (`Continue`, `ChecksDone`,
  `SweepSave`, `PersistSettle`, `ScanRow`, `Restart` are weakly fair). Check commands have a
  timeout of their own. Nothing is assumed of agents: one that does not exit falls silent and is
  found by the sweep (`Stall`), or runs into the timeout of its invocation. Requests, stops and
  crashes are never required. `SweepForce` is fair because the sweep runs every minute.
- `BrowserChannel`: the timer of every enqueued batch fires, and the database and the risk screen
  answer. Nothing is assumed of the extension: it may be dead for ever.
- `AgentCalls`: a timeout fires, what was killed dies, Node reaps a child it has a pipe to, the
  drain timer and the liveness poll fire. Nothing is assumed of a running agent, of its
  descendants, or of the exit of a detached child: for those the poll and the timeout are there.
- The other modules have no liveness property.

### Disagreements between code and documents

Six runs end in a counterexample; `PROJECT.json` "findings" quotes the sentence each one refutes.

1. `db_lock_race`: two openers that find the same dead lock, or open a fresh directory, both get
   an engine. The unlink at `db/lifecycle.ts:88` does not check that the lock is still the dead one.
2. `forge_race`: the cap is counted before, and used up after, several awaits.
3. `forge_stop`: a stop accepted while the verdict is written does not land on "stopped".
4. `promote_midrun`: promote looks for active runs once, some ten awaits before it merges.
5. `promote_policy`: violations of protected paths are read off the newest run only; a run that
   ends before its review clears them.
6. `browser_wake`: a woken worker registers afresh and never polls the queue its predecessor left.

### What the code does not promise

An invariant of the modules says what holds, with its exceptions named; an exception is a history
variable (`met`, `crossed`, `mishaps`, `overtaken`, ...) set by the step that is at fault, so each is
reachable in its run. The exceptions a maintainer may want to know, paths under `src/src`:

- *ForgeRuns*: a reattached run that is stopped settles without sending its ticket back (`forge/runs.ts`, `tailUntilExit`); a resume straight to review whose review passes leaves the ticket in_progress (`forge/runs.ts:1178`): such a ticket has neither a run nor a resume, and can only be promoted (`api/forge-routes.ts:372`).
- *ForgePromote*: the compensation for a merge that failed reads the ticket, awaits a comment, and only then reopens it at the version it read (`api/forge-routes.ts:419-422`). An edit of the ticket's title or body, or a gate override, in between makes the reopening fail on a stale version: the ticket stays closed, its code never landed, and nothing repairs it (`stranded`). The comment above the compensation calls exactly that worse than the race. A crash there, or a database that refuses the write, has the same end and is outside `MergeOrReopen`.
- *Council*: a ticket that was forced leaves the session's pipeline on (`council/runs.ts:287`); late personas write into the next round.
- *Grants, accounts*: `addActGrant` (`browser/grants.ts:54`) and the account state (`relay/account-state.ts:32`) are read and written back whole: of two writers one is lost.
- *Notes*: the flag of being indexed is set after, and outside of, the transaction (`services/notes.ts:44`, against the comment at 58): a note edited in between is flagged with the chunks of its old text. Two captures may save the same note.
- *SourceDocs*: a document whose embedding failed counts as stale and loses its rows (`services/knowledge.ts:382`); two runs mix chunks; a cancel after the work is done reports a finished job as cancelled (`services/jobs.ts:53`).
- *Gate*: a `git` failure while files are taken back or restored is swallowed (`forge/sandbox.ts:651`); a crash during the probe leaves the base staged (`forge/gate.ts:262`); a scan that throws finds nothing.
- *Sandboxes*: a run that begins during a cleanup relinks folders that are then deleted through the link (`forge/sandbox.ts:516`); a crash between a link and its record (195-206); a commit count of NaN reads as nothing to promote (472).
- *RelayFile*: the second of two overlapping work stages restores the bytes the first one's agent wrote; `relay.json.bak` keeps them; bootstrap writes back what it read two rounds of probes ago (`relay/bootstrap-config.ts:63`); deleting an account and patching an agent look for no active run.
- *VaultWatch, ProjectVaults*: a deletion during a reindexing leaves the rows of a deleted file; a change between the first listing and the watch goes unseen, a new file even while the others are being read (`ingest/watch.ts:46`); a reindexing that fails is logged and the failure of a removal is dropped (115, 118), and neither is tried again; a rescan that throws leaves the vaults it has not reached unwatched, or watched in the wrong place, until somebody asks for the next (189); deleting or importing projects asks for no rescan (`api/app.ts:272`, `294`).
- *Transcripts*: the wider window of `tail.ts:47` is not tried when the narrow one ends in a newline.
- *Runner*: the conflict of the last patch is not looked at (`relay/runner.ts:82`, against 84); a 409 for a missing verification is taken for a version conflict (`relay/api.ts:52`).
- *IssueSync*: the cursor is the newest change over all projects (`sync/import.ts:32`); a push raises it past changes it has not seen (`sync/push.ts:57`); an issue whose link was not written is created again.
- *Backups*: rows written by agents arm no export (against `api/app.ts:111`); after the last export failed, older ones still under way may finish out of order and leave a newest file without a row an older file has; a failed export is not retried; a torn dump ends its restore half way, and a second restore meets its own rows (`services/backup.ts:66`); shutdown waits for open event streams (`api/shutdown.ts:18`).
- *Policies*: an escalation from a pair of unknown quality may step down (`forge/router.ts:55`).
- *Skills*: both lists are read, and later written, whole (`skills/marketplace.ts:217`); a failing pull removes a folder another clone fills (85); uninstall by name drops every namesake's entry and one folder (313).
- *Access*: failures of one key that overlap count once (`api/auth.ts:40`); a full throttle forgets everybody (27).
- *Projects*: a project with a chat session cannot be deleted (`db/schema.ts:257`); an import that fails half way keeps what it imported behind a 400 (`services/projects.ts:205`); writes by bare id leave rows behind.
- *Page* (`src/extension`): `clickAt` is validated and never executed (`execute.js:6`); steps behind a screenshot in a segment are dropped without a failure (`worker.js:233`); an element inserted after the snapshot makes a number name another.
- *Console* (`src/app/src/routes/forge`): polls are asked every second whether or not the one before was answered, and overlapping ones repeat a piece (`useForgeRun.ts:119`); the whole output of a run, or the answer to a start, lands in the view of whatever ticket is selected by then (76, 142); the answer to a rework resets the offset of a run the view already shows (176), and "Resume run" of the history (`RunHistoryPane.tsx:40`) neither clears the view nor resets it; a ticket that is selected again before the runs of the one between are known keeps what that one left in view (53).
- *Laya*: a connection whose process died stays the current one while calls keep coming (`laya/client.ts:112`), so they all fail; connecting is awaited before the deadline of a call is armed (131, against "bound every call" at 134); a call that comes after the close on the way out starts a process nobody closes.
- *Wiring*: two passes that find no key make two (`mcp/autowire.ts:58`); an opt-out during a pass is overwritten at its end (128); a hand-made entry is replaced when the client's program does not answer or a key is stored (84, against 81); a stored key whose actor was revoked still counts as current.

### What the properties leave out

Some hazards of `PROJECT.json` are caught only in part, because an assumption or a named exception takes
a case out. By the line they are listed at:

- `forge/runs.ts:1225` (an edit between the read and the write of a bounce): `NeverStuck` is checked and proved where no edit beats the run's own write (`NoRacingEdit`); with one, the ticket may stay in_progress.
- `forge/runs.ts:1117` (check commands outlive their run): `ChecksOver` exempts runs that were stopped or stalled, so a resume after those may meet the old commands.
- `forge/runs.ts:385` (commits between the look and the removal): in `ForgePromote` no agent ends while a request is past its first check (`AgentEnds`), so `WorkKept` is about every other order. In `Sandboxes` an actor may begin under a cleanup, and the ticket is then exempt (`met`).
- `browser/grants.ts:54` (two grants written over each other): `TurnsInv` says that no call gets more than somebody allowed, not that a grant survives.
- `sync/push.ts:57` (an issue without its link): the issue is created twice in the model as well; `OneToOne` is about links and does not forbid it.
- `relay/runner.ts:87` (the bounce that meets a newer version): the ticket stays in_progress in the model too, and `OutsideInv` allows it; it is about who holds a claim and what a ticket may be closed on.
- `relay/account-state.ts:32` (two writers of the account state): the update that is lost is told by `overlapped`, and an exhausted account is only promised to stay marked without it.
- `services/notes.ts:44` (text and flag apart): a note whose flag was set for an older text is in `overtaken` and exempt.
- `services/knowledge.ts:382` (two runs over one project): `db_lock` has one run, next to edits, failures, cancels and a rebuild; two runs are in the module and the proof (`DocRuns` is any set there), where the documents they share are in `mixed` and exempt.
- `services/projects.ts:232` (writes by bare id): what is left behind a deleted project is in `stray` and exempt.
- `relay/bootstrap-config.ts:63` (relay.json written back whole): `FilesInv` is about what a guard restores; that a bootstrap loses an update made between its read and its write is not forbidden.
- `skills/marketplace.ts:285` (lists written back whole): `OwnFoldersKept` and `OneEntryEach` hold always, the other parts of `SkillsInv` as long as no update was lost (`mishaps`).
- `src/extension/worker.js:233` (what an answer tells): screenshots are outside, and so are the steps dropped behind one.

`Policies` and `Recall` compute their answers on one input: they are there for completeness of what the
services decide, and no hazard rests on their detail.

## Proofs

All theorems hold for every value of the constants that satisfies the modules' ASSUMEs: any number
of processes, runs, requests, calls, crashes. Where a theorem needs more, it says so as a
hypothesis, and a run shows what happens without it or the property is stated for that mode of the
code. Every inductive invariant was checked by TLC on the instances of the runs before it was
proved.

**The lock** (`DataProofs`). `LockInvariant`, `MutualExclusion` and `LiveLocksKept` are for serial
opens (`Serial`), any number of processes and kills. The inductive invariant `LockInv` says that
whoever is past the exclusive create owns the lock file (`Owned`), except in the window of a fresh
directory, where there is none, and that is safe only because no second opener exists (`OneOpener`).
Without the exception the invariant fails at `DropFresh`; without serial opens it fails at
`Reclaim`, which is what `db_lock_race` shows. `StaleLocksReclaimed` needs no serial opens, but a
platform where start times can be read (`StartKnown`), which is what the code compares.

**Exports** (`DataProofs`, `BackupsHold`, no hypothesis). That every row reaches a file while exports
overlap, fail and are pruned is not inductive: a row may be in an export that is still being read
table by table. The invariant `RowsFollowed` says that every row of a request has a stamp *from
which on* every export, under way or in a file, has it (`From`), and that either such an export
exists or one is armed. Pruning keeps the newest file (`PruningKeeps`), the least stamp of a set of
files exists (`HasLeast`, by well-founded induction). `OfflineRests` and `RestoreSound` say that
nothing else moves while a dump is restored. The attempt to prove it found that the history variable
`excused` was cleared too early, when an older export overtook a failed last one; that run of
events is now an exception the model names.

**Keys** (`DataProofs`, `AccessHolds`, no hypothesis). A row in the cache, and one in the hands of a
request, was read before its actor was revoked (`RowsOfActors`); what is counted of a key, and what a
request is about to count on, are failures it had (`FailuresCounted`).

**Runs** (`ForgeRunsProofs`). `TypeCorrect`, `ChecksAreOver` and `SettlesOnce`
hold under every hazard. `RunInvariant`, `RunUniqueness` and `CapIsRespected` hold when
starts do not overlap; `forge_race` shows the cap exceeded when they do. "One running run per ticket" is not
inductive: after a crash nothing runs in memory, and the run comes back when its row is scanned. The
invariant therefore speaks of *open rows*: at most one per ticket (`OneOpenRow`), each accounted for
by memory or by the scan (`OpenRowKnown`), and a start past `ReadTicket` has seen that there is none
(`TicketFree`), with nobody else starting (`StartsAlone`). The cap counts, besides the rows, what the
boot has still to scan (`CapInv`).

`SoleWorkers`, `AgentsAreWatched` and `EditsAreSaved` assume `AgentsDie`: no overlap, a killed agent dies before its run
is settled by force, and no pid is lost between a spawn and its write. They need to know which agent
each stage has (`AgentInv`), that no run watches a stranger that was given a dead agent's pid
(`ReusedInv`; a start time that cannot be read counts as a lost pid), that an agent which edits is a live one of an open row (`WorkerInv`), and
that edits nobody has saved belong to a run that will save them (`SavedInv`). `NeverStuckInProgress`
and `TicketsRecover` add `NoRacingEdit`, since an operator who moves the ticket next to a run beats
the run's own write. `BounceInv` says which failed run owes its ticket the way back, `StageInv` and
`ProgressInv` which stage a row has reached and what a resume can make of it.

**Landing** (`ForgeReviewProofs`). `UnmergedWorkIsKept` and `BootClosesLanded` hold for any overlap: what
deletes a branch has seen that nothing is ahead, and its look is still good (`LandedAhead`,
`ReconcileAhead`). `LandedPassed`, `PolicyIsHonoured`, `MergesOrReopens` and `PromotesWhileIdle` are
for `Overlap = FALSE`, no run starting while a request is served; `promote_midrun` shows the code
does not enforce that. `LandedWasPassed` needs to know that a verdict that counts covers the whole branch
(`VerdictCovers`), hence that a run's verdict comes after its last commit (`VerdictComesLast`), and
that a promote past its check keeps what it saw (`PassedAhead`, `PolicyAhead`), hence that no run is
active then (`ServedAlone`). A closed ticket has a promote that still owes the merge or the reopening
(`PromiseKept`), and whose copy of the ticket is current between the two steps of the compensation
unless what it owes is `stranded`.

**The gate** (`ForgeReviewProofs`, `GateHolds`, no hypothesis). The tree is
whole after a probe (`TreeWhole`) because no test is ever taken back and, while the probe is at work, what
the branch holds of the files it changed is the work (`TreeKept`); a pass means a clean gate because
what is wrong has blocked, and a verdict has heard the reviewer and every check (`VerdictReady`).

**The forge view** (`ForgeReviewProofs`, `ConsoleHolds`, no hypothesis). Every answer to a poll is a stretch of
output (`PollsForward`), so that unless two of them met the view shows an unbroken beginning of the run's
(`OutputWhole`); what is asked for and listed of a ticket is a run of its own (`TicketsOwn`), so that the
view shows the selected ticket's unless an answer strayed (`OwnOutput`). The proof attempt, and a longer run
that it suggested, found a way in which the view shows another ticket's run that no smaller instance
reaches: a ticket selected again before the runs of the one between are known.

**Sandboxes** (`ForgeReviewProofs`, `SandHolds`, no hypothesis). A link is on the list, or its maker
has yet to record it, or it is known to be on none (`LinksListed`); so once the listed links are gone
only those on no list are left (`Unlinked`), provided nobody else works there (`AloneThere`).

**The channel** (`BrowserAgentsProofs`, no hypothesis). `ServedInv` says where a batch may be at each
stage of its call (`QueuesHold`, `FlightsHold`, `CallsHold`), for whom the server may hold a poll
(`ListenerHolds`), and that a batch yet to be delivered was never executed (`OnceHolds`, `JobHolds`).
From it follow `ChannelConsistent`, which includes that no poll is held while work is queued, and that the
channel implements the safety of its abstract specification: `ImplementsRpcSafely` maps the initial states to initial states and each
action to an `Open`, `Run`, `Answer` or `Fail` of `BrowserRpc`, or to a stutter (`ChannelStep`).

**Calls of agents** (`BrowserAgentsProofs`, `AgentCallsHold`, no hypothesis). Where a call is says what
there is of its process and its answer (`CallPlaced`); whoever has read an account's row and not yet
written it has read the latest mark, unless two overlapped on it (`RowsFresh`).

**The council** (`ServiceProofs`, `CouncilHolds`, no hypothesis). A restart finds any snapshot that was
under way, so every one of them, not only the sessions in memory, must satisfy what holds of
sessions and the limit on active ones (`SnapshotsSound`); `PipelineSound` ties a session that
runs to the stage that is behind it.

**Chats** (`ServiceProofs`, no hypothesis). `ChatHolds` rests on the database answering in order: who
waits has one statement in the queue (`ChatPlaced`), and a turn that slipped in between the check of a
deletion and its statements stands behind it (`DeletionAhead`), so that it has read and stored nothing
when the chunks and the rows go (`RowsBehind`). `LogFollows` says of every message whose turn goes on
that it is the last of its session. `ToolsHold` counts each allowance as given, live or used
(`OnceCounted`), and `LaneHolds` counts the replies that a message still lacks (`Replied`).

**The page** (`BrowserAgentsProofs`, `PageHolds`, no hypothesis). A snapshot that is as the page was taken
lists what the page would give now (`SnapshotsTrue`), since every change to a tab marks the snapshots of
that tab; what a batch means is what its caller saw, and references that are fresh are those
(`MeansSeen`). A grant is only ever looked up for a site that has one (`GrantTravels`), and the page a step
runs in is there (`InAPage`).

What its caller is told (`PageReads`, no hypothesis) is assembled from segments that run in pages which
may be gone before they answer, so the invariant (`ToldInductive`) follows every result from its step to the
list: the batch is one that was asked for (`BatchKnown`), the segment under way is a stretch of it between
two steps on tabs (`InASegment`, `OnTabs`), what was done in the page is that of the steps of its segment, in
order, of which only the last may be refused (`InTheSteps`), and the slots of a batch without screenshots are
filled from the first on (`InTurn`). So no gap is left when they are put together, and the results are those
of the first steps. The pure parts of `PageRead` are proved from what a filter of an array keeps
(`ListProofs`): a role is found in the order of roles, and a mark is the number of a node that shows.

**Documents** (`DataProofs`, `DocsHold`, no hypothesis). The rows of a document are one text because a
write of it deletes and keeps rows by ids that were read before. The invariant says what a run knows of the
rows in between: what it has prepared of a document speaks of rows of that document, of all of them unless
another writer was there since, and of every chunk either as kept or as new (`PrepSound`). That a chunk gets
its own vector needs more than the row: a batch runs over several documents, so the chunks, and later the
vectors, are those of the prepared documents one after the other, from an offset per document (`Aligned`), at
every stage of a run (`InHand`).

**Notes** (`BoardProofs`, `NotesHold`, no hypothesis). Where a writer is says what it has in hand
(`TurnsSound`); with that, the named parts of `NotesInv` are inductive together: a writer that finds the
note's text to be the one it embedded writes the chunks in the same step, and a note that is changed before
its flag is set enters `overtaken`.

**Projects** (`BoardProofs`, `ProjectsHold`, no hypothesis). A foreign key undoes a deletion only when the table
that refers comes later in `DeleteOrder` than the one it refers to, or is on no list, which only the one of
chat sessions is (`ReferrersFirst`, `OnlyChatsRefuse`); a project whose deletion was asked for runs nothing
unless a run started behind its back (`ProjectSound`). An import has imported its list up to the item it is at
(`ImportSound`).

**What is read off projects** (`BoardProofs`, `ReadsHold`, no hypothesis). The search for the project of a folder
and the size of a section list are functions defined by recursion over a list. Induction over data needs
the library's theorems with an operator parameter, which no prover here can instantiate; the proofs
take the least number for which a claim would fail instead (`HasLeast`, `FromZero`), and first show that a function
with the recursion exists (`StepByStep`), without which a CHOOSE of it says nothing. `NearestIsBest` and
`BriefFits` are the two results; `KnowledgeHolds` puts them next to `DocsHold`.

**Issue sync** (`BoardProofs`, `SyncHolds`, no hypothesis). That nothing is lost is not inductive while a
pull is half way: links are already newer than changes that are still to be taken. The invariant speaks of
what a pull has passed (`Passed`): every change before its first entry is taken or listed, every change from
its first entry to its last is listed, and no link is newer than the first; when no pull is under way all is
up to date (`UpToDate`). For this the list must be in the order of the changes, which is why the connector
asks for it (`sync/connectors/github.ts:43`).

**Vaults** (`ServicesHold`, `VaultHolds`, `ProjectVaultsHold`, no hypothesis). A file that no two readings
crossed is read by one reindexing at most, which holds what the file holds (`ReadOnce`); the last event that
is on its way tells whether the file is there (`EventsTell`); where all was told, the rows or the reindexing
that will replace them hold its text unless the last attempt failed (`RowsFollow`). `WatchSound` follows the
watchers a stop may meet. For the choice of vaults, the last rescan that was asked for has listed what is wanted
now, and one that threw has noted what it had not reached (`RescanSound`).

**Processes outside** (`ServiceProofs`, no hypothesis). A turn of the runner has read nothing newer than
the ticket, and at the same version it has read the ticket (`SeenSound`), which makes a patch that is
accepted one of what was read; while nobody acts out of turn a worker that holds a claim is alone on a
ticket in progress (`TurnsInOrder`). A connection of Laya that is starting has a call waiting for it, so
the idle timer never meets one (`WaitingSound`). The batches of the queue to Voyage are distinct and
only the first is under way (`QueueSound`).

**The relay file** (`ServiceProofs`, `RelayFileHolds`, no hypothesis). Every copy of the file is one of known
agents (`CopiesTyped`); what an agent wrote is marked as spread where it was copied, and is else in the file
only until its stage ends (`BytesKnown`), never in that run's own snapshot (`BytesLate`); until some run
fails, the one whose bytes are in the file is at work and will find them (`SomeoneFinds`). The packages
of the shared folder are followed alike (`PackagesKnown`). The
invariant that tampering is seen was false in a first form of the model, with a single flag for
foreign bytes, beyond the bound of the run: of two runs one could restore the other's bytes and be
taken for their author. The bytes now name their run.

**Wiring** (`ServiceProofs`, `WiringHolds`, no hypothesis). While no two passes have made a
key each, who makes one has found none and is alone (`KeysKnown`); a lane that opted out while no pass was
at it is in the hands of none (`OptOutsSeen`); an entry made by hand is replaced only for a reason the
pass has met (`ReasonsGood`).

**Skills** (`ServicesHold`, `SkillsHold`, no hypothesis). That list and folders agree holds only between
requests, so the invariant says of each folder which of five cases it is in (`FolderSound`): it agrees and
nobody has it to record; somebody has who read what is no longer so; two have who both read an entry of it,
one of which will find itself late; one has, and left it as he will record it; or two have, of which one removes
and the other read no entry, and the folder is as that other left it. A list that somebody holds has one entry to a folder, none of
a folder of the user's, and each by a request that is over (`ListSound`), so an entry that has gone never comes
back and whoever is late is known to be. Who is at a checkout is alone there, and leaves it ready or off the
list (`CheckoutSound`). The proof found the model wrong: entries had no
time, so a skill installed again while it was uninstalled left a list equal to the one that was
read, and a lost update nobody noticed. The entries now have their request, and the run has the case. What the
pure functions of this module give is proved from what a selection keeps, in which order and from where
(`OnlyInFrom`, `WalkThere`).

**Policies** (`ServicesHold`, `PoliciesHold`, no hypothesis but that a model has a known tier and a natural
quality). Each decision is a walk along a list, so what it ends in is shown from what each step adds
(`WalkThere`, `UpFromZero`). The screen of commands and the shell are in the same folder as long as no rule has
met, and a rule that has met is never forgotten, so at the end none has and they always were
(`PassedStaysInside`). What the pipeline takes from a ticket's body is in the texts of the matches an edit is
compared by (`ParsedIs`): a match is its directive and the one line it reaches (`MatchTextIs`). No directive is
outside of a match (`StartsAre`), so none is left in a body that was stripped. A choice by strategy exists since
a strict weak order with the place as the last word has a first (`FirstBest`).

**Transcripts** (`ServicesHold`, `TranscriptsHold`, no hypothesis but that windows are numbers, the wider
one the wider). Nothing is inductive here but the types: what is said of a window is so of every sequence of
records. The length of a beginning is a walk along the records (`BytesWalk`, `BytesUpTo`) and grows with it, so
what follows the first newline in the window is the end that was meant (`WindowRight`, `TailRight`). A worker
whose first turn is seen in the head of its file is seen by the check the ingest makes, since a file that
fits the tail is read whole and the first turn of its head is the first of the file (`FirstOfBeginning`,
`WorkerSeen`), so the backfill takes out nothing the ingest would take in. Of the repositories around a
folder the one with the longest path is the folder's own (`FoldersResolve`).

**Together** (`ServicesHold`, `ForgeReviewProofs`, `BoardProofs`, `BrowserAgentsProofs`). The conjunctions that
`services` checks, but for those listed below, hold when the components run next to each other in any
interleaving, and the specification of the run, in which one acts at a time, is one of those behaviours
(`ServicesTogether`). `ReviewTogether` says the same of what `promote` checks and
holds without a hypothesis, `OutsideTogether` of what `browser` checks, and `DataTogether`, for serial opens,
of what `db_lock` checks.

The proofs go one step per action; actions that leave the variables of a conjunct alone are
grouped. Type correctness is proved first and separately, since the solver does the arithmetic of
counters and the sets of states better apart.

### Only model-checked

- Liveness: `RowsSettle`, `CallsSettle`, `InFlightClears`, and the fairness half of `ImplementsRpc`.
  They need ENABLED and fairness, which the prover does not do.
- `ReadsInv` (`Briefing` and `Recall`), whose pure parts compare what a fold or a sort of the community
  modules computes with a definition without it. Those take operators as parameters, and so would the lemmas
  about them, which no prover here can instantiate.

No module declares a RECURSIVE operator.

## Not modelled

- What agents, personas, models and trackers write and say; prompts, logs, redaction: an outcome is
  a choice. How a text is cut into chunks, and how foreign formats are parsed.
- The trimming of finished runs, export directories, reports of usage and metrics.
- The contents of commits beyond "touches a protected path"; merges succeed or conflict.
- The back-off of the extension's worker; the fan-out of events.
- Chat catalog and attachments; the views of the desktop client other than the forge view's run.
- Vector setup and generated migrations; connectors of trackers other than the GitHub one.
- The components marked `not_modelled` in `PROJECT.json`, with the reason of each.

## Running

`tlc -workers 2 -config X.cfg M` for a run of module `M`, `tlapm M.tla` for a proof module. No run
takes longer than about four minutes; the proofs of a module take at most about twenty.

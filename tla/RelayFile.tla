------------------------------ MODULE RelayFile -------------------------------
(***************************************************************************)
(* relay.json and the other files outside a sandbox that a run may harm:   *)
(* its readers and writers (src/relay/config.ts, bootstrap-config.ts, the  *)
(* account and agent routes), the doctor's cache, and the two guards of a  *)
(* run's work stage (src/forge/sentinel.ts, snapshotDeps/detectDepsLeak).  *)
(*                                                                         *)
(* Every writer reads the whole file, changes its copy and writes it all:  *)
(* the routes at one go, bootstrap with two rounds of probes in between.   *)
(* The work stage of a run compares bytes with those it found at its start *)
(* and puts the old ones back, whoever wrote the new ones.                 *)
(***************************************************************************)
EXTENDS Integers, FiniteSets, SequencesExt

CONSTANTS
  RelayAgents,    \* agent names: of the file and of the templates bootstrap probes
  LaneTypes,      \* the lane type of each: "cli", "sdk" or "http"
  RelayAtFirst,   \* the file's agents at the beginning
  HandEdits,      \* what an operator may save by hand: file contents
  RelayAccounts,  \* account ids
  FileRuns,       \* forge runs
  FileWriters,    \* account requests that await their body
  Packages,       \* top-level entries of a shared dependency folder
  FileEvents      \* bound: requests, edits, installs and writes of agents

Nobody == "nobody"

ASSUME RelayFileAssumption ==
  /\ LaneTypes \in [RelayAgents -> {"cli", "sdk", "http"}]
  /\ DOMAIN RelayAtFirst \subseteq RelayAgents /\ FileEvents \in Nat
  /\ Nobody \notin FileRuns
  /\ \A f \in HandEdits : /\ f \in [json : {"none", "broken", "good"}, agents : {f.agents}, foreign : {Nobody}]
                          /\ DOMAIN f.agents \subseteq RelayAgents

VARIABLES
  relayJson,  \* the file: is it there and JSON, its agents, the run whose agent wrote these bytes
  relayBak,   \* its copy relay.json.bak
  lastWriter, \* history: who wrote relay.json last
  spread,     \* history: an agent's bytes were copied (into the copy, a snapshot or a reader's hands)
  tampered,   \* history: runs whose agent wrote relay.json, until others replaced it
  request,    \* per account request: nothing or what it will do once its body is there
  bootstrap,  \* the one bootstrap: where it is, the agents it read, those that answered
  onMachine,  \* agents whose program can be spawned
  doctor,     \* what the doctor's cache says of each agent
  stage,      \* per run: where it is, and its snapshots
  shared,     \* entries of the shared dependency folder
  touched,    \* per run: entries written since its snapshot
  wroteBy,    \* history: the run whose agent last wrote an entry, or nobody
  disturbed,  \* history: entries an operator installed while a work stage was on
  fileEvents  \* how many events there have been

relayFileVars == <<relayJson, relayBak, lastWriter, spread, tampered, request, bootstrap, onMachine, doctor, stage,
                   shared, touched, wroteBy, disturbed, fileEvents>>
jsonVars == <<relayJson, relayBak, lastWriter, spread>>
depsVars == <<shared, touched, wroteBy, disturbed>>

Json(a) == [json |-> "good", agents |-> a, foreign |-> Nobody]
Outside == [pc |-> "off", snap |-> Json(RelayAtFirst), base |-> {}]
AtWork == {r \in FileRuns : stage[r].pc \in {"based", "work"}}
Over == {"failing", "failed", "passed", "crashed"}
Failures == {r \in FileRuns : stage[r].pc \in {"failing", "failed", "crashed"}}
hasAnyActiveRun == \E r \in FileRuns : stage[r].pc \in {"plan", "based", "work", "review", "failing"}

RelayFileInit ==
  /\ relayJson = Json(RelayAtFirst) /\ relayBak = [Json(RelayAtFirst) EXCEPT !.json = "none"]
  /\ lastWriter = "hand" /\ spread = FALSE /\ tampered = {}
  /\ request = [w \in FileWriters |-> "none"]
  /\ bootstrap = [pc |-> "off", agents |-> RelayAtFirst, answered |-> {}, foreign |-> Nobody]
  /\ onMachine = RelayAgents /\ doctor = [a \in RelayAgents |-> "none"]
  /\ stage = [r \in FileRuns |-> Outside] /\ shared = {} /\ touched = [r \in FileRuns |-> {}]
  /\ wroteBy = [p \in Packages |-> Nobody] /\ disturbed = {} /\ fileEvents = 0

Event == fileEvents < FileEvents /\ fileEvents' = fileEvents + 1

-------------------------------------------------------------------------------
(* The file.                                                                *)

\* The rules on one agent that depend on others of its fields.
ValidAgent(a, e) ==
  /\ e.models # "empty" /\ e.wellFormed
  /\ LaneTypes[a] = "http" => "work" \notin e.roles
  /\ LaneTypes[a] = "sdk" => e.roles \subseteq {"work"}
  /\ IsInjective([i \in DOMAIN e.accounts |-> e.accounts[i].id])

validateRelayConfig(agents) == \A a \in DOMAIN agents : ValidAgent(a, agents[a])

Loads(f) == f.json = "good" /\ validateRelayConfig(f.agents)

\* loadRelayConfig puts the copy back where the file is no JSON and the copy is valid.
loadRelayConfig ==
  IF relayJson.json = "broken" /\ Loads(relayBak)
  THEN relayJson' = relayBak /\ lastWriter' = "code" /\ UNCHANGED <<relayBak, spread>>
  ELSE UNCHANGED jsonVars

Loadable == Loads(relayJson) \/ (relayJson.json = "broken" /\ Loads(relayBak))

\* writeRelayConfig: refused when invalid; else the old file becomes the copy.
writeRelayConfig(agents, foreign) ==
  IF validateRelayConfig(agents) THEN
    /\ relayBak' = IF relayJson.json = "none" THEN relayBak ELSE relayJson
    /\ relayJson' = [Json(agents) EXCEPT !.foreign = foreign] /\ lastWriter' = "code"
    /\ spread' = (spread \/ relayJson.foreign # Nobody)
  ELSE UNCHANGED jsonVars

Healed(a, e) ==
  [e EXCEPT !.roles = IF LaneTypes[a] = "sdk" /\ ~(@ \subseteq {"work"}) THEN {"work"} ELSE @,
            !.models = IF @ = "empty" THEN "absent" ELSE @]
HealedAll(agents) == [a \in DOMAIN agents |-> Healed(a, agents[a])]

\* GET /relay/accounts, /forge/doctor and the start of a run load the file.
ReadFile == relayJson.json = "broken" /\ loadRelayConfig
            /\ UNCHANGED <<tampered, request, bootstrap, onMachine, doctor, stage, depsVars, fileEvents>>

\* GET /forge/agents: a file that does not load is repaired where that is all it takes.
ListAgents ==
  /\ Event /\ relayJson.json = "good" /\ ~Loads(relayJson) /\ HealedAll(relayJson.agents) # relayJson.agents
  /\ writeRelayConfig(HealedAll(relayJson.agents), relayJson.foreign)
  /\ UNCHANGED <<tampered, request, bootstrap, onMachine, doctor, stage, depsVars>>

\* PATCH /relay/agents/:name: roles or models of one agent, and the others are healed. Runs may be active.
PatchAgent(a, roles, models) ==
  /\ Event /\ relayJson.json = "good" /\ a \in DOMAIN relayJson.agents
  /\ LaneTypes[a] = "http" => "work" \notin roles
  /\ LaneTypes[a] = "sdk" => roles \subseteq {"work"}
  /\ LaneTypes[a] = "cli" => roles # {}
  /\ writeRelayConfig([HealedAll(relayJson.agents) EXCEPT ![a] =
                         [relayJson.agents[a] EXCEPT !.roles = roles, !.models = models]], relayJson.foreign)
  /\ UNCHANGED <<tampered, request, bootstrap, onMachine, doctor, stage, depsVars>>

-------------------------------------------------------------------------------
(* Accounts.  Three routes look for active runs, then await the body.       *)

ReadFrom(a) == relayJson.json = "good" /\ a \in DOMAIN relayJson.agents
AccountsTo(a, s) ==
  /\ writeRelayConfig([relayJson.agents EXCEPT ![a].accounts = s], relayJson.foreign)
  /\ UNCHANGED <<tampered, bootstrap, onMachine, doctor, stage, depsVars, fileEvents>>

AskAccounts(w, what) ==
  /\ request[w] = "none" /\ Event /\ ~hasAnyActiveRun
  /\ request' = [request EXCEPT ![w] = what]
  /\ UNCHANGED <<jsonVars, tampered, bootstrap, onMachine, doctor, stage, depsVars>>

ConfigAnswered(w, what) == request[w] = what /\ request' = [request EXCEPT ![w] = "none"]

AddAccount(w, a) ==
  /\ ConfigAnswered(w, "add") /\ ReadFrom(a) /\ LaneTypes[a] # "http"
  /\ LET have == relayJson.agents[a].accounts
         free == RelayAccounts \ {have[i].id : i \in DOMAIN have}
         top == Max({0} \cup {have[i].priority : i \in DOMAIN have})
     IN  \E id \in free : AccountsTo(a, Append(have, [id |-> id, priority |-> top + 1, on |-> TRUE]))

OrderAccounts(w, a) ==
  /\ ConfigAnswered(w, "order") /\ ReadFrom(a)
  /\ AccountsTo(a, LET r == Reverse(relayJson.agents[a].accounts)
                   IN  [i \in DOMAIN r |-> [r[i] EXCEPT !.priority = i]])

PatchAccount(w, a) ==
  /\ ConfigAnswered(w, "patch") /\ ReadFrom(a)
  /\ \E i \in DOMAIN relayJson.agents[a].accounts :
       AccountsTo(a, [relayJson.agents[a].accounts EXCEPT ![i].on = ~@])

ConfigFails(w) ==
  /\ request[w] # "none" /\ \A a \in DOMAIN relayJson.agents : ~ReadFrom(a)
  /\ request' = [request EXCEPT ![w] = "none"]
  /\ UNCHANGED <<jsonVars, tampered, bootstrap, onMachine, doctor, stage, depsVars, fileEvents>>

\* DELETE of an account looks for no active run.
DeleteAccount(a) ==
  /\ ReadFrom(a) /\ Event
  /\ \E i \in DOMAIN relayJson.agents[a].accounts :
       writeRelayConfig([relayJson.agents EXCEPT ![a].accounts = RemoveAt(@, i)], relayJson.foreign)
  /\ UNCHANGED <<tampered, request, bootstrap, onMachine, doctor, stage, depsVars>>

-------------------------------------------------------------------------------
(* The doctor and bootstrap.                                                *)

MachineChanges(a) ==
  /\ Event /\ onMachine' = IF a \in onMachine THEN onMachine \ {a} ELSE onMachine \cup {a}
  /\ UNCHANGED <<jsonVars, tampered, request, bootstrap, doctor, stage, depsVars>>

ProbedNow(a) == IF LaneTypes[a] # "cli" THEN "none" ELSE IF a \in onMachine THEN "ok" ELSE "spawnFailed"

runDoctor ==
  /\ Event /\ Loads(relayJson)
  /\ doctor' = [a \in RelayAgents |-> IF a \in DOMAIN relayJson.agents THEN ProbedNow(a) ELSE doctor[a]]
  /\ UNCHANGED <<jsonVars, tampered, request, bootstrap, onMachine, stage, depsVars>>

\* The file is read here, and written two rounds of probes later.
BootstrapReads ==
  /\ bootstrap.pc = "off" /\ Event /\ relayJson.json # "broken"
  /\ bootstrap' = [pc |-> "known", agents |-> relayJson.agents, answered |-> {}, foreign |-> relayJson.foreign]
  /\ UNCHANGED <<jsonVars, tampered, request, onMachine, doctor, stage, depsVars>>

BootstrapProbesKnown ==
  /\ bootstrap.pc = "known"
  /\ bootstrap' = [bootstrap EXCEPT !.pc = "own", !.answered = {a \in RelayAgents : LaneTypes[a] = "cli"} \cap onMachine]
  /\ doctor' = [a \in RelayAgents |-> ProbedNow(a)]
  /\ UNCHANGED <<jsonVars, tampered, request, onMachine, stage, depsVars, fileEvents>>

FromTemplate(a) == [roles |-> {"work"}, models |-> "some", accounts |-> <<>>, wellFormed |-> TRUE]
Enriched(a, e) ==
  [e EXCEPT !.roles = IF LaneTypes[a] = "sdk" /\ ~(@ \subseteq {"work"}) THEN {"work"} ELSE @,
            !.models = IF LaneTypes[a] # "http" THEN "some" ELSE IF @ = "empty" THEN "absent" ELSE @]

BootstrapWrites ==
  /\ bootstrap.pc = "own" /\ bootstrap' = [bootstrap EXCEPT !.pc = "off"]
  /\ LET mine == bootstrap.agents
         removed == {a \in DOMAIN mine : LaneTypes[a] = "cli" /\ a \notin onMachine}
         added == bootstrap.answered \ DOMAIN mine
         next == [a \in (DOMAIN mine \ removed) \cup added |->
                    IF a \in added THEN FromTemplate(a) ELSE Enriched(a, mine[a])]
     IN  IF next # mine THEN writeRelayConfig(next, bootstrap.foreign) ELSE UNCHANGED jsonVars
  /\ tampered' = IF relayJson' = relayJson THEN tampered ELSE {}
  /\ UNCHANGED <<request, onMachine, doctor, stage, depsVars, fileEvents>>

\* An operator saves the file by hand.
HandEdit(f) ==
  /\ Event /\ relayJson' = f /\ lastWriter' = "hand" /\ tampered' = {}
  /\ UNCHANGED <<relayBak, spread, request, bootstrap, onMachine, doctor, stage, depsVars>>

-------------------------------------------------------------------------------
(* The work stage of a run.                                                 *)

\* A start is refused for an agent the doctor could not spawn, however long ago.
StartRun(r) ==
  /\ stage[r].pc = "off" /\ Loadable /\ \A a \in DOMAIN relayJson.agents : doctor[a] # "spawnFailed"
  /\ loadRelayConfig /\ stage' = [stage EXCEPT ![r].pc = "plan"]
  /\ UNCHANGED <<tampered, request, bootstrap, onMachine, doctor, depsVars, fileEvents>>

snapshotDeps(r) ==
  /\ stage[r].pc = "plan" /\ stage' = [stage EXCEPT ![r].pc = "based", ![r].base = shared]
  /\ touched' = [touched EXCEPT ![r] = {}]
  /\ UNCHANGED <<jsonVars, tampered, request, bootstrap, onMachine, doctor, shared, wroteBy, disturbed, fileEvents>>

snapshotSensitive(r) ==
  /\ stage[r].pc = "based" /\ stage' = [stage EXCEPT ![r].pc = "work", ![r].snap = relayJson]
  /\ spread' = (spread \/ relayJson.foreign # Nobody)
  /\ UNCHANGED <<relayJson, relayBak, lastWriter, tampered, request, bootstrap, onMachine, doctor, depsVars, fileEvents>>

\* The agent writes where its sandbox does not keep it out.
AgentWritesFile(r) ==
  /\ stage[r].pc = "work" /\ relayJson.json = "good" /\ Event
  /\ relayJson' = [relayJson EXCEPT !.foreign = r] /\ lastWriter' = "agent" /\ tampered' = tampered \cup {r}
  /\ UNCHANGED <<relayBak, spread, request, bootstrap, onMachine, doctor, stage, depsVars>>

Writes(p) == shared' = shared \cup {p} /\ touched' = [r \in FileRuns |-> touched[r] \cup {p}]

AgentWritesDeps(r, p) ==
  /\ stage[r].pc = "work" /\ Event /\ Writes(p) /\ wroteBy' = [wroteBy EXCEPT ![p] = r]
  /\ UNCHANGED <<jsonVars, tampered, request, bootstrap, onMachine, doctor, stage, disturbed>>

OperatorInstalls(p) ==
  /\ Event /\ Writes(p) /\ wroteBy' = [wroteBy EXCEPT ![p] = Nobody]
  /\ disturbed' = IF AtWork = {} THEN disturbed \ {p} ELSE disturbed \cup {p}
  /\ UNCHANGED <<jsonVars, tampered, request, bootstrap, onMachine, doctor, stage>>

(* Mutant of LeakFound: entries that were there and changed do not count.   *)
LeakAdded(r) == shared \ stage[r].base
LeakFound(r) == (shared \ stage[r].base) \cup (touched[r] \cap shared)

\* detectAndRestore; the dependency folder is not looked at when it found something.
detectAndRestore(r) ==
  /\ stage[r].pc = "work" /\ relayJson # stage[r].snap
  /\ relayJson' = stage[r].snap /\ lastWriter' = "sentinel" /\ UNCHANGED spread
  /\ stage' = [stage EXCEPT ![r].pc = "failing"]
  /\ UNCHANGED <<relayBak, tampered, request, bootstrap, onMachine, doctor, depsVars, fileEvents>>

detectDepsLeak(r) ==
  /\ stage[r].pc = "work" /\ relayJson = stage[r].snap /\ LeakFound(r) # {}
  /\ shared' = shared \cap stage[r].base /\ stage' = [stage EXCEPT ![r].pc = "failing"]
  /\ UNCHANGED <<jsonVars, tampered, request, bootstrap, onMachine, doctor, touched, wroteBy, disturbed, fileEvents>>

StageClean(r) ==
  /\ stage[r].pc = "work" /\ relayJson = stage[r].snap /\ LeakFound(r) = {}
  /\ stage' = [stage EXCEPT ![r].pc = "review"]
  /\ UNCHANGED <<jsonVars, tampered, request, bootstrap, onMachine, doctor, depsVars, fileEvents>>

SettleRun(r) ==
  /\ stage[r].pc \in {"failing", "review"}
  /\ stage' = [stage EXCEPT ![r].pc = IF @ = "review" THEN "passed" ELSE "failed"]
  /\ UNCHANGED <<jsonVars, tampered, request, bootstrap, onMachine, doctor, depsVars, fileEvents>>

\* The server dies: the snapshots were in memory.
ServerDies ==
  /\ hasAnyActiveRun /\ Event
  /\ stage' = [r \in FileRuns |-> IF stage[r].pc \in Over \cup {"off"} THEN stage[r] ELSE [stage[r] EXCEPT !.pc = "crashed"]]
  /\ request' = [w \in FileWriters |-> "none"] /\ bootstrap' = [bootstrap EXCEPT !.pc = "off"]
  /\ doctor' = [a \in RelayAgents |-> "none"]
  /\ UNCHANGED <<jsonVars, tampered, onMachine, depsVars>>

RelayFileNext ==
  \/ ReadFile \/ ListAgents \/ runDoctor \/ BootstrapReads \/ BootstrapProbesKnown \/ BootstrapWrites \/ ServerDies
  \/ \E a \in RelayAgents : DeleteAccount(a) \/ MachineChanges(a)
  \/ \E a \in RelayAgents, roles \in {{}, {"plan"}, {"work"}}, models \in {"absent", "some"} : PatchAgent(a, roles, models)
  \/ \E w \in FileWriters, what \in {"add", "order", "patch"} : AskAccounts(w, what)
  \/ \E w \in FileWriters : ConfigFails(w)
  \/ \E w \in FileWriters, a \in RelayAgents : AddAccount(w, a) \/ OrderAccounts(w, a) \/ PatchAccount(w, a)
  \/ \E f \in HandEdits : HandEdit(f)
  \/ \E p \in Packages : OperatorInstalls(p)
  \/ \E r \in FileRuns :
       \/ StartRun(r) \/ snapshotDeps(r) \/ snapshotSensitive(r) \/ AgentWritesFile(r)
       \/ \E p \in Packages : AgentWritesDeps(r, p)
       \/ detectAndRestore(r) \/ detectDepsLeak(r) \/ StageClean(r) \/ SettleRun(r)

-------------------------------------------------------------------------------
RelayFileTypeOK ==
  /\ relayJson.json \in {"none", "broken", "good"} /\ DOMAIN relayJson.agents \subseteq RelayAgents
  /\ request \in [FileWriters -> {"none", "add", "order", "patch"}]
  /\ bootstrap.pc \in {"off", "known", "own"} /\ onMachine \subseteq RelayAgents
  /\ doctor \in [RelayAgents -> {"none", "ok", "spawnFailed"}]
  /\ \A r \in FileRuns : stage[r].pc \in Over \cup {"off", "plan", "based", "work", "review"} /\ stage[r].base \subseteq Packages
  /\ shared \subseteq Packages /\ tampered \subseteq FileRuns

\* What the program itself wrote last loads, however its readers, writers and repairs met.
FileLoads == lastWriter = "code" => Loads(relayJson)

\* When no work stage is on and no run crashed, relay.json is not what an agent wrote,
\* unless those bytes were snapshotted, copied or read by somebody before they were undone.
TamperUndone ==
  (AtWork = {} /\ relayJson.foreign # Nobody) => spread \/ bootstrap.foreign # Nobody \/ \E r \in FileRuns : stage[r].pc = "crashed"

\* An agent that wrote relay.json made some run fail, though it need not be its own.
TamperSeen == AtWork = {} /\ tampered # {} => Failures # {}

\* A package an agent left in the shared folder is one whose run failed, be its stage over.
LeakSeen == \A p \in shared : wroteBy[p] # Nobody /\ stage[wroteBy[p]].pc \in Over \cup {"review"} => wroteBy[p] \in Failures

\* What an operator installed while no work stage was on is there for good.
InstallsKept == \A p \in Packages : wroteBy[p] = Nobody /\ (\E r \in FileRuns : p \in touched[r]) => p \in shared \/ p \in disturbed

\* Nothing a work stage does to relay.json or to the shared packages goes unseen, and what the guards undo is only what they must.
RelayFileInv == RelayFileTypeOK /\ FileLoads /\ TamperUndone /\ TamperSeen /\ LeakSeen /\ InstallsKept
===============================================================================

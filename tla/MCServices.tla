----------------------------- MODULE MCServices -----------------------------
(* The components of the server that share no state, in one run: the first state chooses the one
   that acts, and the others stay as they are. *)
EXTENDS Chat, ChatTools, HttpLane, Council, Briefing, RelayFile, VaultWatch, ProjectVaults, Transcripts,
        Runner, Recall, Policies, Skills, Wiring, Laya, Voyage

VARIABLE focus   \* the component that acts

allVars == <<focus, chatVars, toolsVars, laneVars, councilVars, briefVars, relayFileVars, vaultVars,
             projectVaultVars, transcriptVars, runnerVars, recallVars, policiesVars, skillVars, wiringVars,
             layaVars, voyageVars>>

\* The instances that a .cfg cannot write.
ChatLns == [p \in ChatPosts |-> IF p = "p1" THEN {"sdk", "handoff"} ELSE {"http", "none", "cli"}]
OneSession == [p \in ChatPosts \cup ChatDeletes |-> "s1"]
ToolSess == [c \in ToolCalls \ McpCalls |-> "s1"]
ToolOrig == [c \in ToolCalls |-> "o1"]
AllowW1 == "w1" :> "o1"
SmallTrees == {<<"a">>, <<"b">>, <<"d", "a">>, <<"d", "b">>, <<"e", "a">>, <<"d", "e", "a">>, <<"d", "e", "b">>,
               <<"d", "e", "f", "a">>}
RelayEntry(roles, logins) == [roles |-> roles, models |-> "some", accounts |-> logins, wellFormed |-> TRUE]
LaneOfAgent == [a \in RelayAgents |-> a]
RelayThen ==
  ("cli" :> RelayEntry({"work"}, <<[id |-> 1, priority |-> 1, on |-> TRUE]>>)) @@ ("sdk" :> RelayEntry({"work"}, <<>>))
EditsByHand ==
  {[json |-> "broken", agents |-> [a \in {} |-> 0], foreign |-> Nobody],
   [json |-> "good", foreign |-> Nobody,
    agents |-> [RelayThen EXCEPT !["sdk"].roles = {"plan", "work"}, !["cli"].models = "empty"]]}
PathsOfRepos == ("p1" :> <<"/", "a">>) @@ ("p2" :> <<"/", "a", "/", "b">>) @@ ("p3" :> <<"/", "a", "-", "b">>)
RolesOfRunners == [r \in Runners |-> CASE r \in {"w1", "w2"} -> "work" [] r = "v1" -> "review" [] OTHER -> "plan"]
Row(k, ref, p, d, far, age) == [kind |-> k, ref |-> ref, project |-> p, dim |-> d, far |-> far, age |-> age]
SomeRows ==
  {Row("note", "a", "p", 1, 0, 3), Row("note", "b", "q", 1, 1, 0), Row("vault", "c", "none", 1, 2, 0),
   Row("vault", "d", "none", 2, 0, 0), Row("repo", "e", "p", 1, 3, 0), Row("chat", "f", "p", 1, 4, 0),
   Row("repo", "g", "p", 1, 5, 0), Row("chat", "h", "none", 1, 6, 1)}
KindsOfNotes == ("n1" :> "decision") @@ ("n2" :> "decision") @@ ("n3" :> "rule") @@ ("n4" :> "note")
Node(k, p, i) == [kind |-> k, project |-> p, n |-> i]
SomeNodes ==
  {Node("note", "p", 1), Node("note", "p", 2), Node("note", "q", 3), Node("repo", "p", 4), Node("session", "none", 7),
   Node("vault", "none", 9)}
Artifact(x, t, u) == [id |-> x, trigger |-> t, uses |-> u]
SomeArtifacts ==
  {Artifact("x1", "t", {"r"}), Artifact("x2", "t", {"s"}), Artifact("", "t", {"r"}), Artifact("x3", "none", {"r"}),
   Artifact("x4", "u", {})}

Seg(o, p) == [op |-> o, path |-> p]
CommandSegments ==
  {Seg("cd", <<"..">>), Seg("cd", <<"d">>), Seg("cd", <<"/">>), Seg("rm", <<"d">>), Seg("rm", <<"..", "w">>), Seg("rm", <<"~", "x">>),
   Seg("find", <<>>), Seg("curl", <<>>), Seg("sh", <<>>), Seg("push", <<>>)}
Pair(a, m, t, q) == [agent |-> a, model |-> m, tier |-> t, quality |-> q]
RoutedPairs ==
  {Pair("a", "m1", "cheap", 3), Pair("a", "m2", "expensive", 5), Pair("b", "m1", "free", 3), Pair("c", "none", "cheap", 4)}
MarksOfReports ==
  {[kind |-> k, admin |-> a, mark |-> m, inRun |-> TRUE] :
     k \in {"report", "comment"}, a \in BOOLEAN, m \in {"mismatch", "verified"}}
TwoOffers ==
  [u1 |-> <<[name |-> "n1", dir |-> "d1"], [name |-> "n2", dir |-> "own1"]>>, u2 |-> <<[name |-> "n1", dir |-> "d2"]>>]
SkillOp(k, u, d, n) == [kind |-> k, url |-> u, dir |-> d, name |-> n]
OpsAsked ==
  [f1 |-> SkillOp("fetch", "u1", "d1", ""), f2 |-> SkillOp("fetch", "u2", "n1", ""), r1 |-> SkillOp("remove", "u1", "", ""),
   i1 |-> SkillOp("install", "u1", "own1", ""), i2 |-> SkillOp("install", "u1", "d1", ""), x1 |-> SkillOp("uninstall", "u1", "", "n1"),
   a1 |-> SkillOp("add", "u1", "", ""), a2 |-> SkillOp("add", "no repository", "", "")]
\* Requests that come together: two urls, installed from, removed and uninstalled; one url that is added twice;
\* a skill that is installed again while it is uninstalled.
RequestsTogether == {{}, {"f1", "f2", "r1", "i1", "x1"}, {"f1", "a1", "r1", "a2"}, {"f1", "i2", "x1"}}
SomeLanes == <<"claude", "kimi", "codex">>
ClientOfLane == [l \in {"claude", "kimi", "codex"} |-> l]
KindOfClient == ("claude" :> "asked") @@ ("codex" :> "other") @@ ("kimi" :> "named")

ServicesInit ==
  /\ focus \in {"chat", "tools", "lane", "council", "brief", "relay", "watch", "vaults", "transcripts",
                "runner", "recall", "policies", "skills", "wiring", "laya", "voyage"}
  /\ ChatInit /\ ToolsInit /\ LaneInit /\ CouncilInit
  /\ BriefInit /\ RelayFileInit /\ VaultInit /\ ProjectVaultsInit
  /\ TranscriptsInit /\ RunnerInit /\ RecallInit /\ PoliciesInit
  /\ SkillsInit /\ WiringInit /\ LayaInit /\ VoyageInit
  /\ focus # "skills" => \A o \in SkillOps : ops[o].at = "unasked"
  /\ \A c, d \in Clients : entry[c] # None => focus = "wiring" /\ (entry[d] # None => d = c)  \* one at most is set up

\* Sessions of the council and passes of the wiring are alike, so the first of each starts first.
CouncilInOrder == council'["k2"] # NoSession => council'["k1"] # NoSession
\* Bound: the personas of all sessions that answer late at one time.
LateAtOnce == 1
FewLate == FoldSet(LAMBDA s, n : Cardinality(lateCalls'[s]) + n, 0, Councils) <= LateAtOnce
PassesInOrder == pass'["w2"] # NoPass => pass'["w1"] # NoPass

\* Those that do not act.
Others(name) ==
  /\ UNCHANGED focus
  /\ IF name = "chat" THEN TRUE ELSE UNCHANGED chatVars
  /\ IF name = "tools" THEN TRUE ELSE UNCHANGED toolsVars
  /\ IF name = "lane" THEN TRUE ELSE UNCHANGED laneVars
  /\ IF name = "council" THEN TRUE ELSE UNCHANGED councilVars
  /\ IF name = "brief" THEN TRUE ELSE UNCHANGED briefVars
  /\ IF name = "relay" THEN TRUE ELSE UNCHANGED relayFileVars
  /\ IF name = "watch" THEN TRUE ELSE UNCHANGED vaultVars
  /\ IF name = "vaults" THEN TRUE ELSE UNCHANGED projectVaultVars
  /\ IF name = "transcripts" THEN TRUE ELSE UNCHANGED transcriptVars
  /\ IF name = "runner" THEN TRUE ELSE UNCHANGED runnerVars
  /\ IF name = "recall" THEN TRUE ELSE UNCHANGED recallVars
  /\ IF name = "policies" THEN TRUE ELSE UNCHANGED policiesVars
  /\ IF name = "skills" THEN TRUE ELSE UNCHANGED skillVars
  /\ IF name = "wiring" THEN TRUE ELSE UNCHANGED wiringVars
  /\ IF name = "laya" THEN TRUE ELSE UNCHANGED layaVars
  /\ IF name = "voyage" THEN TRUE ELSE UNCHANGED voyageVars

ServicesNext ==
  \/ focus = "chat" /\ ChatNext /\ Others("chat")
  \/ focus = "tools" /\ ToolsNext /\ Others("tools")
  \/ focus = "lane" /\ LaneNext /\ Others("lane")
  \/ focus = "council" /\ CouncilNext /\ CouncilInOrder /\ FewLate /\ Others("council")
  \/ focus = "brief" /\ BriefNext /\ Others("brief")
  \/ focus = "relay" /\ RelayFileNext /\ Others("relay")
  \/ focus = "watch" /\ VaultNext /\ Others("watch")
  \/ focus = "vaults" /\ ProjectVaultsNext /\ Others("vaults")
  \/ focus = "transcripts" /\ TranscriptsNext /\ Others("transcripts")
  \/ focus = "runner" /\ RunnerNext /\ Others("runner")
  \/ focus = "recall" /\ RecallNext /\ Others("recall")
  \/ focus = "policies" /\ PoliciesNext /\ Others("policies")
  \/ focus = "skills" /\ SkillsNext /\ Others("skills")
  \/ focus = "wiring" /\ WiringNext /\ PassesInOrder /\ Others("wiring")
  \/ focus = "laya" /\ LayaNext /\ Others("laya")
  \/ focus = "voyage" /\ VoyageNext /\ Others("voyage")

ServicesSpec == ServicesInit /\ [][ServicesNext]_allVars

-----------------------------------------------------------------------------
(* Properties, each with its reading and the code it is about in the modules that state its parts.  Each
   is evaluated where one of its components acts: one that does not act stays in its first state, where
   its own instance begins. *)

\* What a chat says and does: turns and their sessions (Chat), tools and grants (ChatTools), rounds of a
\* model over HTTP (HttpLane).
TurnsInv == focus \in {"chat", "tools", "lane"} => ChatInv /\ ToolsInv /\ LaneInv

\* What a prompt is made of: briefings (Briefing) and recall (Recall).
ReadsInv == focus \in {"brief", "recall"} => BriefInv /\ RecallInv

\* What is taken in from files while they change: vaults (VaultWatch), their bindings to projects
\* (ProjectVaults), transcripts of sessions (Transcripts).
IngestInv == focus \in {"watch", "vaults", "transcripts"} => VaultInv /\ ProjectVaultsInv /\ TranscriptsInv

\* What agents leave and what they may do: files that have many writers, relay.json (RelayFile) and the
\* configurations of agent CLIs (Wiring); the screen, the wall and the rest of what is decided of them (Policies).
FilesInv == focus \in {"relay", "wiring", "policies"} => RelayFileInv /\ WiringInv /\ PoliciesInv

\* What is asked of processes outside: the stand-alone runner (Runner), Laya (Laya), Voyage (Voyage).
OutsideInv == focus \in {"runner", "laya", "voyage"} => RunnerInv /\ LayaInv /\ VoyageInv
=============================================================================

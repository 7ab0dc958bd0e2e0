------------------------------- MODULE Skills -------------------------------
(* Marketplaces of skills and what is installed from them (skills/marketplace.ts behind
   api/skills-routes.ts), and the skills a stage of the forge is given (forge/skills.ts).

   Both lists are settings: a request reads one whole, works, and writes it whole, with other requests
   in between. A marketplace is a folder that git fills; a skill is copied out of it. *)
EXTENDS Naturals, FiniteSets, SequencesExt, Lists

CONSTANTS
  SkillOps,      \* requests, each made once
  Batches,       \* bound: the sets of them that may come in one behaviour
  OpOf,          \* what each asks for: [kind, url, dir, name]
  ValidUrls,     \* urls that pass the check: https, or a folder that exists
  Offers,        \* the skills of each url: sequence of [name, dir]
  OpsAtOnce,     \* bound: requests in flight together
  OwnDirs,       \* folders of skills the user wrote by hand
  SkillDeaths,   \* bound: deaths of the server
  MetaLines,     \* bound: lines of a SKILL.md's front matter
  SkillNames,    \* names a plan or an operator may write, and folders may hold
  SkillCap,      \* skills a plan may choose (3)
  WrittenMax     \* bound: names in one line, skills in one folder

ASSUME SkillsAssumption ==
  /\ Batches \subseteq SUBSET SkillOps /\ OpsAtOnce \in Nat /\ SkillDeaths \in Nat
  /\ MetaLines \in Nat /\ SkillCap \in Nat /\ WrittenMax \in Nat
  /\ ValidUrls \subseteq DOMAIN Offers /\ \A u \in DOMAIN Offers : Offers[u] \in Seq(ToSet(Offers[u]))
  /\ \A o \in SkillOps : OpOf[o].kind \in {"add", "fetch", "remove", "install", "uninstall"}
  /\ \A o \in SkillOps : OpOf[o].kind = "install" => OpOf[o].url \in DOMAIN Offers

VARIABLES
  clones,      \* the folder of each url: [st, by]
  markets,     \* setting skills.marketplaces
  managed,     \* setting skills.installed: sequence of [name, dir, url, by (the request, for installedAt)]
  skillDirs,   \* whose files are in each folder of ~/.claude/skills
  ops,         \* each request: [at, seen (the list it read), pick (the skill it installs or drops)]
  mishaps,     \* what went wrong so far
  skillDeaths,
  worked       \* a pure decision: from what, and what

marketVars == <<clones, markets, managed, skillDirs, ops, mishaps, skillDeaths>>
skillVars == <<clones, markets, managed, skillDirs, ops, mishaps, skillDeaths, worked>>

Url(o) == OpOf[o].url
AllDirs == OwnDirs \cup UNION {{s.dir : s \in ToSet(Offers[u])} : u \in DOMAIN Offers}
NoFolder == [st |-> "none", by |-> "nobody"]
BusyWith(o) == [st |-> "busy", by |-> o]

SkillsInit ==
  /\ clones = [u \in DOMAIN Offers |-> NoFolder]
  /\ markets = {} /\ managed = <<>>
  /\ skillDirs = [d \in AllDirs |-> IF d \in OwnDirs THEN {"own"} ELSE {}]
  /\ \E batch \in Batches :
       ops = [o \in SkillOps |-> [at |-> IF o \in batch THEN "idle" ELSE "unasked", seen |-> <<>>, pick |-> <<>>]]
  /\ mishaps = {} /\ skillDeaths = 0
  /\ worked = [about |-> "nothing"]

OpsRunning == {o \in SkillOps : ops[o].at \notin {"unasked", "idle", "done"}}
\* A request may come in.
Comes(o) == worked.about = "nothing" /\ ops[o].at = "idle" /\ Cardinality(OpsRunning) < OpsAtOnce

GoOn(o, to) == ops' = [ops EXCEPT ![o].at = to]
\* Another request adds or removes the same url.
Raced(o) == \E p \in OpsRunning : Url(p) = Url(o) /\ OpOf[p].kind \in {"add", "fetch", "remove"}
Mishap(cond, what) == mishaps' = IF cond THEN mishaps \cup {what} ELSE mishaps

\* What a scan finds: all of a checkout that is done, any part of one that is being made.
discoverSkills(u) ==
  CASE clones[u].st = "ready" -> {Offers[u]}
    [] clones[u].st = "none" -> {<<>>}
    [] OTHER -> {OnlyIn(Offers[u], part) : part \in SUBSET ToSet(Offers[u])}

-----------------------------------------------------------------------------
(* Adding and removing a marketplace *)

\* A folder that is there is pulled; git has not made the folder of a clone that has just started.
cloneOrRefresh(o) ==
  /\ Comes(o) /\ OpOf[o].kind \in {"add", "fetch"}
  /\ \/ Url(o) \notin ValidUrls /\ GoOn(o, "done") /\ UNCHANGED clones
     \/ Url(o) \in ValidUrls /\ clones[Url(o)].st # "none" /\ GoOn(o, "pulling") /\ UNCHANGED clones
     \/ Url(o) \in ValidUrls /\ clones[Url(o)].st \in {"none", "busy"} /\ GoOn(o, "cloning")
        /\ clones' = [clones EXCEPT ![Url(o)] = IF @.st = "none" THEN BusyWith(o) ELSE @]
  /\ Mishap(Raced(o), "raced")
  /\ UNCHANGED <<markets, managed, skillDirs, skillDeaths, worked>>

\* A pull that fails removes the folder, whoever fills it, and clones anew.
PullEnds(o) ==
  /\ ops[o].at = "pulling"
  /\ \/ clones[Url(o)].st = "ready" /\ GoOn(o, "listing") /\ UNCHANGED clones
     \/ clones' = [clones EXCEPT ![Url(o)] = BusyWith(o)] /\ GoOn(o, "cloning")
  /\ UNCHANGED <<markets, managed, skillDirs, mishaps, skillDeaths, worked>>

\* A clone whose folder another made or removed fails, and may take the folder with it.
CloneEnds(o) ==
  /\ ops[o].at = "cloning"
  /\ \/ clones[Url(o)] = BusyWith(o) /\ GoOn(o, "listing")
        /\ clones' = [clones EXCEPT ![Url(o)] = [st |-> "ready", by |-> "nobody"]] /\ UNCHANGED mishaps
     \/ GoOn(o, "done") /\ Mishap(Url(o) \in markets, "offline")
        /\ clones' = [clones EXCEPT ![Url(o)] = NoFolder]
     \/ clones[Url(o)] # BusyWith(o) /\ GoOn(o, "done") /\ UNCHANGED <<clones, mishaps>>
  /\ UNCHANGED <<markets, managed, skillDirs, skillDeaths, worked>>

getMarketplaces(o) ==
  /\ ops[o].at = "listing" \/ (Comes(o) /\ OpOf[o].kind = "remove")
  /\ ops' = [ops EXCEPT ![o].at = "listed", ![o].seen = markets]
  /\ Mishap(ops[o].at = "idle" /\ Raced(o), "raced")
  /\ UNCHANGED <<clones, markets, managed, skillDirs, skillDeaths, worked>>

Past(o) == IF OpOf[o].kind = "fetch" THEN "finding" ELSE "done"

setMarketplaces(o) ==
  /\ ops[o].at = "listed"
  /\ LET seen == ops[o].seen IN
     IF OpOf[o].kind = "remove"
     THEN /\ markets' = seen \ {Url(o)} /\ GoOn(o, "unclone") /\ Mishap(seen # markets, "market lost")
     ELSE /\ markets' = IF Url(o) \in seen THEN markets ELSE seen \cup {Url(o)}
          /\ GoOn(o, Past(o)) /\ Mishap(seen # markets, "market lost")
  /\ UNCHANGED <<clones, managed, skillDirs, skillDeaths, worked>>

\* The folder goes after the entry, and with it one that was added again meanwhile.
removeMarketplace(o) ==
  /\ ops[o].at = "unclone"
  /\ clones' = [clones EXCEPT ![Url(o)] = NoFolder]
  /\ GoOn(o, "done")
  /\ UNCHANGED <<markets, mishaps, managed, skillDirs, skillDeaths, worked>>

-----------------------------------------------------------------------------
(* Installing and uninstalling *)

\* A direct install names the folder; one from the registry a folder, or else a name.
Matching(o, skills) ==
  LET dirs == OnlyIn(skills, {s \in ToSet(skills) : s.dir = OpOf[o].dir})
      names == OnlyIn(skills, {s \in ToSet(skills) : s.name = OpOf[o].dir}) IN
  IF dirs # <<>> \/ OpOf[o].kind = "install" THEN dirs ELSE names

FindSkill(o) ==
  /\ (Comes(o) /\ OpOf[o].kind = "install") \/ ops[o].at = "finding"
  /\ \E skills \in discoverSkills(Url(o)) :
       LET found == Matching(o, skills) IN
       ops' = [ops EXCEPT ![o] = IF found = <<>> THEN [@ EXCEPT !.at = "done"]
                                 ELSE [at |-> "reading", seen |-> <<>>, pick |-> <<found[1]>>]]
  /\ UNCHANGED <<clones, markets, managed, skillDirs, mishaps, skillDeaths, worked>>

getInstalled(o) ==
  /\ \/ ops[o].at = "reading" /\ ops' = [ops EXCEPT ![o].at = "copying", ![o].seen = managed]
     \/ Comes(o) /\ OpOf[o].kind = "uninstall" /\ ops' = [ops EXCEPT ![o].at = "dropping", ![o].seen = managed]
  /\ UNCHANGED <<clones, markets, managed, skillDirs, mishaps, skillDeaths, worked>>

ManagedDir(list, d) == \E e \in ToSet(list) : e.dir = d
Named(list, name) == {e \in ToSet(list) : e.name = name}

(* Mutant of InstallRefused: a folder that is there is written over. *)
InstallNeverRefused(o) == FALSE
\* A folder that is there and not in the list is the user's.
InstallRefused(o) == skillDirs[ops[o].pick[1].dir] # {} /\ ~ManagedDir(ops[o].seen, ops[o].pick[1].dir)

\* The copy adds to what the folder holds; a checkout that has gone meanwhile gives nothing.
installSkill(o) ==
  /\ ops[o].at = "copying"
  /\ IF InstallRefused(o) \/ clones[Url(o)].st = "none"
     THEN GoOn(o, "done") /\ UNCHANGED skillDirs
     ELSE GoOn(o, "recording") /\ skillDirs' = [skillDirs EXCEPT ![ops[o].pick[1].dir] = @ \cup {Url(o)}]
  /\ UNCHANGED <<clones, markets, managed, mishaps, skillDeaths, worked>>

\* The first entry of the name loses its folder.
uninstallSkill(o) ==
  /\ ops[o].at = "dropping"
  /\ LET mine == OnlyIn(ops[o].seen, Named(ops[o].seen, OpOf[o].name)) IN
     IF mine = <<>> THEN GoOn(o, "done") /\ UNCHANGED <<skillDirs, mishaps>>
     ELSE /\ skillDirs' = [skillDirs EXCEPT ![mine[1].dir] = {}]
          /\ Mishap(Len(mine) > 1, "namesakes") /\ GoOn(o, "recording")
  /\ UNCHANGED <<clones, markets, managed, skillDeaths, worked>>

\* The entries of the folder make room for the new one; every entry of the name goes.
setInstalled(o) ==
  /\ ops[o].at = "recording"
  /\ LET p == ops[o].pick  all == ToSet(ops[o].seen) IN
     managed' = IF OpOf[o].kind = "uninstall" THEN OnlyIn(ops[o].seen, all \ Named(ops[o].seen, OpOf[o].name))
                ELSE Append(OnlyIn(ops[o].seen, {e \in all : e.dir # p[1].dir}),
                            [name |-> p[1].name, dir |-> p[1].dir, url |-> Url(o), by |-> o])
  /\ Mishap(ops[o].seen # managed, "skill lost") /\ GoOn(o, "done")
  /\ UNCHANGED <<clones, markets, skillDirs, skillDeaths, worked>>

\* The server dies: requests end where they are, a checkout that was being made stays as it is.
SkillServerDies ==
  /\ worked.about = "nothing" /\ skillDeaths < SkillDeaths /\ skillDeaths' = skillDeaths + 1 /\ mishaps' = mishaps \cup {"death"}
  /\ ops' = [o \in SkillOps |-> IF o \in OpsRunning THEN [ops[o] EXCEPT !.at = "done"] ELSE ops[o]]
  /\ clones' = [u \in DOMAIN clones |-> IF clones[u].st = "busy" THEN [st |-> "broken", by |-> "nobody"] ELSE clones[u]]
  /\ UNCHANGED <<markets, managed, skillDirs, worked>>

-----------------------------------------------------------------------------
(* The skills of a stage *)

\* Lines of front matter: [key, value]; an indented line and a blank one have no key.
MetaLine == {<<"name", "plain">>, <<"name", "folded">>, <<"description", "plain">>, <<"description", "folded">>,
             <<"other", "plain">>, <<"indented", "more">>, <<"blank", "">>}

FirstAt(s, Is(_)) == CHOOSE i \in DOMAIN s : Is(s[i]) /\ \A j \in 1..(i - 1) : ~Is(s[j])

\* The first line of the key; a folded value is the indented lines up to the next key.
frontmatterField(block, key) ==
  IF ~\E l \in ToSet(block) : l[1] = key THEN <<>>
  ELSE LET i == FirstAt(block, LAMBDA l : l[1] = key)
           rest == SubSeq(block, i + 1, Len(block))
           own == IF \E l \in ToSet(rest) : l[1] \notin {"indented", "blank"}
                  THEN SubSeq(rest, 1, FirstAt(rest, LAMBDA l : l[1] \notin {"indented", "blank"}) - 1) ELSE rest IN
       IF block[i][2] = "plain" THEN <<block[i]>> ELSE OnlyIn(own, {l \in ToSet(own) : l[1] # "blank"})

readSkillMeta(block) == [name |-> frontmatterField(block, "name"), description |-> frontmatterField(block, "description")]

ReadMeta ==
  \E block \in SeqOf(MetaLine, MetaLines) : worked' = [about |-> "meta", block |-> block, got |-> readSkillMeta(block)]

\* Skills by name, the project's folder before the user's; a name that is taken stays.
listSkills(project, home, allow) ==
  LET all == [i \in DOMAIN project |-> [name |-> project[i], from |-> "project"]]
             \o [i \in DOMAIN home |-> [name |-> home[i], from |-> "home"]]
      out[n \in 0..Len(all)] ==
        IF n = 0 THEN <<>>
        ELSE IF \E t \in ToSet(out[n - 1]) : t.name = all[n].name THEN out[n - 1] ELSE Append(out[n - 1], all[n])
      byName == out[Len(all)] IN
  IF allow = {} THEN byName ELSE OnlyIn(byName, {s \in ToSet(byName) : s.name \in allow})

\* An agent's own list narrows the index; an empty one leaves nothing, none leaves all.
skillsForAgent(skills, allow) == IF allow = <<>> THEN skills ELSE OnlyIn(skills, {s \in ToSet(skills) : s.name \in allow[1]})

\* Distinct names in the order written, so many at most.
dedupeCap(names) ==
  LET out[n \in 0..Len(names)] ==
        IF n = 0 THEN <<>>
        ELSE IF names[n] \notin ToSet(out[n - 1]) /\ Len(out[n - 1]) < SkillCap THEN Append(out[n - 1], names[n]) ELSE out[n - 1]
  IN out[Len(names)]

parsePlanSkills(written, known) == dedupeCap(OnlyIn(written, known))

StageSkills ==
  \E project, home \in SeqOf(SkillNames, 2), allow \in SUBSET SkillNames, own \in {<<>>} \cup {<<s>> : s \in SUBSET SkillNames} :
    worked' = [about |-> "stage", project |-> project, home |-> home, allow |-> allow, own |-> own,
               index |-> skillsForAgent(listSkills(project, home, allow), own)]

ChooseSkills ==
  \E known \in SUBSET SkillNames, written \in SeqOf(SkillNames, WrittenMax) :
    worked' = [about |-> "plan", known |-> known, written |-> written, chosen |-> parsePlanSkills(written, known)]

\* A row of the registry that has no name, or no source of the form owner/repo, is dropped; a limit
\* that is no number, or zero, is none.
searchRegistry(rows, limit) ==
  LET kept == OnlyIn(rows, {r \in ToSet(rows) : r[1] # "" /\ r[2] = "owner/repo"}) IN
  IF limit = 0 \/ Len(kept) <= limit THEN kept ELSE SubSeq(kept, 1, limit)

SearchSkills ==
  \E rows \in SeqOf({"a", ""} \X {"owner/repo", "elsewhere"}, WrittenMax), limit \in 0..2 :
    worked' = [about |-> "search", rows |-> rows, limit |-> limit, found |-> searchRegistry(rows, limit)]

-----------------------------------------------------------------------------
SkillsNext ==
  \/ \E o \in SkillOps :
       \/ cloneOrRefresh(o) \/ PullEnds(o) \/ CloneEnds(o) \/ getMarketplaces(o) \/ setMarketplaces(o)
       \/ removeMarketplace(o) \/ FindSkill(o) \/ getInstalled(o) \/ installSkill(o) \/ uninstallSkill(o) \/ setInstalled(o)
  \/ SkillServerDies
  \/ /\ worked.about = "nothing" /\ \A o \in SkillOps : ops[o].at = "unasked"
     /\ (ReadMeta \/ StageSkills \/ ChooseSkills \/ SearchSkills) /\ UNCHANGED marketVars

-----------------------------------------------------------------------------
(* Properties *)

NoOpRuns == OpsRunning = {}

\* A folder the user wrote by hand is never written into, replaced or removed, whatever is installed
\* or uninstalled and wherever the server dies.
OwnFoldersKept == \A d \in OwnDirs : skillDirs[d] = {"own"}

\* Between requests the list of installed skills and the folders agree, and each folder holds the files
\* of the marketplace its entry names, unless a list was written over a newer one, two entries had one
\* name, or the server died.
InstalledAgrees ==
  NoOpRuns /\ mishaps \cap {"skill lost", "namesakes", "death"} = {} =>
    \A d \in AllDirs \ OwnDirs :
      /\ skillDirs[d] # {} <=> ManagedDir(managed, d)
      /\ \A e \in ToSet(managed) : e.dir = d => e.url \in skillDirs[d]

\* No folder has two entries, so that one uninstall settles it.
OneEntryEach == \A i, j \in DOMAIN managed : managed[i].dir = managed[j].dir => i = j

\* Between requests every marketplace in the list has its checkout, unless a refresh failed, another
\* request for it was in flight, a list was written over a newer one, or the server died.
MarketsThere ==
  NoOpRuns /\ mishaps \cap {"offline", "raced", "market lost", "death"} = {} => \A u \in markets : clones[u].st = "ready"

\* A field never takes a line of another; a stage is given only skills that both lists let through,
\* the project's own before the user's; a search gives at most what was asked for.
SkillsRead ==
  CASE worked.about = "meta" ->
         \A key \in {"name", "description"}, i \in DOMAIN worked.block :
           worked.block[i][1] = key /\ (\A j \in 1..(i - 1) : worked.block[j][1] # key) =>
             LET next == {j \in (i + 1)..Len(worked.block) : worked.block[j][1] \notin {"indented", "blank"}} IN
             \A l \in ToSet(worked.got[key]) :
               \E j \in i..Len(worked.block) : worked.block[j] = l /\ \A k \in next : j < k
    [] worked.about = "stage" ->
         \A s \in ToSet(worked.index) :
           /\ worked.allow = {} \/ s.name \in worked.allow
           /\ worked.own = <<>> \/ s.name \in worked.own[1]
           /\ s.from = "home" => s.name \notin ToSet(worked.project)
    [] worked.about = "plan" ->
         /\ IsInjective(worked.chosen) /\ ToSet(worked.chosen) \subseteq worked.known
         /\ Len(worked.chosen) = IF Cardinality(ToSet(worked.written) \cap worked.known) < SkillCap
                                 THEN Cardinality(ToSet(worked.written) \cap worked.known) ELSE SkillCap
    [] worked.about = "search" ->
         /\ worked.limit > 0 => Len(worked.found) <= worked.limit
         /\ \A r \in ToSet(worked.found) : r \in ToSet(worked.rows) /\ r[2] = "owner/repo"
    [] OTHER -> TRUE

\* Skills are installed, listed and given out as their purpose says.
SkillsInv == OwnFoldersKept /\ InstalledAgrees /\ OneEntryEach /\ MarketsThere /\ SkillsRead
=============================================================================

------------------------------ MODULE Policies ------------------------------
(* What the forge lets an agent do, decided by pure functions: the screen of shell commands
   (relay/risk.ts), the wall around an agent's program (relay/wall.ts), directives in a ticket's body
   (forge/policy.ts, services/tickets.ts), the choice of agent and model (forge/router.ts) and the
   check that the model asked for answered (forge/verify.ts).

   Regular expressions are abstracted to the kind of segment or line they recognise; a path is the
   sequence of its parts. *)
EXTENDS Naturals, FiniteSets, SequencesExt, Lists

CONSTANTS
  Segments,        \* segments of a command line: [op, path] with the wrappers stripped
  SegmentsMax,     \* bound: segments of a command
  BodyLinesMax,    \* bound: lines of a ticket's body
  ModelPairs,      \* [agent, model, tier, quality]
  PairsMax,        \* bound: pairs of a role
  VerifyMarks,     \* comments: [kind, admin, mark, inRun]
  MarksMax,        \* bound: comments of a ticket
  WallWords        \* words of an agent's command line

ASSUME PoliciesAssumption ==
  /\ SegmentsMax \in Nat /\ BodyLinesMax \in Nat \ {0} /\ PairsMax \in Nat /\ MarksMax \in Nat
  /\ \A p \in ModelPairs : p.tier \in {"free", "cheap", "expensive"} /\ p.quality \in Nat

VARIABLE decided   \* what is decided, from what, and the decision

policiesVars == <<decided>>
PoliciesInit == decided = [about |-> "nothing"]

\* The folder the agent works in, and the user's home.
Workdir == <<"work", "w">>
HomeDir == <<"home">>

-----------------------------------------------------------------------------
(* relay/risk.ts *)

Step(dir, part) == IF part = ".." THEN (IF dir = <<>> THEN <<>> ELSE Front(dir)) ELSE Append(dir, part)

resolveTarget(p, cwd) ==
  CASE p # <<>> /\ p[1] = "/" -> FoldLeft(Step, <<>>, Tail(p))
    [] p # <<>> /\ p[1] = "~" -> FoldLeft(Step, HomeDir, Tail(p))
    [] OTHER -> FoldLeft(Step, cwd, p)

strictlyInside(p, dir) == IsStrictPrefix(dir, p)

\* The rules that look at folders; every other rule goes by the words of the segment.
Rule(s, cwd) ==
  CASE s.op = "rm" /\ ~strictlyInside(resolveTarget(s.path, cwd), Workdir) -> "rm-outside"
    [] s.op = "find" /\ LET p == resolveTarget(s.path, cwd) IN p # Workdir /\ ~strictlyInside(p, Workdir) -> "find-delete-outside"
    [] s.op = "push" -> "git-push"
    [] OTHER -> "none"

(* Mutant of Screen: a cd is looked at as any other segment. *)
ScreenInPlace(lifted, st, s) ==
  IF st.hit # "none" THEN st
  ELSE LET r == Rule(s, st.cwd) IN IF r \in lifted THEN st ELSE [st EXCEPT !.hit = r]

\* One segment: a cd moves on, the first rule that is not lifted ends it.
Screen(lifted, st, s) ==
  IF st.hit # "none" THEN st
  ELSE IF s.op = "cd" THEN [st EXCEPT !.cwd = resolveTarget(s.path, @)]
  ELSE LET r == Rule(s, st.cwd) IN IF r \in lifted THEN st ELSE [st EXCEPT !.hit = r]

\* A download piped into a shell is looked for in the whole line first.
commandRisk(cmd, lifted) ==
  IF (\E i \in 1..(Len(cmd) - 1) : cmd[i].op = "curl" /\ cmd[i + 1].op = "sh") /\ "curl-pipe" \notin lifted
  THEN "curl-pipe"
  ELSE LET st[n \in 0..Len(cmd)] == IF n = 0 THEN [cwd |-> Workdir, hit |-> "none"] ELSE Screen(lifted, st[n - 1], cmd[n])
       IN st[Len(cmd)].hit

DecideCommand ==
  \E cmd \in SeqOf(Segments, SegmentsMax), lifted \in SUBSET {"rm-outside", "curl-pipe"} :
    decided' = [about |-> "command", cmd |-> cmd, lifted |-> lifted, hit |-> commandRisk(cmd, lifted)]

-----------------------------------------------------------------------------
(* forge/policy.ts and the guard of services/tickets.ts *)

\* A line: a directive with its value, a directive with none, a blank line, or text.
BodyLines == {<<"dir", "a">>, <<"dir", "b">>, <<"dir", "">>, <<"blank", "">>, <<"text", "a">>}

\* After a directive without a value the pattern reads on over line ends: the value is the next line
\* that is not blank, be it a directive or a text, and that line is no directive of its own.
Reach(b, i) ==
  IF b[i][2] # "" THEN i
  ELSE LET later == {j \in (i + 1)..Len(b) : b[j][1] # "blank"} IN
       IF later = {} THEN Len(b) ELSE CHOOSE j \in later : \A k \in later : j <= k

\* The lines at which a match starts: those the matches before do not reach.
Starts(b) ==
  LET st[n \in 0..Len(b)] ==
        IF n = 0 THEN [at |-> {}, to |-> 0]
        ELSE IF n > st[n - 1].to /\ b[n][1] = "dir" THEN [at |-> st[n - 1].at \cup {n}, to |-> Reach(b, n)] ELSE st[n - 1]
  IN st[Len(b)].at

\* The text of a match, which is what an edit is compared by.
gateDirectiveLines(b) == {OnlyIn(SubSeq(b, i, Reach(b, i)), {l \in BodyLines : l[1] # "blank"}) : i \in Starts(b)}

\* What the pipeline takes from the body: the value of each match (of one directive: each name has a
\* pattern of its own).
parsed(b) ==
  {b[Reach(b, i)] : i \in {j \in Starts(b) : b[j][2] # "" \/ (Reach(b, j) # j /\ b[Reach(b, j)][1] # "blank")}}

stripGateDirectives(b) ==
  LET gone == UNION {i..Reach(b, i) : i \in Starts(b)} IN
  [i \in 1..Len(b) |-> IF i \in gone THEN <<"blank", "">> ELSE b[i]]

\* A directive that the body does not have yet needs an admin.
assertDirectivesAllowed(before, after, admin) == admin \/ gateDirectiveLines(after) \subseteq gateDirectiveLines(before)

DecideEdit ==
  \E before \in SeqOf(BodyLines, BodyLinesMax - 1), after \in SeqOf(BodyLines, BodyLinesMax), admin \in BOOLEAN :
    decided' = [about |-> "edit", before |-> before, after |-> after, admin |-> admin,
                ok |-> assertDirectivesAllowed(before, after, admin)]

-----------------------------------------------------------------------------
(* forge/router.ts *)

Tiers == [free |-> 0, cheap |-> 1, expensive |-> 2]

\* Of pairs that compare equal, the sort keeps the first.
BestBy(pairs, Beats(_, _)) ==
  pairs[CHOOSE i \in DOMAIN pairs :
          \A j \in DOMAIN pairs : ~Beats(pairs[j], pairs[i]) /\ (j < i => Beats(pairs[i], pairs[j]))]

Cheaper(p, q) == Tiers[p.tier] < Tiers[q.tier] \/ (p.tier = q.tier /\ p.quality > q.quality)
Better(p, q) == p.quality > q.quality \/ (p.quality = q.quality /\ Tiers[p.tier] < Tiers[q.tier])

pickForRole(pairs, role, strategy) ==
  IF strategy = "cheapest-first" \/ (strategy = "balanced" /\ role = "work")
  THEN BestBy(pairs, Cheaper) ELSE BestBy(pairs, Better)

\* From the second attempt on, the next better pair; there is none, or it is too early: the same.
escalate(pairs, base, attempts) ==
  LET higher == OnlyIn(pairs, {p \in ToSet(pairs) : p.quality > base.quality}) IN
  IF attempts < 2 \/ higher = <<>> THEN base ELSE BestBy(higher, LAMBDA p, q : p.quality < q.quality)

\* The local model's answer decides the strategy when it is sure; no answer leaves it as it was.
resolveStrategy(base, large) ==
  CASE large = "none" -> base [] large = "yes" -> "quality-first" [] OTHER -> "cheapest-first"

DecidePick ==
  \E pairs \in SeqOf(ModelPairs, PairsMax) \ {<<>>}, role \in {"plan", "work"},
     base \in {"cheapest-first", "quality-first", "balanced"}, large \in {"none", "yes", "no"}, attempts \in 1..2 :
    LET p == pickForRole(pairs, role, resolveStrategy(base, large)) IN
    decided' = [about |-> "pick", pairs |-> pairs, role |-> role, strategy |-> resolveStrategy(base, large),
                attempts |-> attempts, pick |-> p, next |-> escalate(pairs, p, attempts)]

-----------------------------------------------------------------------------
(* forge/verify.ts *)

\* Marks count on comments the pipeline writes as an admin, within the run's time.
Counts(c) == c.kind \in {"plan", "report", "review"} /\ c.admin /\ c.inRun
AfterMark(st, c) ==
  IF st = "false" \/ ~Counts(c) THEN st
  ELSE CASE c.mark = "mismatch" -> "false" [] c.mark = "verified" -> "true" [] OTHER -> st
computeVerificationStatus(marks) ==
  LET st[n \in 0..Len(marks)] == IF n = 0 THEN "unknown" ELSE AfterMark(st[n - 1], marks[n]) IN st[Len(marks)]

DecideBadge ==
  \E marks \in SeqOf(VerifyMarks, MarksMax) :
    decided' = [about |-> "badge", marks |-> marks, badge |-> computeVerificationStatus(marks)]

-----------------------------------------------------------------------------
(* relay/wall.ts *)

\* The program is the first word.
wallCmd(cmd, write) ==
  LET kept == OnlyIn(cmd, ToSet(cmd) \ {"{prompt}"}) IN
  CASE cmd[1] = "claude" /\ "--restricted" \notin ToSet(cmd) ->
         kept \o (IF "-p" \in ToSet(kept) THEN <<>> ELSE <<"-p">>) \o <<"--restricted">>
              \o (IF write THEN <<"acceptEdits">> ELSE <<>>) \o <<"--settings">>
    [] cmd[1] = "codex" /\ "exec" \in ToSet(cmd) /\ "--sandbox" \notin ToSet(cmd) ->
         LET i == CHOOSE k \in DOMAIN cmd : cmd[k] = "exec" /\ \A j \in 1..(k - 1) : cmd[j] # "exec" IN
         SubSeq(cmd, 1, i) \o <<"--sandbox">> \o SubSeq(cmd, i + 1, Len(cmd))
    [] OTHER -> cmd

denyOnlyCmd(cmd) == IF cmd[1] # "claude" \/ "--settings" \in ToSet(cmd) THEN cmd ELSE Append(cmd, "--settings")

\* A setting is absent, malformed, or a list; the project's wins over the general one.
resolveAllowedCommands(setting, fallback) == IF setting \in {"none", "malformed"} THEN fallback ELSE setting
loadWall(project, general) == resolveAllowedCommands(project, resolveAllowedCommands(general, "default"))

DecideWall ==
  \E program \in {"claude", "codex", "agy"}, words \in SeqOf(WallWords, 2), write \in BOOLEAN, on \in BOOLEAN,
     project \in {"none", "malformed", "theirs"}, general \in {"none", "malformed", "all"} :
    LET cmd == <<program>> \o words IN
    decided' = [about |-> "wall", cmd |-> cmd, write |-> write, on |-> on,
                walled |-> IF on THEN wallCmd(cmd, write) ELSE denyOnlyCmd(cmd),
                settings |-> <<project, general>>, allowed |-> loadWall(project, general)]

PoliciesNext ==
  /\ decided.about = "nothing"
  /\ DecideCommand \/ DecideEdit \/ DecidePick \/ DecideBadge \/ DecideWall

-----------------------------------------------------------------------------
(* Properties *)

\* Where the shell is when it comes to segment i, by what was executed before.
ShellAt(cmd, i) ==
  LET dir[n \in 0..(i - 1)] ==
        IF n = 0 THEN Workdir ELSE IF cmd[n].op = "cd" THEN resolveTarget(cmd[n].path, dir[n - 1]) ELSE dir[n - 1]
  IN dir[i - 1]

\* Of a command that passes, no segment removes the working folder or anything outside of it, from
\* the folder the shell is in by then.
StaysInside ==
  decided.about = "command" /\ decided.hit = "none" /\ "rm-outside" \notin decided.lifted =>
    \A i \in DOMAIN decided.cmd :
      decided.cmd[i].op = "rm" =>
        strictlyInside(resolveTarget(decided.cmd[i].path, ShellAt(decided.cmd, i)), Workdir)

\* An edit that is let through without an admin gives the pipeline no value the body did not give it
\* before, and a body that has been stripped gives it none.
NothingWidened ==
  decided.about = "edit" =>
    /\ decided.ok /\ ~decided.admin => parsed(decided.after) \subseteq parsed(decided.before)
    /\ gateDirectiveLines(stripGateDirectives(decided.after)) = {}

\* The pick is one of the pairs that no other beats; an escalation goes up, by the smallest step.
PicksSound ==
  decided.about = "pick" =>
    LET q(p) == p.quality IN
    /\ decided.pick \in ToSet(decided.pairs)
    /\ decided.strategy = "quality-first" => \A p \in ToSet(decided.pairs) : q(p) <= q(decided.pick)
    /\ decided.strategy = "cheapest-first" => \A p \in ToSet(decided.pairs) : Tiers[decided.pick.tier] <= Tiers[p.tier]
    /\ decided.next # decided.pick => q(decided.next) > q(decided.pick)
    /\ decided.attempts = 2 =>
         ~\E p \in ToSet(decided.pairs) : q(p) > q(decided.pick) /\ (decided.next = decided.pick \/ q(p) < q(decided.next))

\* One mismatch that counts settles the badge, in whatever order the comments come.
BadgeSound ==
  decided.about = "badge" =>
    LET counts == {c \in ToSet(decided.marks) : Counts(c)} IN
    decided.badge = IF \E c \in counts : c.mark = "mismatch" THEN "false"
                    ELSE IF \E c \in counts : c.mark = "verified" THEN "true" ELSE "unknown"

\* A wall put around a command twice is the wall put around it once; a malformed setting of a project
\* falls back to the general one.
WallSound ==
  decided.about = "wall" =>
    /\ wallCmd(wallCmd(decided.cmd, decided.write), decided.write) = wallCmd(decided.cmd, decided.write)
    /\ denyOnlyCmd(denyOnlyCmd(decided.cmd)) = denyOnlyCmd(decided.cmd)
    /\ decided.allowed = IF decided.settings[1] = "theirs" THEN "theirs" ELSE IF decided.settings[2] = "all" THEN "all" ELSE "default"

\* The policies decide as their purpose says, on every input.
PoliciesInv == StaysInside /\ NothingWidened /\ PicksSound /\ BadgeSound /\ WallSound
=============================================================================

------------------------------ MODULE Briefing ------------------------------
(***************************************************************************)
(* The repository briefing of the council (src/council/briefing.ts): what  *)
(* the manifests declare, which of them are read, the languages, the tree  *)
(* and the sections that fit a budget.  Pure functions, each computed on a *)
(* chosen input and compared with what the briefing is to say of it.       *)
(*                                                                         *)
(* Abstracted: a line of a manifest is its kind, name and version; a path  *)
(* is the sequence of its names; a section is its length.                  *)
(***************************************************************************)
EXTENDS Integers, FiniteSets, FiniteSetsExt, SequencesExt

CONSTANTS
  DepNames,       \* names of dependencies
  DepCap,         \* 100
  ManifestLines,  \* bound: lines of a manifest
  PyManifestLines,\* bound: lines of a pyproject.toml
  TreeFiles,      \* paths, sequences of names, of which a repository has some
  TreeMax,        \* TREE_MAX_LINES
  TreeDepth,      \* 3
  LangCap,        \* languages named: 3
  FileLangs,      \* languages of files, and "other"
  ManifestCap,    \* manifests read: 5
  SectionSizes,   \* lengths of the sections after the first, 0 when there is none
  Budgets,        \* token budgets
  Heading,        \* length of "# Repository Briefing\n"
  Marker          \* length of the suffix that says it was cut

ASSUME BriefingAssumption ==
  /\ DepCap \in Nat \ {0} /\ TreeMax \in Nat \ {0} /\ TreeDepth \in Nat \ {0}
  /\ ManifestLines \in Nat /\ SectionSizes \subseteq Nat /\ Budgets \subseteq Nat \ {0}

VARIABLE brief   \* what has been computed: [job, input, output]

briefVars == <<brief>>
BriefInit == brief = [job |-> "none"]

computed(job, input, output) == brief' = [job |-> job, input |-> input, output |-> output]

UpTo(S, n) == UNION {[1..k -> S] : k \in 0..n}

-----------------------------------------------------------------------------
\* Lines of Cargo.toml, pyproject.toml and go.mod; comments and blank lines are skipped by all.
Entry == [kind : {"entry"}, name : DepNames]
Line(kind) == [kind |-> kind]
CargoLines == Entry \cup {Line("deps"), Line("other"), Line("broken"), Line("bare")}
GoLines == Entry \cup {Line("open"), Line("close"), Line("bare")} \cup [kind : {"single"}, name : DepNames]
PyLines == [kind : {"entry"}, name : DepNames \cup {"python"}]
           \cup [kind : {"list", "more"}, names : UpTo(DepNames, 2), closed : BOOLEAN]
           \cup {Line("project"), Line("poetry"), Line("other"), Line("broken"), Line("bare")}

Malformed == <<"malformed">>
Scanner == [in |-> FALSE, list |-> FALSE, out |-> <<>>, ended |-> FALSE, bad |-> FALSE]

\* The first of a name counts.
Joined(s, name) == IF \E i \in DOMAIN s.out : s.out[i] = name THEN s ELSE [s EXCEPT !.out = Append(@, name)]
Capped(s) == [s EXCEPT !.ended = Len(s.out) >= DepCap]

(* Mutant of CargoLine: a section goes on behind the next header. *)
CargoLineOn(s, l) ==
  IF s.ended \/ s.bad THEN s
  ELSE CASE l.kind = "deps" -> [s EXCEPT !.in = TRUE]
         [] l.kind = "broken" -> [s EXCEPT !.bad = TRUE]
         [] l.kind = "entry" /\ s.in -> Capped(Joined(s, l.name))
         [] l.kind = "bare" /\ s.in -> [s EXCEPT !.bad = TRUE]
         [] OTHER -> s

\* One line of Cargo.toml; once ended, the rest is not read.
CargoLine(s, l) ==
  IF s.ended \/ s.bad THEN s
  ELSE CASE l.kind \in {"deps", "other"} -> [s EXCEPT !.in = l.kind = "deps"]
         [] l.kind = "broken" -> [s EXCEPT !.bad = TRUE]
         [] l.kind = "entry" /\ s.in -> Capped(Joined(s, l.name))
         [] l.kind = "bare" /\ s.in -> [s EXCEPT !.bad = TRUE]
         [] OTHER -> s

parseCargoToml(lines) ==
  LET s == FoldLeft(CargoLine, Scanner, lines) IN IF s.bad THEN Malformed ELSE s.out

\* A block that is still open when the lines end, or when the cap ends the reading, is malformed.
GoLine(s, l) ==
  IF s.ended THEN s
  ELSE CASE l.kind = "open" -> [s EXCEPT !.in = TRUE]
         [] l.kind = "close" /\ s.in -> [s EXCEPT !.in = FALSE]
         [] l.kind = "entry" /\ s.in -> Capped(Joined(s, l.name))
         [] l.kind = "single" -> Capped(Joined(s, IF s.in THEN "require" ELSE l.name))
         [] OTHER -> s

parseGoMod(lines) ==
  LET s == FoldLeft(GoLine, Scanner, lines) IN IF s.in THEN Malformed ELSE s.out

\* The names of one line of a list; the cap ends the line, not the reading.
ListNames(s, names) ==
  FoldLeft(LAMBDA t, name : IF t.ended THEN t ELSE LET u == Joined(t, name) IN IF u = t THEN t ELSE Capped(u), s, names)

\* s.in says which section: "project", "poetry" or neither.
PyLine(s, l) ==
  IF s.ended \/ s.bad THEN s
  ELSE CASE l.kind \in {"project", "poetry", "other"} -> [s EXCEPT !.in = l.kind, !.list = FALSE]
         [] l.kind = "broken" -> [s EXCEPT !.bad = TRUE]
         [] s.in = "project" /\ (l.kind = "list" \/ (l.kind = "more" /\ s.list)) -> [ListNames(s, l.names) EXCEPT !.ended = FALSE, !.list = ~l.closed]
         [] l.kind = "bare" /\ s.in = "poetry" -> [s EXCEPT !.bad = TRUE]
         [] l.kind = "entry" /\ s.in = "poetry" /\ l.name # "python" -> LET t == Joined(s, l.name) IN IF t = s THEN s ELSE Capped(t)
         [] OTHER -> s

parsePyprojectToml(lines) ==
  LET s == FoldLeft(PyLine, [Scanner EXCEPT !.in = "other"], lines) IN
    IF s.bad \/ s.list THEN Malformed ELSE s.out

\* dependencies, then devDependencies; a version that is no string is left out.
parsePackageJson(deps, devDeps) ==
  LET all == FoldLeft(Joined, Scanner, deps \o devDeps).out IN SubSeq(all, 1, IF Len(all) < DepCap THEN Len(all) ELSE DepCap)

-----------------------------------------------------------------------------
DepthOf(path) == Len(path) - 1

\* Manifests at most two directories down, those nearer to the root first.
parseManifests(paths) ==
  LET near == {p \in paths : DepthOf(p) <= 2}
      sorted == SetToSortSeq(near, LAMBDA p, q : DepthOf(p) < DepthOf(q)) IN
    SubSeq(sorted, 1, IF Len(sorted) < ManifestCap THEN Len(sorted) ELSE ManifestCap)

Count(langs, l) == Cardinality({i \in DOMAIN langs : langs[i] = l})

\* Sorted by the number of files, those seen first before those seen as often.
detectLanguages(langs) ==
  LET known == {langs[i] : i \in DOMAIN langs} \ {"other"}
      first(l) == CHOOSE i \in DOMAIN langs : langs[i] = l /\ \A j \in DOMAIN langs : langs[j] = l => i <= j
      sorted == SetToSortSeq(known, LAMBDA a, b : Count(langs, a) > Count(langs, b) \/ (Count(langs, a) = Count(langs, b) /\ first(a) < first(b))) IN
    SubSeq(sorted, 1, IF Len(sorted) < LangCap THEN Len(sorted) ELSE LangCap)

\* The lines of the tree: directories and files, each at its depth.
DirsOf(paths) == UNION {{SubSeq(p, 1, k) : k \in 1..DepthOf(p)} : p \in paths}
TreeLines(paths, collapse) ==
  LET deepest == IF collapse THEN 2 ELSE TreeDepth
      shownDirs == {d \in DirsOf(paths) : Len(d) <= deepest}
      shownFiles == {p \in paths : Len(p) <= IF collapse THEN 2 ELSE TreeDepth} IN
    [dirs |-> shownDirs, files |-> shownFiles, lines |-> Cardinality(shownDirs) + Cardinality(shownFiles)]

renderTree(paths) ==
  LET full == TreeLines(paths, FALSE)
      short == TreeLines(paths, TRUE) IN
    CASE full.lines <= TreeMax -> full @@ [cut |-> FALSE, collapsed |-> FALSE]
      [] full.lines > TreeMax /\ short.lines <= TreeMax -> short @@ [cut |-> FALSE, collapsed |-> TRUE]
      [] OTHER -> [short EXCEPT !.lines = TreeMax] @@ [cut |-> TRUE, collapsed |-> TRUE]

-----------------------------------------------------------------------------
estimateTokens(chars) == (chars + 2) \div 4   \* Math.round(chars / 4)

Assembled(sections) ==
  IF sections = <<>> THEN 0 ELSE Heading + FoldLeft(LAMBDA n, s : n + s, 0, sections) + 2 * (Len(sections) - 1)

\* Sections are dropped from the end while more than two are left, then the text is cut.
buildRepoBriefing(sections, budget) ==
  LET active == SelectSeq(sections, LAMBDA s : s # 0)
      fits(k) == estimateTokens(Assembled(SubSeq(active, 1, k))) <= budget
      kept == IF Len(active) <= 2 THEN Len(active) ELSE Max({k \in 2..Len(active) : k = 2 \/ fits(k)})
      length == Assembled(SubSeq(active, 1, kept))
      room == budget * 4 - Marker IN
    [kept |-> kept, of |-> Len(active),
     length |-> IF fits(kept) \/ length <= budget * 4 THEN length
                ELSE (IF room > 0 THEN room ELSE 0) + Marker]

-----------------------------------------------------------------------------
BriefIdle == brief.job = "none"

ParseCargo == BriefIdle /\ \E lines \in UpTo(CargoLines, ManifestLines) : computed("cargo", lines, parseCargoToml(lines))
ParseGo == BriefIdle /\ \E lines \in UpTo(GoLines, ManifestLines) : computed("go", lines, parseGoMod(lines))
ParsePy == BriefIdle /\ \E lines \in UpTo(PyLines, PyManifestLines) : computed("py", lines, parsePyprojectToml(lines))
ParsePackage ==
  BriefIdle /\ \E deps \in UpTo(DepNames, 2), dev \in UpTo(DepNames, 2) : computed("package", <<deps, dev>>, parsePackageJson(deps, dev))
PickManifests == BriefIdle /\ \E paths \in SUBSET TreeFiles : computed("manifests", paths, parseManifests(paths))
NameLanguages == BriefIdle /\ \E langs \in UpTo(FileLangs, 4) : computed("languages", langs, detectLanguages(langs))
RenderTree == BriefIdle /\ \E paths \in SUBSET TreeFiles : computed("tree", paths, renderTree(paths))
FitSections ==
  BriefIdle /\ \E rest \in [1..4 -> SectionSizes], first \in SectionSizes \ {0}, budget \in Budgets :
    computed("budget", <<budget, <<first>> \o rest>>, buildRepoBriefing(<<first>> \o rest, budget))

BriefNext ==
  \/ ParseCargo \/ ParseGo \/ ParsePy \/ ParsePackage
  \/ PickManifests \/ NameLanguages \/ RenderTree \/ FitSections

-----------------------------------------------------------------------------
\* The section a line is in: that of the last header before it.
Governing(lines, i, headers) ==
  LET before == {j \in 1..i : lines[j].kind \in headers} IN
    IF before = {} THEN "none" ELSE lines[CHOOSE j \in before : \A k \in before : k <= j].kind

InDeps(lines) == {i \in DOMAIN lines : Governing(lines, i, {"deps", "other"}) = "deps"}
Names(out) == {out[i] : i \in DOMAIN out}
Distinct(out) == \A i, j \in DOMAIN out : out[i] = out[j] => i = j

\* No manifest names a dependency twice, one that is not in a section of dependencies, or more than
\* the cap of them; below the cap every one is named; and a line that cannot be read leaves nothing
\* of the file (which ends where the cap is reached).
CargoRead ==
  brief.job = "cargo" =>
    LET lines == brief.input
        declared == {lines[i].name : i \in {j \in InDeps(lines) : lines[j].kind = "entry"}} IN
      IF brief.output = Malformed
      THEN \E i \in DOMAIN lines : lines[i].kind = "broken" \/ (lines[i].kind = "bare" /\ i \in InDeps(lines))
      ELSE /\ Distinct(brief.output) /\ Len(brief.output) <= DepCap /\ Names(brief.output) \subseteq declared
           /\ Len(brief.output) < DepCap => Names(brief.output) = declared

\* go.mod: as above, for required modules; a block that reaches the cap counts as one that never
\* ended, and leaves nothing of the file either.
GoRead ==
  brief.job = "go" =>
    LET lines == brief.input
        block(i) == Governing(lines, i, {"open", "close"}) = "open"
        required == {lines[i].name : i \in {j \in DOMAIN lines : lines[j].kind = IF block(j) THEN "entry" ELSE "single"}}
                    \cup {"require" : i \in {j \in DOMAIN lines : lines[j].kind = "single" /\ block(j)}} IN
      IF brief.output = Malformed
      THEN Cardinality(required) >= DepCap \/ block(Len(lines))
      ELSE /\ Distinct(brief.output) /\ Len(brief.output) <= DepCap
           /\ Len(brief.output) < DepCap => Names(brief.output) = required

\* pyproject.toml: no name twice, "python" is none, and Poetry's dependencies keep to the cap (those of
\* a list over several lines do not: each further line may add one).
PyRead ==
  brief.job = "py" /\ brief.output # Malformed =>
    /\ Distinct(brief.output) /\ "python" \notin Names(brief.output)
    /\ Len(brief.output) > DepCap => \E i \in DOMAIN brief.input : brief.input[i].kind = "list"

PackageRead ==
  brief.job = "package" =>
    /\ Distinct(brief.output) /\ Len(brief.output) <= DepCap
    /\ LET all == brief.input[1] \o brief.input[2] IN
         Len(brief.output) < DepCap => Names(brief.output) = Names(all)

\* What is left out of a capped list ranks below what is in it.
BestNamed ==
  /\ brief.job = "manifests" => \A p \in brief.input \ Names(brief.output) :
       DepthOf(p) <= 2 => Len(brief.output) = ManifestCap /\ \A q \in Names(brief.output) : DepthOf(q) <= DepthOf(p)
  /\ brief.job = "languages" => \A l \in Names(brief.input) \ (Names(brief.output) \cup {"other"}) :
       Len(brief.output) = LangCap /\ \A m \in Names(brief.output) : Count(brief.input, m) >= Count(brief.input, l)

\* The tree keeps to its lines; unless it was cut, every file near enough is a line of it or is counted
\* in a directory that is.
BriefWhole ==
  brief.job = "tree" =>
    /\ brief.output.lines <= TreeMax
    /\ ~brief.output.cut => \A p \in brief.input :
         \/ p \in brief.output.files
         \/ \E d \in brief.output.dirs : IsPrefix(d, p) /\ (brief.output.collapsed \/ Len(p) > TreeDepth)

\* The briefing keeps to its budget (that smaller than the suffix says so and nothing else), drops its
\* last sections first and none that would have fitted, and always says what the project is.
BudgetKept ==
  brief.job = "budget" =>
    LET budget == brief.input[1]
        active == SelectSeq(brief.input[2], LAMBDA s : s # 0)
        limit == IF budget * 4 > Marker THEN budget * 4 ELSE Marker IN
      /\ estimateTokens(brief.output.length) <= budget \/ brief.output.length <= limit
      /\ brief.output.kept >= 1
      /\ brief.output.kept < brief.output.of => estimateTokens(Assembled(SubSeq(active, 1, brief.output.kept + 1))) > budget

BriefInv == CargoRead /\ GoRead /\ PyRead /\ PackageRead /\ BestNamed /\ BriefWhole /\ BudgetKept
=============================================================================

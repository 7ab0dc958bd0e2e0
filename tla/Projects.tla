------------------------------ MODULE Projects ------------------------------
(* Projects and what belongs to them (services/projects.ts behind api/app.ts): a project is made by
   hand or imported from a folder, and deleted with its rows in one transaction, table by table, under
   the foreign keys of db/schema.ts.  And what the server reads off them: the project of a hook's
   folder (api/app.ts), the brief of a project (services/export.ts), the primer of a session. *)
EXTENDS Naturals, FiniteSets, SequencesExt

CONSTANTS
  BoardProjects,  \* projects that may be deleted
  LateWriters,    \* work that goes on behind a project's back: [table]
  Imports,        \* requests that import folders: sequences of [base, path]
  Folders,        \* folders that exist
  BoardEdits,     \* bound: rows written and runs started
  HookRows,       \* rows of projects: [path, created]
  HookRowsMax,    \* bound: projects a hook may find
  BriefSizes,     \* sizes of a section or a line
  BriefCap,       \* characters a brief or primer may have
  SectionsMax     \* bound: sections

ASSUME ProjectsAssumption ==
  /\ BoardEdits \in Nat /\ HookRowsMax \in Nat /\ BriefSizes \subseteq Nat /\ BriefCap \in Nat /\ SectionsMax \in Nat
  /\ \A q \in HookRows : q.path \in Seq(ToSet(q.path)) /\ q.created \in Nat
  /\ \A i \in DOMAIN Imports : Len(Imports[i]) \in Nat /\ DOMAIN Imports[i] = 1..Len(Imports[i])

VARIABLES
  boardRows,  \* per project: the tables that hold rows of it
  running,    \* projects with a forge run in memory
  deletion,   \* per project: the delete job
  lateWrites, \* per writer: the project whose ticket or note it holds, or none
  stray,      \* history: projects a writer wrote to after they were gone, or a run was started meanwhile
  edits,      \* rows written and runs started so far
  imported,   \* projects by folder: set of [key, path, by]
  importing,  \* per import: [at, keys, paths, done, next]
  answered    \* a pure decision: from what, and what

boardVars == <<boardRows, running, deletion, lateWrites, stray, edits>>
projectVars == <<boardRows, running, deletion, lateWrites, stray, edits, imported, importing, answered>>

ProjectsInit ==
  /\ boardRows = [p \in BoardProjects |-> {"project"}] /\ running = {}
  /\ deletion = [p \in BoardProjects |-> "none"] /\ lateWrites = [w \in LateWriters |-> "none"]
  /\ stray = {} /\ edits = 0
  /\ imported = {}
  /\ importing = [i \in DOMAIN Imports |-> [at |-> "idle", keys |-> {}, paths |-> {}, next |-> 1]]
  /\ answered = [about |-> "nothing"]

-----------------------------------------------------------------------------
(* The rows of a project *)

\* Which table refers to which by a foreign key; runs, usage and the index refer by a bare id.
References == {<<"ticket", "project">>, <<"setting", "project">>, <<"chat", "project">>, <<"comment", "ticket">>,
               <<"event", "ticket">>, <<"link", "ticket">>, <<"commentLink", "comment">>, <<"noteEvent", "note">>}
BareIds == {<<"note", "project">>, <<"run", "ticket">>, <<"usage", "ticket">>, <<"chunk", "note">>}

BoardTables == {r[1] : r \in References \cup BareIds}

WriteRow(p, t) ==
  /\ edits < BoardEdits /\ t \notin boardRows[p] /\ \E r \in References \cup BareIds : r[1] = t /\ r[2] \in boardRows[p]
  /\ boardRows' = [boardRows EXCEPT ![p] = @ \cup {t}] /\ edits' = edits + 1
  /\ UNCHANGED <<running, deletion, lateWrites, stray>>

\* A run of a ticket of the project, which deletes nothing by itself.
RunStarts(p) ==
  /\ edits < BoardEdits /\ "ticket" \in boardRows[p] /\ p \notin running
  /\ running' = running \cup {p} /\ edits' = edits + 1
  /\ stray' = IF deletion[p] = "asked" THEN stray \cup {p} ELSE stray
  /\ UNCHANGED <<boardRows, deletion, lateWrites>>

RunSettles(p) == p \in running /\ running' = running \ {p} /\ UNCHANGED <<boardRows, deletion, lateWrites, stray, edits>>

\* Something that read the ticket, or the note, goes on and writes what no foreign key holds back.
LateRead(w, p) ==
  /\ lateWrites[w] = "none" /\ \E r \in BareIds : r[1] = w /\ r[2] \in boardRows[p]
  /\ lateWrites' = [lateWrites EXCEPT ![w] = p] /\ UNCHANGED <<boardRows, running, deletion, stray, edits>>

LateWrite(w) ==
  /\ lateWrites[w] # "none" /\ lateWrites' = [lateWrites EXCEPT ![w] = "none"]
  /\ boardRows' = [boardRows EXCEPT ![lateWrites[w]] = @ \cup {w}]
  /\ stray' = IF deletion[lateWrites[w]] = "done" THEN stray \cup {lateWrites[w]} ELSE stray
  /\ UNCHANGED <<running, deletion, edits>>

\* A project with a run is not deleted, nor one whose deletion is under way; the job comes later.
AskDelete(p) ==
  /\ "project" \in boardRows[p] /\ p \notin running /\ deletion[p] \in {"none", "failed"}
  /\ deletion' = [deletion EXCEPT ![p] = "asked"] /\ UNCHANGED <<boardRows, running, lateWrites, stray, edits>>

(* Mutant of DeleteOrder: tickets go before what hangs on them is looked for. *)
DeleteTicketsFirst == <<"commentLink", "comment", "event", "noteEvent", "ticket", "link", "run", "usage", "chunk", "note", "setting", "project">>
\* Chat sessions are not among them.
DeleteOrder == <<"commentLink", "comment", "event", "noteEvent", "link", "run", "usage", "chunk", "note", "ticket", "setting", "project">>

\* One transaction: a table whose rows are still referred to when its turn comes undoes it all.
DeletedBefore(i) == {DeleteOrder[j] : j \in 1..(i - 1)}
DeleteRefused(of) ==
  \E i \in DOMAIN DeleteOrder, r \in References :
    r[2] = DeleteOrder[i] /\ r[2] \in of /\ r[1] \in of \ DeletedBefore(i)

deleteProject(p) ==
  /\ deletion[p] = "asked"
  /\ IF DeleteRefused(boardRows[p])
     THEN deletion' = [deletion EXCEPT ![p] = "failed"] /\ UNCHANGED boardRows
     ELSE /\ deletion' = [deletion EXCEPT ![p] = "done"]
          /\ boardRows' = [boardRows EXCEPT ![p] = @ \ ToSet(DeleteOrder)]
  /\ UNCHANGED <<running, lateWrites, stray, edits>>

-----------------------------------------------------------------------------
(* Importing folders *)

Items(i) == Imports[i]

\* What there is, read once for the whole batch; the shape of every path is checked before the first
\* row, that its folder exists is not.
importProjects(i) ==
  /\ importing[i].at = "idle"
  /\ importing' = [importing EXCEPT ![i] = [at |-> "items", keys |-> {q.key : q \in imported}, paths |-> {q.path : q \in imported}, next |-> 1]]
  /\ UNCHANGED imported

FreeKey(base, keys) == CHOOSE k \in {<<base, n>> : n \in 1..(Cardinality(keys) + 1)} :
                         k \notin keys /\ \A n \in 1..(k[2] - 1) : <<base, n>> \in keys

\* The next item, in a transaction of its own: a folder that has a project is skipped; a key that was
\* taken meanwhile, or a folder that is not there, ends the batch with what it has made so far.
ImportItem(i) ==
  LET m == importing[i]  it == Items(i)[m.next]  key == FreeKey(it.base, m.keys) IN
  /\ m.at = "items" /\ m.next <= Len(Items(i))
  /\ CASE it.path \in m.paths -> importing' = [importing EXCEPT ![i].next = @ + 1] /\ UNCHANGED imported
       [] it.path \notin m.paths /\ (it.path \notin Folders \/ \E q \in imported : q.key = key) ->
            importing' = [importing EXCEPT ![i].at = "failed"] /\ UNCHANGED imported
       [] OTHER ->
            /\ imported' = imported \cup {[key |-> key, path |-> it.path, by |-> i]}
            /\ importing' = [importing EXCEPT ![i] = [at |-> "items", keys |-> m.keys \cup {key}, paths |-> m.paths \cup {it.path}, next |-> m.next + 1]]

ImportEnds(i) ==
  /\ importing[i].at = "items" /\ importing[i].next > Len(Items(i))
  /\ importing' = [importing EXCEPT ![i].at = "made"] /\ UNCHANGED imported

-----------------------------------------------------------------------------
(* What is read off them *)

\* The project whose folder is the hook's or the nearest above it; of two, the newer.
Above(q, cwd) == IsPrefix(q.path, cwd) /\ q.path # <<>>
Better(q, best) ==
  best = <<>> \/ Len(q.path) > Len(best[1].path) \/ (Len(q.path) = Len(best[1].path) /\ q.created > best[1].created)
resolveHookProject(found, cwd) ==
  LET best[n \in 0..Len(found)] ==
        IF n = 0 THEN <<>> ELSE IF Above(found[n], cwd) /\ Better(found[n], best[n - 1]) THEN <<found[n]>> ELSE best[n - 1]
  IN best[Len(found)]

AskHook ==
  \E found \in SeqOf(HookRows, HookRowsMax), cwd \in {<<"a">>, <<"a", "b">>, <<"a", "b", "c">>} :
    answered' = [about |-> "hook", found |-> found, cwd |-> cwd, best |-> resolveHookProject(found, cwd)]

SizeOf(sizes) == LET sum[n \in 0..Len(sizes)] == IF n = 0 THEN 0 ELSE sum[n - 1] + sizes[n] IN sum[Len(sizes)]

\* A brief ends before the first section that does not fit.
buildBrief(sections) ==
  LET fits(n) == SizeOf(SubSeq(sections, 1, n)) <= BriefCap IN
  CHOOSE n \in 0..Len(sections) : fits(n) /\ (\A m \in 0..n : fits(m)) /\ (n = Len(sections) \/ ~fits(n + 1))

\* A primer drops lines from its end until it fits, but for the first.
primeLines(lines) ==
  IF Len(lines) <= 1 THEN Len(lines) ELSE Max({1} \cup {n \in 1..Len(lines) : SizeOf(SubSeq(lines, 1, n)) <= BriefCap})

AskBrief ==
  \E sections \in SeqOf(BriefSizes, SectionsMax) :
    answered' = [about |-> "brief", sections |-> sections, kept |-> buildBrief(sections), primed |-> primeLines(sections)]

-----------------------------------------------------------------------------
\* The three parts meet in no row: one of them is looked at at a time.
BoardIdle == edits = 0 /\ \A p \in BoardProjects : deletion[p] = "none" /\ \A w \in LateWriters : lateWrites[w] = "none"
ImportsIdle == \A i \in DOMAIN Imports : importing[i].at = "idle"

ProjectsNext ==
  \/ /\ ImportsIdle /\ answered.about = "nothing" /\ UNCHANGED <<imported, importing, answered>>
     /\ \/ \E p \in BoardProjects : RunStarts(p) \/ RunSettles(p) \/ AskDelete(p) \/ deleteProject(p) \/ \E t \in BoardTables : WriteRow(p, t)
        \/ \E w \in LateWriters : LateWrite(w) \/ \E p \in BoardProjects : LateRead(w, p)
  \/ /\ BoardIdle /\ answered.about = "nothing" /\ UNCHANGED boardVars /\ UNCHANGED answered
     /\ \E i \in DOMAIN Imports : importProjects(i) \/ ImportItem(i) \/ ImportEnds(i)
  \/ /\ BoardIdle /\ ImportsIdle /\ answered.about = "nothing" /\ (AskHook \/ AskBrief)
     /\ UNCHANGED boardVars /\ UNCHANGED <<imported, importing>>
-----------------------------------------------------------------------------
(* Properties *)

\* A deletion that went through leaves no row of the project in any table, but for what was written
\* behind its back, and no run of it, but for one started after it was asked for.
DeletedWhole ==
  \A p \in BoardProjects : deletion[p] = "done" /\ p \notin stray => boardRows[p] = {} /\ p \notin running

\* The order of the tables keeps every foreign key: nothing but a chat session of the project, which
\* no step deletes, makes a deletion fail.
DeletionFails == \A p \in BoardProjects : deletion[p] = "failed" => "chat" \in boardRows[p]

\* Keys of projects are distinct, and a folder has two projects only from two imports at once; an
\* import ends with a project for every folder, or at a folder that is not there or a key that another
\* import took.
ImportsWhole ==
  /\ \A q, r \in imported : q.key = r.key \/ (q.path = r.path /\ q.by = r.by) => q = r
  /\ \A i \in DOMAIN Imports :
       LET mine == {it.path : it \in ToSet(Items(i))} IN
       /\ importing[i].at = "made" => \A d \in mine : \E q \in imported : q.path = d
       /\ importing[i].at = "failed" => ~(mine \subseteq Folders) \/ \E q \in imported : q.by # i

\* A hook gets the nearest project above its folder, and of two the newer; a brief and a primer are
\* the longest beginning that fits.
ReadsRight ==
  CASE answered.about = "hook" ->
         /\ answered.best = <<>> <=> ~\E q \in ToSet(answered.found) : Above(q, answered.cwd)
         /\ answered.best # <<>> =>
              \A q \in ToSet(answered.found) : Above(q, answered.cwd) =>
                \/ Len(q.path) < Len(answered.best[1].path)
                \/ q.path = answered.best[1].path /\ q.created <= answered.best[1].created
    [] answered.about = "brief" ->
         /\ SizeOf(SubSeq(answered.sections, 1, answered.kept)) <= BriefCap
         /\ answered.primed > 1 => SizeOf(SubSeq(answered.sections, 1, answered.primed)) <= BriefCap
         /\ answered.kept <= answered.primed
    [] OTHER -> TRUE

\* Projects are made and deleted whole, whoever asks for it meanwhile.
ProjectsInv == DeletedWhole /\ DeletionFails /\ ImportsWhole
=============================================================================

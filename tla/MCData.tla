------------------------------- MODULE MCData -------------------------------
(* The lock of the database and what the server keeps in it and takes out of it (backups, actors and their
   keys, projects and their rows, issues of trackers, notes, the index of documents), each on an instance of its own: the first
   state chooses which of them acts, and the others stay as they are. *)
EXTENDS DbLock, TLC, Backups, Access, Projects, IssueSync, Notes, SourceDocs

VARIABLE acting   \* the one of them that acts

dataVars == <<acting, vars, backupVars, accessVars, projectVars, syncVars, notesVars, docVars>>

\* Two requests, one of which names a folder twice under two keys, and one a folder that is gone.
TwoImports ==
  [i1 |-> <<[base |-> "x", path |-> "d1"], [base |-> "x", path |-> "d2"], [base |-> "y", path |-> "d1"]>>,
   i2 |-> <<[base |-> "y", path |-> "d1"], [base |-> "x", path |-> "gone"]>>]
HookFolders ==
  {[path |-> <<"a">>, created |-> 1], [path |-> <<"a", "b">>, created |-> 2], [path |-> <<"a">>, created |-> 3],
   [path |-> <<>>, created |-> 4], [path |-> <<"c">>, created |-> 5]}

TwoDocs == <<"r1", "r2">>
TextsOfDocs == {<<"x", "y">>, <<"x", "z">>}
DocsThen == ("r1" :> <<"x", "y">>) @@ ("r2" :> <<"x", "z">>)

DataInit ==
  /\ acting \in {"lock", "backups", "access", "projects", "sync", "notes", "docs"}
  /\ Init /\ BackupsInit /\ AccessInit /\ ProjectsInit /\ IssueSyncInit /\ NotesInit /\ DocsInit
  /\ acting # "lock" => initialised   \* the others start from one state

\* Those that do not act.
OthersOf(name) ==
  /\ UNCHANGED acting
  /\ IF name = "lock" THEN TRUE ELSE UNCHANGED vars
  /\ IF name = "backups" THEN TRUE ELSE UNCHANGED backupVars
  /\ IF name = "access" THEN TRUE ELSE UNCHANGED accessVars
  /\ IF name = "projects" THEN TRUE ELSE UNCHANGED projectVars
  /\ IF name = "sync" THEN TRUE ELSE UNCHANGED syncVars
  /\ IF name = "notes" THEN TRUE ELSE UNCHANGED notesVars
  /\ IF name = "docs" THEN TRUE ELSE UNCHANGED docVars

DataNext ==
  \/ acting = "lock" /\ Next /\ OthersOf("lock")
  \/ acting = "backups" /\ BackupsNext /\ OthersOf("backups")
  \/ acting = "access" /\ AccessNext /\ OthersOf("access")
  \/ acting = "projects" /\ ProjectsNext /\ OthersOf("projects")
  \/ acting = "sync" /\ IssueSyncNext /\ OthersOf("sync")
  \/ acting = "notes" /\ NotesNext /\ OthersOf("notes")
  \/ acting = "docs" /\ DocsNext /\ OthersOf("docs")

DataSpec == DataInit /\ [][DataNext]_dataVars

-----------------------------------------------------------------------------
\* What is on the board stays whole: the projects (Projects: services/projects.ts), the tickets that are taken
\* from a tracker and pushed to it (IssueSync: src/sync), and the notes with their index (Notes:
\* services/notes.ts, services/memory-capture.ts and the sweep).
BoardInv == ProjectsInv /\ IssueSyncInv /\ NotesInv

\* What is read back is what there is: the index of the documents of a repository (SourceDocs:
\* services/knowledge.ts), and what a hook and a brief are told of a project (Projects).
KnowledgeInv == DocsInv /\ ReadsRight
=============================================================================

------------------------------ MODULE VaultWatch ------------------------------
(***************************************************************************)
(* The vault watcher of src/ingest/watch.ts: a folder of documents kept   *)
(* in step with the index.  Starting reads every file once and then        *)
(* listens; a change arms the file's timer, the timer starts a reindexing  *)
(* that reads the file twice, with an await in between, and writes its     *)
(* rows after an embedding call.  A deletion removes the rows at once.     *)
(* What fails on the way is logged, and nobody tries it again.             *)
(*                                                                         *)
(* Abstracted: a document is a version number (0 when there is none), its  *)
(* rows are the text they hold and the hash they carry.                    *)
(***************************************************************************)
EXTENDS Naturals, FiniteSets, SequencesExt

CONSTANTS
  VaultFiles,     \* documents of the vault
  VaultVersions,  \* texts a document may have
  ReindexSlots,   \* bound: reindexings in flight
  WatchStops,     \* requests that stop the watcher
  VaultEdits      \* bound: changes of files and of the watcher

ASSUME VaultAssumption == VaultEdits \in Nat /\ VaultVersions \subseteq Nat \ {0} /\ "none" \notin VaultFiles

NoRows == [text |-> 0, hash |-> 0]
NotStarting == [pc |-> "off", todo |-> {}]
NoReindex == [pc |-> "off", file |-> "none", hash |-> 0, text |-> 0, first |-> FALSE]

VARIABLES
  vaultFile,   \* the version of each file, 0 when it is not there
  vaultRows,   \* the index's rows of each
  vaultEvents, \* what chokidar has seen and not told, per file
  debounce,    \* files whose timer is armed
  reindex,     \* reindexings in flight
  watcher,     \* the module's watcher: its number, or 0
  alive,       \* watchers that were started and not closed
  starting,    \* startWatcher: off, called, or reading the files it has listed and not read
  closing,     \* per stop request: the watcher it waits for, or 0
  crossed,     \* history: two stops waited for one watcher
  missed,      \* history: files changed while nobody listened
  raced,       \* history: files with a reindexing that overlapped a change or another
  swallowed,   \* history: files whose last reindexing or removal failed
  vaultEdits   \* how many there have been

vaultDocVars == <<vaultFile, vaultRows, vaultEvents, debounce, reindex, missed, raced, swallowed>>
watchVars == <<watcher, alive, starting, closing, crossed>>
vaultVars == <<vaultDocVars, watchVars, vaultEdits>>

InFlight(f) == {s \in ReindexSlots : reindex[s].file = f}
Listening == alive # {}

VaultInit ==
  /\ vaultFile = [f \in VaultFiles |-> 0] /\ vaultRows = [f \in VaultFiles |-> NoRows]
  /\ vaultEvents = [f \in VaultFiles |-> <<>>] /\ debounce = {} /\ reindex = [s \in ReindexSlots |-> NoReindex]
  /\ watcher = 0 /\ alive = {} /\ starting = NotStarting /\ closing = [s \in WatchStops |-> 0]
  /\ crossed = FALSE /\ missed = {} /\ raced = {} /\ swallowed = {} /\ vaultEdits = 0

\* Somebody writes or deletes a file.
FileChanges(f, v) ==
  /\ vaultEdits < VaultEdits /\ vaultEdits' = vaultEdits + 1 /\ v # vaultFile[f]
  /\ vaultFile' = [vaultFile EXCEPT ![f] = v]
  /\ IF Listening THEN /\ vaultEvents' = [vaultEvents EXCEPT ![f] = Append(@, IF v = 0 THEN "unlink" ELSE "change")]
                       /\ UNCHANGED missed
     ELSE missed' = missed \cup {f} /\ UNCHANGED vaultEvents
  /\ raced' = IF \E s \in InFlight(f) : reindex[s].pc = "asked" THEN raced \cup {f} ELSE raced
  /\ UNCHANGED <<vaultRows, debounce, reindex, swallowed, watchVars>>

(* Mutant of Unchanged: a document that was indexed once is not read again. *)
IndexedOnce(f, h) == vaultRows[f] # NoRows
\* The hash gate of reindexFile.
Unchanged(f, h) == vaultRows[f] # NoRows /\ vaultRows[f].hash = h

\* reindexFile up to its first await: the file is read for its hash; a file that is gone throws.
Begin(f, first) ==
  IF vaultFile[f] = 0 THEN UNCHANGED <<reindex, raced>>
  ELSE \E s \in ReindexSlots :
    /\ reindex[s] = NoReindex
    /\ reindex' = [reindex EXCEPT ![s] = [pc |-> "asked", file |-> f, hash |-> vaultFile[f], text |-> 0, first |-> first]]
    /\ raced' = IF InFlight(f) # {} THEN raced \cup {f} ELSE raced

\* The gate, and the second read.
Look(s) ==
  /\ reindex[s].pc = "asked"
  /\ LET f == reindex[s].file
         same == Unchanged(f, reindex[s].hash) IN
       /\ reindex' = [reindex EXCEPT ![s] = IF same \/ vaultFile[f] = 0 THEN NoReindex
                                            ELSE [@ EXCEPT !.pc = "embedding", !.text = vaultFile[f]]]
       /\ swallowed' = IF same THEN swallowed \ {f} ELSE swallowed
  /\ UNCHANGED <<vaultFile, vaultRows, vaultEvents, debounce, missed, raced, watchVars, vaultEdits>>

\* upsertVaultFile replaces the document's rows.
Upsert(s) ==
  /\ reindex[s].pc = "embedding"
  /\ vaultRows' = [vaultRows EXCEPT ![reindex[s].file] = [text |-> reindex[s].text, hash |-> reindex[s].hash]]
  /\ reindex' = [reindex EXCEPT ![s] = NoReindex] /\ swallowed' = swallowed \ {reindex[s].file}
  /\ UNCHANGED <<vaultFile, vaultEvents, debounce, missed, raced, watchVars, vaultEdits>>

\* The index, the embedder or the second read fails: the rows, which one transaction replaces, stay.
ReindexFails(s) ==
  /\ reindex[s].pc # "off" /\ reindex' = [reindex EXCEPT ![s] = NoReindex]
  /\ swallowed' = swallowed \cup {reindex[s].file}
  /\ UNCHANGED <<vaultFile, vaultRows, vaultEvents, debounce, missed, raced, watchVars, vaultEdits>>

\* chokidar reports a change: the timer is armed, or armed again.  A deletion leaves the timer alone.
HandleChange(f) ==
  /\ vaultEvents[f] # <<>> /\ Head(vaultEvents[f]) = "change"
  /\ vaultEvents' = [vaultEvents EXCEPT ![f] = Tail(@)] /\ debounce' = debounce \cup {f}
  /\ UNCHANGED <<vaultFile, vaultRows, reindex, missed, raced, swallowed, watchVars, vaultEdits>>

\* The rows go; when they cannot be deleted the failure is dropped.
handleUnlink(f) ==
  /\ vaultEvents[f] # <<>> /\ Head(vaultEvents[f]) = "unlink"
  /\ vaultEvents' = [vaultEvents EXCEPT ![f] = Tail(@)]
  /\ \/ vaultRows' = [vaultRows EXCEPT ![f] = NoRows] /\ swallowed' = swallowed \ {f}
     \/ swallowed' = swallowed \cup {f} /\ UNCHANGED vaultRows
  /\ raced' = IF InFlight(f) # {} THEN raced \cup {f} ELSE raced
  /\ UNCHANGED <<vaultFile, debounce, reindex, missed, watchVars, vaultEdits>>

TimerFires(f) ==
  /\ f \in debounce /\ debounce' = debounce \ {f} /\ Begin(f, FALSE)
  /\ UNCHANGED <<vaultFile, vaultRows, vaultEvents, missed, swallowed, watchVars, vaultEdits>>

-------------------------------------------------------------------------------
(* Starting and stopping.                                                   *)

startWatcher ==
  /\ watcher = 0 /\ starting.pc = "off" /\ vaultEdits < VaultEdits /\ vaultEdits' = vaultEdits + 1
  /\ starting' = [pc |-> "called", todo |-> {}]
  /\ UNCHANGED <<vaultDocVars, watcher, alive, closing, crossed>>

\* indexVaultOnce lists the documents there are, once; a folder that cannot be listed has none to read.
ListDocs ==
  /\ starting.pc = "called"
  /\ \/ /\ starting' = [pc |-> "reading", todo |-> {f \in VaultFiles : vaultFile[f] # 0}]
        /\ missed' = {f \in missed : vaultFile[f] # 0 \/ vaultRows[f] # NoRows \/ InFlight(f) # {}}
     \/ starting' = [pc |-> "reading", todo |-> {}] /\ UNCHANGED missed
  /\ UNCHANGED <<vaultFile, vaultRows, vaultEvents, debounce, reindex, raced, swallowed, watcher, alive, closing,
                 crossed, vaultEdits>>

NoFirstReading == \A s \in ReindexSlots : ~reindex[s].first
AllRead == starting.pc = "reading" /\ starting.todo = {} /\ NoFirstReading

\* Those listed are read in turn, each to its end before the next.
IndexNext(f) ==
  /\ f \in starting.todo /\ NoFirstReading
  /\ starting' = [starting EXCEPT !.todo = @ \ {f}] /\ Begin(f, TRUE)
  /\ missed' = IF vaultFile[f] = 0 /\ (vaultRows[f] # NoRows \/ InFlight(f) # {}) THEN missed ELSE missed \ {f}
  /\ UNCHANGED <<vaultFile, vaultRows, vaultEvents, debounce, swallowed, watcher, alive, closing, crossed, vaultEdits>>

\* chokidar.watch: from here on changes are told.
Watch ==
  /\ AllRead /\ starting' = NotStarting
  /\ watcher' = 1 + Max({0} \cup alive) /\ alive' = alive \cup {watcher'}
  /\ UNCHANGED <<vaultDocVars, closing, crossed, vaultEdits>>

\* No folder, or after the reading no sweep of the notes or no chokidar: nobody watches.
StartFails ==
  /\ starting.pc = "called" \/ AllRead
  /\ starting' = NotStarting
  /\ UNCHANGED <<vaultDocVars, watcher, alive, closing, crossed, vaultEdits>>

\* stopWatcher: the watcher closes, with an await; then whatever watcher there is is forgotten.
stopWatcher(s) ==
  /\ closing[s] = 0 /\ watcher # 0 /\ vaultEdits < VaultEdits /\ vaultEdits' = vaultEdits + 1
  /\ closing' = [closing EXCEPT ![s] = watcher]
  /\ crossed' = (crossed \/ \E other \in WatchStops \ {s} : closing[other] # 0)
  /\ UNCHANGED <<vaultDocVars, watcher, alive, starting>>

Closed(s) ==
  /\ closing[s] # 0 /\ alive' = alive \ {closing[s]} /\ watcher' = 0
  /\ closing' = [closing EXCEPT ![s] = 0]
  /\ vaultEvents' = IF alive' = {} THEN [f \in VaultFiles |-> <<>>] ELSE vaultEvents
  /\ missed' = IF alive' = {} THEN missed \cup {f \in VaultFiles : vaultEvents[f] # <<>>} ELSE missed
  /\ UNCHANGED <<vaultFile, vaultRows, debounce, reindex, raced, swallowed, starting, crossed, vaultEdits>>

VaultNext ==
  \/ startWatcher \/ ListDocs \/ Watch \/ StartFails
  \/ \E f \in VaultFiles : HandleChange(f) \/ handleUnlink(f) \/ TimerFires(f) \/ IndexNext(f)
  \/ \E f \in VaultFiles, v \in VaultVersions \cup {0} : FileChanges(f, v)
  \/ \E s \in ReindexSlots : Look(s) \/ Upsert(s) \/ ReindexFails(s)
  \/ \E s \in WatchStops : stopWatcher(s) \/ Closed(s)

-------------------------------------------------------------------------------
VaultTypeOK ==
  /\ vaultFile \in [VaultFiles -> VaultVersions \cup {0}] /\ debounce \subseteq VaultFiles
  /\ \A s \in ReindexSlots : reindex[s].pc \in {"off", "asked", "embedding"}
  /\ missed \cup raced \cup swallowed \subseteq VaultFiles /\ alive \subseteq Nat /\ watcher \in Nat

Quiet(f) == vaultEvents[f] = <<>> /\ f \notin debounce /\ InFlight(f) = {}

\* With the watcher on and nothing under way, a document's rows hold what is in the file,
\* unless it changed while nobody listened or under a reindexing that had begun, or the last
\* attempt to follow it failed.
IndexCurrent ==
  Listening => \A f \in VaultFiles : Quiet(f) => vaultRows[f].text = vaultFile[f] \/ f \in missed \cup raced \cup swallowed

\* No watcher goes on that nobody can stop, unless two stops waited for the same one.
NoStrayWatcher == alive \subseteq {watcher} \/ crossed

\* The index follows the vault, and one watcher at most does it, whatever overlaps.
VaultInv == VaultTypeOK /\ IndexCurrent /\ NoStrayWatcher
===============================================================================

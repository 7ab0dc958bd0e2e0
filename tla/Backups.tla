------------------------------- MODULE Backups -------------------------------
(* The life of the server with its embedded database, and what is saved outside of it: the
   debounced export (services/export-debounce.ts), logical backups and their restore
   (services/backup.ts, db/backup-cli.ts), boot snapshots (db/snapshots.ts, db/client.ts), the report
   after a repair (db/recovery.ts), shutdown (api/shutdown.ts) and the boot that ties them together
   (api/server.ts).

   One project, known by its key, stands for the tables that are remapped on restore; tickets refer
   to it and comments to tickets.  A dump is read table by table, without a transaction, while
   requests and agents write.  A kill may cut a file that is being written.  That only one process
   opens the database is DbLock's subject. *)
EXTENDS Naturals, FiniteSets, FiniteSetsExt

CONSTANTS
  BoardTickets,  \* tickets; each may have one comment
  KeepExports,   \* KEEP_EXPORTS
  BackupBoots,   \* bound: boots
  BackupStamps   \* bound: exports begun

ASSUME BackupsAssumption == KeepExports \in Nat \ {0} /\ BackupBoots \in Nat /\ BackupStamps \in Nat

VARIABLES
  server,      \* "off", "up", "degraded", "draining" (no more requests), "exporting", "closing"
  exited,      \* how it ended last: "clean", "unclean"; the postmaster.pid of an unclean end stays
  live,        \* the database: the project's id, per ticket the project it refers to, the comments
  byRequest,   \* history: rows written by requests
  arming,      \* rows of a request that has not returned yet
  timer,       \* the debounce: "none", "debounce", "floor"
  recent,      \* the last export by the timer was less than the floor ago
  dumping,     \* per exporter: the stamp it took, the table it reads next, what it has read
  exports,     \* the files
  stamps,      \* stamps taken
  excused,     \* history: rows whose export failed, until an export newer than all others has them
  marker,      \* recovery-pending exists
  loss,        \* history: "none", "lost" rows in a repair, "told" about them
  snaps,       \* the newest snapshot: "none", "whole", "cut"; kept until the next is whole
  copying,     \* the boot snapshot: "no", "due", or "on" (the event loop is blocked)
  restoring,   \* the backup CLI: the table it inserts next, the dump
  boots

backupVars == <<server, exited, live, byRequest, arming, timer, recent, dumping, exports, stamps, excused,
                marker, loss, snaps, copying, restoring, boots>>
exportVars == <<dumping, exports, stamps, excused>>
recoveryVars == <<marker, loss, snaps, copying>>

Exporters == {"timed", "written", "closing"}   \* boot and every six hours; the debounce; shutdown
NoProject == 0
EmptyDb == [project |-> 1, tickets |-> [t \in BoardTickets |-> NoProject], comments |-> {}]
NotDumping == [stamp |-> 0, next |-> "none", dump |-> EmptyDb]
NotRestoring == [next |-> "none", dump |-> EmptyDb]
TicketsOf(d) == {t \in BoardTickets : d.tickets[t] # NoProject}
Rows(d) == ({"ticket"} \X TicketsOf(d)) \cup ({"comment"} \X d.comments)

BackupsInit ==
  /\ server = "off" /\ exited = "clean" /\ live = EmptyDb /\ byRequest = {} /\ arming = {}
  /\ timer = "none" /\ recent = FALSE /\ dumping = [x \in Exporters |-> NotDumping] /\ exports = {} /\ stamps = 0
  /\ excused = {} /\ marker = FALSE /\ loss = "none" /\ snaps = "none" /\ copying = "no"
  /\ restoring = NotRestoring /\ boots = 0

Newest == CHOOSE e \in exports : \A f \in exports : f.stamp <= e.stamp
\* The process is there, and its event loop is free.
Runs == server \in {"up", "draining", "exporting", "closing"} /\ copying # "on"

-----------------------------------------------------------------------------
(* Boot *)

\* The report compares the newest export with the tables; it is not made, and the marker stays,
\* when that export cannot be parsed.
reportAndClearRecovery ==
  IF marker /\ (exports = {} \/ ~Newest.cut)
  THEN marker' = FALSE /\ loss' = "told"
  ELSE UNCHANGED <<marker, loss>>

BeginDump(x) == stamps < BackupStamps /\ stamps' = stamps + 1
            /\ dumping' = [dumping EXCEPT ![x] = [NotDumping EXCEPT !.stamp = stamps + 1, !.next = "tickets", !.dump.project = live.project]]

\* Skipped only after a clean shutdown, with a snapshot that is not too old.
shouldSnapshot(stale) == exited = "unclean" \/ snaps = "none" \/ stale

\* Everything in memory is new.  The snapshot and the first export are started and not awaited.
Boot ==
  /\ server = "off" /\ restoring = NotRestoring /\ boots < BackupBoots /\ boots' = boots + 1
  /\ server' = "up" /\ timer' = "none" /\ recent' = FALSE
  /\ reportAndClearRecovery
  /\ \E stale \in BOOLEAN : copying' = IF shouldSnapshot(stale) THEN "due" ELSE "no"
  /\ BeginDump("timed")
  /\ UNCHANGED <<exited, live, byRequest, arming, exports, excused, snaps, restoring>>

\* After an unclean end the cluster may not open: the server answers 503 to everything.
BootDegraded ==
  /\ server = "off" /\ restoring = NotRestoring /\ exited = "unclean"
  /\ server' = "degraded" /\ marker' = TRUE
  /\ UNCHANGED <<exited, live, byRequest, arming, timer, recent, exportVars, loss, snaps, copying, restoring, boots>>

\* The operator stops it and resets the log with PostgreSQL's tool: what was in the log is lost.
Repair ==
  /\ server = "degraded" /\ server' = "off" /\ exited' = "clean"
  /\ \E kept \in SUBSET live.comments :
       /\ live' = [live EXCEPT !.comments = kept]
       /\ byRequest' = byRequest \ ({"comment"} \X (live.comments \ kept))
       /\ loss' = IF kept # live.comments THEN "lost" ELSE loss
  /\ UNCHANGED <<arming, timer, recent, exportVars, marker, snaps, copying, restoring, boots>>

CopyStore == copying = "due" /\ Runs /\ copying' = "on"
             /\ UNCHANGED <<server, exited, live, byRequest, arming, timer, recent, exportVars, marker, loss, snaps, restoring, boots>>

\* Older snapshots are pruned once the new one is whole.
CopiedStore == copying = "on" /\ copying' = "no" /\ snaps' = "whole"
               /\ UNCHANGED <<server, exited, live, byRequest, arming, timer, recent, exportVars, marker, loss, restoring, boots>>

-----------------------------------------------------------------------------
(* Writes, and the debounce *)

\* A request commits its row; the export is armed when the handler has returned.
Write(row) ==
  /\ arming' = arming \cup {row} /\ byRequest' = byRequest \cup {row}
  /\ UNCHANGED <<server, exited, timer, recent, exportVars, recoveryVars, restoring, boots>>

PostTicket(t) ==
  /\ server = "up" /\ Runs /\ live.project # NoProject /\ t \notin TicketsOf(live)
  /\ live' = [live EXCEPT !.tickets[t] = live.project] /\ Write(<<"ticket", t>>)

PostComment(t) ==
  /\ server = "up" /\ Runs /\ t \in TicketsOf(live) \ live.comments
  /\ live' = [live EXCEPT !.comments = @ \cup {t}] /\ Write(<<"comment", t>>)

\* A run's agent or a sweep writes without a request: nothing is armed.
AgentComments(t) ==
  /\ Runs /\ t \in TicketsOf(live) \ live.comments
  /\ live' = [live EXCEPT !.comments = @ \cup {t}]
  /\ UNCHANGED <<server, exited, byRequest, arming, timer, recent, exportVars, recoveryVars, restoring, boots>>

armExport ==
  /\ Runs /\ \E row \in arming : arming' = arming \ {row}
  /\ timer' = "debounce"
  /\ UNCHANGED <<server, exited, live, byRequest, recent, exportVars, recoveryVars, restoring, boots>>

(* Mutant of fire: too soon after the last export, the timer is dropped. *)
fireOrDrop ==
  /\ Runs /\ timer # "none"
  /\ IF recent
     THEN timer' = "none" /\ UNCHANGED <<recent, dumping, stamps>>
     ELSE timer' = "none" /\ recent' = TRUE /\ dumping["written"] = NotDumping /\ BeginDump("written")
  /\ UNCHANGED <<server, exited, live, byRequest, arming, exports, excused, recoveryVars, restoring, boots>>

\* The timer elapses: an export begins, or is put off to the floor.
fire ==
  /\ Runs /\ timer # "none"
  /\ IF recent
     THEN timer = "debounce" /\ timer' = "floor" /\ UNCHANGED <<recent, dumping, stamps>>
     ELSE timer' = "none" /\ recent' = TRUE /\ dumping["written"] = NotDumping /\ BeginDump("written")
  /\ UNCHANGED <<server, exited, live, byRequest, arming, exports, excused, recoveryVars, restoring, boots>>

FloorPasses ==
  /\ Runs /\ recent /\ recent' = FALSE
  /\ UNCHANGED <<server, exited, live, byRequest, arming, timer, exportVars, recoveryVars, restoring, boots>>

-----------------------------------------------------------------------------
(* Exports *)

\* Every six hours.
ExportOnTime ==
  /\ Runs /\ dumping["timed"] = NotDumping /\ BeginDump("timed")
  /\ UNCHANGED <<server, exited, live, byRequest, arming, timer, recent, exports, excused, recoveryVars, restoring, boots>>

DumpTickets(x) ==
  /\ Runs /\ dumping[x].next = "tickets"
  /\ dumping' = [dumping EXCEPT ![x].next = "comments", ![x].dump.tickets = live.tickets]
  /\ UNCHANGED <<server, exited, live, byRequest, arming, timer, recent, exports, stamps, excused, recoveryVars, restoring, boots>>

pruneBackups(files) == {e \in files : Cardinality({f \in files : f.stamp > e.stamp}) < KeepExports}

File(d, whole, dump) == [stamp |-> d.stamp, dump |-> dump, cut |-> ~whole]

\* The last table, the file and the pruning are one synchronous piece.
writeBackup(x) ==
  /\ Runs /\ dumping[x].next = "comments"
  /\ LET d == [dumping[x].dump EXCEPT !.comments = live.comments] IN
       /\ exports' = pruneBackups(exports \cup {File(dumping[x], TRUE, d)})
       /\ excused' = IF /\ \A e \in exports : e.stamp < dumping[x].stamp
                        /\ \A y \in Exporters : dumping[y].stamp <= dumping[x].stamp
                     THEN excused \ Rows(d) ELSE excused
  /\ dumping' = [dumping EXCEPT ![x] = NotDumping]
  /\ server' = IF x = "closing" THEN "closing" ELSE server
  /\ UNCHANGED <<exited, live, byRequest, arming, timer, recent, stamps, recoveryVars, restoring, boots>>

\* A read or the disk fails: a warning is all there is, and nothing is armed again.
ExportFails(x) ==
  /\ Runs /\ dumping[x] # NotDumping
  /\ dumping' = [dumping EXCEPT ![x] = NotDumping] /\ excused' = byRequest
  /\ server' = IF x = "closing" THEN "closing" ELSE server
  /\ UNCHANGED <<exited, live, byRequest, arming, timer, recent, exports, stamps, recoveryVars, restoring, boots>>

-----------------------------------------------------------------------------
(* The end *)

\* A signal, the end of stdin or POST /system/shutdown; only the first counts.
shutdown ==
  /\ server = "up" /\ Runs /\ server' = "draining"
  /\ UNCHANGED <<exited, live, byRequest, arming, timer, recent, exportVars, recoveryVars, restoring, boots>>

\* server.close answers when every request has returned; then the last export.
ExportLast ==
  /\ server = "draining" /\ Runs /\ arming = {} /\ server' = "exporting" /\ BeginDump("closing")
  /\ UNCHANGED <<exited, live, byRequest, arming, timer, recent, exports, excused, recoveryVars, restoring, boots>>

Stopped(how) ==
  /\ server' = "off" /\ exited' = how /\ arming' = {} /\ timer' = "none"
  /\ dumping' = [x \in Exporters |-> NotDumping]
  /\ copying' = "no"

\* closeDb in time removes postmaster.pid; past the deadline the process exits all the same.
closeDb ==
  /\ server = "closing" /\ Runs /\ \E how \in {"clean", "unclean"} : Stopped(how)
  /\ UNCHANGED <<live, byRequest, recent, exports, stamps, excused, marker, loss, snaps, restoring, boots>>

\* At any moment, also in the middle of a file or of the snapshot's copy.
KillServer ==
  /\ server \in {"up", "draining", "exporting", "closing"} /\ Stopped("unclean")
  /\ snaps' = IF copying = "on" THEN "cut" ELSE snaps
  /\ \/ UNCHANGED exports
     \/ \E x \in Exporters : /\ dumping[x].next = "comments" /\ copying # "on"
                             /\ exports' = exports \cup {File(dumping[x], FALSE, EmptyDb)}
  /\ UNCHANGED <<live, byRequest, recent, stamps, excused, marker, loss, restoring, boots>>

-----------------------------------------------------------------------------
(* Restore *)

\* The operator moves the data directory away; a first boot has made the owner, and perhaps the
\* project of the same key under another id.
FreshDb ==
  /\ server = "off" /\ restoring = NotRestoring /\ live.project = 1 /\ \E id \in {NoProject, 2} : live' = [EmptyDb EXCEPT !.project = id]
  /\ byRequest' = {} /\ excused' = {} /\ exited' = "clean"
  /\ UNCHANGED <<server, arming, timer, recent, dumping, exports, stamps, recoveryVars, restoring, boots>>

\* The CLI refuses while the server's pid is alive, and throws on a file that is cut.
StartRestore ==
  /\ server = "off" /\ restoring = NotRestoring /\ exports # {} /\ ~Newest.cut
  /\ restoring' = [next |-> "projects", dump |-> Newest.dump]
  /\ UNCHANGED <<server, exited, live, byRequest, arming, timer, recent, exportVars, recoveryVars, boots>>

\* A project of the dump's key that is there already is used instead, under its own id.
RestoreProjects ==
  /\ restoring.next = "projects"
  /\ live' = [live EXCEPT !.project = IF live.project = NoProject THEN restoring.dump.project ELSE live.project]
  /\ restoring' = [restoring EXCEPT !.next = "tickets"]
  /\ UNCHANGED <<server, exited, byRequest, arming, timer, recent, exportVars, recoveryVars, boots>>

(* Mutant of mapProject: the dumped id is taken to survive. *)
dumpedProject(id) == id

mapProject(id) == IF id = restoring.dump.project THEN live.project ELSE id

GivesUp == restoring' = NotRestoring /\ UNCHANGED live

\* One insert of all tickets: an id that is there already, and nothing is inserted.
RestoreTickets ==
  /\ restoring.next = "tickets"
  /\ LET d == restoring.dump IN
       IF TicketsOf(d) \cap TicketsOf(live) # {} THEN GivesUp
       ELSE /\ live' = [live EXCEPT !.tickets = [t \in BoardTickets |->
                          IF t \in TicketsOf(d) THEN mapProject(d.tickets[t]) ELSE live.tickets[t]]]
            /\ restoring' = [restoring EXCEPT !.next = "comments"]
  /\ UNCHANGED <<server, exited, byRequest, arming, timer, recent, exportVars, recoveryVars, boots>>

\* A comment of a ticket that is not there: a torn dump, restored but for its comments.
RestoreComments ==
  /\ restoring.next = "comments"
  /\ LET d == restoring.dump IN
       IF d.comments \cap live.comments # {} \/ ~(d.comments \subseteq TicketsOf(live)) THEN GivesUp
       ELSE /\ live' = [live EXCEPT !.comments = @ \cup d.comments]
            /\ restoring' = [restoring EXCEPT !.next = "done"]
  /\ UNCHANGED <<server, exited, byRequest, arming, timer, recent, exportVars, recoveryVars, boots>>

EndRestore ==
  /\ restoring.next = "done" /\ restoring' = NotRestoring
  /\ UNCHANGED <<server, exited, live, byRequest, arming, timer, recent, exportVars, recoveryVars, boots>>

BackupsNext ==
  \/ Boot \/ BootDegraded \/ Repair \/ CopyStore \/ CopiedStore
  \/ \E t \in BoardTickets : PostTicket(t) \/ PostComment(t) \/ AgentComments(t)
  \/ armExport \/ fire \/ FloorPasses \/ ExportOnTime
  \/ \E x \in Exporters : DumpTickets(x) \/ writeBackup(x) \/ ExportFails(x)
  \/ shutdown \/ ExportLast \/ closeDb \/ KillServer
  \/ FreshDb \/ StartRestore \/ RestoreProjects \/ RestoreTickets \/ RestoreComments \/ EndRestore

-----------------------------------------------------------------------------
(* Properties *)

BackupsTypeOK ==
  /\ server \in {"off", "up", "degraded", "draining", "exporting", "closing"} /\ exited \in {"clean", "unclean"}
  /\ live.project \in 0..2 /\ TicketsOf(live) \subseteq BoardTickets /\ live.comments \subseteq TicketsOf(live)
  /\ arming \subseteq byRequest /\ timer \in {"none", "debounce", "floor"}
  /\ Cardinality({e \in exports : ~e.cut}) <= KeepExports

\* Still to be read, or read, by an export that is being made.
Underway(row) ==
  \E x \in Exporters :
    \/ dumping[x].next = "tickets"
    \/ dumping[x].next = "comments" /\ (row[1] = "comment" \/ row[2] \in TicketsOf(dumping[x].dump))

\* While the server runs, a row that a request wrote is in an export, or will be: one is being made
\* that reads it, the timer is armed, or the request has yet to arm it -- unless an export failed.
ChangesCovered ==
  server = "up" =>
    \A row \in byRequest \ excused :
      \/ row \in arming \/ timer # "none" \/ Underway(row)
      \/ \E e \in exports : row \in Rows(e.dump)

\* After a shutdown the newest export has all that requests wrote, as the last export had it.
ClosedSaved ==
  server = "closing" => \A row \in byRequest \ excused : row \in Rows(Newest.dump)

\* A restore that goes to its end brings back every row of the dump, on the project of the same key;
\* and the rows of a dump that is not torn all refer to rows of it.
RestoredWhole ==
  restoring.next = "done" =>
    /\ Rows(restoring.dump) \subseteq Rows(live)
    /\ \A t \in TicketsOf(restoring.dump) : live.tickets[t] = live.project

\* Rows lost in a repair are told, or the marker that makes the next boot tell is there.
LossReported == loss = "lost" => marker

\* What requests write reaches an export while the server runs and before it ends, a restore is whole, and a loss is told.
BackupsInv == BackupsTypeOK /\ ChangesCovered /\ ClosedSaved /\ RestoredWhole /\ LossReported
=============================================================================

----------------------------- MODULE DataProofs -----------------------------
(***************************************************************************)
(* Proofs about the database and what guards it, for every number of        *)
(* processes, exports, requests and crashes: what the lock of DbLock        *)
(* guarantees, what the exports of Backups hold and a restore brings back,  *)
(* who is let in by Access, and what the index of documents holds           *)
(* (SourceDocs).                                                            *)
(***************************************************************************)
EXTENDS DbLock, Backups, Access, SourceDocs, FiniteSetTheorems, SequenceTheorems, WellFoundedInduction, TLAPS

-----------------------------------------------------------------------------
\* The lock of the database.

USE DbLockAssumption

\* LockInv holds when the processes come up.
LEMMA LockInvInit == Init => LockInv
BY DEF Init, LockInv, TypeOK, PC, Opening, Ended, Owned, OneOpener, EngineOwner,
       LateOnly, LiveWhenRunning

\* Every step of a process keeps LockInv, as long as opens are serial.
LEMMA LockInvNext == ASSUME Serial, LockInv, [Next]_vars PROVE LockInv'
<1> USE DEF LockInv, TypeOK, PC, Opening, Ended, Owned, OneOpener, EngineOwner,
            LateOnly, LiveWhenRunning, Goto, Unlink
<1>1. ASSUME NEW p \in Procs, Begin(p) PROVE LockInv'
  <2>1. /\ pc' = [pc EXCEPT ![p] = "create"]
        /\ UNCHANGED <<file, holder, alive, recycled, initialised, late, engine>>
        /\ fresh' \in SUBSET Procs
        /\ pc[p] = "idle" /\ \A q \in Procs : pc[q] \notin Opening
    BY <1>1 DEF Begin
  <2>2. TypeOK' /\ OneOpener' /\ LateOnly' /\ EngineOwner'
    BY <2>1
  <2>3. p \in alive /\ p \notin late
    BY <2>1
  <2>4. QED
    BY <2>1, <2>2, <2>3
<1>2. ASSUME NEW p \in Procs, Create(p) PROVE LockInv'
  BY <1>2 DEF Create
<1>3. ASSUME NEW p \in Procs, Inspect(p) PROVE LockInv'
  BY <1>3 DEF Inspect, Refuse, HolderAlive
<1>4. ASSUME NEW p \in Procs, Reclaim(p) PROVE LockInv'
  BY <1>4 DEF Reclaim
<1>5. ASSUME NEW p \in Procs, Stamp(p) PROVE LockInv'
  <2>1. /\ pc[p] = "stamp" /\ file = "empty" /\ holder = p
        /\ file' = "written"
        /\ UNCHANGED <<holder, alive, recycled, initialised, fresh, late, engine>>
        /\ pc' = [pc EXCEPT ![p] = IF p \in late THEN "open"
                                  ELSE IF p \in fresh THEN "drop" ELSE "opening"]
    BY <1>5 DEF Stamp
  <2>2. TypeOK' /\ OneOpener' /\ EngineOwner'
    BY <2>1
  <2>3. LateOnly' /\ LiveWhenRunning'
    BY <2>1
  <2>4. \A q \in Procs : Owned(q)'
    BY <2>1
  <2>5. QED
    BY <2>2, <2>3, <2>4
<1>6. ASSUME NEW p \in Procs, DropFresh(p) PROVE LockInv'
  <2>1. /\ pc[p] = "drop" /\ file = "written" /\ holder = p
        /\ file' = "absent" /\ holder' = None
        /\ pc' = [pc EXCEPT ![p] = "opening"]
        /\ UNCHANGED <<alive, recycled, initialised, fresh, late, engine>>
    BY <1>6 DEF DropFresh
  <2>2. TypeOK' /\ OneOpener' /\ EngineOwner'
    BY <2>1
  <2>3. LateOnly' /\ LiveWhenRunning'
    BY <2>1
  <2>4. \A q \in Procs : Owned(q)'
    BY <2>1
  <2>5. QED
    BY <2>2, <2>3, <2>4
<1>7. ASSUME NEW p \in Procs, OpenOk(p) PROVE LockInv'
  <2>1. /\ pc[p] = "opening"
        /\ engine' = engine \cup {p} /\ initialised' = TRUE
        /\ UNCHANGED <<file, holder, alive, recycled, fresh>>
        /\ IF p \in fresh
             THEN pc' = [pc EXCEPT ![p] = "create"] /\ late' = late \cup {p}
             ELSE pc' = [pc EXCEPT ![p] = "open"] /\ late' = late
    BY <1>7 DEF OpenOk
  <2>2. TypeOK' /\ OneOpener'
    BY <2>1
  <2>3. EngineOwner' /\ LateOnly' /\ LiveWhenRunning'
    BY <2>1
  <2>4. \A q \in Procs : Owned(q)'
    <3>1. CASE p \in fresh
      BY <2>1, <3>1
    <3>2. CASE p \notin fresh
      BY <2>1, <3>2
    <3>3. QED
      BY <3>1, <3>2
  <2>5. QED
    BY <2>2, <2>3, <2>4
<1>8. ASSUME NEW p \in Procs, OpenFail(p) PROVE LockInv'
  BY <1>8 DEF OpenFail
<1>9. ASSUME NEW p \in Procs, CloseEngine(p) PROVE LockInv'
  BY <1>9 DEF CloseEngine
<1>10. ASSUME NEW p \in Procs, Release(p) PROVE LockInv'
  BY <1>10 DEF Release
<1>11. ASSUME NEW p \in Procs, Kill(p) PROVE LockInv'
  BY <1>11 DEF Kill
<1>12. ASSUME NEW p \in Procs, Recycle(p) PROVE LockInv'
  BY <1>12 DEF Recycle
<1>13. CASE UNCHANGED vars
  BY <1>13 DEF vars
<1>14. QED
  BY <1>1, <1>2, <1>3, <1>4, <1>5, <1>6, <1>7, <1>8, <1>9, <1>10, <1>11, <1>12,
     <1>13 DEF Next

\* LockInv gives mutual exclusion.
LEMMA LockInvOneEngine == LockInv => OneEngine
BY DEF LockInv, TypeOK, Owned, OneOpener, EngineOwner, OneEngine, Using, Opening

\* The inductive invariant holds throughout, however many processes open, crash
\* and close, when no two of them are inside openEmbedded together.
THEOREM LockInvariant == ASSUME Serial PROVE Spec => []LockInv
<1>1. Init => LockInv
  BY LockInvInit
<1>2. LockInv /\ [Next]_vars => LockInv'
  BY LockInvNext
<1>3. QED
  BY <1>1, <1>2, PTL DEF Spec

\* Two processes never work on one embedded data directory, under the same
\* condition.
THEOREM MutualExclusion == ASSUME Serial PROVE Spec => []OneEngine
<1>1. Spec => []LockInv
  BY LockInvariant
<1>2. LockInv => OneEngine
  BY LockInvOneEngine
<1>3. QED
  BY <1>1, <1>2, PTL

\* No step of another process takes the lock from one that runs on the directory,
\* under the same condition.
LEMMA LiveLockStep ==
  ASSUME Serial, LockInv, [Next]_vars, NEW p \in Procs,
         pc[p] = "open", file = "written", holder = p, pc'[p] = "open"
  PROVE  file' = "written" /\ holder' = p
<1> USE DEF LockInv, TypeOK, Owned, OneOpener, Opening, Goto, Unlink, PC, Ended
<1>1. ASSUME NEW q \in Procs, Begin(q) \/ CloseEngine(q) \/ Kill(q) \/ Recycle(q) \/ OpenOk(q)
      PROVE  file' = "written" /\ holder' = p
  BY <1>1 DEF Begin, CloseEngine, Kill, Recycle, OpenOk
<1>2. ASSUME NEW q \in Procs, Create(q) PROVE file' = "written" /\ holder' = p
  BY <1>2 DEF Create
<1>3. ASSUME NEW q \in Procs, Inspect(q) PROVE file' = "written" /\ holder' = p
  BY <1>3, DbLockAssumption DEF Inspect, Refuse, LateOnly
<1>4. ASSUME NEW q \in Procs, Reclaim(q) PROVE file' = "written" /\ holder' = p
  BY <1>4 DEF Reclaim, LiveWhenRunning
<1>5. ASSUME NEW q \in Procs, Stamp(q) PROVE file' = "written" /\ holder' = p
  BY <1>5 DEF Stamp
<1>6. ASSUME NEW q \in Procs, DropFresh(q) PROVE file' = "written" /\ holder' = p
  BY <1>6 DEF DropFresh
<1>7. ASSUME NEW q \in Procs, OpenFail(q) PROVE file' = "written" /\ holder' = p
  BY <1>7 DEF OpenFail
<1>8. ASSUME NEW q \in Procs, Release(q) PROVE file' = "written" /\ holder' = p
  BY <1>8 DEF Release
<1>9. CASE UNCHANGED vars
  BY <1>9 DEF vars
<1>10. QED
  BY <1>1, <1>2, <1>3, <1>4, <1>5, <1>6, <1>7, <1>8, <1>9 DEF Next

\* Nobody takes the lock file from a process whose engine is open, as long as opens are serial: the
\* file stays, written and in its holder's name.
THEOREM LiveLocksKept == ASSUME Serial PROVE Spec => LiveLockKept
<1>1. Spec => []LockInv
  BY LockInvariant
<1>2. LockInv /\ [Next]_vars =>
        [\A p \in Procs :
           pc[p] = "open" /\ file = "written" /\ holder = p /\ pc'[p] = "open"
             => file' = "written" /\ holder' = p]_vars
  BY LiveLockStep
<1>3. QED
  BY <1>1, <1>2, PTL DEF Spec, LiveLockKept

\* Where start times can be read, only a lock whose holder lives turns an opener
\* away, also when starts overlap and pids are recycled.
LEMMA StaleLockStep ==
  ASSUME StartKnown, TypeOK, [Next]_vars, NEW p \in Procs,
         pc[p] = "inspect", pc'[p] \in {"refused", "failed"}, file = "written"
  PROVE  holder \in alive
<1> USE DEF TypeOK, Goto, PC, Opening, Ended
<1>1. ASSUME NEW q \in Procs, Inspect(q) PROVE holder \in alive
  BY <1>1 DEF Inspect, Refuse, HolderAlive
<1>2. ASSUME NEW q \in Procs, Begin(q) \/ Create(q) \/ Reclaim(q) \/ Stamp(q) \/ DropFresh(q)
      PROVE  FALSE
  BY <1>2 DEF Begin, Create, Reclaim, Stamp, DropFresh
<1>3. ASSUME NEW q \in Procs,
             OpenOk(q) \/ OpenFail(q) \/ CloseEngine(q) \/ Release(q) \/ Kill(q) \/ Recycle(q)
      PROVE  FALSE
  BY <1>3 DEF OpenOk, OpenFail, CloseEngine, Release, Kill, Recycle
<1>4. CASE UNCHANGED vars
  BY <1>4 DEF vars
<1>5. QED
  BY <1>1, <1>2, <1>3, <1>4 DEF Next

\* The types alone, which need no serial opens.
LEMMA TypesHold == Spec => []TypeOK
<1>1. Init => TypeOK
  BY LockInvInit DEF LockInv
<1>2. TypeOK /\ [Next]_vars => TypeOK'
  <2> SUFFICES ASSUME TypeOK, [Next]_vars PROVE TypeOK'
    OBVIOUS
  <2> USE DEF TypeOK, PC, Opening, Ended, Goto, Unlink
  <2>1. CASE UNCHANGED vars
    BY <2>1 DEF vars
  <2>2. ASSUME NEW p \in Procs,
               \/ Begin(p) \/ Create(p) \/ Inspect(p) \/ Reclaim(p)
               \/ Stamp(p) \/ DropFresh(p)
        PROVE  TypeOK'
    BY <2>2 DEF Begin, Create, Inspect, Refuse, Reclaim, Stamp, DropFresh
  <2>3. ASSUME NEW p \in Procs,
               \/ OpenOk(p) \/ OpenFail(p) \/ CloseEngine(p) \/ Release(p)
               \/ Kill(p) \/ Recycle(p)
        PROVE  TypeOK'
    BY <2>3 DEF OpenOk, OpenFail, CloseEngine, Release, Kill, Recycle
  <2>4. QED
    BY <2>1, <2>2, <2>3 DEF Next
<1>3. QED
  BY <1>1, <1>2, PTL DEF Spec

\* A stale lock is always reclaimed in the end of an inspection, serial or not.
THEOREM StaleLocksReclaimed == ASSUME StartKnown PROVE Spec => StaleLockReclaimed
<1>1. TypeOK /\ [Next]_vars =>
        [\A p \in Procs :
           pc[p] = "inspect" /\ pc'[p] \in {"refused", "failed"} /\ file = "written"
             => holder \in alive]_vars
  BY StaleLockStep
<1>2. QED
  BY <1>1, TypesHold, PTL DEF Spec, StaleLockReclaimed

-----------------------------------------------------------------------------
\* Exports, restores and what they lose.

BackupsSpec == BackupsInit /\ [][BackupsNext]_backupVars

Offline == server \in {"off", "degraded"}
DumpTables == {"none", "tickets", "comments"}
Busy(x) == dumping[x].next # "none"

TableSet == [project : 0..2, tickets : [BoardTickets -> 0..2], comments : SUBSET BoardTickets]
DumpSet == [stamp : Nat, next : DumpTables, dump : TableSet]
FileSet == [stamp : Nat, dump : TableSet, cut : BOOLEAN]

\* What the database or a dump holds: tickets refer to its project.
Tables(d) ==
  /\ d \in TableSet
  /\ \A t \in BoardTickets : d.tickets[t] \in {NoProject, d.project}

LiveTyped ==
  /\ Tables(live) /\ live.comments \subseteq TicketsOf(live)
  /\ byRequest \subseteq Rows(live) /\ arming \subseteq byRequest
  /\ server \in {"off", "up", "degraded", "draining", "exporting", "closing"}
  /\ exited \in {"clean", "unclean"}
  /\ timer \in {"none", "debounce", "floor"}

\* An export under way has a stamp of its own, and reads the project the database has.
DumpsTyped ==
  /\ stamps \in Nat
  /\ dumping \in [Exporters -> DumpSet]
  /\ \A x \in Exporters :
       /\ Tables(dumping[x].dump) /\ dumping[x].stamp <= stamps
       /\ ~Busy(x) => dumping[x] = NotDumping
       /\ Busy(x) => dumping[x].stamp > 0 /\ dumping[x].dump.project = live.project
       /\ \A y \in Exporters : Busy(x) /\ Busy(y) /\ dumping[x].stamp = dumping[y].stamp => x = y

\* The files have stamps of their own, the newest of them is there, and they are not too many.
FilesTyped ==
  /\ exports \subseteq FileSet
  /\ IsFiniteSet(exports)
  /\ \A e \in exports :
       /\ Tables(e.dump) /\ e.stamp <= stamps /\ e.stamp > 0
       /\ \A f \in exports : e.stamp = f.stamp => e = f
       /\ \A x \in Exporters : Busy(x) => e.stamp # dumping[x].stamp
  /\ exports # {} => \E e \in exports : \A f \in exports : f.stamp <= e.stamp
  /\ Cardinality({e \in exports : ~e.cut}) <= KeepExports

\* Nothing goes on in a process that is not there, and a restore needs one that is not.
OfflineRests ==
  /\ Offline => arming = {} /\ timer = "none" /\ copying = "no" /\ \A x \in Exporters : ~Busy(x)
  /\ server = "degraded" => marker
  /\ loss = "lost" => marker
  /\ restoring.next # "none" => server = "off"
  /\ Busy("closing") => server = "exporting"

\* A dump is restored from its first table to its last.
RestoreSound ==
  LET d == restoring.dump IN
  /\ restoring \in [next : {"none", "projects", "tickets", "comments", "done"}, dump : TableSet]
  /\ Tables(d)
  /\ restoring.next = "none" => restoring = NotRestoring
  /\ restoring.next = "tickets" => (d.project # NoProject => live.project # NoProject)
  /\ restoring.next \in {"comments", "done"} => \A t \in TicketsOf(d) : t \in TicketsOf(live)
  /\ restoring.next = "done" => d.comments \subseteq live.comments

\* What an export under way reads, or has read.
Reads(x, row) ==
  \/ dumping[x].next = "tickets"
  \/ dumping[x].next = "comments" /\ (row[1] = "comment" \/ row[2] \in TicketsOf(dumping[x].dump))

\* Every export from stamp s on has the row.
From(s, row) ==
  /\ \A x \in Exporters : Busy(x) /\ dumping[x].stamp >= s => Reads(x, row)
  /\ \A e \in exports : e.stamp >= s => row \in Rows(e.dump)

RowsFollowed ==
  /\ server = "up" =>
       \A row \in byRequest \ excused :
         \/ row \in arming \/ timer # "none"
         \/ \E s \in Nat : /\ From(s, row)
                           /\ \/ \E x \in Exporters : Busy(x) /\ dumping[x].stamp >= s
                              \/ \E e \in exports : e.stamp >= s
  /\ server = "exporting" =>
       Busy("closing") /\ \A row \in byRequest : From(dumping["closing"].stamp, row)
  /\ server = "closing" =>
       \A row \in byRequest \ excused :
         \E s \in Nat : From(s, row) /\ \E e \in exports : e.stamp >= s

BackupsInductive ==
  /\ LiveTyped /\ DumpsTyped /\ FilesTyped /\ OfflineRests /\ RestoreSound /\ RowsFollowed

\* A nonempty set of naturals has a least element.
LEMMA HasLeast ==
  ASSUME NEW S, S \subseteq Nat, S # {}
  PROVE  \E m \in S : \A n \in S : m <= n
<1> DEFINE R == OpToRel(<, Nat)
<1>1. IsWellFoundedOn(R, Nat)
  BY NatLessThanWellFounded
<1>2. \E m \in S : \A n \in S : ~ (<<n, m>> \in R)
  <2> HIDE DEF R
  <2>1. QED
    BY <1>1, WFMin
<1>3. \A m, n \in Nat : m < n => <<m, n>> \in R
  BY DEF OpToRel
<1>4. PICK m \in S : \A n \in S : ~ (<<n, m>> \in R)
  BY <1>2
<1>5. ASSUME NEW n \in S PROVE m <= n
  <2> HIDE DEF R
  <2>1. m \in Nat /\ n \in Nat /\ ~(n < m)
    BY <1>3, <1>4
  <2>2. QED
    BY <2>1
<1>6. QED
  BY <1>5

\* Pruning keeps the newest file, and as many as it should.
LEMMA PruningKeeps ==
  ASSUME NEW saved \in SUBSET FileSet, IsFiniteSet(saved),
         \A e, f \in saved : e.stamp = f.stamp => e = f,
         NEW n \in saved, \A f \in saved : f.stamp <= n.stamp
  PROVE  /\ pruneBackups(saved) \subseteq saved /\ n \in pruneBackups(saved)
         /\ IsFiniteSet(pruneBackups(saved)) /\ Cardinality(pruneBackups(saved)) <= KeepExports
<1> DEFINE P == pruneBackups(saved)
           above(e) == {f \in saved : f.stamp > e.stamp}
<1>1. KeepExports \in Nat \ {0} /\ P \subseteq saved /\ IsFiniteSet(P) /\ Cardinality(P) \in Nat
  <2>1. P \subseteq saved
    BY DEF pruneBackups
  <2>2. QED
    <3> HIDE DEF P
    <3>1. QED
      BY <2>1, BackupsAssumption, FS_Subset, FS_CardinalityType DEF BackupsAssumption
<1>2. n \in P
  <2>1. {f \in saved : f.stamp > n.stamp} = {}
    BY DEF FileSet
  <2>2. Cardinality({f \in saved : f.stamp > n.stamp}) = 0
    BY <2>1, FS_EmptySet
  <2>3. QED
    BY <1>1, <2>2 DEF pruneBackups
<1>3. Cardinality(P) <= KeepExports
  <2> DEFINE S == {e.stamp : e \in P}
  <2>1. S \subseteq Nat /\ S # {}
    <3> HIDE DEF P
    <3>1. \A e \in P : e.stamp \in Nat
      BY <1>1 DEF FileSet
    <3>2. QED
      BY <1>2, <3>1
  <2>2. PICK k \in S : \A i \in S : k <= i
    <3> HIDE DEF S
    <3>1. QED
      BY <2>1, HasLeast
  <2>3. PICK m \in P : m.stamp = k
    BY <2>2
  <2>4. \A e \in P \ {m} : e.stamp > m.stamp
    <3>1. \A e \in P : m.stamp <= e.stamp
      BY <2>2, <2>3
    <3>2. \A e \in P : e.stamp \in Nat /\ (e.stamp = m.stamp => e = m)
      <4> HIDE DEF P
      <4>1. QED
        BY <1>1, <2>3 DEF FileSet
    <3>3. QED
      <4> HIDE DEF P
      <4>1. QED
        BY <2>3, <3>1, <3>2
  <2>5. P \ {m} \subseteq above(m)
    <3> HIDE DEF P
    <3>1. QED
      BY <1>1, <2>4
  <2>6. /\ IsFiniteSet(above(m)) /\ Cardinality(P \ {m}) <= Cardinality(above(m))
        /\ Cardinality(above(m)) \in Nat
    <3>1. IsFiniteSet(above(m))
      BY FS_Subset
    <3>2. QED
      <4> HIDE DEF P, above
      <4>1. QED
        BY <2>5, <3>1, FS_Subset, FS_CardinalityType
  <2>7. Cardinality(above(m)) < KeepExports
    BY <2>3 DEF pruneBackups
  <2>8. Cardinality(P \ {m}) = Cardinality(P) - 1
    <3> HIDE DEF P
    <3>1. QED
      BY <1>1, <2>3, FS_RemoveElement
  <2>9. QED
    <3> HIDE DEF P, above
    <3>1. QED
      BY <1>1, <2>6, <2>7, <2>8
<1>4. QED
  BY <1>1, <1>2, <1>3

\* An export that begins has the newest stamp, and nothing is read yet.
LEMMA DumpBegins ==
  ASSUME LiveTyped, DumpsTyped, NEW x \in Exporters, BeginDump(x)
  PROVE  /\ stamps \in Nat /\ stamps' = stamps + 1 /\ dumping' \in [Exporters -> DumpSet]
         /\ \A y \in Exporters \ {x} : dumping'[y] = dumping[y]
         /\ dumping'[x].stamp = stamps + 1 /\ dumping'[x].next = "tickets"
         /\ Tables(dumping'[x].dump) /\ dumping'[x].dump.project = live.project
<1> DEFINE y == [NotDumping EXCEPT !.stamp = stamps + 1, !.next = "tickets", !.dump.project = live.project]
<1>1. stamps \in Nat /\ dumping \in [Exporters -> DumpSet] /\ live.project \in 0..2
  BY DEF LiveTyped, DumpsTyped, Tables, TableSet
<1>2. /\ NotDumping \in [stamp : Nat, next : DumpTables, dump : TableSet]
      /\ NotDumping.dump = EmptyDb
  BY DEF NotDumping, DumpTables, EmptyDb, TableSet, NoProject
<1>3. dumping' = [dumping EXCEPT ![x] = y] /\ stamps' = stamps + 1
  BY DEF BeginDump
<1>4. /\ y \in DumpSet /\ y.stamp = stamps + 1 /\ y.next = "tickets"
      /\ y.dump = [EmptyDb EXCEPT !.project = live.project]
  <2>1. EmptyDb \in TableSet /\ [EmptyDb EXCEPT !.project = live.project] \in TableSet
    BY <1>1 DEF EmptyDb, TableSet, NoProject
  <2>2. y = [NotDumping EXCEPT !.stamp = stamps + 1, !.next = "tickets", !.dump = [EmptyDb EXCEPT !.project = live.project]]
    BY <1>2
  <2>3. stamps + 1 \in Nat /\ "tickets" \in DumpTables
    BY <1>1 DEF DumpTables
  <2>4. QED
    <3> HIDE DEF y
    <3>1. QED
      BY <1>2, <2>1, <2>2, <2>3 DEF DumpSet
<1>5. y.dump \in TableSet /\ Tables(y.dump) /\ y.dump.project = live.project
  <2>1. /\ [EmptyDb EXCEPT !.project = live.project] \in TableSet
        /\ [EmptyDb EXCEPT !.project = live.project].project = live.project
        /\ \A t \in BoardTickets : [EmptyDb EXCEPT !.project = live.project].tickets[t] = NoProject
    BY <1>1 DEF EmptyDb, TableSet, NoProject
  <2> HIDE DEF y
  <2>2. QED
    BY <1>4, <2>1 DEF Tables
<1>6. QED
  <2> HIDE DEF y
  <2>1. QED
    BY <1>1, <1>3, <1>4, <1>5

LEMMA BegunTyped ==
  ASSUME LiveTyped, DumpsTyped, NEW x \in Exporters, BeginDump(x), live' = live
  PROVE  DumpsTyped'
<1>1. /\ stamps \in Nat /\ stamps' = stamps + 1 /\ dumping' \in [Exporters -> DumpSet]
      /\ \A y \in Exporters \ {x} : dumping'[y] = dumping[y]
      /\ dumping'[x].stamp = stamps + 1 /\ dumping'[x].next = "tickets"
      /\ Tables(dumping'[x].dump) /\ dumping'[x].dump.project = live.project
  BY DumpBegins
<1>2. ASSUME NEW y \in Exporters
      PROVE  /\ Tables(dumping'[y].dump) /\ dumping'[y].stamp <= stamps'
             /\ dumping'[y].next = "none" => dumping'[y] = NotDumping
             /\ dumping'[y].next # "none" => dumping'[y].stamp > 0 /\ dumping'[y].dump.project = live'.project
  <2>1. CASE y = x
    BY <1>1, <2>1
  <2>2. CASE y # x
    BY <1>1, <2>2 DEF DumpsTyped, Busy, DumpSet
  <2>3. QED
    BY <2>1, <2>2
<1>3. ASSUME NEW y \in Exporters, NEW z \in Exporters, dumping'[y].next # "none",
             dumping'[z].next # "none",
             dumping'[y].stamp = dumping'[z].stamp
      PROVE  y = z
  BY <1>1, <1>3 DEF DumpsTyped, Busy, DumpSet
<1>4. QED
  BY <1>1, <1>2, <1>3 DEF DumpsTyped, Busy, Tables

\* It is followed by every export from its stamp on, and every earlier following goes on.
LEMMA BegunFollowed ==
  ASSUME LiveTyped, DumpsTyped, FilesTyped, NEW x \in Exporters, BeginDump(x), exports' = exports
  PROVE  /\ stamps + 1 \in Nat /\ dumping'[x].next # "none" /\ dumping'[x].stamp = stamps + 1
         /\ \A s \in Nat : \A row : s = stamps + 1 => From(s, row)'
         /\ \A s \in Nat : \A row : From(s, row) => From(s, row)'
<1>1. /\ stamps \in Nat /\ stamps' = stamps + 1
      /\ \A y \in Exporters \ {x} : dumping'[y] = dumping[y]
      /\ dumping'[x].stamp = stamps + 1 /\ dumping'[x].next = "tickets"
  BY DumpBegins
<1>2. \A y \in Exporters : dumping[y].stamp \in Nat /\ dumping[y].stamp <= stamps
  BY DEF DumpsTyped, DumpSet
<1>3. \A e \in exports : e.stamp \in Nat /\ e.stamp <= stamps
  BY DEF FilesTyped, FileSet
<1>4. QED
  BY <1>1, <1>2, <1>3 DEF From, Reads, Busy

\* What the table of comments adds to an export that read the tickets.
LEMMA WrittenRows ==
  ASSUME LiveTyped, NEW d \in TableSet, NEW row \in byRequest,
         row[1] = "comment" \/ row[2] \in TicketsOf(d)
  PROVE  row \in Rows([d EXCEPT !.comments = live.comments])
<1>1. /\ [d EXCEPT !.comments = live.comments].tickets = d.tickets
      /\ [d EXCEPT !.comments = live.comments].comments = live.comments
  BY DEF TableSet
<1>2. CASE row \in {"ticket"} \X TicketsOf(live)
  BY <1>1, <1>2 DEF Rows, TicketsOf
<1>3. CASE row \in {"comment"} \X live.comments
  BY <1>1, <1>3 DEF Rows
<1>4. QED
  BY <1>2, <1>3 DEF LiveTyped, Rows

\* What the database holds.
LEMMA LiveStep ==
  ASSUME LiveTyped, OfflineRests, RestoreSound, [BackupsNext]_backupVars
  PROVE  LiveTyped'
<1>1. CASE Boot
  BY <1>1
    DEF Boot, reportAndClearRecovery, BeginDump, exportVars, recoveryVars, LiveTyped,
        OfflineRests, Offline, RestoreSound, Tables, TableSet, TicketsOf, Rows, EmptyDb,
        NoProject
<1>2. CASE BootDegraded
  BY <1>2
    DEF BootDegraded, exportVars, recoveryVars, LiveTyped, OfflineRests, Offline, RestoreSound,
        Tables, TableSet, TicketsOf, Rows, EmptyDb, NoProject
<1>3. CASE Repair
  BY <1>3
    DEF Repair, exportVars, recoveryVars, LiveTyped, OfflineRests, Offline, RestoreSound, Tables,
        TableSet, TicketsOf, Rows, EmptyDb, NoProject
<1>4. CASE CopyStore
  BY <1>4
    DEF CopyStore, Runs, exportVars, recoveryVars, LiveTyped, OfflineRests, Offline, RestoreSound,
        Tables, TableSet, TicketsOf, Rows, EmptyDb, NoProject
<1>5. CASE CopiedStore
  BY <1>5
    DEF CopiedStore, exportVars, recoveryVars, LiveTyped, OfflineRests, Offline, RestoreSound,
        Tables, TableSet, TicketsOf, Rows, EmptyDb, NoProject
<1>6. ASSUME NEW t \in BoardTickets, PostTicket(t) PROVE LiveTyped'
  BY <1>6
    DEF PostTicket, Write, Runs, exportVars, recoveryVars, LiveTyped, OfflineRests, Offline,
        RestoreSound, Tables, TableSet, TicketsOf, Rows, EmptyDb, NoProject
<1>7. ASSUME NEW t \in BoardTickets, PostComment(t) PROVE LiveTyped'
  BY <1>7
    DEF PostComment, Write, Runs, exportVars, recoveryVars, LiveTyped, OfflineRests, Offline,
        RestoreSound, Tables, TableSet, TicketsOf, Rows, EmptyDb, NoProject
<1>8. ASSUME NEW t \in BoardTickets, AgentComments(t) PROVE LiveTyped'
  BY <1>8
    DEF AgentComments, Runs, exportVars, recoveryVars, LiveTyped, OfflineRests, Offline,
        RestoreSound, Tables, TableSet, TicketsOf, Rows, EmptyDb, NoProject
<1>9. CASE armExport
  BY <1>9
    DEF armExport, Runs, exportVars, recoveryVars, LiveTyped, OfflineRests, Offline, RestoreSound,
        Tables, TableSet, TicketsOf, Rows, EmptyDb, NoProject
<1>10. CASE fire
  BY <1>10
    DEF fire, Runs, BeginDump, exportVars, recoveryVars, LiveTyped, OfflineRests, Offline,
        RestoreSound, Tables, TableSet, TicketsOf, Rows, EmptyDb, NoProject
<1>11. CASE FloorPasses
  BY <1>11
    DEF FloorPasses, Runs, exportVars, recoveryVars, LiveTyped, OfflineRests, Offline,
        RestoreSound, Tables, TableSet, TicketsOf, Rows, EmptyDb, NoProject
<1>12. CASE ExportOnTime
  BY <1>12
    DEF ExportOnTime, Runs, BeginDump, exportVars, recoveryVars, LiveTyped, OfflineRests, Offline,
        RestoreSound, Tables, TableSet, TicketsOf, Rows, EmptyDb, NoProject
<1>13. ASSUME NEW x \in Exporters, DumpTickets(x) PROVE LiveTyped'
  BY <1>13
    DEF DumpTickets, Runs, exportVars, recoveryVars, LiveTyped, OfflineRests, Offline,
        RestoreSound, Tables, TableSet, TicketsOf, Rows, EmptyDb, NoProject
<1>14. ASSUME NEW x \in Exporters, writeBackup(x) PROVE LiveTyped'
  BY <1>14
    DEF writeBackup, Runs, exportVars, recoveryVars, LiveTyped, OfflineRests, Offline,
        RestoreSound, Tables, TableSet, TicketsOf, Rows, EmptyDb, NoProject
<1>15. ASSUME NEW x \in Exporters, ExportFails(x) PROVE LiveTyped'
  BY <1>15
    DEF ExportFails, Runs, exportVars, recoveryVars, LiveTyped, OfflineRests, Offline,
        RestoreSound, Tables, TableSet, TicketsOf, Rows, EmptyDb, NoProject
<1>16. CASE shutdown
  BY <1>16
    DEF shutdown, Runs, exportVars, recoveryVars, LiveTyped, OfflineRests, Offline, RestoreSound,
        Tables, TableSet, TicketsOf, Rows, EmptyDb, NoProject
<1>17. CASE ExportLast
  BY <1>17
    DEF ExportLast, Runs, BeginDump, exportVars, recoveryVars, LiveTyped, OfflineRests, Offline,
        RestoreSound, Tables, TableSet, TicketsOf, Rows, EmptyDb, NoProject
<1>18. CASE closeDb
  BY <1>18
    DEF closeDb, Runs, Stopped, exportVars, recoveryVars, LiveTyped, OfflineRests, Offline,
        RestoreSound, Tables, TableSet, TicketsOf, Rows, EmptyDb, NoProject
<1>19. CASE KillServer
  BY <1>19
    DEF KillServer, Stopped, exportVars, recoveryVars, LiveTyped, OfflineRests, Offline,
        RestoreSound, Tables, TableSet, TicketsOf, Rows, EmptyDb, NoProject
<1>20. CASE FreshDb
  BY <1>20
    DEF FreshDb, exportVars, recoveryVars, LiveTyped, OfflineRests, Offline, RestoreSound, Tables,
        TableSet, TicketsOf, Rows, EmptyDb, NoProject
<1>21. CASE StartRestore
  BY <1>21
    DEF StartRestore, exportVars, recoveryVars, LiveTyped, OfflineRests, Offline, RestoreSound,
        Tables, TableSet, TicketsOf, Rows, EmptyDb, NoProject
<1>22. CASE RestoreProjects
  BY <1>22
    DEF RestoreProjects, exportVars, recoveryVars, LiveTyped, OfflineRests, Offline, RestoreSound,
        Tables, TableSet, TicketsOf, Rows, EmptyDb, NoProject
<1>23. CASE RestoreTickets
  BY <1>23
    DEF RestoreTickets, GivesUp, mapProject, exportVars, recoveryVars, LiveTyped, OfflineRests,
        Offline, RestoreSound, Tables, TableSet, TicketsOf, Rows, EmptyDb, NoProject
<1>24. CASE RestoreComments
  BY <1>24
    DEF RestoreComments, GivesUp, exportVars, recoveryVars, LiveTyped, OfflineRests, Offline,
        RestoreSound, Tables, TableSet, TicketsOf, Rows, EmptyDb, NoProject
<1>25. CASE EndRestore
  BY <1>25
    DEF EndRestore, exportVars, recoveryVars, LiveTyped, OfflineRests, Offline, RestoreSound,
        Tables, TableSet, TicketsOf, Rows, EmptyDb, NoProject
<1>26. CASE UNCHANGED backupVars
  BY <1>26
    DEF backupVars, LiveTyped, OfflineRests, Offline, RestoreSound, Tables, TableSet, TicketsOf,
        Rows, EmptyDb, NoProject
<1>27. QED
  BY <1>1, <1>2, <1>3, <1>4, <1>5, <1>6, <1>7, <1>8, <1>9, <1>10, <1>11, <1>12, <1>13, <1>14,
     <1>15, <1>16, <1>17, <1>18, <1>19, <1>20, <1>21, <1>22, <1>23, <1>24, <1>25, <1>26
    DEF BackupsNext

\* The exports under way.
LEMMA DumpsStep ==
  ASSUME LiveTyped, OfflineRests, DumpsTyped, [BackupsNext]_backupVars
  PROVE  DumpsTyped'
<1>1. CASE Boot
  <2>1. "timed" \in Exporters /\ BeginDump("timed") /\ live' = live
    BY <1>1 DEF Boot, Exporters
  <2>2. QED
    BY <2>1, BegunTyped
<1>2. CASE BootDegraded
  BY <1>2
    DEF BootDegraded, exportVars, recoveryVars, LiveTyped, DumpsTyped, OfflineRests, Offline,
        Busy, Tables, TableSet, DumpSet, NotDumping, EmptyDb, NoProject, DumpTables
<1>3. CASE Repair
  BY <1>3
    DEF Repair, exportVars, recoveryVars, LiveTyped, DumpsTyped, OfflineRests, Offline, Busy,
        Tables, TableSet, DumpSet, NotDumping, EmptyDb, NoProject, DumpTables
<1>4. CASE CopyStore
  BY <1>4
    DEF CopyStore, Runs, exportVars, recoveryVars, LiveTyped, DumpsTyped, OfflineRests, Offline,
        Busy, Tables, TableSet, DumpSet, NotDumping, EmptyDb, NoProject, DumpTables
<1>5. CASE CopiedStore
  BY <1>5
    DEF CopiedStore, exportVars, recoveryVars, LiveTyped, DumpsTyped, OfflineRests, Offline, Busy,
        Tables, TableSet, DumpSet, NotDumping, EmptyDb, NoProject, DumpTables
<1>6. ASSUME NEW t \in BoardTickets, PostTicket(t) PROVE DumpsTyped'
  BY <1>6
    DEF PostTicket, Write, Runs, exportVars, recoveryVars, LiveTyped, DumpsTyped, OfflineRests,
        Offline, Busy, Tables, TableSet, DumpSet, NotDumping, EmptyDb, NoProject, DumpTables
<1>7. ASSUME NEW t \in BoardTickets, PostComment(t) PROVE DumpsTyped'
  BY <1>7
    DEF PostComment, Write, Runs, exportVars, recoveryVars, LiveTyped, DumpsTyped, OfflineRests,
        Offline, Busy, Tables, TableSet, DumpSet, NotDumping, EmptyDb, NoProject, DumpTables
<1>8. ASSUME NEW t \in BoardTickets, AgentComments(t) PROVE DumpsTyped'
  BY <1>8
    DEF AgentComments, Runs, exportVars, recoveryVars, LiveTyped, DumpsTyped, OfflineRests,
        Offline, Busy, Tables, TableSet, DumpSet, NotDumping, EmptyDb, NoProject, DumpTables
<1>9. CASE armExport
  BY <1>9
    DEF armExport, Runs, exportVars, recoveryVars, LiveTyped, DumpsTyped, OfflineRests, Offline,
        Busy, Tables, TableSet, DumpSet, NotDumping, EmptyDb, NoProject, DumpTables
<1>10. CASE fire
  <2>1. CASE recent
    BY <1>10, <2>1 DEF fire, DumpsTyped, Busy, Tables, recoveryVars
  <2>2. CASE ~recent
    <3>1. "written" \in Exporters /\ BeginDump("written") /\ live' = live
      BY <1>10, <2>2 DEF fire, Exporters
    <3>2. QED
      BY <3>1, BegunTyped
  <2>3. QED
    BY <2>1, <2>2
<1>11. CASE FloorPasses
  BY <1>11
    DEF FloorPasses, Runs, exportVars, recoveryVars, LiveTyped, DumpsTyped, OfflineRests, Offline,
        Busy, Tables, TableSet, DumpSet, NotDumping, EmptyDb, NoProject, DumpTables
<1>12. CASE ExportOnTime
  <2>1. "timed" \in Exporters /\ BeginDump("timed") /\ live' = live
    BY <1>12 DEF ExportOnTime, Exporters
  <2>2. QED
    BY <2>1, BegunTyped
<1>13. ASSUME NEW x \in Exporters, DumpTickets(x) PROVE DumpsTyped'
  <2> DEFINE z == dumping[x]
             y == [z EXCEPT !.next = "comments", !.dump.tickets = live.tickets]
  <2>1. /\ z \in DumpSet /\ Tables(z.dump) /\ Busy(x) /\ z.dump.project = live.project
        /\ z.dump \in TableSet
        /\ live.tickets \in [BoardTickets -> 0..2] /\ live' = live /\ stamps' = stamps
    BY <1>13 DEF DumpTickets, DumpsTyped, Busy, DumpSet, LiveTyped, Tables, TableSet
  <2>2. dumping' = [dumping EXCEPT ![x] = y]
    BY <1>13, <2>1 DEF DumpTickets, DumpsTyped
  <2>3. /\ y \in DumpSet /\ y.stamp = z.stamp /\ y.next = "comments"
        /\ y.dump = [z.dump EXCEPT !.tickets = live.tickets]
    <3>1. [z.dump EXCEPT !.tickets = live.tickets] \in TableSet
      BY <2>1 DEF TableSet
    <3>2. QED
      BY <2>1, <3>1 DEF DumpSet, DumpTables
  <2>4. y.dump \in TableSet /\ Tables(y.dump) /\ y.dump.project = live.project
    <3>1. /\ [z.dump EXCEPT !.tickets = live.tickets] \in TableSet
          /\ [z.dump EXCEPT !.tickets = live.tickets].project = live.project
          /\ [z.dump EXCEPT !.tickets = live.tickets].tickets = live.tickets
      BY <2>1 DEF TableSet
    <3> HIDE DEF y
    <3>2. QED
      BY <2>3, <3>1 DEF Tables, LiveTyped
  <2>5. QED
    <3> HIDE DEF y
    <3>1. dumping'[x] = y /\ \A w \in Exporters \ {x} : dumping'[w] = dumping[w]
      BY <2>2 DEF DumpsTyped
    <3>2. dumping' \in [Exporters -> DumpSet]
      BY <2>2, <2>3 DEF DumpsTyped
    <3>3. ASSUME NEW w \in Exporters
          PROVE  /\ Tables(dumping'[w].dump) /\ dumping'[w].stamp = dumping[w].stamp
                 /\ dumping'[w].stamp <= stamps'
                 /\ dumping'[w].next = "none" => dumping'[w] = NotDumping
                 /\ dumping'[w].next # "none" =>
                      Busy(w) /\ dumping'[w].stamp > 0 /\ dumping'[w].dump.project = live'.project
      <4>1. CASE w = x
        BY <2>1, <2>3, <2>4, <3>1, <4>1 DEF DumpsTyped
      <4>2. CASE w # x
        BY <2>1, <3>1, <4>2 DEF DumpsTyped, Busy
      <4>3. QED
        BY <4>1, <4>2
    <3>4. stamps' \in Nat
      BY <2>1 DEF DumpsTyped
    <3>5. QED
      BY <3>2, <3>3, <3>4 DEF DumpsTyped, Busy, Tables
<1>14. ASSUME NEW x \in Exporters, writeBackup(x) PROVE DumpsTyped'
  BY <1>14
    DEF writeBackup, Runs, exportVars, recoveryVars, LiveTyped, DumpsTyped, OfflineRests, Offline,
        Busy, Tables, TableSet, DumpSet, NotDumping, EmptyDb, NoProject, DumpTables
<1>15. ASSUME NEW x \in Exporters, ExportFails(x) PROVE DumpsTyped'
  BY <1>15
    DEF ExportFails, Runs, exportVars, recoveryVars, LiveTyped, DumpsTyped, OfflineRests, Offline,
        Busy, Tables, TableSet, DumpSet, NotDumping, EmptyDb, NoProject, DumpTables
<1>16. CASE shutdown
  BY <1>16
    DEF shutdown, Runs, exportVars, recoveryVars, LiveTyped, DumpsTyped, OfflineRests, Offline,
        Busy, Tables, TableSet, DumpSet, NotDumping, EmptyDb, NoProject, DumpTables
<1>17. CASE ExportLast
  <2>1. "closing" \in Exporters /\ BeginDump("closing") /\ live' = live
    BY <1>17 DEF ExportLast, Exporters
  <2>2. QED
    BY <2>1, BegunTyped
<1>18. CASE closeDb
  BY <1>18
    DEF closeDb, Runs, Stopped, exportVars, recoveryVars, LiveTyped, DumpsTyped, OfflineRests,
        Offline, Busy, Tables, TableSet, DumpSet, NotDumping, EmptyDb, NoProject, DumpTables
<1>19. CASE KillServer
  BY <1>19
    DEF KillServer, Stopped, exportVars, recoveryVars, LiveTyped, DumpsTyped, OfflineRests,
        Offline, Busy, Tables, TableSet, DumpSet, NotDumping, EmptyDb, NoProject, DumpTables
<1>20. CASE FreshDb
  BY <1>20
    DEF FreshDb, exportVars, recoveryVars, LiveTyped, DumpsTyped, OfflineRests, Offline, Busy,
        Tables, TableSet, DumpSet, NotDumping, EmptyDb, NoProject, DumpTables
<1>21. CASE StartRestore
  BY <1>21
    DEF StartRestore, exportVars, recoveryVars, LiveTyped, DumpsTyped, OfflineRests, Offline,
        Busy, Tables, TableSet, DumpSet, NotDumping, EmptyDb, NoProject, DumpTables
<1>22. CASE RestoreProjects
  BY <1>22
    DEF RestoreProjects, exportVars, recoveryVars, LiveTyped, DumpsTyped, OfflineRests, Offline,
        Busy, Tables, TableSet, DumpSet, NotDumping, EmptyDb, NoProject, DumpTables
<1>23. CASE RestoreTickets
  BY <1>23
    DEF RestoreTickets, GivesUp, mapProject, exportVars, recoveryVars, LiveTyped, DumpsTyped,
        OfflineRests, Offline, Busy, Tables, TableSet, DumpSet, NotDumping, EmptyDb, NoProject,
        DumpTables
<1>24. CASE RestoreComments
  BY <1>24
    DEF RestoreComments, GivesUp, exportVars, recoveryVars, LiveTyped, DumpsTyped, OfflineRests,
        Offline, Busy, Tables, TableSet, DumpSet, NotDumping, EmptyDb, NoProject, DumpTables
<1>25. CASE EndRestore
  BY <1>25
    DEF EndRestore, exportVars, recoveryVars, LiveTyped, DumpsTyped, OfflineRests, Offline, Busy,
        Tables, TableSet, DumpSet, NotDumping, EmptyDb, NoProject, DumpTables
<1>26. CASE UNCHANGED backupVars
  BY <1>26
    DEF backupVars, LiveTyped, DumpsTyped, OfflineRests, Offline, Busy, Tables, TableSet, DumpSet,
        NotDumping, EmptyDb, NoProject, DumpTables
<1>27. QED
  BY <1>1, <1>2, <1>3, <1>4, <1>5, <1>6, <1>7, <1>8, <1>9, <1>10, <1>11, <1>12, <1>13, <1>14,
     <1>15, <1>16, <1>17, <1>18, <1>19, <1>20, <1>21, <1>22, <1>23, <1>24, <1>25, <1>26
    DEF BackupsNext

\* The files.
LEMMA FilesStep ==
  ASSUME LiveTyped, DumpsTyped, FilesTyped, [BackupsNext]_backupVars
  PROVE  FilesTyped'
<1>1. CASE Boot
  <2>1. "timed" \in Exporters /\ BeginDump("timed") /\ exports' = exports
    BY <1>1 DEF Boot, Exporters
  <2>2. QED
    BY <2>1, DumpBegins DEF FilesTyped, FileSet, Busy, Tables
<1>2. CASE BootDegraded
  BY <1>2
    DEF BootDegraded, exportVars, recoveryVars, LiveTyped, DumpsTyped, FilesTyped, FileSet,
        DumpSet, Busy, Tables, NotDumping, File
<1>3. CASE Repair
  BY <1>3
    DEF Repair, exportVars, recoveryVars, LiveTyped, DumpsTyped, FilesTyped, FileSet, DumpSet,
        Busy, Tables, NotDumping, File
<1>4. CASE CopyStore
  BY <1>4
    DEF CopyStore, Runs, exportVars, recoveryVars, LiveTyped, DumpsTyped, FilesTyped, FileSet,
        DumpSet, Busy, Tables, NotDumping, File
<1>5. CASE CopiedStore
  BY <1>5
    DEF CopiedStore, exportVars, recoveryVars, LiveTyped, DumpsTyped, FilesTyped, FileSet,
        DumpSet, Busy, Tables, NotDumping, File
<1>6. ASSUME NEW t \in BoardTickets, PostTicket(t) PROVE FilesTyped'
  BY <1>6
    DEF PostTicket, Write, Runs, exportVars, recoveryVars, LiveTyped, DumpsTyped, FilesTyped,
        FileSet, DumpSet, Busy, Tables, NotDumping, File
<1>7. ASSUME NEW t \in BoardTickets, PostComment(t) PROVE FilesTyped'
  BY <1>7
    DEF PostComment, Write, Runs, exportVars, recoveryVars, LiveTyped, DumpsTyped, FilesTyped,
        FileSet, DumpSet, Busy, Tables, NotDumping, File
<1>8. ASSUME NEW t \in BoardTickets, AgentComments(t) PROVE FilesTyped'
  BY <1>8
    DEF AgentComments, Runs, exportVars, recoveryVars, LiveTyped, DumpsTyped, FilesTyped, FileSet,
        DumpSet, Busy, Tables, NotDumping, File
<1>9. CASE armExport
  BY <1>9
    DEF armExport, Runs, exportVars, recoveryVars, LiveTyped, DumpsTyped, FilesTyped, FileSet,
        DumpSet, Busy, Tables, NotDumping, File
<1>10. CASE fire
  <2>1. CASE recent
    BY <1>10, <2>1 DEF fire, FilesTyped, Busy, Tables
  <2>2. CASE ~recent
    <3>1. "written" \in Exporters /\ BeginDump("written") /\ exports' = exports
      BY <1>10, <2>2 DEF fire, Exporters
    <3>2. QED
      BY <3>1, DumpBegins DEF FilesTyped, FileSet, Busy, Tables
  <2>3. QED
    BY <2>1, <2>2
<1>11. CASE FloorPasses
  BY <1>11
    DEF FloorPasses, Runs, exportVars, recoveryVars, LiveTyped, DumpsTyped, FilesTyped, FileSet,
        DumpSet, Busy, Tables, NotDumping, File
<1>12. CASE ExportOnTime
  <2>1. "timed" \in Exporters /\ BeginDump("timed") /\ exports' = exports
    BY <1>12 DEF ExportOnTime, Exporters
  <2>2. QED
    BY <2>1, DumpBegins DEF FilesTyped, FileSet, Busy, Tables
<1>13. ASSUME NEW x \in Exporters, DumpTickets(x) PROVE FilesTyped'
  BY <1>13
    DEF DumpTickets, Runs, exportVars, recoveryVars, LiveTyped, DumpsTyped, FilesTyped, FileSet,
        DumpSet, Busy, Tables, NotDumping, File
<1>14. ASSUME NEW x \in Exporters, writeBackup(x) PROVE FilesTyped'
  <2> DEFINE z == dumping[x]
             d == [z.dump EXCEPT !.comments = live.comments]
             f0 == File(z, TRUE, d)
             saved == exports \cup {f0}
  <2>1. /\ z \in DumpSet /\ Busy(x) /\ z.next = "comments" /\ z.stamp > 0 /\ z.stamp <= stamps
        /\ stamps \in Nat
        /\ z.dump \in TableSet /\ Tables(z.dump) /\ live.comments \subseteq BoardTickets
    BY <1>14 DEF writeBackup, DumpsTyped, Busy, DumpSet, LiveTyped, Tables, TableSet
  <2>2. d \in TableSet /\ Tables(d)
    BY <2>1 DEF TableSet, Tables
  <2>3. f0 \in FileSet /\ f0.stamp = z.stamp /\ f0.dump = d /\ ~f0.cut
    BY <2>1, <2>2 DEF File, FileSet, DumpSet
  <2>4. /\ exports' = pruneBackups(saved) /\ dumping' = [dumping EXCEPT ![x] = NotDumping]
        /\ stamps' = stamps
    BY <1>14 DEF writeBackup
  <2>5. \A y \in Exporters : dumping'[y].next # "none" => y # x /\ dumping'[y] = dumping[y]
    BY <2>4 DEF DumpsTyped, NotDumping
  <2> HIDE DEF d, f0
  <2>6. saved \in SUBSET FileSet /\ IsFiniteSet(saved)
    BY <2>3, FS_AddElement DEF FilesTyped
  <2>7. \A e, f \in saved : e.stamp = f.stamp => e = f
    BY <2>1, <2>3 DEF FilesTyped
  <2>8. PICK n \in saved : \A f \in saved : f.stamp <= n.stamp
    <3>1. CASE exports = {}
      BY <2>3, <3>1 DEF FileSet
    <3>2. CASE exports # {}
      <4>1. PICK m \in exports : \A f \in exports : f.stamp <= m.stamp
        BY <3>2 DEF FilesTyped
      <4>2. /\ m.stamp \in Nat /\ f0.stamp \in Nat
            /\ \A f \in exports : f.stamp \in Nat
        BY <2>3, <4>1 DEF FileSet, FilesTyped
      <4>3. CASE m.stamp <= f0.stamp
        BY <4>1, <4>2, <4>3
      <4>4. CASE f0.stamp <= m.stamp
        BY <4>1, <4>2, <4>4
      <4>5. QED
        BY <4>2, <4>3, <4>4
    <3>3. QED
      BY <3>1, <3>2
  <2>9. /\ exports' \subseteq saved /\ n \in exports' /\ IsFiniteSet(exports')
        /\ Cardinality(exports') <= KeepExports
    <3> HIDE DEF saved
    <3>1. QED
      BY <2>4, <2>6, <2>7, <2>8, PruningKeeps
  <2>10. Cardinality({e \in exports' : ~e.cut}) <= KeepExports
    <3>1. Cardinality({e \in exports' : ~e.cut}) <= Cardinality(exports')
      BY <2>9, FS_Subset
    <3>2. /\ Cardinality({e \in exports' : ~e.cut}) \in Nat /\ Cardinality(exports') \in Nat
          /\ KeepExports \in Nat
      BY <2>9, FS_Subset, FS_CardinalityType, BackupsAssumption DEF BackupsAssumption
    <3>3. QED
      BY <2>9, <3>1, <3>2
  <2>11. ASSUME NEW e \in exports'
         PROVE  /\ Tables(e.dump) /\ e.stamp <= stamps /\ e.stamp > 0
                /\ \A f \in exports' : e.stamp = f.stamp => e = f
                /\ \A y \in Exporters : dumping'[y].next # "none" => e.stamp # dumping'[y].stamp
    <3>1. \A f \in exports' : e.stamp = f.stamp => e = f
      BY <2>7, <2>9
    <3>2. CASE e \in exports
      BY <2>5, <3>1, <3>2 DEF FilesTyped, Busy
    <3>3. CASE e = f0
      BY <2>1, <2>2, <2>3, <2>5, <3>1, <3>3 DEF DumpsTyped, Busy
    <3>4. QED
      BY <2>9, <3>2, <3>3
  <2>12. QED
    <3>1. exports' \subseteq FileSet
      BY <2>6, <2>9
    <3>2. \E e \in exports' : \A f \in exports' : f.stamp <= e.stamp
      BY <2>8, <2>9
    <3>3. QED
      BY <2>4, <2>9, <2>10, <2>11, <3>1, <3>2 DEF FilesTyped, Busy, Tables
<1>15. ASSUME NEW x \in Exporters, ExportFails(x) PROVE FilesTyped'
  BY <1>15
    DEF ExportFails, Runs, exportVars, recoveryVars, LiveTyped, DumpsTyped, FilesTyped, FileSet,
        DumpSet, Busy, Tables, NotDumping, File
<1>16. CASE shutdown
  BY <1>16
    DEF shutdown, Runs, exportVars, recoveryVars, LiveTyped, DumpsTyped, FilesTyped, FileSet,
        DumpSet, Busy, Tables, NotDumping, File
<1>17. CASE ExportLast
  <2>1. "closing" \in Exporters /\ BeginDump("closing") /\ exports' = exports
    BY <1>17 DEF ExportLast, Exporters
  <2>2. QED
    BY <2>1, DumpBegins DEF FilesTyped, FileSet, Busy, Tables
<1>18. CASE closeDb
  BY <1>18
    DEF closeDb, Runs, Stopped, exportVars, recoveryVars, LiveTyped, DumpsTyped, FilesTyped,
        FileSet, DumpSet, Busy, Tables, NotDumping, File
<1>19. CASE KillServer
  <2>1. /\ \A y \in Exporters : dumping'[y].next = "none"
        /\ stamps' = stamps
    BY <1>19 DEF KillServer, Stopped, NotDumping
  <2>2. CASE exports' = exports
    BY <2>1, <2>2 DEF FilesTyped, Busy, Tables
  <2>3. ASSUME NEW x \in Exporters, dumping[x].next = "comments",
               exports' = exports \cup {File(dumping[x], FALSE, EmptyDb)}
        PROVE  FilesTyped'
    <3> DEFINE f0 == File(dumping[x], FALSE, EmptyDb)
    <3>1. /\ dumping[x].stamp \in Nat /\ dumping[x].stamp > 0 /\ dumping[x].stamp <= stamps
          /\ Busy(x)
      BY <2>3 DEF DumpsTyped, DumpSet, Busy
    <3>2. EmptyDb \in TableSet /\ Tables(EmptyDb)
      BY DEF EmptyDb, TableSet, Tables, NoProject
    <3>3. f0 \in FileSet /\ f0.stamp = dumping[x].stamp /\ f0.dump = EmptyDb /\ f0.cut
      BY <3>1, <3>2 DEF File, FileSet
    <3>4. exports' = exports \cup {f0}
      BY <2>3
    <3> HIDE DEF f0
    <3>5. exports' \subseteq FileSet /\ IsFiniteSet(exports')
      BY <3>3, <3>4, FS_AddElement DEF FilesTyped
    <3>6. {e \in exports' : ~e.cut} = {e \in exports : ~e.cut}
      BY <3>3, <3>4
    <3>7. \E e \in exports' : \A f \in exports' : f.stamp <= e.stamp
      <4>1. CASE exports = {}
        BY <3>3, <3>4, <4>1 DEF FileSet
      <4>2. CASE exports # {}
        <5>1. PICK m \in exports : \A f \in exports : f.stamp <= m.stamp
          BY <4>2 DEF FilesTyped
        <5>2. m.stamp \in Nat /\ f0.stamp \in Nat /\ \A f \in exports : f.stamp \in Nat
          BY <3>3, <5>1 DEF FilesTyped, FileSet
        <5>3. CASE m.stamp <= f0.stamp
          BY <3>4, <5>1, <5>2, <5>3
        <5>4. CASE f0.stamp <= m.stamp
          BY <3>4, <5>1, <5>2, <5>4
        <5>5. QED
          BY <5>2, <5>3, <5>4
      <4>3. QED
        BY <4>1, <4>2
    <3>8. ASSUME NEW e \in exports'
          PROVE  /\ Tables(e.dump) /\ e.stamp <= stamps /\ e.stamp > 0
                 /\ \A f \in exports' : e.stamp = f.stamp => e = f
      BY <3>1, <3>2, <3>3, <3>4 DEF FilesTyped
    <3>9. QED
      BY <2>1, <3>5, <3>6, <3>7, <3>8 DEF FilesTyped, Busy, Tables
  <2>4. QED
    BY <1>19, <2>2, <2>3 DEF KillServer
<1>20. CASE FreshDb
  BY <1>20
    DEF FreshDb, exportVars, recoveryVars, LiveTyped, DumpsTyped, FilesTyped, FileSet, DumpSet,
        Busy, Tables, NotDumping, File
<1>21. CASE StartRestore
  BY <1>21
    DEF StartRestore, exportVars, recoveryVars, LiveTyped, DumpsTyped, FilesTyped, FileSet,
        DumpSet, Busy, Tables, NotDumping, File
<1>22. CASE RestoreProjects
  BY <1>22
    DEF RestoreProjects, exportVars, recoveryVars, LiveTyped, DumpsTyped, FilesTyped, FileSet,
        DumpSet, Busy, Tables, NotDumping, File
<1>23. CASE RestoreTickets
  BY <1>23
    DEF RestoreTickets, GivesUp, mapProject, exportVars, recoveryVars, LiveTyped, DumpsTyped,
        FilesTyped, FileSet, DumpSet, Busy, Tables, NotDumping, File
<1>24. CASE RestoreComments
  BY <1>24
    DEF RestoreComments, GivesUp, exportVars, recoveryVars, LiveTyped, DumpsTyped, FilesTyped,
        FileSet, DumpSet, Busy, Tables, NotDumping, File
<1>25. CASE EndRestore
  BY <1>25
    DEF EndRestore, exportVars, recoveryVars, LiveTyped, DumpsTyped, FilesTyped, FileSet, DumpSet,
        Busy, Tables, NotDumping, File
<1>26. CASE UNCHANGED backupVars
  BY <1>26
    DEF backupVars, LiveTyped, DumpsTyped, FilesTyped, FileSet, DumpSet, Busy, Tables, NotDumping,
        File
<1>27. QED
  BY <1>1, <1>2, <1>3, <1>4, <1>5, <1>6, <1>7, <1>8, <1>9, <1>10, <1>11, <1>12, <1>13, <1>14,
     <1>15, <1>16, <1>17, <1>18, <1>19, <1>20, <1>21, <1>22, <1>23, <1>24, <1>25, <1>26
    DEF BackupsNext

\* What stops with the process.
LEMMA OfflineStep ==
  ASSUME LiveTyped, DumpsTyped, OfflineRests, RestoreSound, [BackupsNext]_backupVars
  PROVE  OfflineRests'
<1>1. CASE Boot
  BY <1>1
    DEF Boot, reportAndClearRecovery, BeginDump, exportVars, recoveryVars, DumpsTyped,
        OfflineRests, Offline, RestoreSound, Busy, NotDumping, NotRestoring, Exporters, DumpSet
<1>2. CASE BootDegraded
  BY <1>2
    DEF BootDegraded, exportVars, recoveryVars, DumpsTyped, OfflineRests, Offline, RestoreSound,
        Busy, NotDumping, NotRestoring, Exporters, DumpSet
<1>3. CASE Repair
  BY <1>3
    DEF Repair, exportVars, recoveryVars, DumpsTyped, OfflineRests, Offline, RestoreSound, Busy,
        NotDumping, NotRestoring, Exporters, DumpSet
<1>4. CASE CopyStore
  BY <1>4
    DEF CopyStore, Runs, exportVars, recoveryVars, DumpsTyped, OfflineRests, Offline,
        RestoreSound, Busy, NotDumping, NotRestoring, Exporters, DumpSet
<1>5. CASE CopiedStore
  BY <1>5
    DEF CopiedStore, exportVars, recoveryVars, DumpsTyped, OfflineRests, Offline, RestoreSound,
        Busy, NotDumping, NotRestoring, Exporters, DumpSet
<1>6. ASSUME NEW t \in BoardTickets, PostTicket(t) PROVE OfflineRests'
  BY <1>6
    DEF PostTicket, Write, Runs, exportVars, recoveryVars, DumpsTyped, OfflineRests, Offline,
        RestoreSound, Busy, NotDumping, NotRestoring, Exporters, DumpSet
<1>7. ASSUME NEW t \in BoardTickets, PostComment(t) PROVE OfflineRests'
  BY <1>7
    DEF PostComment, Write, Runs, exportVars, recoveryVars, DumpsTyped, OfflineRests, Offline,
        RestoreSound, Busy, NotDumping, NotRestoring, Exporters, DumpSet
<1>8. ASSUME NEW t \in BoardTickets, AgentComments(t) PROVE OfflineRests'
  BY <1>8
    DEF AgentComments, Runs, exportVars, recoveryVars, DumpsTyped, OfflineRests, Offline,
        RestoreSound, Busy, NotDumping, NotRestoring, Exporters, DumpSet
<1>9. CASE armExport
  BY <1>9
    DEF armExport, Runs, exportVars, recoveryVars, DumpsTyped, OfflineRests, Offline,
        RestoreSound, Busy, NotDumping, NotRestoring, Exporters, DumpSet
<1>10. CASE fire
  BY <1>10
    DEF fire, Runs, BeginDump, exportVars, recoveryVars, DumpsTyped, OfflineRests, Offline,
        RestoreSound, Busy, NotDumping, NotRestoring, Exporters, DumpSet
<1>11. CASE FloorPasses
  BY <1>11
    DEF FloorPasses, Runs, exportVars, recoveryVars, DumpsTyped, OfflineRests, Offline,
        RestoreSound, Busy, NotDumping, NotRestoring, Exporters, DumpSet
<1>12. CASE ExportOnTime
  BY <1>12
    DEF ExportOnTime, Runs, BeginDump, exportVars, recoveryVars, DumpsTyped, OfflineRests,
        Offline, RestoreSound, Busy, NotDumping, NotRestoring, Exporters, DumpSet
<1>13. ASSUME NEW x \in Exporters, DumpTickets(x) PROVE OfflineRests'
  BY <1>13
    DEF DumpTickets, Runs, exportVars, recoveryVars, DumpsTyped, OfflineRests, Offline,
        RestoreSound, Busy, NotDumping, NotRestoring, Exporters, DumpSet
<1>14. ASSUME NEW x \in Exporters, writeBackup(x) PROVE OfflineRests'
  BY <1>14
    DEF writeBackup, Runs, exportVars, recoveryVars, DumpsTyped, OfflineRests, Offline,
        RestoreSound, Busy, NotDumping, NotRestoring, Exporters, DumpSet
<1>15. ASSUME NEW x \in Exporters, ExportFails(x) PROVE OfflineRests'
  BY <1>15
    DEF ExportFails, Runs, exportVars, recoveryVars, DumpsTyped, OfflineRests, Offline,
        RestoreSound, Busy, NotDumping, NotRestoring, Exporters, DumpSet
<1>16. CASE shutdown
  BY <1>16
    DEF shutdown, Runs, exportVars, recoveryVars, DumpsTyped, OfflineRests, Offline, RestoreSound,
        Busy, NotDumping, NotRestoring, Exporters, DumpSet
<1>17. CASE ExportLast
  BY <1>17
    DEF ExportLast, Runs, BeginDump, exportVars, recoveryVars, DumpsTyped, OfflineRests, Offline,
        RestoreSound, Busy, NotDumping, NotRestoring, Exporters, DumpSet
<1>18. CASE closeDb
  BY <1>18
    DEF closeDb, Runs, Stopped, exportVars, recoveryVars, DumpsTyped, OfflineRests, Offline,
        RestoreSound, Busy, NotDumping, NotRestoring, Exporters, DumpSet
<1>19. CASE KillServer
  BY <1>19
    DEF KillServer, Stopped, exportVars, recoveryVars, DumpsTyped, OfflineRests, Offline,
        RestoreSound, Busy, NotDumping, NotRestoring, Exporters, DumpSet
<1>20. CASE FreshDb
  BY <1>20
    DEF FreshDb, exportVars, recoveryVars, DumpsTyped, OfflineRests, Offline, RestoreSound, Busy,
        NotDumping, NotRestoring, Exporters, DumpSet
<1>21. CASE StartRestore
  BY <1>21
    DEF StartRestore, exportVars, recoveryVars, DumpsTyped, OfflineRests, Offline, RestoreSound,
        Busy, NotDumping, NotRestoring, Exporters, DumpSet
<1>22. CASE RestoreProjects
  BY <1>22
    DEF RestoreProjects, exportVars, recoveryVars, DumpsTyped, OfflineRests, Offline,
        RestoreSound, Busy, NotDumping, NotRestoring, Exporters, DumpSet
<1>23. CASE RestoreTickets
  BY <1>23
    DEF RestoreTickets, GivesUp, mapProject, exportVars, recoveryVars, DumpsTyped, OfflineRests,
        Offline, RestoreSound, Busy, NotDumping, NotRestoring, Exporters, DumpSet
<1>24. CASE RestoreComments
  BY <1>24
    DEF RestoreComments, GivesUp, exportVars, recoveryVars, DumpsTyped, OfflineRests, Offline,
        RestoreSound, Busy, NotDumping, NotRestoring, Exporters, DumpSet
<1>25. CASE EndRestore
  BY <1>25
    DEF EndRestore, exportVars, recoveryVars, DumpsTyped, OfflineRests, Offline, RestoreSound,
        Busy, NotDumping, NotRestoring, Exporters, DumpSet
<1>26. CASE UNCHANGED backupVars
  BY <1>26
    DEF backupVars, DumpsTyped, OfflineRests, Offline, RestoreSound, Busy, NotDumping,
        NotRestoring, Exporters, DumpSet
<1>27. QED
  BY <1>1, <1>2, <1>3, <1>4, <1>5, <1>6, <1>7, <1>8, <1>9, <1>10, <1>11, <1>12, <1>13, <1>14,
     <1>15, <1>16, <1>17, <1>18, <1>19, <1>20, <1>21, <1>22, <1>23, <1>24, <1>25, <1>26
    DEF BackupsNext

\* A restore.
LEMMA RestoreStep ==
  ASSUME LiveTyped, FilesTyped, OfflineRests, RestoreSound, [BackupsNext]_backupVars
  PROVE  RestoreSound'
<1>1. CASE Boot
  BY <1>1
    DEF Boot, reportAndClearRecovery, BeginDump, exportVars, recoveryVars, LiveTyped, FilesTyped,
        OfflineRests, Offline, RestoreSound, Tables, TableSet, TicketsOf, NotRestoring, EmptyDb,
        NoProject
<1>2. CASE BootDegraded
  BY <1>2
    DEF BootDegraded, exportVars, recoveryVars, LiveTyped, FilesTyped, OfflineRests, Offline,
        RestoreSound, Tables, TableSet, TicketsOf, NotRestoring, EmptyDb, NoProject
<1>3. CASE Repair
  BY <1>3
    DEF Repair, exportVars, recoveryVars, LiveTyped, FilesTyped, OfflineRests, Offline,
        RestoreSound, Tables, TableSet, TicketsOf, NotRestoring, EmptyDb, NoProject
<1>4. CASE CopyStore
  BY <1>4
    DEF CopyStore, Runs, exportVars, recoveryVars, LiveTyped, FilesTyped, OfflineRests, Offline,
        RestoreSound, Tables, TableSet, TicketsOf, NotRestoring, EmptyDb, NoProject
<1>5. CASE CopiedStore
  BY <1>5
    DEF CopiedStore, exportVars, recoveryVars, LiveTyped, FilesTyped, OfflineRests, Offline,
        RestoreSound, Tables, TableSet, TicketsOf, NotRestoring, EmptyDb, NoProject
<1>6. ASSUME NEW t \in BoardTickets, PostTicket(t) PROVE RestoreSound'
  BY <1>6
    DEF PostTicket, Write, Runs, exportVars, recoveryVars, LiveTyped, FilesTyped, OfflineRests,
        Offline, RestoreSound, Tables, TableSet, TicketsOf, NotRestoring, EmptyDb, NoProject
<1>7. ASSUME NEW t \in BoardTickets, PostComment(t) PROVE RestoreSound'
  BY <1>7
    DEF PostComment, Write, Runs, exportVars, recoveryVars, LiveTyped, FilesTyped, OfflineRests,
        Offline, RestoreSound, Tables, TableSet, TicketsOf, NotRestoring, EmptyDb, NoProject
<1>8. ASSUME NEW t \in BoardTickets, AgentComments(t) PROVE RestoreSound'
  BY <1>8
    DEF AgentComments, Runs, exportVars, recoveryVars, LiveTyped, FilesTyped, OfflineRests,
        Offline, RestoreSound, Tables, TableSet, TicketsOf, NotRestoring, EmptyDb, NoProject
<1>9. CASE armExport
  BY <1>9
    DEF armExport, Runs, exportVars, recoveryVars, LiveTyped, FilesTyped, OfflineRests, Offline,
        RestoreSound, Tables, TableSet, TicketsOf, NotRestoring, EmptyDb, NoProject
<1>10. CASE fire
  BY <1>10
    DEF fire, Runs, BeginDump, exportVars, recoveryVars, LiveTyped, FilesTyped, OfflineRests,
        Offline, RestoreSound, Tables, TableSet, TicketsOf, NotRestoring, EmptyDb, NoProject
<1>11. CASE FloorPasses
  BY <1>11
    DEF FloorPasses, Runs, exportVars, recoveryVars, LiveTyped, FilesTyped, OfflineRests, Offline,
        RestoreSound, Tables, TableSet, TicketsOf, NotRestoring, EmptyDb, NoProject
<1>12. CASE ExportOnTime
  BY <1>12
    DEF ExportOnTime, Runs, BeginDump, exportVars, recoveryVars, LiveTyped, FilesTyped,
        OfflineRests, Offline, RestoreSound, Tables, TableSet, TicketsOf, NotRestoring, EmptyDb,
        NoProject
<1>13. ASSUME NEW x \in Exporters, DumpTickets(x) PROVE RestoreSound'
  BY <1>13
    DEF DumpTickets, Runs, exportVars, recoveryVars, LiveTyped, FilesTyped, OfflineRests, Offline,
        RestoreSound, Tables, TableSet, TicketsOf, NotRestoring, EmptyDb, NoProject
<1>14. ASSUME NEW x \in Exporters, writeBackup(x) PROVE RestoreSound'
  BY <1>14
    DEF writeBackup, Runs, exportVars, recoveryVars, LiveTyped, FilesTyped, OfflineRests, Offline,
        RestoreSound, Tables, TableSet, TicketsOf, NotRestoring, EmptyDb, NoProject
<1>15. ASSUME NEW x \in Exporters, ExportFails(x) PROVE RestoreSound'
  BY <1>15
    DEF ExportFails, Runs, exportVars, recoveryVars, LiveTyped, FilesTyped, OfflineRests, Offline,
        RestoreSound, Tables, TableSet, TicketsOf, NotRestoring, EmptyDb, NoProject
<1>16. CASE shutdown
  BY <1>16
    DEF shutdown, Runs, exportVars, recoveryVars, LiveTyped, FilesTyped, OfflineRests, Offline,
        RestoreSound, Tables, TableSet, TicketsOf, NotRestoring, EmptyDb, NoProject
<1>17. CASE ExportLast
  BY <1>17
    DEF ExportLast, Runs, BeginDump, exportVars, recoveryVars, LiveTyped, FilesTyped,
        OfflineRests, Offline, RestoreSound, Tables, TableSet, TicketsOf, NotRestoring, EmptyDb,
        NoProject
<1>18. CASE closeDb
  BY <1>18
    DEF closeDb, Runs, Stopped, exportVars, recoveryVars, LiveTyped, FilesTyped, OfflineRests,
        Offline, RestoreSound, Tables, TableSet, TicketsOf, NotRestoring, EmptyDb, NoProject
<1>19. CASE KillServer
  BY <1>19
    DEF KillServer, Stopped, exportVars, recoveryVars, LiveTyped, FilesTyped, OfflineRests,
        Offline, RestoreSound, Tables, TableSet, TicketsOf, NotRestoring, EmptyDb, NoProject
<1>20. CASE FreshDb
  BY <1>20
    DEF FreshDb, exportVars, recoveryVars, LiveTyped, FilesTyped, OfflineRests, Offline,
        RestoreSound, Tables, TableSet, TicketsOf, NotRestoring, EmptyDb, NoProject
<1>21. CASE StartRestore
  <2>1. exports # {} /\ restoring' = [next |-> "projects", dump |-> Newest.dump]
    BY <1>21 DEF StartRestore
  <2>2. Newest \in exports
    BY <2>1 DEF FilesTyped, Newest
  <2>3. Tables(Newest.dump) /\ Newest.dump \in TableSet
    BY <2>2 DEF FilesTyped, Tables
  <2>4. QED
    BY <2>1, <2>3 DEF RestoreSound, Tables
<1>22. CASE RestoreProjects
  BY <1>22
    DEF RestoreProjects, exportVars, recoveryVars, LiveTyped, FilesTyped, OfflineRests, Offline,
        RestoreSound, Tables, TableSet, TicketsOf, NotRestoring, EmptyDb, NoProject
<1>23. CASE RestoreTickets
  BY <1>23
    DEF RestoreTickets, GivesUp, mapProject, exportVars, recoveryVars, LiveTyped, FilesTyped,
        OfflineRests, Offline, RestoreSound, Tables, TableSet, TicketsOf, NotRestoring, EmptyDb,
        NoProject
<1>24. CASE RestoreComments
  BY <1>24
    DEF RestoreComments, GivesUp, exportVars, recoveryVars, LiveTyped, FilesTyped, OfflineRests,
        Offline, RestoreSound, Tables, TableSet, TicketsOf, NotRestoring, EmptyDb, NoProject
<1>25. CASE EndRestore
  BY <1>25
    DEF EndRestore, exportVars, recoveryVars, LiveTyped, FilesTyped, OfflineRests, Offline,
        RestoreSound, Tables, TableSet, TicketsOf, NotRestoring, EmptyDb, NoProject
<1>26. CASE UNCHANGED backupVars
  BY <1>26
    DEF backupVars, LiveTyped, FilesTyped, OfflineRests, Offline, RestoreSound, Tables, TableSet,
        TicketsOf, NotRestoring, EmptyDb, NoProject
<1>27. QED
  BY <1>1, <1>2, <1>3, <1>4, <1>5, <1>6, <1>7, <1>8, <1>9, <1>10, <1>11, <1>12, <1>13, <1>14,
     <1>15, <1>16, <1>17, <1>18, <1>19, <1>20, <1>21, <1>22, <1>23, <1>24, <1>25, <1>26
    DEF BackupsNext

\* Rows of requests are followed.
LEMMA FollowedStep ==
  ASSUME LiveTyped, DumpsTyped, FilesTyped, OfflineRests, RowsFollowed, [BackupsNext]_backupVars
  PROVE  RowsFollowed'
<1>1. CASE Boot
  <2>1. "timed" \in Exporters /\ BeginDump("timed") /\ exports' = exports
    BY <1>1 DEF Boot, Exporters
  <2>2. /\ stamps + 1 \in Nat /\ dumping'["timed"].next # "none"
        /\ dumping'["timed"].stamp = stamps + 1
        /\ \A s \in Nat : \A row : s = stamps + 1 => From(s, row)'
        /\ \A s \in Nat : \A row : From(s, row) => From(s, row)'
    BY <2>1, BegunFollowed
  <2>3. \A row : \E s \in Nat : From(s, row)' /\ \E y \in Exporters : dumping'[y].next # "none" /\ dumping'[y].stamp >= s
    <3>1. stamps + 1 >= stamps + 1
      BY <2>2
    <3>2. QED
      BY <2>1, <2>2, <3>1
  <2>4. server' = "up"
    BY <1>1 DEF Boot
  <2>5. QED
    BY <2>3, <2>4 DEF RowsFollowed, Busy
<1>2. CASE BootDegraded
  BY <1>2
    DEF BootDegraded, exportVars, recoveryVars, LiveTyped, OfflineRests, Offline, RowsFollowed,
        From, Reads, Busy
<1>3. CASE Repair
  BY <1>3
    DEF Repair, exportVars, recoveryVars, LiveTyped, OfflineRests, Offline, RowsFollowed, From,
        Reads, Busy
<1>4. CASE CopyStore
  BY <1>4
    DEF CopyStore, Runs, exportVars, recoveryVars, LiveTyped, OfflineRests, Offline, RowsFollowed,
        From, Reads, Busy
<1>5. CASE CopiedStore
  BY <1>5
    DEF CopiedStore, exportVars, recoveryVars, LiveTyped, OfflineRests, Offline, RowsFollowed,
        From, Reads, Busy
<1>6. ASSUME NEW t \in BoardTickets, PostTicket(t) PROVE RowsFollowed'
  BY <1>6
    DEF PostTicket, Write, Runs, exportVars, recoveryVars, LiveTyped, OfflineRests, Offline,
        RowsFollowed, From, Reads, Busy
<1>7. ASSUME NEW t \in BoardTickets, PostComment(t) PROVE RowsFollowed'
  BY <1>7
    DEF PostComment, Write, Runs, exportVars, recoveryVars, LiveTyped, OfflineRests, Offline,
        RowsFollowed, From, Reads, Busy
<1>8. ASSUME NEW t \in BoardTickets, AgentComments(t) PROVE RowsFollowed'
  BY <1>8
    DEF AgentComments, Runs, exportVars, recoveryVars, LiveTyped, OfflineRests, Offline,
        RowsFollowed, From, Reads, Busy
<1>9. CASE armExport
  BY <1>9
    DEF armExport, Runs, exportVars, recoveryVars, LiveTyped, OfflineRests, Offline, RowsFollowed,
        From, Reads, Busy
<1>10. CASE fire
  <2>1. CASE recent
    BY <1>10, <2>1 DEF fire, RowsFollowed, From, Reads, Busy
  <2>2. CASE ~recent
    <3>1. "written" \in Exporters /\ BeginDump("written") /\ exports' = exports
      BY <1>10, <2>2 DEF fire, Exporters
    <3>2. /\ stamps + 1 \in Nat /\ dumping'["written"].next # "none"
          /\ dumping'["written"].stamp = stamps + 1
          /\ \A s \in Nat : \A row : s = stamps + 1 => From(s, row)'
          /\ \A s \in Nat : \A row : From(s, row) => From(s, row)'
      BY <3>1, BegunFollowed
    <3>3. \A row : \E s \in Nat : From(s, row)' /\ \E y \in Exporters : dumping'[y].next # "none" /\ dumping'[y].stamp >= s
      <4>1. stamps + 1 >= stamps + 1
        BY <3>2
      <4>2. QED
        BY <3>1, <3>2, <4>1
    <3>4. UNCHANGED <<server, byRequest, excused, arming>>
      BY <1>10 DEF fire
    <3>5. /\ dumping["closing"].stamp \in Nat /\ "closing" \in Exporters
          /\ dumping'["closing"] = dumping["closing"]
      BY <3>1, DumpBegins DEF DumpsTyped, DumpSet, Exporters
    <3>6. CASE server = "exporting"
      BY <3>2, <3>4, <3>5, <3>6 DEF RowsFollowed, Busy
    <3>7. CASE server # "exporting"
      BY <3>1, <3>2, <3>3, <3>4, <3>7 DEF RowsFollowed, Busy
    <3>8. QED
      BY <3>6, <3>7
  <2>3. QED
    BY <2>1, <2>2
<1>11. CASE FloorPasses
  BY <1>11
    DEF FloorPasses, Runs, exportVars, recoveryVars, LiveTyped, OfflineRests, Offline,
        RowsFollowed, From, Reads, Busy
<1>12. CASE ExportOnTime
  <2>1. "timed" \in Exporters /\ BeginDump("timed") /\ exports' = exports
    BY <1>12 DEF ExportOnTime, Exporters
  <2>2. /\ stamps + 1 \in Nat /\ dumping'["timed"].next # "none"
        /\ dumping'["timed"].stamp = stamps + 1
        /\ \A s \in Nat : \A row : s = stamps + 1 => From(s, row)'
        /\ \A s \in Nat : \A row : From(s, row) => From(s, row)'
    BY <2>1, BegunFollowed
  <2>3. \A row : \E s \in Nat : From(s, row)' /\ \E y \in Exporters : dumping'[y].next # "none" /\ dumping'[y].stamp >= s
    <3>1. stamps + 1 >= stamps + 1
      BY <2>2
    <3>2. QED
      BY <2>1, <2>2, <3>1
  <2>4. UNCHANGED <<server, byRequest, excused, arming, timer>>
    BY <1>12 DEF ExportOnTime
  <2>5. /\ dumping["closing"].stamp \in Nat /\ "closing" \in Exporters
        /\ dumping'["closing"] = dumping["closing"]
    BY <2>1, DumpBegins DEF DumpsTyped, DumpSet, Exporters
  <2>6. CASE server = "exporting"
    BY <2>2, <2>4, <2>5, <2>6 DEF RowsFollowed, Busy
  <2>7. CASE server # "exporting"
    BY <2>1, <2>2, <2>3, <2>4, <2>7 DEF RowsFollowed, Busy
  <2>8. QED
    BY <2>6, <2>7
<1>13. ASSUME NEW x \in Exporters, DumpTickets(x) PROVE RowsFollowed'
  <2>1. /\ dumping[x] \in DumpSet /\ dumping[x].next = "tickets" /\ dumping[x].dump \in TableSet
        /\ UNCHANGED <<server, byRequest, excused, arming, timer, exports>>
    BY <1>13 DEF DumpTickets, DumpsTyped, DumpSet
  <2>2. /\ \A y \in Exporters : dumping'[y].stamp = dumping[y].stamp /\ (dumping'[y].next # "none" <=> Busy(y))
        /\ \A y \in Exporters \ {x} : dumping'[y] = dumping[y]
        /\ dumping'[x].next = "comments" /\ dumping'[x].dump.tickets = live.tickets
    <3>1. dumping'[x] = [dumping[x] EXCEPT !.next = "comments", !.dump = [dumping[x].dump EXCEPT !.tickets = live.tickets]]
      BY <1>13, <2>1 DEF DumpTickets, DumpsTyped
    <3>2. \A y \in Exporters \ {x} : dumping'[y] = dumping[y]
      BY <1>13 DEF DumpTickets, DumpsTyped
    <3>3. QED
      BY <2>1, <3>1, <3>2 DEF DumpSet, TableSet, Busy
  <2>3. \A row \in byRequest : row[1] = "comment" \/ row[2] \in TicketsOf(dumping'[x].dump)
    BY <2>2 DEF LiveTyped, Rows, TicketsOf
  <2>4. \A row \in byRequest, y \in Exporters : Reads(y, row) => Reads(y, row)'
    BY <2>2, <2>3 DEF Reads
  <2>5. \A s, row : row \in byRequest /\ From(s, row) => From(s, row)'
    BY <2>1, <2>2, <2>4 DEF From, Busy
  <2>6. "closing" \in Exporters /\ dumping'["closing"].stamp = dumping["closing"].stamp
    BY <2>2 DEF Exporters
  <2>7. ASSUME NEW row \in byRequest
        PROVE  From(dumping["closing"].stamp, row) => From(dumping["closing"].stamp, row)'
    <3>1. From(dumping["closing"].stamp, row) => \A s : s = dumping["closing"].stamp => From(s, row)'
      BY <2>5
    <3>2. QED
      BY <2>6, <3>1
  <2>8. QED
    BY <2>1, <2>2, <2>5, <2>6, <2>7 DEF RowsFollowed, Busy
<1>14. ASSUME NEW x \in Exporters, writeBackup(x) PROVE RowsFollowed'
  <2> DEFINE z == dumping[x]
             d == [z.dump EXCEPT !.comments = live.comments]
             f0 == File(z, TRUE, d)
             saved == exports \cup {f0}
  <2>1. /\ z \in DumpSet /\ Busy(x) /\ z.next = "comments" /\ z.stamp > 0 /\ z.stamp <= stamps
        /\ stamps \in Nat
        /\ z.dump \in TableSet /\ Tables(z.dump) /\ live.comments \subseteq BoardTickets
    BY <1>14 DEF writeBackup, DumpsTyped, Busy, DumpSet, LiveTyped, Tables, TableSet
  <2>2. d \in TableSet /\ Tables(d)
    BY <2>1 DEF TableSet, Tables
  <2>3. f0 \in FileSet /\ f0.stamp = z.stamp /\ f0.dump = d /\ ~f0.cut
    BY <2>1, <2>2 DEF File, FileSet, DumpSet
  <2>4. /\ exports' = pruneBackups(saved) /\ dumping' = [dumping EXCEPT ![x] = NotDumping]
        /\ stamps' = stamps
    BY <1>14 DEF writeBackup
  <2>5. \A y \in Exporters : dumping'[y].next # "none" => y # x /\ dumping'[y] = dumping[y]
    BY <2>4 DEF DumpsTyped, NotDumping
  <2> HIDE DEF d, f0
  <2>6. saved \in SUBSET FileSet /\ IsFiniteSet(saved)
    BY <2>3, FS_AddElement DEF FilesTyped
  <2>7. \A e, f \in saved : e.stamp = f.stamp => e = f
    BY <2>1, <2>3 DEF FilesTyped
  <2>8. PICK n \in saved : \A f \in saved : f.stamp <= n.stamp
    <3>1. CASE exports = {}
      BY <2>3, <3>1 DEF FileSet
    <3>2. CASE exports # {}
      <4>1. PICK m \in exports : \A f \in exports : f.stamp <= m.stamp
        BY <3>2 DEF FilesTyped
      <4>2. /\ m.stamp \in Nat /\ f0.stamp \in Nat
            /\ \A f \in exports : f.stamp \in Nat
        BY <2>3, <4>1 DEF FileSet, FilesTyped
      <4>3. CASE m.stamp <= f0.stamp
        BY <4>1, <4>2, <4>3
      <4>4. CASE f0.stamp <= m.stamp
        BY <4>1, <4>2, <4>4
      <4>5. QED
        BY <4>2, <4>3, <4>4
    <3>3. QED
      BY <3>1, <3>2
  <2>9. /\ exports' \subseteq saved /\ n \in exports' /\ IsFiniteSet(exports')
        /\ Cardinality(exports') <= KeepExports
    <3> HIDE DEF saved
    <3>1. QED
      BY <2>4, <2>6, <2>7, <2>8, PruningKeeps
  <2>10. ASSUME NEW row \in byRequest, NEW s \in Nat, From(s, row)
         PROVE  From(s, row)'
    <3>1. CASE f0.stamp >= s
      <4>1. row[1] = "comment" \/ row[2] \in TicketsOf(z.dump)
        BY <2>1, <2>3, <2>10, <3>1 DEF From, Reads
      <4>2. row \in Rows(f0.dump)
        <5>1. f0.dump = [z.dump EXCEPT !.comments = live.comments]
          BY <2>3 DEF d
        <5>2. QED
          BY <2>1, <4>1, <5>1, WrittenRows
      <4>3. QED
        BY <2>5, <2>9, <2>10, <4>2 DEF From, Reads, Busy
    <3>2. CASE ~(f0.stamp >= s)
      BY <2>5, <2>9, <2>10, <3>2 DEF From, Reads, Busy
    <3>3. QED
      BY <3>1, <3>2
  <2>11. /\ byRequest' = byRequest /\ arming' = arming /\ timer' = timer
         /\ server' = IF x = "closing" THEN "closing" ELSE server
         /\ \/ excused' = excused
            \/ /\ excused' = excused \ Rows(d)
               /\ \A e \in exports : e.stamp < z.stamp
               /\ \A y \in Exporters : dumping[y].stamp <= z.stamp
    BY <1>14 DEF writeBackup, d
  <2>12. /\ n.stamp \in Nat /\ \A e \in exports : e.stamp \in Nat /\ e.stamp <= n.stamp
         /\ z.stamp \in Nat /\ z.stamp <= n.stamp
    BY <2>1, <2>3, <2>6, <2>8 DEF FileSet, DumpSet
  <2>13. ASSUME NEW row \in byRequest, row \in excused \ excused'
         PROVE  \E s \in Nat : From(s, row)' /\ n.stamp >= s
    <3>1. row \in Rows(d)
      BY <2>11, <2>13
    <3>2. ASSUME NEW y \in Exporters, dumping'[y].next # "none"
          PROVE  ~(dumping'[y].stamp >= z.stamp)
      <4>1. y # x /\ dumping'[y] = dumping[y] /\ Busy(y) /\ dumping[y].stamp \in Nat
        BY <2>5, <3>2 DEF Busy, DumpsTyped, DumpSet
      <4>2. dumping[y].stamp <= z.stamp /\ dumping[y].stamp # z.stamp
        BY <2>1, <2>11, <2>13, <4>1 DEF DumpsTyped
      <4>3. QED
        BY <2>12, <4>1, <4>2
    <3>3. ASSUME NEW e \in exports', e.stamp >= z.stamp PROVE e = f0
      <4>1. e \in exports \/ e = f0
        BY <2>9
      <4>2. e \in exports => e.stamp < z.stamp
        BY <2>11, <2>13
      <4>3. QED
        BY <2>12, <3>3, <4>1, <4>2
    <3>4. \A s : s = z.stamp => From(s, row)'
      BY <2>3, <3>1, <3>2, <3>3 DEF From, Busy
    <3>5. QED
      BY <2>12, <3>4
  <2>14. ASSUME NEW row \in byRequest, NEW s \in Nat, From(s, row),
                \/ \E y \in Exporters : Busy(y) /\ dumping[y].stamp >= s
                \/ \E e \in exports : e.stamp >= s
         PROVE  /\ From(s, row)'
                /\ \/ \E y \in Exporters : dumping'[y].next # "none" /\ dumping'[y].stamp >= s
                   \/ n.stamp >= s
    <3>1. From(s, row)'
      BY <2>10, <2>14
    <3>2. ASSUME NEW y \in Exporters, Busy(y), dumping[y].stamp >= s
          PROVE  (dumping'[y].next # "none" /\ dumping'[y].stamp >= s) \/ n.stamp >= s
      <4>1. CASE y = x
        BY <2>12, <3>2, <4>1
      <4>2. CASE y # x
        BY <2>4, <3>2, <4>2 DEF DumpsTyped, Busy
      <4>3. QED
        BY <4>1, <4>2
    <3>3. ASSUME NEW e \in exports, e.stamp >= s PROVE n.stamp >= s
      BY <2>12, <3>3
    <3>4. QED
      BY <2>14, <3>1, <3>2, <3>3
  <2>15. CASE server' = "up"
    <3>1. server = "up"
      BY <2>11, <2>15
    <3>2. ASSUME NEW row \in byRequest \ excused', ~(row \in arming \/ timer # "none")
          PROVE  \E s \in Nat : /\ From(s, row)'
                                /\ \/ \E y \in Exporters : dumping'[y].next # "none" /\ dumping'[y].stamp >= s
                                   \/ \E e \in exports' : e.stamp >= s
      <4>1. CASE row \in excused
        BY <2>9, <2>13, <3>2, <4>1
      <4>2. CASE row \notin excused
        <5>1. PICK s \in Nat : /\ From(s, row)
                               /\ \/ \E y \in Exporters : Busy(y) /\ dumping[y].stamp >= s
                                  \/ \E e \in exports : e.stamp >= s
          BY <3>1, <3>2, <4>2 DEF RowsFollowed
        <5>2. QED
          BY <2>9, <2>14, <5>1, <3>2
      <4>3. QED
        BY <4>1, <4>2
    <3>3. QED
      BY <2>11, <2>15, <3>2 DEF RowsFollowed, Busy
  <2>16. CASE server' = "exporting"
    <3>1. /\ x # "closing" /\ server = "exporting" /\ "closing" \in Exporters
          /\ dumping'["closing"] = dumping["closing"] /\ dumping["closing"].stamp \in Nat
      BY <2>4, <2>11, <2>16 DEF Exporters, DumpsTyped, DumpSet
    <3>2. Busy("closing") /\ \A row \in byRequest : From(dumping["closing"].stamp, row)
      BY <3>1 DEF RowsFollowed
    <3>3. \A row \in byRequest : \A s : s = dumping["closing"].stamp => From(s, row)'
      BY <2>10, <3>1, <3>2
    <3>4. QED
      BY <2>11, <2>16, <3>1, <3>2, <3>3 DEF RowsFollowed, Busy
  <2>17. CASE server' = "closing"
    <3>1. ASSUME NEW row \in byRequest \ excused'
          PROVE  \E s \in Nat : From(s, row)' /\ n.stamp >= s
      <4>1. CASE row \in excused
        BY <2>13, <3>1, <4>1
      <4>2. CASE row \notin excused /\ server = "closing"
        <5>1. PICK s \in Nat : From(s, row) /\ \E e \in exports : e.stamp >= s
          BY <4>2 DEF RowsFollowed
        <5>2. n.stamp >= s
          BY <2>12, <5>1
        <5>3. QED
          BY <2>10, <5>1, <5>2
      <4>3. CASE server # "closing"
        <5>1. x = "closing" /\ server = "exporting" /\ From(z.stamp, row)
          BY <2>1, <2>11, <2>17, <4>3 DEF OfflineRests, RowsFollowed
        <5>2. \A s : s = z.stamp => From(s, row)'
          BY <2>10, <2>12, <5>1
        <5>3. QED
          BY <2>12, <5>2
      <4>4. QED
        BY <3>1, <4>1, <4>2, <4>3
    <3>2. QED
      BY <2>9, <2>11, <2>17, <3>1 DEF RowsFollowed
  <2>18. QED
    BY <2>15, <2>16, <2>17 DEF RowsFollowed
<1>15. ASSUME NEW x \in Exporters, ExportFails(x) PROVE RowsFollowed'
  <2>1. /\ dumping' = [dumping EXCEPT ![x] = NotDumping] /\ excused' = byRequest
        /\ UNCHANGED <<byRequest, exports>>
        /\ server' = IF x = "closing" THEN "closing" ELSE server
    BY <1>15 DEF ExportFails
  <2>2. \A y \in Exporters : dumping'[y].next # "none" => dumping'[y] = dumping[y]
    BY <2>1 DEF DumpsTyped, NotDumping
  <2>3. CASE server' = "exporting"
    <3>1. /\ x # "closing" /\ server = "exporting" /\ "closing" \in Exporters
          /\ dumping'["closing"] = dumping["closing"]
      BY <2>1, <2>3 DEF DumpsTyped, Exporters
    <3>2. QED
      BY <2>1, <2>2, <2>3, <3>1 DEF RowsFollowed, From, Reads, Busy
  <2>4. QED
    BY <2>1, <2>3 DEF RowsFollowed
<1>16. CASE shutdown
  BY <1>16
    DEF shutdown, Runs, exportVars, recoveryVars, LiveTyped, OfflineRests, Offline, RowsFollowed,
        From, Reads, Busy
<1>17. CASE ExportLast
  <2>1. "closing" \in Exporters /\ BeginDump("closing") /\ exports' = exports
    BY <1>17 DEF ExportLast, Exporters
  <2>2. /\ stamps + 1 \in Nat /\ dumping'["closing"].next # "none"
        /\ dumping'["closing"].stamp = stamps + 1
        /\ \A s \in Nat : \A row : s = stamps + 1 => From(s, row)'
        /\ \A s \in Nat : \A row : From(s, row) => From(s, row)'
    BY <2>1, BegunFollowed
  <2>3. \A row : \E s \in Nat : From(s, row)' /\ \E y \in Exporters : dumping'[y].next # "none" /\ dumping'[y].stamp >= s
    <3>1. stamps + 1 >= stamps + 1
      BY <2>2
    <3>2. QED
      BY <2>1, <2>2, <3>1
  <2>4. server' = "exporting"
    BY <1>17 DEF ExportLast
  <2>5. QED
    BY <2>2, <2>4 DEF RowsFollowed, Busy
<1>18. CASE closeDb
  BY <1>18
    DEF closeDb, Runs, Stopped, exportVars, recoveryVars, LiveTyped, OfflineRests, Offline,
        RowsFollowed, From, Reads, Busy
<1>19. CASE KillServer
  BY <1>19
    DEF KillServer, Stopped, exportVars, recoveryVars, LiveTyped, OfflineRests, Offline,
        RowsFollowed, From, Reads, Busy
<1>20. CASE FreshDb
  BY <1>20
    DEF FreshDb, exportVars, recoveryVars, LiveTyped, OfflineRests, Offline, RowsFollowed, From,
        Reads, Busy
<1>21. CASE StartRestore
  BY <1>21
    DEF StartRestore, exportVars, recoveryVars, LiveTyped, OfflineRests, Offline, RowsFollowed,
        From, Reads, Busy
<1>22. CASE RestoreProjects
  BY <1>22
    DEF RestoreProjects, exportVars, recoveryVars, LiveTyped, OfflineRests, Offline, RowsFollowed,
        From, Reads, Busy
<1>23. CASE RestoreTickets
  BY <1>23
    DEF RestoreTickets, GivesUp, mapProject, exportVars, recoveryVars, LiveTyped, OfflineRests,
        Offline, RowsFollowed, From, Reads, Busy
<1>24. CASE RestoreComments
  BY <1>24
    DEF RestoreComments, GivesUp, exportVars, recoveryVars, LiveTyped, OfflineRests, Offline,
        RowsFollowed, From, Reads, Busy
<1>25. CASE EndRestore
  BY <1>25
    DEF EndRestore, exportVars, recoveryVars, LiveTyped, OfflineRests, Offline, RowsFollowed,
        From, Reads, Busy
<1>26. CASE UNCHANGED backupVars
  BY <1>26 DEF backupVars, LiveTyped, OfflineRests, Offline, RowsFollowed, From, Reads, Busy
<1>27. QED
  BY <1>1, <1>2, <1>3, <1>4, <1>5, <1>6, <1>7, <1>8, <1>9, <1>10, <1>11, <1>12, <1>13, <1>14,
     <1>15, <1>16, <1>17, <1>18, <1>19, <1>20, <1>21, <1>22, <1>23, <1>24, <1>25, <1>26
    DEF BackupsNext

\* Nothing is written, and nothing goes on.
LEMMA BackupsStart == BackupsInit => BackupsInductive
<1> SUFFICES ASSUME BackupsInit PROVE BackupsInductive
  OBVIOUS
<1>1. EmptyDb \in TableSet /\ Tables(EmptyDb) /\ NotDumping \in DumpSet /\ TicketsOf(EmptyDb) = {}
  BY DEF EmptyDb, TableSet, Tables, NotDumping, DumpSet, DumpTables, TicketsOf, NoProject
<1>2. LiveTyped
  BY <1>1 DEF BackupsInit, LiveTyped, Rows, EmptyDb
<1>3. DumpsTyped
  <2>1. /\ stamps = 0 /\ dumping \in [Exporters -> DumpSet] /\ \A x \in Exporters : dumping[x] = NotDumping
    BY <1>1 DEF BackupsInit
  <2>2. NotDumping.next = "none" /\ NotDumping.stamp = 0 /\ Tables(NotDumping.dump)
    BY <1>1 DEF NotDumping
  <2>3. QED
    BY <2>1, <2>2 DEF DumpsTyped, Busy
<1>4. FilesTyped
  <2>1. {e \in exports : ~e.cut} = {} /\ exports = {}
    BY DEF BackupsInit
  <2>2. QED
    BY <2>1, FS_EmptySet, BackupsAssumption DEF BackupsAssumption, FilesTyped
<1>5. OfflineRests
  BY DEF BackupsInit, OfflineRests, NotDumping, NotRestoring, Busy, Exporters
<1>6. RestoreSound
  BY <1>1 DEF BackupsInit, RestoreSound, NotRestoring, TicketsOf, Tables
<1>7. RowsFollowed
  BY DEF BackupsInit, RowsFollowed
<1>8. QED
  BY <1>2, <1>3, <1>4, <1>5, <1>6, <1>7 DEF BackupsInductive

\* The invariant says of each promise what keeps it.
LEMMA BackupsPromised == BackupsInductive => BackupsInv
<1> SUFFICES ASSUME BackupsInductive PROVE BackupsInv
  OBVIOUS
<1> USE DEF BackupsInductive
<1>1. BackupsTypeOK
  BY DEF BackupsTypeOK, LiveTyped, FilesTyped, Tables, TableSet, TicketsOf
<1>2. ChangesCovered
  <2>1. ASSUME server = "up", NEW row \in byRequest \ excused, row \notin arming, timer = "none"
        PROVE  Underway(row) \/ \E e \in exports : row \in Rows(e.dump)
    <3>1. PICK s \in Nat : /\ From(s, row)
                           /\ \/ \E x \in Exporters : Busy(x) /\ dumping[x].stamp >= s
                              \/ \E e \in exports : e.stamp >= s
      BY <2>1 DEF RowsFollowed
    <3>2. QED
      BY <3>1 DEF From, Reads, Underway
  <2>2. QED
    BY <2>1 DEF ChangesCovered
<1>3. ClosedSaved
  <2>1. ASSUME server = "closing", NEW row \in byRequest \ excused
        PROVE  row \in Rows(Newest.dump)
    <3>1. PICK s \in Nat : From(s, row) /\ \E e \in exports : e.stamp >= s
      BY <2>1 DEF RowsFollowed
    <3>2. PICK e \in exports : e.stamp >= s
      BY <3>1
    <3>3. Newest \in exports /\ e.stamp <= Newest.stamp
      BY <3>2 DEF FilesTyped, Newest
    <3>4. e.stamp \in Nat /\ Newest.stamp \in Nat
      BY <3>2, <3>3 DEF FilesTyped, FileSet
    <3>5. QED
      BY <3>1, <3>2, <3>3, <3>4 DEF From
  <2>2. QED
    BY <2>1 DEF ClosedSaved
<1>4. RestoredWhole
  BY DEF RestoredWhole, RestoreSound, LiveTyped, Tables, TableSet, Rows, TicketsOf
<1>5. LossReported
  BY DEF LossReported, OfflineRests
<1>6. QED
  BY <1>1, <1>2, <1>3, <1>4, <1>5 DEF BackupsInv

\* What requests write reaches an export while the server runs and before it ends, a restore is whole and
\* a loss is told, whatever fails, dies or is pruned, and whichever exports overlap.
THEOREM BackupsHold == BackupsSpec => []BackupsInv
<1>1. BackupsInit => BackupsInductive
  BY BackupsStart
<1>2. BackupsInductive /\ [BackupsNext]_backupVars => BackupsInductive'
  BY LiveStep, DumpsStep, FilesStep, OfflineStep, RestoreStep, FollowedStep DEF BackupsInductive
<1>3. BackupsInductive => BackupsInv
  BY BackupsPromised
<1>4. QED
  BY <1>1, <1>2, <1>3, PTL DEF BackupsSpec

-----------------------------------------------------------------------------
\* Keys, their revocations and the failures counted of them.

AccessSpec == AccessInit /\ [][AccessNext]_accessVars

FailureEntry == [count : Nat, until : Nat]
ActorStates == {"none", "live", "revoked"}

AccessRecord ==
  [at : RequestOver \cup {"loading", "loaded", "resolved"}, key : AccessKeys \cup {""}, began : Nat,
   fail : FailureEntry, row : ActorStates]

AccessTyped ==
  /\ accessClock \in Nat
  /\ actorRow \in [AccessKeys -> ActorStates]
  /\ actorCache \in [AccessKeys -> [row : ActorStates, exp : Nat]]
  /\ failures \in [AccessKeys -> FailureEntry]
  /\ access \in [AccessRequests -> AccessRecord]
  /\ \A r \in AccessRequests : access[r].at \in {"idle", "unauthorized"} \/ access[r].key \in AccessKeys
  /\ revoking \subseteq AccessKeys
  /\ revokedAt \in [AccessKeys -> Nat]
  /\ failedSoFar \in [AccessKeys -> [times : Nat, last : Nat]]

InFlight(r) == access[r].at \notin RequestOver

\* A row is believed for a term from when it was asked for, and it was asked for before its actor was
\* revoked, if it says live of a revoked one.
RowsOfActors ==
  /\ \A k \in AccessKeys : actorCache[k].row = "live" =>
       /\ actorRow[k] # "none"
       /\ actorCache[k].exp <= (IF actorRow[k] = "revoked" THEN revokedAt[k] ELSE accessClock) + CacheTtl
  /\ \A r \in AccessRequests : InFlight(r) =>
       /\ access[r].began <= accessClock
       /\ access[r].row = "live" => actorRow[access[r].key] # "none"
       /\ access[r].at = "loaded" /\ access[r].row = "live" /\ actorRow[access[r].key] = "revoked" =>
            access[r].began <= revokedAt[access[r].key] /\ access[r].key \in overlap

\* What is counted of a key, or was read by a request to be counted on, are failures it had.
Counted(entry, past) ==
  /\ entry.count <= past.times \/ MaxFailures <= past.times
  /\ entry.count > 0 => entry.until <= past.last + FailWindow

FailuresCounted ==
  /\ \A k \in AccessKeys : Counted(failures[k], failedSoFar[k])
  /\ \A r \in AccessRequests : InFlight(r) => Counted(access[r].fail, failedSoFar[access[r].key])

AccessInductive == AccessTyped /\ RowsOfActors /\ RevokedAtOnce /\ FailuresCounted /\ ThrottleSound

\* The periods and limits are numbers.
LEMMA AccessNumbers ==
  /\ CacheTtl \in Nat /\ FailWindow \in Nat /\ MaxFailures \in Nat /\ MaxFailures > 0
  /\ AccessTime \in Nat
  /\ Never \in Nat /\ ActorKeys \subseteq AccessKeys
BY AccessAssumption DEF AccessAssumption, Never

\* A sweep keeps an entry or drops it.
LEMMA PurgeKeepsOrDrops ==
  ASSUME failures \in [AccessKeys -> FailureEntry]
  PROVE  /\ purgeExpired \in [AccessKeys -> FailureEntry]
         /\ \A k \in AccessKeys : purgeExpired[k] \in {failures[k], NoFailure}
PROOF
  <1>1. NoFailure \in FailureEntry
    BY DEF NoFailure, FailureEntry
  <1>2. CASE purgeExpired = failures
    BY <1>2
  <1>3. CASE purgeExpired # failures
    BY <1>1, <1>3 DEF purgeExpired
  <1> QED BY <1>2, <1>3

\* What auth makes of a request, and of the entry of its key.
LEMMA AuthStep ==
  ASSUME AccessTyped, NEW r \in AccessRequests, NEW k \in AccessKeys, auth(r, k)
  PROVE  /\ ~InFlight(r)
         /\ failures' \in [AccessKeys -> FailureEntry]
         /\ \A q \in AccessKeys : failures'[q] \in {failures[q], NoFailure}
         /\ \E asked \in AccessRecord :
              /\ access' = [access EXCEPT ![r] = asked] /\ asked.key = k
              /\ asked.began = accessClock
              /\ \/ /\ asked.at = "throttled"
                    /\ failures[k].until > accessClock /\ failures[k].count >= MaxFailures
                 \/ /\ asked.at = "loading" /\ asked.row = "none" /\ asked.fail = failures[k]
                 \/ /\ asked.at = "resolved" /\ asked.fail = failures[k] /\ asked.row = actorCache[k].row
PROOF
  <1>1. ~InFlight(r)
    BY DEF auth, InFlight
  <1>2. /\ NoFailure \in FailureEntry /\ accessClock \in Nat /\ failures[k] \in FailureEntry
        /\ actorCache[k].row \in ActorStates
    BY DEF AccessTyped, NoFailure, FailureEntry
  <1>3. CASE failures[k].until > accessClock /\ failures[k].count >= MaxFailures
    <2>1. /\ access' = [access EXCEPT ![r] = Finished("throttled", k, accessClock)]
          /\ failures' = failures
      BY <1>3 DEF auth
    <2>2. "throttled" \in RequestOver
      BY DEF RequestOver
    <2>3. /\ Finished("throttled", k, accessClock) \in AccessRecord
          /\ Finished("throttled", k, accessClock).at = "throttled"
          /\ Finished("throttled", k, accessClock).key = k
          /\ Finished("throttled", k, accessClock).began = accessClock
      BY <1>2, <2>2 DEF Finished, AccessRecord, NoFailure, FailureEntry, ActorStates
    <2>4. failures' \in [AccessKeys -> FailureEntry] /\ \A q \in AccessKeys : failures'[q] = failures[q]
      BY <2>1 DEF AccessTyped
    <2> QED BY <1>1, <1>3, <2>1, <2>3, <2>4
  <1>4. CASE ~(failures[k].until > accessClock /\ failures[k].count >= MaxFailures)
    <2> DEFINE new == [at |-> "loading", key |-> k, began |-> accessClock, fail |-> failures[k], row |-> "none"]
               known == [at |-> "resolved", key |-> k, began |-> accessClock, fail |-> failures[k], row |-> actorCache[k].row]
    <2>1. failures' = [failures EXCEPT ![k] = IF @.until <= accessClock THEN NoFailure ELSE @]
      BY <1>4 DEF auth
    <2>2. access' = [access EXCEPT ![r] = new] \/ access' = [access EXCEPT ![r] = known]
      BY <1>4 DEF auth
    <2>3. new \in AccessRecord /\ known \in AccessRecord
      BY <1>2 DEF AccessRecord, ActorStates
    <2>4. failures' \in [AccessKeys -> FailureEntry] /\ \A q \in AccessKeys : failures'[q] \in {failures[q], NoFailure}
      BY <1>2, <2>1 DEF AccessTyped
    <2> QED BY <1>1, <2>2, <2>3, <2>4
  <1> QED BY <1>3, <1>4

\* What the other steps of a request make of it.
LEMMA RequestSteps ==
  ASSUME AccessTyped, NEW r \in AccessRequests
  PROVE  /\ resolveActor(r) => \E x \in AccessRecord :
              /\ access' = [access EXCEPT ![r] = x] /\ access[r].at = "loading"
              /\ x.at = "loaded" /\ x.key = access[r].key /\ x.began = access[r].began
              /\ x.fail = access[r].fail
              /\ x.row = actorRow[x.key] /\ x.key \in AccessKeys
         /\ ttlCache(r) => \E x \in AccessRecord :
              /\ access' = [access EXCEPT ![r] = x] /\ access[r].at = "loaded"
              /\ x.at = "resolved" /\ x.key = access[r].key /\ x.began = access[r].began
              /\ x.fail = access[r].fail
              /\ x.row = access[r].row
         /\ recordFailure(r) => \E x \in AccessRecord :
              /\ access' = [access EXCEPT ![r] = x] /\ access[r].at = "resolved"
              /\ x.at = "unauthorized"
         /\ \A admin \in BOOLEAN : requireAdmin(r, admin) => \E x \in AccessRecord :
              /\ access' = [access EXCEPT ![r] = x] /\ access[r].at = "resolved"
              /\ access[r].row = "live"
              /\ x.at \in {"forbidden", "in", "in as admin"} /\ x.key = access[r].key
              /\ x.at = "in as admin" => x.key \in AdminKeys
PROOF
  <1>1. /\ access[r] \in AccessRecord
        /\ access[r].at \in {"loading", "loaded", "resolved"} => access[r].key \in AccessKeys
    BY DEF AccessTyped
  <1>2. ASSUME resolveActor(r)
        PROVE  \E x \in AccessRecord :
              /\ access' = [access EXCEPT ![r] = x] /\ access[r].at = "loading"
              /\ x.at = "loaded" /\ x.key = access[r].key /\ x.began = access[r].began
              /\ x.fail = access[r].fail
              /\ x.row = actorRow[x.key] /\ x.key \in AccessKeys
    <2> DEFINE x == [access[r] EXCEPT !.at = "loaded", !.row = actorRow[access[r].key]]
    <2>1. access[r].at = "loading" /\ access' = [access EXCEPT ![r] = x]
      BY <1>2 DEF resolveActor, AccessTyped
    <2>2. actorRow[access[r].key] \in ActorStates
      BY <1>1, <2>1 DEF AccessTyped
    <2>3. x \in AccessRecord
      BY <1>1, <2>2 DEF AccessRecord
    <2> QED BY <1>1, <2>1, <2>3 DEF AccessRecord
  <1>3. ASSUME ttlCache(r)
        PROVE  \E x \in AccessRecord :
              /\ access' = [access EXCEPT ![r] = x] /\ access[r].at = "loaded"
              /\ x.at = "resolved" /\ x.key = access[r].key /\ x.began = access[r].began
              /\ x.fail = access[r].fail
              /\ x.row = access[r].row
    <2> DEFINE x == [access[r] EXCEPT !.at = "resolved"]
    <2>1. access[r].at = "loaded" /\ access' = [access EXCEPT ![r] = x]
      BY <1>3 DEF ttlCache, AccessTyped
    <2>2. x \in AccessRecord
      BY <1>1 DEF AccessRecord
    <2> QED BY <1>1, <2>1, <2>2 DEF AccessRecord
  <1>4. ASSUME recordFailure(r)
        PROVE  \E x \in AccessRecord :
              /\ access' = [access EXCEPT ![r] = x] /\ access[r].at = "resolved"
              /\ x.at = "unauthorized"
    <2>1. /\ access' = [access EXCEPT ![r] = Finished("unauthorized", "", 0)]
          /\ access[r].at = "resolved"
      BY <1>4 DEF recordFailure
    <2>2. "unauthorized" \in RequestOver
      BY DEF RequestOver
    <2>3. /\ Finished("unauthorized", "", 0) \in AccessRecord
          /\ Finished("unauthorized", "", 0).at = "unauthorized"
      BY <2>2 DEF Finished, AccessRecord, NoFailure, FailureEntry, ActorStates
    <2> QED BY <2>1, <2>3
  <1>5. ASSUME NEW admin \in BOOLEAN, requireAdmin(r, admin)
        PROVE  \E x \in AccessRecord :
              /\ access' = [access EXCEPT ![r] = x] /\ access[r].at = "resolved"
              /\ access[r].row = "live"
              /\ x.at \in {"forbidden", "in", "in as admin"} /\ x.key = access[r].key
              /\ x.at = "in as admin" => x.key \in AdminKeys
    <2> DEFINE how == IF admin /\ access[r].key \notin AdminKeys THEN "forbidden" ELSE IF admin THEN "in as admin" ELSE "in"
    <2>1. /\ access' = [access EXCEPT ![r] = Finished(how, access[r].key, 0)]
          /\ access[r].at = "resolved" /\ access[r].row = "live"
      BY <1>5 DEF requireAdmin, AccessTyped
    <2>2. how \in RequestOver /\ how \in {"forbidden", "in", "in as admin"} /\ (how = "in as admin" => access[r].key \in AdminKeys)
      BY DEF RequestOver
    <2> HIDE DEF how
    <2>3. access[r].key \in AccessKeys
      BY <1>1, <2>1
    <2>4. /\ Finished(how, access[r].key, 0) \in AccessRecord
          /\ Finished(how, access[r].key, 0).at = how
          /\ Finished(how, access[r].key, 0).key = access[r].key
      BY <2>2, <2>3 DEF Finished, AccessRecord, NoFailure, FailureEntry, ActorStates
    <2> QED BY <2>1, <2>2, <2>4
  <1> QED BY <1>2, <1>3, <1>4, <1>5

\* Every step keeps the types.
LEMMA AccessStaysTyped ==
  ASSUME AccessTyped, AccessNext
  PROVE  AccessTyped'
PROOF
  <1>1. CASE AccessTick
    BY <1>1 DEF AccessTick, AccessTyped
  <1>2. ASSUME NEW r \in AccessRequests, NEW k \in AccessKeys, auth(r, k) PROVE AccessTyped'
    <2>0. PICK x \in AccessRecord :
           /\ access' = [access EXCEPT ![r] = x] /\ x.key = k /\ x.began = accessClock
           /\ \/ /\ x.at = "throttled"
                 /\ failures[k].until > accessClock /\ failures[k].count >= MaxFailures
              \/ /\ x.at = "loading" /\ x.row = "none" /\ x.fail = failures[k]
              \/ /\ x.at = "resolved" /\ x.fail = failures[k] /\ x.row = actorCache[k].row
      BY <1>2, AuthStep
    <2>1. access' \in [AccessRequests -> AccessRecord]
      BY <2>0 DEF AccessTyped
    <2>2. \A q \in AccessRequests : access'[q].at \in {"idle", "unauthorized"} \/ access'[q].key \in AccessKeys
      BY <2>0 DEF AccessTyped
    <2>3. failures' \in [AccessKeys -> FailureEntry]
      BY <1>2, AuthStep
    <2> QED BY <1>2, <2>1, <2>2, <2>3 DEF auth, AccessTyped
  <1>3. ASSUME NEW r \in AccessRequests, resolveActor(r) PROVE AccessTyped'
    <2>0. PICK x \in AccessRecord :
           /\ access' = [access EXCEPT ![r] = x] /\ access[r].at = "loading"
           /\ x.at = "loaded" /\ x.key = access[r].key /\ x.began = access[r].began
           /\ x.fail = access[r].fail
           /\ x.row = actorRow[x.key] /\ x.key \in AccessKeys
      BY <1>3, RequestSteps
    <2>1. access' \in [AccessRequests -> AccessRecord]
      BY <2>0 DEF AccessTyped
    <2>2. \A q \in AccessRequests : access'[q].at \in {"idle", "unauthorized"} \/ access'[q].key \in AccessKeys
      BY <2>0 DEF AccessTyped
    <2> QED BY <1>3, <2>1, <2>2 DEF resolveActor, AccessTyped
  <1>4. ASSUME NEW r \in AccessRequests, ttlCache(r) PROVE AccessTyped'
    <2>0. PICK x \in AccessRecord :
           /\ access' = [access EXCEPT ![r] = x] /\ access[r].at = "loaded"
           /\ x.at = "resolved" /\ x.key = access[r].key /\ x.began = access[r].began
           /\ x.fail = access[r].fail
           /\ x.row = access[r].row
      BY <1>4, RequestSteps
    <2>1. access' \in [AccessRequests -> AccessRecord]
      BY <2>0 DEF AccessTyped
    <2>2. \A q \in AccessRequests : access'[q].at \in {"idle", "unauthorized"} \/ access'[q].key \in AccessKeys
      BY <2>0 DEF AccessTyped
    <2>3. Expiry(r) \in Nat /\ access[r].row \in ActorStates
      <3>1. access[r] \in AccessRecord
        BY DEF AccessTyped
      <3>2. access[r].began \in Nat /\ access[r].row \in ActorStates
        BY <3>1 DEF AccessRecord
      <3> QED BY <3>2, AccessNumbers DEF Expiry
    <2>4. actorCache' \in [AccessKeys -> [row : ActorStates, exp : Nat]]
      BY <1>4, <2>3 DEF ttlCache, AccessTyped
    <2> QED BY <1>4, <2>1, <2>2, <2>4 DEF ttlCache, AccessTyped
  <1>5. ASSUME NEW r \in AccessRequests, recordFailure(r) PROVE AccessTyped'
    <2>0. PICK x \in AccessRecord :
           /\ access' = [access EXCEPT ![r] = x] /\ access[r].at = "resolved"
           /\ x.at = "unauthorized"
      BY <1>5, RequestSteps
    <2>1. access' \in [AccessRequests -> AccessRecord]
      BY <2>0 DEF AccessTyped
    <2>2. \A q \in AccessRequests : access'[q].at \in {"idle", "unauthorized"} \/ access'[q].key \in AccessKeys
      BY <2>0 DEF AccessTyped
    <2>3. access[r].began \in Nat /\ access[r].fail.count \in Nat
      BY DEF AccessTyped, AccessRecord, FailureEntry
    <2> DEFINE entry == [count |-> (IF access[r].fail.until > access[r].began THEN access[r].fail.count ELSE 0) + 1,
                         until |-> access[r].began + FailWindow]
    <2>4. entry \in FailureEntry
      BY <2>3, AccessNumbers DEF FailureEntry
    <2>5. failures' = [purgeExpired EXCEPT ![access[r].key] = entry]
      BY <1>5 DEF recordFailure
    <2> HIDE DEF entry
    <2>6. failures' \in [AccessKeys -> FailureEntry]
      BY <2>4, <2>5, PurgeKeepsOrDrops DEF AccessTyped
    <2>7. failedSoFar' \in [AccessKeys -> [times : Nat, last : Nat]]
      <3>1. /\ access[r].key \in AccessKeys
            /\ failedSoFar[access[r].key] \in [times : Nat, last : Nat]
        BY <2>0 DEF AccessTyped
      <3> DEFINE past == failedSoFar[access[r].key]
                 now == [times |-> IF past.times < MaxFailures THEN past.times + 1 ELSE past.times,
                         last |-> IF access[r].began > past.last THEN access[r].began ELSE past.last]
      <3>2. failedSoFar' = [failedSoFar EXCEPT ![access[r].key] = now]
        BY <1>5, <3>1 DEF recordFailure, AccessTyped
      <3>3. now \in [times : Nat, last : Nat]
        BY <2>3, <3>1, AccessNumbers
      <3> QED BY <3>2, <3>3 DEF AccessTyped
    <2> QED BY <1>5, <2>1, <2>2, <2>6, <2>7 DEF recordFailure, AccessTyped
  <1>6. ASSUME NEW r \in AccessRequests, NEW admin \in BOOLEAN, requireAdmin(r, admin)
        PROVE  AccessTyped'
    <2>0. PICK x \in AccessRecord :
           /\ access' = [access EXCEPT ![r] = x] /\ access[r].at = "resolved"
           /\ access[r].row = "live"
           /\ x.at \in {"forbidden", "in", "in as admin"} /\ x.key = access[r].key
           /\ x.at = "in as admin" => x.key \in AdminKeys
      BY <1>6, RequestSteps
    <2>1. access' \in [AccessRequests -> AccessRecord]
      BY <2>0 DEF AccessTyped
    <2>2. \A q \in AccessRequests : access'[q].at \in {"idle", "unauthorized"} \/ access'[q].key \in AccessKeys
      BY <2>0 DEF AccessTyped
    <2>3. NoFailure \in FailureEntry
      BY DEF NoFailure, FailureEntry
    <2>4. failures' \in [AccessKeys -> FailureEntry]
      BY <1>6, <2>3 DEF requireAdmin, AccessTyped
    <2> QED BY <1>6, <2>1, <2>2, <2>4 DEF requireAdmin, AccessTyped
  <1>7. ASSUME NEW k \in AccessKeys, revokeActor(k) PROVE AccessTyped'
    BY <1>7 DEF revokeActor, AccessTyped, ActorStates
  <1>8. ASSUME NEW k \in AccessKeys, invalidateActor(k) PROVE AccessTyped'
    <2>1. NotCached \in [row : ActorStates, exp : Nat]
      BY DEF NotCached, ActorStates
    <2> QED BY <2>1, <1>8 DEF invalidateActor, CacheDropped, AccessTyped
  <1> QED BY <1>1, <1>2, <1>3, <1>4, <1>5, <1>6, <1>7, <1>8 DEF AccessNext

\* Every step keeps what rows say of their actors.
LEMMA RowsStayOfActors ==
  ASSUME AccessTyped, RowsOfActors, AccessNext
  PROVE  RowsOfActors'
PROOF
  <1>1. CASE AccessTick
    <2>1. accessClock' = accessClock + 1 /\ UNCHANGED <<actorRow, actorCache, access, revokedAt,
                                                        overlap>>
      BY <1>1 DEF AccessTick
    <2>2. accessClock \in Nat /\ CacheTtl \in Nat /\ \A k \in AccessKeys : actorCache[k].exp \in Nat
      BY AccessNumbers DEF AccessTyped
    <2>3. \A r \in AccessRequests : access[r].began \in Nat
      BY DEF AccessTyped, AccessRecord
    <2> QED BY <2>1, <2>2, <2>3 DEF RowsOfActors, InFlight
  <1>2. ASSUME NEW r \in AccessRequests, NEW k \in AccessKeys, auth(r, k) PROVE RowsOfActors'
    <2>0. PICK x \in AccessRecord :
           /\ access' = [access EXCEPT ![r] = x] /\ x.key = k /\ x.began = accessClock
           /\ \/ /\ x.at = "throttled"
                 /\ failures[k].until > accessClock /\ failures[k].count >= MaxFailures
              \/ /\ x.at = "loading" /\ x.row = "none" /\ x.fail = failures[k]
              \/ /\ x.at = "resolved" /\ x.fail = failures[k] /\ x.row = actorCache[k].row
      BY <1>2, AuthStep
    <2>1. UNCHANGED <<accessClock, actorRow, actorCache, revokedAt, overlap>>
      BY <1>2 DEF auth
    <2>2. access'[r] = x /\ \A q \in AccessRequests : q # r => access'[q] = access[q]
      BY <2>0 DEF AccessTyped
    <2>3. accessClock <= accessClock
      BY DEF AccessTyped
    <2>5. \A l \in AccessKeys : actorCache'[l].row = "live" =>
            /\ actorRow'[l] # "none"
            /\ actorCache'[l].exp <= (IF actorRow'[l] = "revoked" THEN revokedAt'[l] ELSE accessClock') + CacheTtl
      BY <2>1 DEF RowsOfActors
    <2>6. ASSUME NEW q \in AccessRequests, InFlight(q)'
          PROVE  /\ access'[q].began <= accessClock'
                 /\ access'[q].row = "live" => actorRow'[access'[q].key] # "none"
                 /\ access'[q].at = "loaded" /\ access'[q].row = "live" /\ actorRow'[access'[q].key] = "revoked" =>
                      /\ access'[q].began <= revokedAt'[access'[q].key]
                      /\ access'[q].key \in overlap'
      <3>1. CASE q # r
        BY <3>1, <2>1, <2>2, <2>6 DEF RowsOfActors, InFlight
      <3>2. CASE q = r
        BY <3>2, <2>0, <2>1, <2>2, <2>3, <2>6 DEF RowsOfActors, InFlight, RequestOver
      <3> QED BY <3>1, <3>2
    <2> QED BY <2>5, <2>6 DEF RowsOfActors
  <1>3. ASSUME NEW r \in AccessRequests, resolveActor(r) PROVE RowsOfActors'
    <2>0. PICK x \in AccessRecord :
           /\ access' = [access EXCEPT ![r] = x] /\ access[r].at = "loading"
           /\ x.at = "loaded" /\ x.key = access[r].key /\ x.began = access[r].began
           /\ x.fail = access[r].fail
           /\ x.row = actorRow[x.key] /\ x.key \in AccessKeys
      BY <1>3, RequestSteps
    <2>1. UNCHANGED <<accessClock, actorRow, actorCache, revokedAt, overlap>>
      BY <1>3 DEF resolveActor
    <2>2. access'[r] = x /\ \A q \in AccessRequests : q # r => access'[q] = access[q]
      BY <2>0 DEF AccessTyped
    <2>3. InFlight(r)
      BY <2>0 DEF InFlight, RequestOver
    <2> QED BY <2>0, <2>1, <2>2, <2>3 DEF RowsOfActors, InFlight
  <1>4. ASSUME NEW r \in AccessRequests, ttlCache(r) PROVE RowsOfActors'
    <2>0. PICK x \in AccessRecord :
           /\ access' = [access EXCEPT ![r] = x] /\ access[r].at = "loaded"
           /\ x.at = "resolved" /\ x.key = access[r].key /\ x.began = access[r].began
           /\ x.fail = access[r].fail
           /\ x.row = access[r].row
      BY <1>4, RequestSteps
    <2>1. UNCHANGED <<accessClock, actorRow, revokedAt, overlap>>
      BY <1>4 DEF ttlCache
    <2>2. access'[r] = x /\ \A q \in AccessRequests : q # r => access'[q] = access[q]
      BY <2>0 DEF AccessTyped
    <2>3. InFlight(r) /\ access[r].key \in AccessKeys
      BY <2>0 DEF InFlight, RequestOver, AccessTyped
    <2>4. access[r].row = "live" =>
            Expiry(r) <= (IF actorRow[access[r].key] = "revoked" THEN revokedAt[access[r].key] ELSE accessClock) + CacheTtl
      <3>1. access[r] \in AccessRecord /\ accessClock \in Nat /\ revokedAt[access[r].key] \in Nat
        BY <2>3 DEF AccessTyped
      <3>2. access[r].began \in Nat
        BY <3>1 DEF AccessRecord
      <3>3. access[r].row = "live" =>
              access[r].began <= (IF actorRow[access[r].key] = "revoked" THEN revokedAt[access[r].key] ELSE accessClock)
        BY <2>0, <2>3 DEF RowsOfActors
      <3> QED BY <3>1, <3>2, <3>3, AccessNumbers DEF Expiry
    <2>5. \/ actorCache' = actorCache
          \/ actorCache' = [actorCache EXCEPT ![access[r].key] = [row |-> access[r].row, exp |-> Expiry(r)]]
      BY <1>4 DEF ttlCache
    <2>6. \A k \in AccessKeys : actorCache'[k].row = "live" =>
            /\ actorRow[k] # "none"
            /\ actorCache'[k].exp <= (IF actorRow[k] = "revoked" THEN revokedAt[k] ELSE accessClock) + CacheTtl
      <3>1. CASE actorCache' = actorCache
        BY <3>1 DEF RowsOfActors
      <3>2. CASE actorCache' = [actorCache EXCEPT ![access[r].key] = [row |-> access[r].row, exp |-> Expiry(r)]]
        <4>1. \A k \in AccessKeys : k # access[r].key => actorCache'[k] = actorCache[k]
          BY <3>2 DEF AccessTyped
        <4>2. /\ actorCache'[access[r].key].row = access[r].row
              /\ actorCache'[access[r].key].exp = Expiry(r)
          BY <3>2, <2>3 DEF AccessTyped
        <4>3. access[r].row = "live" => actorRow[access[r].key] # "none"
          BY <2>3 DEF RowsOfActors
        <4> QED BY <2>4, <4>1, <4>2, <4>3 DEF RowsOfActors
      <3> QED BY <2>5, <3>1, <3>2
    <2>7. \A q \in AccessRequests : InFlight(q)' =>
           /\ access'[q].began <= accessClock
           /\ access'[q].row = "live" => actorRow[access'[q].key] # "none"
           /\ access'[q].at = "loaded" /\ access'[q].row = "live" /\ actorRow[access'[q].key] = "revoked" =>
                access'[q].began <= revokedAt[access'[q].key] /\ access'[q].key \in overlap
      BY <2>0, <2>2, <2>3 DEF RowsOfActors, InFlight
    <2> QED BY <2>1, <2>6, <2>7 DEF RowsOfActors
  <1>5. ASSUME NEW r \in AccessRequests, recordFailure(r) PROVE RowsOfActors'
    <2>0. PICK x \in AccessRecord :
           /\ access' = [access EXCEPT ![r] = x] /\ access[r].at = "resolved"
           /\ x.at = "unauthorized"
      BY <1>5, RequestSteps
    <2>1. UNCHANGED <<accessClock, actorRow, actorCache, revokedAt, overlap>>
      BY <1>5 DEF recordFailure
    <2>2. access'[r] = x /\ \A q \in AccessRequests : q # r => access'[q] = access[q]
      BY <2>0 DEF AccessTyped
    <2>5. \A k \in AccessKeys : actorCache'[k].row = "live" =>
            /\ actorRow'[k] # "none"
            /\ actorCache'[k].exp <= (IF actorRow'[k] = "revoked" THEN revokedAt'[k] ELSE accessClock') + CacheTtl
      BY <2>1 DEF RowsOfActors
    <2>6. ASSUME NEW q \in AccessRequests, InFlight(q)'
          PROVE  /\ access'[q].began <= accessClock'
                 /\ access'[q].row = "live" => actorRow'[access'[q].key] # "none"
                 /\ access'[q].at = "loaded" /\ access'[q].row = "live" /\ actorRow'[access'[q].key] = "revoked" =>
                      /\ access'[q].began <= revokedAt'[access'[q].key]
                      /\ access'[q].key \in overlap'
      <3>1. CASE q # r
        BY <3>1, <2>1, <2>2, <2>6 DEF RowsOfActors, InFlight
      <3>2. CASE q = r
        BY <3>2, <2>0, <2>1, <2>2, <2>6 DEF RowsOfActors, InFlight, RequestOver
      <3> QED BY <3>1, <3>2
    <2> QED BY <2>5, <2>6 DEF RowsOfActors
  <1>6. ASSUME NEW r \in AccessRequests, NEW admin \in BOOLEAN, requireAdmin(r, admin)
        PROVE  RowsOfActors'
    <2>0. PICK x \in AccessRecord :
           /\ access' = [access EXCEPT ![r] = x] /\ access[r].at = "resolved"
           /\ access[r].row = "live"
           /\ x.at \in {"forbidden", "in", "in as admin"} /\ x.key = access[r].key
           /\ x.at = "in as admin" => x.key \in AdminKeys
      BY <1>6, RequestSteps
    <2>1. UNCHANGED <<accessClock, actorRow, actorCache, revokedAt, overlap>>
      BY <1>6 DEF requireAdmin
    <2>2. access'[r] = x /\ \A q \in AccessRequests : q # r => access'[q] = access[q]
      BY <2>0 DEF AccessTyped
    <2>5. \A k \in AccessKeys : actorCache'[k].row = "live" =>
            /\ actorRow'[k] # "none"
            /\ actorCache'[k].exp <= (IF actorRow'[k] = "revoked" THEN revokedAt'[k] ELSE accessClock') + CacheTtl
      BY <2>1 DEF RowsOfActors
    <2>6. ASSUME NEW q \in AccessRequests, InFlight(q)'
          PROVE  /\ access'[q].began <= accessClock'
                 /\ access'[q].row = "live" => actorRow'[access'[q].key] # "none"
                 /\ access'[q].at = "loaded" /\ access'[q].row = "live" /\ actorRow'[access'[q].key] = "revoked" =>
                      /\ access'[q].began <= revokedAt'[access'[q].key]
                      /\ access'[q].key \in overlap'
      <3>1. CASE q # r
        BY <3>1, <2>1, <2>2, <2>6 DEF RowsOfActors, InFlight
      <3>2. CASE q = r
        BY <3>2, <2>0, <2>1, <2>2, <2>6 DEF RowsOfActors, InFlight, RequestOver
      <3> QED BY <3>1, <3>2
    <2> QED BY <2>5, <2>6 DEF RowsOfActors
  <1>7. ASSUME NEW k \in AccessKeys, revokeActor(k) PROVE RowsOfActors'
    <2>1. /\ actorRow[k] = "live" /\ actorRow' = [actorRow EXCEPT ![k] = "revoked"]
          /\ revokedAt' = [revokedAt EXCEPT ![k] = accessClock]
          /\ UNCHANGED <<accessClock, actorCache, access>>
      BY <1>7 DEF revokeActor
    <2>2. /\ overlap \subseteq overlap'
          /\ \A r \in AccessRequests : access[r].key = k /\ InFlight(r) => k \in overlap'
      BY <1>7 DEF revokeActor, InFlight
    <2>3. /\ actorRow'[k] = "revoked" /\ revokedAt'[k] = accessClock
          /\ \A j \in AccessKeys : j # k => actorRow'[j] = actorRow[j] /\ revokedAt'[j] = revokedAt[j]
      BY <2>1 DEF AccessTyped
    <2>4. \A r \in AccessRequests : InFlight(r) => access[r].key \in AccessKeys
      BY DEF AccessTyped, InFlight, RequestOver
    <2> QED BY <2>1, <2>2, <2>3, <2>4 DEF RowsOfActors, InFlight
  <1>8. ASSUME NEW k \in AccessKeys, invalidateActor(k) PROVE RowsOfActors'
    <2>1. UNCHANGED <<accessClock, actorRow, access, revokedAt,
                      overlap>> /\ actorCache' = [actorCache EXCEPT ![k] = NotCached]
      BY <1>8 DEF invalidateActor, CacheDropped
    <2>2. actorCache'[k].row = "none" /\ \A j \in AccessKeys : j # k => actorCache'[j] = actorCache[j]
      BY <2>1 DEF AccessTyped, NotCached
    <2> QED BY <2>1, <2>2 DEF RowsOfActors, InFlight
  <1> QED BY <1>1, <1>2, <1>3, <1>4, <1>5, <1>6, <1>7, <1>8 DEF AccessNext

\* Every step keeps a revocation that no request met.
LEMMA RevocationsHold ==
  ASSUME AccessTyped, RowsOfActors, RevokedAtOnce, AccessNext
  PROVE  RevokedAtOnce'
PROOF
  <1>1. CASE AccessTick
    BY <1>1 DEF AccessTick, RevokedAtOnce
  <1>2. ASSUME NEW r \in AccessRequests, NEW k \in AccessKeys, auth(r, k) PROVE RevokedAtOnce'
    BY <1>2 DEF auth, RevokedAtOnce
  <1>3. ASSUME NEW r \in AccessRequests, resolveActor(r) PROVE RevokedAtOnce'
    BY <1>3 DEF resolveActor, RevokedAtOnce
  <1>4. ASSUME NEW r \in AccessRequests, ttlCache(r) PROVE RevokedAtOnce'
    <2>0. PICK x \in AccessRecord :
           /\ access' = [access EXCEPT ![r] = x] /\ access[r].at = "loaded"
           /\ x.at = "resolved" /\ x.key = access[r].key /\ x.began = access[r].began
           /\ x.fail = access[r].fail
           /\ x.row = access[r].row
      BY <1>4, RequestSteps
    <2>1. UNCHANGED <<actorRow, revoking, overlap>>
      BY <1>4 DEF ttlCache
    <2>2. InFlight(r) /\ access[r].key \in AccessKeys
      BY <2>0 DEF InFlight, RequestOver, AccessTyped
    <2>3. \/ actorCache' = actorCache
          \/ actorCache' = [actorCache EXCEPT ![access[r].key] = [row |-> access[r].row, exp |-> Expiry(r)]]
      BY <1>4 DEF ttlCache
    <2>4. actorRow[access[r].key] = "revoked" /\ access[r].row = "live" => access[r].key \in overlap
      BY <2>0, <2>2 DEF RowsOfActors
    <2>5. actorCache'[access[r].key].row \in {actorCache[access[r].key].row, access[r].row}
      BY <2>2, <2>3 DEF AccessTyped
    <2>6. \A j \in AccessKeys : j # access[r].key => actorCache'[j] = actorCache[j]
      BY <2>3 DEF AccessTyped
    <2> QED BY <2>1, <2>2, <2>4, <2>5, <2>6 DEF RevokedAtOnce
  <1>5. ASSUME NEW r \in AccessRequests, recordFailure(r) PROVE RevokedAtOnce'
    BY <1>5 DEF recordFailure, RevokedAtOnce
  <1>6. ASSUME NEW r \in AccessRequests, NEW admin \in BOOLEAN, requireAdmin(r, admin)
        PROVE  RevokedAtOnce'
    BY <1>6 DEF requireAdmin, RevokedAtOnce
  <1>7. ASSUME NEW k \in AccessKeys, revokeActor(k) PROVE RevokedAtOnce'
    BY <1>7 DEF revokeActor, RevokedAtOnce, AccessTyped
  <1>8. ASSUME NEW k \in AccessKeys, invalidateActor(k) PROVE RevokedAtOnce'
    BY <1>8 DEF invalidateActor, CacheDropped, NotCached, RevokedAtOnce, AccessTyped
  <1> QED BY <1>1, <1>2, <1>3, <1>4, <1>5, <1>6, <1>7, <1>8 DEF AccessNext

\* What is counted stays counted while failures only add up.
LEMMA CountedLater ==
  ASSUME NEW entry \in FailureEntry, NEW past \in [times : Nat, last : Nat],
         NEW now \in [times : Nat, last : Nat],
         Counted(entry, past), past.times <= now.times, past.last <= now.last
  PROVE  Counted(entry, now)
PROOF
  <1>1. entry.count \in Nat /\ entry.until \in Nat
    BY DEF FailureEntry
  <1> QED BY <1>1, AccessNumbers DEF Counted

\* Failures only add up.
LEMMA FailuresAddUp ==
  ASSUME AccessTyped, AccessNext, NEW k \in AccessKeys
  PROVE  /\ failedSoFar[k].times <= failedSoFar'[k].times
         /\ failedSoFar[k].last <= failedSoFar'[k].last
PROOF
  <1>1. /\ failedSoFar[k].times \in Nat /\ failedSoFar[k].last \in Nat
        /\ failedSoFar[k] \in [times : Nat, last : Nat]
    BY DEF AccessTyped
  <1>2. CASE UNCHANGED failedSoFar
    BY <1>1, <1>2
  <1>3. ASSUME NEW r \in AccessRequests, recordFailure(r)
        PROVE  /\ failedSoFar[k].times <= failedSoFar'[k].times
               /\ failedSoFar[k].last <= failedSoFar'[k].last
    <2>1. access[r] \in AccessRecord /\ failedSoFar \in [AccessKeys -> [times : Nat, last : Nat]]
      BY DEF AccessTyped
    <2>2. access[r].began \in Nat
      BY <2>1 DEF AccessRecord
    <2>3. CASE k = access[r].key
      <3>1. failedSoFar'[k] = [times |-> IF failedSoFar[k].times < MaxFailures THEN failedSoFar[k].times + 1 ELSE failedSoFar[k].times,
                               last |-> IF access[r].began > failedSoFar[k].last THEN access[r].began ELSE failedSoFar[k].last]
        BY <1>3, <2>1, <2>3 DEF recordFailure
      <3> QED BY <1>1, <2>2, <3>1, AccessNumbers
    <2>4. CASE k # access[r].key
      <3>1. failedSoFar'[k] = failedSoFar[k]
        BY <1>3, <2>1, <2>4 DEF recordFailure
      <3> QED BY <1>1, <3>1
    <2> QED BY <2>3, <2>4
  <1> QED
    BY <1>2, <1>3
      DEF AccessNext, AccessTick, auth, resolveActor, ttlCache, requireAdmin, revokeActor,
          invalidateActor

\* No failure is none too many.
LEMMA NothingCounted ==
  ASSUME NEW past \in [times : Nat, last : Nat]
  PROVE  Counted(NoFailure, past)
BY DEF Counted, NoFailure

\* Every step keeps what is counted to what happened.
LEMMA CountsHold ==
  ASSUME AccessTyped, FailuresCounted, AccessNext
  PROVE  FailuresCounted'
PROOF
  <1>1. CASE AccessTick
    BY <1>1 DEF AccessTick, FailuresCounted, InFlight
  <1>2. ASSUME NEW r \in AccessRequests, NEW k \in AccessKeys, auth(r, k) PROVE FailuresCounted'
    <2>0. PICK x \in AccessRecord :
           /\ access' = [access EXCEPT ![r] = x] /\ x.key = k /\ x.began = accessClock
           /\ \/ /\ x.at = "throttled"
                 /\ failures[k].until > accessClock /\ failures[k].count >= MaxFailures
              \/ /\ x.at = "loading" /\ x.row = "none" /\ x.fail = failures[k]
              \/ /\ x.at = "resolved" /\ x.fail = failures[k] /\ x.row = actorCache[k].row
      BY <1>2, AuthStep
    <2>1. failedSoFar' = failedSoFar
      BY <1>2 DEF auth
    <2>2. access'[r] = x /\ \A q \in AccessRequests : q # r => access'[q] = access[q]
      BY <2>0 DEF AccessTyped
    <2>3. \A j \in AccessKeys : failures'[j] \in {failures[j], NoFailure}
      BY <1>2, AuthStep
    <2>4. \A j \in AccessKeys : Counted(NoFailure, failedSoFar[j])
      BY NothingCounted DEF AccessTyped
    <2>5. \A j \in AccessKeys : Counted(failures'[j], failedSoFar'[j])
      BY <2>1, <2>3, <2>4 DEF FailuresCounted
    <2>6. ASSUME NEW q \in AccessRequests, InFlight(q)'
          PROVE  Counted(access'[q].fail, failedSoFar'[access'[q].key])
      <3>1. CASE q # r
        BY <3>1, <2>1, <2>2, <2>6 DEF FailuresCounted, InFlight
      <3>2. CASE q = r
        BY <3>2, <2>0, <2>1, <2>2, <2>6 DEF FailuresCounted, InFlight, RequestOver
      <3> QED BY <3>1, <3>2
    <2> QED BY <2>5, <2>6 DEF FailuresCounted
  <1>3. ASSUME NEW r \in AccessRequests, resolveActor(r) PROVE FailuresCounted'
    <2>0. PICK x \in AccessRecord :
           /\ access' = [access EXCEPT ![r] = x] /\ access[r].at = "loading"
           /\ x.at = "loaded" /\ x.key = access[r].key /\ x.began = access[r].began
           /\ x.fail = access[r].fail
           /\ x.row = actorRow[x.key] /\ x.key \in AccessKeys
      BY <1>3, RequestSteps
    <2>1. failedSoFar' = failedSoFar
      BY <1>3 DEF resolveActor
    <2>2. access'[r] = x /\ \A q \in AccessRequests : q # r => access'[q] = access[q]
      BY <2>0 DEF AccessTyped
    <2>3. failures' = failures
      BY <1>3 DEF resolveActor
    <2>4. \A j \in AccessKeys : Counted(NoFailure, failedSoFar[j])
      BY NothingCounted DEF AccessTyped
    <2>5. \A j \in AccessKeys : Counted(failures'[j], failedSoFar'[j])
      BY <2>1, <2>3, <2>4 DEF FailuresCounted
    <2>6. ASSUME NEW q \in AccessRequests, InFlight(q)'
          PROVE  Counted(access'[q].fail, failedSoFar'[access'[q].key])
      <3>1. CASE q # r
        BY <3>1, <2>1, <2>2, <2>6 DEF FailuresCounted, InFlight
      <3>2. CASE q = r
        BY <3>2, <2>0, <2>1, <2>2, <2>6 DEF FailuresCounted, InFlight, RequestOver
      <3> QED BY <3>1, <3>2
    <2> QED BY <2>5, <2>6 DEF FailuresCounted
  <1>4. ASSUME NEW r \in AccessRequests, ttlCache(r) PROVE FailuresCounted'
    <2>0. PICK x \in AccessRecord :
           /\ access' = [access EXCEPT ![r] = x] /\ access[r].at = "loaded"
           /\ x.at = "resolved" /\ x.key = access[r].key /\ x.began = access[r].began
           /\ x.fail = access[r].fail
           /\ x.row = access[r].row
      BY <1>4, RequestSteps
    <2>1. failedSoFar' = failedSoFar
      BY <1>4 DEF ttlCache
    <2>2. access'[r] = x /\ \A q \in AccessRequests : q # r => access'[q] = access[q]
      BY <2>0 DEF AccessTyped
    <2>3. failures' = failures
      BY <1>4 DEF ttlCache
    <2>4. \A j \in AccessKeys : Counted(NoFailure, failedSoFar[j])
      BY NothingCounted DEF AccessTyped
    <2>5. \A j \in AccessKeys : Counted(failures'[j], failedSoFar'[j])
      BY <2>1, <2>3, <2>4 DEF FailuresCounted
    <2>6. ASSUME NEW q \in AccessRequests, InFlight(q)'
          PROVE  Counted(access'[q].fail, failedSoFar'[access'[q].key])
      <3>1. CASE q # r
        BY <3>1, <2>1, <2>2, <2>6 DEF FailuresCounted, InFlight
      <3>2. CASE q = r
        BY <3>2, <2>0, <2>1, <2>2, <2>6 DEF FailuresCounted, InFlight, RequestOver
      <3> QED BY <3>1, <3>2
    <2> QED BY <2>5, <2>6 DEF FailuresCounted
  <1>5. ASSUME NEW r \in AccessRequests, recordFailure(r) PROVE FailuresCounted'
    <2>0. PICK x \in AccessRecord :
           /\ access' = [access EXCEPT ![r] = x] /\ access[r].at = "resolved"
           /\ x.at = "unauthorized"
      BY <1>5, RequestSteps
    <2>1. access'[r] = x /\ \A q \in AccessRequests : q # r => access'[q] = access[q]
      BY <2>0 DEF AccessTyped
    <2>2. AccessTyped'
      BY AccessStaysTyped
    <2>3. access[r].key \in AccessKeys /\ access[r] \in AccessRecord /\ InFlight(r)
      BY <2>0 DEF AccessTyped, InFlight, RequestOver
    <2>4. access[r].began \in Nat /\ access[r].fail \in FailureEntry
      BY <2>3 DEF AccessRecord
    <2> DEFINE key == access[r].key
               past == failedSoFar[key]
               entry == [count |-> (IF access[r].fail.until > access[r].began THEN access[r].fail.count ELSE 0) + 1,
                         until |-> access[r].began + FailWindow]
    <2>5. past \in [times : Nat, last : Nat]
      BY <2>3 DEF AccessTyped
    <2>6. failedSoFar'[key] = [times |-> IF past.times < MaxFailures THEN past.times + 1 ELSE past.times,
                               last |-> IF access[r].began > past.last THEN access[r].began ELSE past.last]
      BY <1>5, <2>3 DEF recordFailure, AccessTyped
    <2>7. Counted(access[r].fail, past)
      BY <2>3 DEF FailuresCounted
    <2>8. Counted(entry, failedSoFar'[key])
      <3>1. /\ access[r].fail.count \in Nat /\ access[r].fail.until \in Nat /\ past.times \in Nat
            /\ past.last \in Nat
        BY <2>4, <2>5 DEF FailureEntry
      <3> HIDE DEF past, key
      <3> QED BY <2>4, <2>6, <2>7, <3>1, AccessNumbers DEF Counted
    <2>9. failures' = [purgeExpired EXCEPT ![key] = entry]
      BY <1>5 DEF recordFailure
    <2> HIDE DEF entry
    <2>10. \A j \in AccessKeys : Counted(failures'[j], failedSoFar'[j])
      <3>1. failures'[key] = entry
        BY <2>3, <2>9, PurgeKeepsOrDrops DEF AccessTyped
      <3>2. ASSUME NEW j \in AccessKeys, j # key PROVE Counted(failures'[j], failedSoFar'[j])
        <4>1. failures'[j] \in {failures[j], NoFailure}
          BY <2>9, <3>2, PurgeKeepsOrDrops DEF AccessTyped
        <4>2. failedSoFar'[j] = failedSoFar[j]
          BY <1>5, <3>2 DEF recordFailure, AccessTyped
        <4>3. Counted(failures[j], failedSoFar[j]) /\ Counted(NoFailure, failedSoFar[j])
          BY NothingCounted DEF FailuresCounted, AccessTyped
        <4> QED BY <4>1, <4>2, <4>3
      <3> QED BY <2>8, <3>1, <3>2
    <2>11. ASSUME NEW q \in AccessRequests, InFlight(q)'
           PROVE  Counted(access'[q].fail, failedSoFar'[access'[q].key])
      <3>1. q # r /\ access'[q] = access[q]
        BY <2>0, <2>1, <2>11 DEF InFlight, RequestOver
      <3>2. InFlight(q) /\ access[q].key \in AccessKeys /\ access[q] \in AccessRecord
        BY <2>11, <3>1 DEF InFlight, AccessTyped, RequestOver
      <3>3. /\ failedSoFar[access[q].key] \in [times : Nat, last : Nat]
            /\ failedSoFar'[access[q].key] \in [times : Nat, last : Nat]
            /\ access[q].fail \in FailureEntry
        BY <2>2, <3>2 DEF AccessTyped, AccessRecord
      <3>4. Counted(access[q].fail, failedSoFar[access[q].key])
        BY <3>2 DEF FailuresCounted
      <3>5. /\ failedSoFar[access[q].key].times <= failedSoFar'[access[q].key].times
            /\ failedSoFar[access[q].key].last <= failedSoFar'[access[q].key].last
        BY <3>2, FailuresAddUp
      <3> QED BY <3>1, <3>3, <3>4, <3>5, CountedLater
    <2> QED BY <2>10, <2>11 DEF FailuresCounted
  <1>6. ASSUME NEW r \in AccessRequests, NEW admin \in BOOLEAN, requireAdmin(r, admin)
        PROVE  FailuresCounted'
    <2>0. PICK x \in AccessRecord :
           /\ access' = [access EXCEPT ![r] = x] /\ access[r].at = "resolved"
           /\ access[r].row = "live"
           /\ x.at \in {"forbidden", "in", "in as admin"} /\ x.key = access[r].key
           /\ x.at = "in as admin" => x.key \in AdminKeys
      BY <1>6, RequestSteps
    <2>1. failedSoFar' = failedSoFar
      BY <1>6 DEF requireAdmin
    <2>2. access'[r] = x /\ \A q \in AccessRequests : q # r => access'[q] = access[q]
      BY <2>0 DEF AccessTyped
    <2>3. \A j \in AccessKeys : failures'[j] \in {failures[j], NoFailure}
      BY <1>6 DEF requireAdmin, AccessTyped
    <2>4. \A j \in AccessKeys : Counted(NoFailure, failedSoFar[j])
      BY NothingCounted DEF AccessTyped
    <2>5. \A j \in AccessKeys : Counted(failures'[j], failedSoFar'[j])
      BY <2>1, <2>3, <2>4 DEF FailuresCounted
    <2>6. ASSUME NEW q \in AccessRequests, InFlight(q)'
          PROVE  Counted(access'[q].fail, failedSoFar'[access'[q].key])
      <3>1. CASE q # r
        BY <3>1, <2>1, <2>2, <2>6 DEF FailuresCounted, InFlight
      <3>2. CASE q = r
        BY <3>2, <2>0, <2>1, <2>2, <2>6 DEF FailuresCounted, InFlight, RequestOver
      <3> QED BY <3>1, <3>2
    <2> QED BY <2>5, <2>6 DEF FailuresCounted
  <1>7. ASSUME NEW k \in AccessKeys, revokeActor(k) PROVE FailuresCounted'
    BY <1>7 DEF revokeActor, FailuresCounted, InFlight
  <1>8. ASSUME NEW k \in AccessKeys, invalidateActor(k) PROVE FailuresCounted'
    BY <1>8 DEF invalidateActor, FailuresCounted, InFlight
  <1> QED BY <1>1, <1>2, <1>3, <1>4, <1>5, <1>6, <1>7, <1>8 DEF AccessNext

Turned(at) == at \in {"throttled", "in", "in as admin"}

\* Every step keeps what was said of a request that is over.
LEMMA ThrottlesHold ==
  ASSUME AccessTyped, RowsOfActors, FailuresCounted, ThrottleSound, AccessNext
  PROVE  ThrottleSound'
PROOF
  <1> USE DEF Turned
  <1>1. AccessTyped'
    BY AccessStaysTyped
  <1>2. ASSUME NEW q \in AccessRequests, access'[q] = access[q]
        PROVE  /\ access'[q].at = "throttled" =>
                    /\ failedSoFar'[access'[q].key].times >= MaxFailures
                    /\ failedSoFar'[access'[q].key].last + FailWindow > access'[q].began
               /\ access'[q].at \in {"in", "in as admin"} => actorRow'[access'[q].key] # "none"
               /\ access'[q].at = "in as admin" => access'[q].key \in AdminKeys
    <2>1. access[q] \in AccessRecord
      BY DEF AccessTyped
    <2>2. access[q].began \in Nat
      BY <2>1 DEF AccessRecord
    <2>3. Turned(access[q].at) => access[q].key \in AccessKeys
      BY DEF AccessTyped
    <2>4. CASE access[q].key \in AccessKeys
      <3>1. /\ failedSoFar[access[q].key] \in [times : Nat, last : Nat]
            /\ failedSoFar'[access[q].key] \in [times : Nat, last : Nat]
        BY <1>1, <2>4 DEF AccessTyped
      <3>2. /\ failedSoFar[access[q].key].times <= failedSoFar'[access[q].key].times
            /\ failedSoFar[access[q].key].last <= failedSoFar'[access[q].key].last
        BY <2>4, FailuresAddUp
      <3>3. access[q].at = "throttled" =>
              /\ failedSoFar[access[q].key].times >= MaxFailures
              /\ failedSoFar[access[q].key].last + FailWindow > access[q].began
        BY DEF ThrottleSound
      <3>4. actorRow[access[q].key] # "none" => actorRow'[access[q].key] # "none"
        BY <2>4
          DEF AccessNext, AccessTyped, AccessTick, auth, resolveActor, ttlCache, recordFailure,
              requireAdmin, revokeActor, invalidateActor
      <3>5. access[q].at = "throttled" =>
              /\ failedSoFar'[access[q].key].times >= MaxFailures
              /\ failedSoFar'[access[q].key].last + FailWindow > access[q].began
        BY <2>2, <3>1, <3>2, <3>3, AccessNumbers
      <3> QED BY <1>2, <3>4, <3>5 DEF ThrottleSound
    <2>5. CASE access[q].key \notin AccessKeys
      BY <1>2, <2>3, <2>5
    <2> QED BY <2>4, <2>5
  <1>3. CASE access' = access
    BY <1>2, <1>3 DEF ThrottleSound
  <1>4. ASSUME NEW r \in AccessRequests, NEW k \in AccessKeys, auth(r, k) PROVE ThrottleSound'
    <2>1. PICK x \in AccessRecord :
       /\ access' = [access EXCEPT ![r] = x] /\ x.key = k /\ x.began = accessClock
       /\ \/ /\ x.at = "throttled"
             /\ failures[k].until > accessClock /\ failures[k].count >= MaxFailures
          \/ x.at \in {"loading", "resolved"}
      BY <1>4, AuthStep
    <2>2. access'[r] = x /\ \A q \in AccessRequests : q # r => access'[q] = access[q]
      BY <2>1 DEF AccessTyped
    <2>3. failedSoFar' = failedSoFar
      BY <1>4 DEF auth
    <2>4. x.at = "throttled" => failedSoFar[k].times >= MaxFailures /\ failedSoFar[k].last + FailWindow > accessClock
      <3> SUFFICES ASSUME x.at = "throttled"
                   PROVE  /\ failedSoFar[k].times >= MaxFailures
                          /\ failedSoFar[k].last + FailWindow > accessClock
        OBVIOUS
      <3>1. /\ Counted(failures[k], failedSoFar[k]) /\ failures[k].until > accessClock
            /\ failures[k].count >= MaxFailures
        BY <2>1 DEF FailuresCounted
      <3>2. /\ failures[k].count \in Nat /\ failures[k].until \in Nat /\ accessClock \in Nat
            /\ failedSoFar[k].times \in Nat /\ failedSoFar[k].last \in Nat
        BY DEF AccessTyped, FailureEntry
      <3> QED BY <3>1, <3>2, AccessNumbers DEF Counted
    <2> QED BY <1>2, <2>1, <2>2, <2>3, <2>4 DEF ThrottleSound
  <1>5. ASSUME NEW r \in AccessRequests, resolveActor(r) \/ ttlCache(r) \/ recordFailure(r)
        PROVE  ThrottleSound'
    <2>1. PICK x \in AccessRecord : access' = [access EXCEPT ![r] = x] /\ ~Turned(x.at)
      BY <1>5, RequestSteps
    <2>2. access'[r] = x /\ \A q \in AccessRequests : q # r => access'[q] = access[q]
      BY <2>1 DEF AccessTyped
    <2> QED BY <1>2, <2>1, <2>2 DEF ThrottleSound
  <1>6. ASSUME NEW r \in AccessRequests, NEW admin \in BOOLEAN, requireAdmin(r, admin)
        PROVE  ThrottleSound'
    <2>0. PICK x \in AccessRecord :
           /\ access' = [access EXCEPT ![r] = x] /\ access[r].at = "resolved"
           /\ access[r].row = "live"
           /\ x.at \in {"forbidden", "in", "in as admin"} /\ x.key = access[r].key
           /\ x.at = "in as admin" => x.key \in AdminKeys
      BY <1>6, RequestSteps
    <2>1. access'[r] = x /\ \A q \in AccessRequests : q # r => access'[q] = access[q]
      BY <2>0 DEF AccessTyped
    <2>2. actorRow' = actorRow /\ actorRow[access[r].key] # "none"
      BY <1>6, <2>0 DEF requireAdmin, RowsOfActors, InFlight, RequestOver
    <2> QED BY <1>2, <2>0, <2>1, <2>2 DEF ThrottleSound
  <1> QED BY <1>3, <1>4, <1>5, <1>6 DEF AccessNext, AccessTick, revokeActor, invalidateActor

\* Who calls is who may: a key is believed no longer than a term after it was revoked, a revocation no
\* request met holds at once, and a key is turned away, or let in, for what it did and has.
THEOREM AccessHolds == AccessSpec => []AccessInv
PROOF
  <1>1. AccessInit => AccessInductive
    <2> SUFFICES ASSUME AccessInit PROVE AccessInductive
      OBVIOUS
    <2>1. AccessTyped
      <3>1. /\ NoFailure \in FailureEntry /\ Finished("idle", "", 0) \in AccessRecord
            /\ Finished("idle", "", 0).at = "idle"
        BY DEF NoFailure, FailureEntry, Finished, AccessRecord, RequestOver, ActorStates
      <3> QED BY <3>1, AccessNumbers DEF AccessInit, AccessTyped, ActorStates, NotCached
    <2>2. \A r \in AccessRequests : access[r].at = "idle"
      BY DEF AccessInit, Finished
    <2>3. \A k \in AccessKeys : actorCache[k].row = "none" /\ actorRow[k] # "revoked" /\ failures[k] = NoFailure
      BY DEF AccessInit, NotCached
    <2>4. RowsOfActors /\ RevokedAtOnce /\ ThrottleSound
      BY <2>2, <2>3 DEF RowsOfActors, RevokedAtOnce, ThrottleSound, InFlight, RequestOver
    <2>5. FailuresCounted
      BY <2>1, <2>2, <2>3, NothingCounted DEF FailuresCounted, AccessTyped, InFlight, RequestOver
    <2> QED BY <2>1, <2>4, <2>5 DEF AccessInductive
  <1>2. AccessInductive /\ [AccessNext]_accessVars => AccessInductive'
    <2>1. CASE AccessNext
      BY <2>1, AccessStaysTyped, RowsStayOfActors, RevocationsHold, CountsHold, ThrottlesHold
        DEF AccessInductive
    <2>2. CASE UNCHANGED accessVars
      BY <2>2
        DEF accessVars, AccessInductive, AccessTyped, RowsOfActors, RevokedAtOnce,
            FailuresCounted, ThrottleSound, InFlight
    <2> QED BY <2>1, <2>2
  <1>3. AccessInductive => AccessInv
    BY DEF AccessInductive, AccessInv, BelievedATerm, RowsOfActors
  <1> QED BY <1>1, <1>2, <1>3, PTL DEF AccessSpec

-----------------------------------------------------------------------------
(* The index of documents *)

HIDE DbLockAssumption

DocsSpec == DocsInit /\ [][DocsNext]_docVars

\* What there is of files, rows and runs.
DocFilesTyped == files \in [DocSet -> DocTexts \cup {NoDoc}]
RowsTyped == rows \subseteq DocRows /\ \A r, s \in rows : r.id = s.id => r = s
Found == [ref : DocSet, text : DocTexts]
Preps == [ref : DocSet, text : DocTexts, reuse : SUBSET DocRowIds, dead : SUBSET DocRowIds, fresh : Seq(Nat)]
RunStates == [pc : Stages, todo : Seq(Found), pending : Seq(Preps), chunks : Seq(Chunks), vectors : Seq(Vectors),
              tag : Providers, ok : SUBSET DocSet]
FlagsTyped == cancelled \subseteq DocJobs /\ cooldown \in BOOLEAN /\ mixed \subseteq DocSet

\* The chunks of a batch are those of its documents, one document after the other.
Aligned(pending, chunks) ==
  \E off \in [1..(Len(pending) + 1) -> Nat] :
    /\ off[1] = 0 /\ off[Len(pending) + 1] = Len(chunks)
    /\ \A a, b \in DOMAIN off : a <= b => off[a] <= off[b]
    /\ \A k \in DOMAIN pending :
         /\ off[k + 1] = off[k] + Len(pending[k].fresh)
         /\ \A j \in DOMAIN pending[k].fresh : chunks[off[k] + j] = pending[k].text[pending[k].fresh[j]]
ChunksOf(vectors) == [i \in DOMAIN vectors |-> vectors[i].of]

\* No document comes twice in a run.
EachOnce(s) ==
  /\ \A i, j \in DOMAIN s.pending : s.pending[i].ref = s.pending[j].ref => i = j
  /\ \A i, j \in DOMAIN s.todo : s.todo[i].ref = s.todo[j].ref => i = j
  /\ \A i \in DOMAIN s.pending, j \in DOMAIN s.todo : s.pending[i].ref # s.todo[j].ref

\* What a run has in hand at each stage.
InHand(s) ==
  /\ s.pc \in {"docs", "touch", "embed"} => Aligned(s.pending, s.chunks)
  /\ s.pc \in {"touch", "embed", "write", "single", "singleWrite"} => s.pending # <<>>
  /\ s.pc = "touch" => s.pending[1].fresh = <<>>
  /\ s.pc \in {"write", "single", "singleWrite"} => s.chunks = <<>>
  /\ s.pc = "write" => Aligned(s.pending, ChunksOf(s.vectors))
  /\ s.pc = "singleWrite" => ChunksOf(s.vectors) = newChunks(s.pending[1])
  /\ s.pc \in {"stale", "done"} => s.pending = <<>>
  /\ \A i \in DOMAIN s.vectors : s.vectors[i].by = "local" => s.tag = "local"

RunSound(s) == s \in RunStates /\ EachOnce(s) /\ InHand(s)
RunsSound == docRun \in [DocRuns -> RunStates] /\ \A w \in DocRuns : RunSound(docRun[w])

\* What is prepared of a document still speaks of its rows, and of all of them unless another writer was there.
PrepSound(p, table, doubly) ==
  /\ \A j, k \in DOMAIN p.fresh : p.fresh[j] \in DOMAIN p.text /\ (p.fresh[j] = p.fresh[k] => j = k)
  /\ p.reuse \cap p.dead = {}
  /\ \A r \in table : r.id \in p.reuse => r.ref = p.ref /\ r.index \in DOMAIN p.text /\ r.content = p.text[r.index]
  /\ \A r \in table : r.id \in p.dead => r.ref = p.ref
  /\ p.ref \notin doubly =>
       /\ \A r \in table : r.ref = p.ref => r.id \in p.reuse \cup p.dead
       /\ \A i \in DOMAIN p.text : (\E r \in table : r.id \in p.reuse /\ r.index = i) <=> (\A k \in DOMAIN p.fresh : p.fresh[k] # i)
PrepsSound == \A w \in DocRuns : \A i \in DOMAIN docRun[w].pending : PrepSound(docRun[w].pending[i], rows, mixed)

\* The rows of a document are one text, chunk by chunk.
WholeDoc(d, table) ==
  /\ \A r, s \in table : r.ref = d /\ s.ref = d /\ r.index = s.index => r = s
  /\ (\E r \in table : r.ref = d) =>
       \E t \in DocTexts :
         /\ \A r \in table : r.ref = d => r.index \in DOMAIN t /\ r.content = t[r.index] /\ r.hash = t
         /\ \A i \in DOMAIN t : \E r \in table : r.ref = d /\ r.index = i
RowsSound == VectorsTrue /\ \A d \in DocSet \ mixed : WholeDoc(d, rows)

DocsInductive == DocFilesTyped /\ RowsTyped /\ FlagsTyped /\ RunsSound /\ PrepsSound /\ RowsSound

\* The order of a finite set of numbers lists each of them once.
LEMMA Ordered ==
  ASSUME NEW S, S \subseteq Nat, IsFiniteSet(S)
  PROVE  /\ InOrder(S) \in Seq(S) /\ Cardinality(S) \in Nat /\ Len(InOrder(S)) = Cardinality(S)
         /\ DOMAIN InOrder(S) = 1..Cardinality(S)
         /\ \A i \in S : \E k \in DOMAIN InOrder(S) : InOrder(S)[k] = i
         /\ \A j, k \in DOMAIN InOrder(S) : InOrder(S)[j] = InOrder(S)[k] => j = k
<1> DEFINE upTo(i) == {j \in S : j <= i}
           n == Cardinality(S)
           rank == [i \in S |-> Cardinality(upTo(i))]
<1>1. n \in Nat /\ IsFiniteSet(1..n) /\ Cardinality(1..n) = n
  <2>1. n \in Nat
    BY FS_CardinalityType
  <2>2. QED
    BY <2>1, FS_Interval
<1>2. ASSUME NEW i \in S PROVE upTo(i) \in SUBSET S /\ IsFiniteSet(upTo(i)) /\ Cardinality(upTo(i)) \in 1..n
  <2>1. upTo(i) \in SUBSET S /\ i \in upTo(i)
    OBVIOUS
  <2>2. IsFiniteSet(upTo(i)) /\ Cardinality(upTo(i)) <= n
    BY <2>1, FS_Subset
  <2>3. Cardinality(upTo(i)) \in Nat /\ Cardinality(upTo(i)) # 0
    BY <2>1, <2>2, FS_CardinalityType, FS_EmptySet
  <2>4. QED
    BY <1>1, <2>1, <2>2, <2>3
<1>3. ASSUME NEW i \in S, NEW j \in S, i < j PROVE rank[i] # rank[j]
  <2>0. i \in Nat /\ j \in Nat /\ (\A x \in S : x \in Nat) /\ ~(j <= i) /\ i <= j
    BY <1>3
  <2>1. upTo(i) \in SUBSET upTo(j) /\ j \in upTo(j) /\ j \notin upTo(i)
    <3>1. \A x \in Nat : x <= i => x <= j
      BY <2>0
    <3>2. \A x \in upTo(i) : x \in upTo(j)
      BY <2>0, <3>1
    <3>3. j \in upTo(j) /\ j \notin upTo(i)
      BY <2>0
    <3>4. QED
      BY <3>2, <3>3
  <2>2. IsFiniteSet(upTo(j))
    BY <1>2
  <2>3. Cardinality(upTo(j)) = Cardinality(upTo(i)) => upTo(i) = upTo(j)
    <3> HIDE DEF upTo
    <3>1. QED  BY <2>1, <2>2, FS_Subset
  <2>4. QED
    BY <2>1, <2>3
<1>4. rank \in [S -> 1..n] /\ \A i, j \in S : rank[i] = rank[j] => i = j
  <2>1. rank \in [S -> 1..n]
    BY <1>2
  <2>2. ASSUME NEW i \in S, NEW j \in S, rank[i] = rank[j] PROVE i = j
    <3>1. ~(i < j) /\ ~(j < i)
      BY <1>3, <2>2
    <3>2. QED
      BY <3>1
  <2>3. QED
    BY <2>1, <2>2
<1>5. rank \in Surjection(S, 1..n)
  <2> HIDE DEF rank, n
  <2>1. rank \in Injection(S, 1..n)
    BY <1>4 DEF Injection, IsInjective
  <2>2. QED
    BY <1>1, <2>1, FS_Injection DEF n
<1>6. ASSUME NEW k \in 1..n PROVE \E i \in S : rank[i] = k
  BY <1>5 DEF Surjection
<1>7. ASSUME NEW k \in 1..n PROVE InOrder(S)[k] \in S /\ rank[InOrder(S)[k]] = k
  <2>1. \E i \in S : Cardinality({j \in S : j <= i}) = k
    BY <1>6
  <2>2. InOrder(S)[k] = CHOOSE i \in S : Cardinality({j \in S : j <= i}) = k
    BY DEF InOrder
  <2>3. QED
    BY <2>1, <2>2
<1>8. InOrder(S) \in [1..n -> S] /\ DOMAIN InOrder(S) = 1..n
  <2>1. InOrder(S) = [k \in 1..n |-> CHOOSE i \in S : Cardinality({j \in S : j <= i}) = k]
    BY DEF InOrder
  <2>2. DOMAIN InOrder(S) = 1..n
    BY <2>1
  <2>3. \A k \in 1..n : (CHOOSE i \in S : Cardinality({j \in S : j <= i}) = k) \in S
    <3>1. \A k \in 1..n : InOrder(S)[k] = CHOOSE i \in S : Cardinality({j \in S : j <= i}) = k
      BY <2>1
    <3>2. QED
      BY <3>1, <1>7
  <2>4. QED
    BY <2>1, <2>2, <2>3
<1>9. InOrder(S) \in Seq(S) /\ Len(InOrder(S)) = n
  BY <1>1, <1>8
<1>10. ASSUME NEW i \in S PROVE \E k \in 1..n : InOrder(S)[k] = i
  <2>1. rank[i] \in 1..n
    BY <1>4
  <2>2. QED
    BY <1>4, <1>7, <2>1
<1>11. QED
  <2> HIDE DEF rank
  <2>1. \A j, k \in 1..n : InOrder(S)[j] = InOrder(S)[k] => j = k
    BY <1>7
  <2>2. QED
    BY <1>1, <1>8, <1>9, <1>10, <2>1

LEMMA AlignedNone ==
  /\ Aligned(<<>>, <<>>)
  /\ \A c : c \in Seq(Chunks) /\ Aligned(<<>>, c) => c = <<>>
<1>1. Aligned(<<>>, <<>>)
  <2> DEFINE off == [k \in 1..1 |-> 0]
  <2>1. off \in [1..(Len(<<>>) + 1) -> Nat] /\ off[1] = 0 /\ DOMAIN off = 1..1 /\ DOMAIN <<>> = {}
    OBVIOUS
  <2>2. \A a, b \in DOMAIN off : a <= b => off[a] <= off[b]
    OBVIOUS
  <2>3. Len(<<>>) = 0 /\ off[Len(<<>>) + 1] = Len(<<>>)
    BY <2>1
  <2>4. \A k \in DOMAIN <<>> : FALSE
    BY <2>1
  <2>5. QED
    BY <2>1, <2>2, <2>3, <2>4 DEF Aligned
<1>2. ASSUME NEW c, c \in Seq(Chunks), Aligned(<<>>, c) PROVE c = <<>>
  <2>1. Len(c) = 0
    BY <1>2 DEF Aligned
  <2>2. QED
    BY <1>2, <2>1
<1>3. QED
  BY <1>1, <1>2

\* A document with nothing new has no chunk in the batch.
LEMMA AlignedFirst ==
  ASSUME NEW P \in Seq(Preps), NEW c \in Seq(Chunks), NEW p \in Preps, Aligned(P, c), p.fresh = <<>>
  PROVE  Aligned(<<p>> \o P, c)
<1> DEFINE Q == <<p>> \o P
<1>1. PICK off \in [1..(Len(P) + 1) -> Nat] :
        /\ off[1] = 0 /\ off[Len(P) + 1] = Len(c)
        /\ \A a, b \in DOMAIN off : a <= b => off[a] <= off[b]
        /\ \A k \in DOMAIN P :
             /\ off[k + 1] = off[k] + Len(P[k].fresh)
             /\ \A j \in DOMAIN P[k].fresh : c[off[k] + j] = P[k].text[P[k].fresh[j]]
  BY DEF Aligned
<1>2. Q \in Seq(Preps) /\ Len(Q) = Len(P) + 1 /\ Q[1] = p /\ (\A k \in 2..(Len(P) + 1) : Q[k] = P[k - 1]) /\ Len(P) \in Nat
      /\ DOMAIN Q = 1..(Len(P) + 1) /\ DOMAIN P = 1..Len(P)
  OBVIOUS
<1> DEFINE new == [k \in 1..(Len(Q) + 1) |-> IF k = 1 THEN 0 ELSE off[k - 1]]
<1> HIDE DEF Q
<1>3. new \in [1..(Len(Q) + 1) -> Nat] /\ new[1] = 0 /\ \A k \in 2..(Len(Q) + 1) : new[k] = off[k - 1]
  BY <1>2
<1>4. new[Len(Q) + 1] = Len(c)
  BY <1>1, <1>2, <1>3
<1>5. \A a, b \in DOMAIN new : a <= b => new[a] <= new[b]
  <2> SUFFICES ASSUME NEW a \in 1..(Len(Q) + 1), NEW b \in 1..(Len(Q) + 1), a <= b PROVE new[a] <= new[b]
    BY <1>3
  <2>1. CASE a = 1
    BY <2>1, <1>3
  <2>2. CASE a # 1
    <3>1. a - 1 \in DOMAIN off /\ b - 1 \in DOMAIN off /\ a - 1 <= b - 1 /\ new[a] = off[a - 1] /\ new[b] = off[b - 1]
      BY <2>2, <1>2, <1>3
    <3>2. QED
      BY <3>1, <1>1
  <2>3. QED
    BY <2>1, <2>2
<1>6. ASSUME NEW k \in DOMAIN Q
      PROVE  /\ new[k + 1] = new[k] + Len(Q[k].fresh)
             /\ \A j \in DOMAIN Q[k].fresh : c[new[k] + j] = Q[k].text[Q[k].fresh[j]]
  <2>1. CASE k = 1
    <3>1. Q[k].fresh = <<>> /\ Len(<<>>) = 0 /\ DOMAIN <<>> = {}
      BY <2>1, <1>2
    <3>2. new[k] = 0 /\ new[k + 1] = 0
      BY <2>1, <1>1, <1>2, <1>3
    <3> HIDE DEF new
    <3>3. Len(Q[k].fresh) = 0 /\ DOMAIN Q[k].fresh = {}
      BY <3>1
    <3>4. QED
      BY <3>2, <3>3
  <2>2. CASE k # 1
    <3>1. k - 1 \in DOMAIN P /\ Q[k] = P[k - 1] /\ new[k] = off[k - 1] /\ new[k + 1] = off[(k - 1) + 1]
      BY <2>2, <1>2, <1>3
    <3>2. QED
      BY <3>1, <1>1
  <2>3. QED
    BY <2>1, <2>2
<1>7. QED
  <2> HIDE DEF new
  <2>1. QED
    BY <1>3, <1>4, <1>5, <1>6 DEF Aligned, Q

\* The chunks of a document that comes last are the last.
LEMMA AlignedLast ==
  ASSUME NEW P \in Seq(Preps), NEW c \in Seq(Chunks), NEW p \in Preps, Aligned(P, c), newChunks(p) \in Seq(Chunks)
  PROVE  Aligned(Append(P, p), c \o newChunks(p))
<1> DEFINE Q == Append(P, p)
           m == newChunks(p)
           d == c \o m
<1>1. PICK off \in [1..(Len(P) + 1) -> Nat] :
        /\ off[1] = 0 /\ off[Len(P) + 1] = Len(c)
        /\ \A a, b \in DOMAIN off : a <= b => off[a] <= off[b]
        /\ \A k \in DOMAIN P :
             /\ off[k + 1] = off[k] + Len(P[k].fresh)
             /\ \A j \in DOMAIN P[k].fresh : c[off[k] + j] = P[k].text[P[k].fresh[j]]
  BY DEF Aligned
<1>2. /\ Q \in Seq(Preps) /\ Len(Q) = Len(P) + 1 /\ Q[Len(P) + 1] = p /\ (\A k \in 1..Len(P) : Q[k] = P[k]) /\ Len(P) \in Nat
      /\ DOMAIN Q = 1..(Len(P) + 1) /\ DOMAIN P = 1..Len(P)
  OBVIOUS
<1>3. /\ p.fresh \in Seq(Nat) /\ DOMAIN m = DOMAIN p.fresh /\ Len(m) = Len(p.fresh) /\ Len(m) \in Nat /\ DOMAIN m = 1..Len(m)
      /\ \A j \in DOMAIN p.fresh : m[j] = p.text[p.fresh[j]]
      /\ m \in Seq(Chunks)
  <2>1. p.fresh \in Seq(Nat)
    BY DEF Preps
  <2>2. DOMAIN m = DOMAIN p.fresh /\ \A j \in DOMAIN p.fresh : m[j] = p.text[p.fresh[j]]
    BY DEF newChunks
  <2>3. DOMAIN p.fresh = 1..Len(p.fresh) /\ DOMAIN m = 1..Len(m) /\ Len(m) \in Nat /\ Len(p.fresh) \in Nat
    BY <2>1
  <2>4. QED
    BY <2>1, <2>2, <2>3
<1> HIDE DEF m
<1>4. /\ d \in Seq(Chunks) /\ Len(d) = Len(c) + Len(m) /\ Len(c) \in Nat
      /\ (\A i \in 1..Len(c) : d[i] = c[i]) /\ (\A j \in 1..Len(m) : d[Len(c) + j] = m[j])
  <2>1. m \in Seq(Chunks) /\ Len(c) \in Nat /\ Len(m) \in Nat
    BY <1>3
  <2>2. d \in Seq(Chunks) /\ Len(d) = Len(c) + Len(m) /\ \A i \in 1..(Len(c) + Len(m)) : d[i] = IF i <= Len(c) THEN c[i] ELSE m[i - Len(c)]
    BY <2>1, ConcatProperties
  <2>3. \A j \in 1..Len(m) : Len(c) + j \in 1..(Len(c) + Len(m)) /\ ~(Len(c) + j <= Len(c)) /\ (Len(c) + j) - Len(c) = j
    BY <2>1
  <2>4. \A i \in 1..Len(c) : i \in 1..(Len(c) + Len(m)) /\ i <= Len(c)
    BY <2>1
  <2> HIDE DEF d
  <2>5. QED
    BY <2>1, <2>2, <2>3, <2>4
<1> DEFINE new == [k \in 1..(Len(Q) + 1) |-> IF k <= Len(P) + 1 THEN off[k] ELSE Len(d)]
<1> HIDE DEF Q, d
<1>5. /\ new \in [1..(Len(Q) + 1) -> Nat] /\ (\A k \in 1..(Len(P) + 1) : new[k] = off[k]) /\ new[Len(P) + 2] = Len(d)
  BY <1>2, <1>3, <1>4
<1>6. new[1] = 0 /\ new[Len(Q) + 1] = Len(d)
  BY <1>1, <1>2, <1>5
<1>7. \A a, b \in DOMAIN new : a <= b => new[a] <= new[b]
  <2> SUFFICES ASSUME NEW a \in 1..(Len(Q) + 1), NEW b \in 1..(Len(Q) + 1), a <= b PROVE new[a] <= new[b]
    BY <1>5
  <2>1. CASE b <= Len(P) + 1
    <3>1. a \in DOMAIN off /\ b \in DOMAIN off /\ new[a] = off[a] /\ new[b] = off[b]
      BY <2>1, <1>2, <1>5
    <3>2. QED
      BY <3>1, <1>1
  <2>2. CASE b = Len(P) + 2
    <3>1. a <= Len(P) + 1 => off[a] <= Len(c) /\ off[a] \in Nat
      <4> SUFFICES ASSUME a <= Len(P) + 1 PROVE off[a] <= Len(c) /\ off[a] \in Nat
        OBVIOUS
      <4>1. a \in DOMAIN off /\ Len(P) + 1 \in DOMAIN off
        BY <1>2
      <4>2. QED
        BY <4>1, <1>1
    <3>2. CASE a <= Len(P) + 1
      BY <3>1, <3>2, <2>2, <1>2, <1>3, <1>4, <1>5
    <3>3. CASE a = Len(P) + 2
      BY <3>3, <2>2, <1>3, <1>4, <1>5
    <3>4. QED
      BY <3>2, <3>3, <1>2
  <2>3. QED
    BY <2>1, <2>2, <1>2
<1>8. ASSUME NEW k \in DOMAIN Q
      PROVE  /\ new[k + 1] = new[k] + Len(Q[k].fresh)
             /\ \A j \in DOMAIN Q[k].fresh : d[new[k] + j] = Q[k].text[Q[k].fresh[j]]
  <2>1. CASE k \in 1..Len(P)
    <3>1. Q[k] = P[k] /\ new[k] = off[k] /\ new[k + 1] = off[k + 1] /\ off[k + 1] = off[k] + Len(P[k].fresh)
      BY <2>1, <1>1, <1>2, <1>5
    <3>2. P[k].fresh \in Seq(Nat) /\ off[k] \in Nat /\ off[k + 1] <= Len(c)
      <4>1. P[k] \in Preps
        BY <2>1, <1>2
      <4>2. k + 1 \in DOMAIN off /\ Len(P) + 1 \in DOMAIN off /\ k \in DOMAIN off /\ k + 1 <= Len(P) + 1
        BY <2>1, <1>2
      <4>3. off[k + 1] <= Len(c)
        BY <4>2, <1>1
      <4>4. QED
        BY <4>1, <4>2, <4>3 DEF Preps
    <3>3. ASSUME NEW j \in DOMAIN Q[k].fresh PROVE d[new[k] + j] = Q[k].text[Q[k].fresh[j]]
      <4>0. DOMAIN P[k].fresh = 1..Len(P[k].fresh) /\ Len(P[k].fresh) \in Nat
        BY <3>2
      <4>1. j \in 1..Len(P[k].fresh)
        BY <3>1, <4>0
      <4>2. off[k] + j \in 1..Len(c)
        <5>1. \A a, m1, L \in Nat : a + m1 <= L /\ j \in 1..m1 => a + j \in 1..L
          OBVIOUS
        <5>2. off[k] \in Nat /\ Len(c) \in Nat /\ off[k] + Len(P[k].fresh) <= Len(c)
          BY <3>1, <3>2, <1>4
        <5>3. QED
          BY <4>0, <4>1, <5>1, <5>2
      <4>3. c[off[k] + j] = P[k].text[P[k].fresh[j]]
        BY <2>1, <3>1, <1>1, <1>2
      <4>4. QED
        BY <4>2, <4>3, <3>1, <1>4
    <3>4. QED
      BY <3>1, <3>3
  <2>2. CASE k = Len(P) + 1
    <3>1. Q[k] = p /\ new[k] = Len(c) /\ new[k + 1] = Len(d)
      BY <2>2, <1>1, <1>2, <1>5
    <3>2. QED
      BY <3>1, <1>3, <1>4
  <2>3. k \in 1..Len(P) \/ k = Len(P) + 1
    BY <1>2
  <2>4. QED
    BY <2>1, <2>2, <2>3
<1>9. QED
  <2> HIDE DEF new
  <2>1. QED
    BY <1>5, <1>6, <1>7, <1>8 DEF Aligned, Q, d, m

\* The first chunks of a batch are those of its first document, the others those of the rest.
LEMMA AlignedRest ==
  ASSUME NEW P \in Seq(Preps), NEW c \in Seq(Chunks), Aligned(P, c), P # <<>>
  PROVE  /\ Len(P[1].fresh) \in 0..Len(c)
         /\ \A j \in 1..Len(P[1].fresh) : c[j] = P[1].text[P[1].fresh[j]]
         /\ Aligned(Tail(P), SubSeq(c, Len(P[1].fresh) + 1, Len(c)))
<1> DEFINE Q == Tail(P)
           n == Len(P[1].fresh)
           d == SubSeq(c, n + 1, Len(c))
<1>1. PICK off \in [1..(Len(P) + 1) -> Nat] :
        /\ off[1] = 0 /\ off[Len(P) + 1] = Len(c)
        /\ \A a, b \in DOMAIN off : a <= b => off[a] <= off[b]
        /\ \A k \in DOMAIN P :
             /\ off[k + 1] = off[k] + Len(P[k].fresh)
             /\ \A j \in DOMAIN P[k].fresh : c[off[k] + j] = P[k].text[P[k].fresh[j]]
  BY DEF Aligned
<1>2. /\ Q \in Seq(Preps) /\ Len(Q) = Len(P) - 1 /\ Len(P) \in Nat /\ Len(P) > 0 /\ (\A k \in 1..Len(Q) : Q[k] = P[k + 1])
      /\ DOMAIN Q = 1..(Len(P) - 1) /\ DOMAIN P = 1..Len(P) /\ DOMAIN off = 1..(Len(P) + 1)
  OBVIOUS
<1>3. P[1].fresh \in Seq(Nat) /\ n \in Nat /\ DOMAIN P[1].fresh = 1..n
  <2>1. P[1] \in Preps
    BY <1>2
  <2>2. P[1].fresh \in Seq(Nat)
    BY <2>1 DEF Preps
  <2>3. QED
    BY <2>2
<1>4. off[2] = n /\ \A j \in 1..n : c[j] = P[1].text[P[1].fresh[j]]
  <2>1. 1 \in DOMAIN P /\ off[1] = 0 /\ 1 + 1 = 2
    BY <1>1, <1>2
  <2>2. off[2] = n /\ \A j \in DOMAIN P[1].fresh : c[0 + j] = P[1].text[P[1].fresh[j]]
    <3>1. off[1 + 1] = off[1] + Len(P[1].fresh) /\ \A j \in DOMAIN P[1].fresh : c[off[1] + j] = P[1].text[P[1].fresh[j]]
      BY <2>1, <1>1
    <3> HIDE DEF n
    <3>2. off[2] = 0 + n
      BY <3>1, <2>1 DEF n
    <3>3. QED
      BY <3>1, <3>2, <2>1, <1>3
  <2>3. \A j \in 1..n : 0 + j = j
    OBVIOUS
  <2>4. QED
    BY <2>2, <2>3, <1>3
<1>5. n \in 0..Len(c) /\ Len(c) \in Nat
  <2>1. 2 \in DOMAIN off /\ Len(P) + 1 \in DOMAIN off /\ 2 <= Len(P) + 1
    BY <1>2
  <2>2. off[2] <= Len(c)
    BY <2>1, <1>1
  <2>3. QED
    BY <2>2, <1>3, <1>4
<1>6. d \in Seq(Chunks) /\ Len(d) = Len(c) - n /\ \A i \in 1..(Len(c) - n) : d[i] = c[n + i]
  <2> HIDE DEF n
  <2>1. n + 1 \in Int /\ Len(c) \in Int /\ (n + 1) - 1 = n
    BY <1>3, <1>5
  <2>2. QED
    BY <2>1, <1>3, <1>5, SubSeqProperties
<1> DEFINE new == [k \in 1..(Len(Q) + 1) |-> off[k + 1] - n]
<1> HIDE DEF Q, n, d
<1>7. \A k \in 2..(Len(P) + 1) : off[k] \in Nat /\ n <= off[k] /\ off[k] <= Len(c)
  <2> SUFFICES ASSUME NEW k \in 2..(Len(P) + 1) PROVE off[k] \in Nat /\ n <= off[k] /\ off[k] <= Len(c)
    OBVIOUS
  <2>1. k \in DOMAIN off /\ 2 \in DOMAIN off /\ Len(P) + 1 \in DOMAIN off /\ 2 <= k /\ k <= Len(P) + 1
    BY <1>2
  <2>2. QED
    BY <2>1, <1>1, <1>4
<1>8. new \in [1..(Len(Q) + 1) -> Nat] /\ DOMAIN new = 1..Len(P) /\ \A k \in 1..Len(P) : new[k] = off[k + 1] - n /\ k + 1 \in 2..(Len(P) + 1)
  BY <1>2, <1>3, <1>5, <1>7
<1>9. new[1] = 0 /\ new[Len(Q) + 1] = Len(d)
  BY <1>1, <1>2, <1>4, <1>5, <1>6, <1>8
<1>10. \A a, b \in DOMAIN new : a <= b => new[a] <= new[b]
  <2> SUFFICES ASSUME NEW a \in 1..Len(P), NEW b \in 1..Len(P), a <= b PROVE new[a] <= new[b]
    BY <1>8
  <2>1. a + 1 \in DOMAIN off /\ b + 1 \in DOMAIN off /\ a + 1 <= b + 1
    BY <1>2
  <2>2. off[a + 1] <= off[b + 1] /\ off[a + 1] \in Nat /\ off[b + 1] \in Nat
    BY <2>1, <1>1
  <2>3. QED
    BY <2>2, <1>5, <1>8
<1>11. ASSUME NEW k \in DOMAIN Q
      PROVE  /\ new[k + 1] = new[k] + Len(Q[k].fresh)
             /\ \A j \in DOMAIN Q[k].fresh : d[new[k] + j] = Q[k].text[Q[k].fresh[j]]
  <2>1. k + 1 \in DOMAIN P /\ Q[k] = P[k + 1] /\ k + 1 \in 1..Len(P) /\ k \in 1..Len(P)
    BY <1>2
  <2>2. P[k + 1].fresh \in Seq(Nat)
    <3>1. P[k + 1] \in Preps
      BY <2>1
    <3>2. QED
      BY <3>1 DEF Preps
  <2>3. new[k] = off[k + 1] - n /\ new[k + 1] = off[(k + 1) + 1] - n /\ off[(k + 1) + 1] = off[k + 1] + Len(P[k + 1].fresh)
    BY <2>1, <1>1, <1>8
  <2>4. off[k + 1] \in Nat /\ n <= off[k + 1] /\ off[(k + 1) + 1] <= Len(c) /\ Len(P[k + 1].fresh) \in Nat
    <3>1. k + 1 \in 2..(Len(P) + 1) /\ (k + 1) + 1 \in 2..(Len(P) + 1)
      BY <2>1, <1>2
    <3>2. QED
      BY <3>1, <2>2, <1>7
  <2>5. new[k + 1] = new[k] + Len(Q[k].fresh)
    BY <2>1, <2>3, <2>4, <1>5
  <2>6. ASSUME NEW j \in DOMAIN Q[k].fresh PROVE d[new[k] + j] = Q[k].text[Q[k].fresh[j]]
    <3>1. j \in 1..Len(P[k + 1].fresh)
      BY <2>1, <2>2
    <3>2. (off[k + 1] - n) + j \in 1..(Len(c) - n) /\ n + ((off[k + 1] - n) + j) = off[k + 1] + j
      <4>1. \A a, b, m, L \in Nat : b <= a /\ a + m <= L /\ j \in 1..m => (a - b) + j \in 1..(L - b) /\ b + ((a - b) + j) = a + j
        OBVIOUS
      <4>2. off[k + 1] + Len(P[k + 1].fresh) <= Len(c) /\ n \in Nat /\ Len(c) \in Nat
        BY <2>3, <2>4, <1>5
      <4>3. QED
        BY <3>1, <4>1, <4>2, <2>4
    <3>3. c[off[k + 1] + j] = P[k + 1].text[P[k + 1].fresh[j]]
      BY <2>1, <1>1
    <3>4. QED
      BY <3>2, <3>3, <2>1, <2>3, <1>6
  <2>7. QED
    BY <2>5, <2>6
<1>12. Aligned(Q, d)
  <2> HIDE DEF new
  <2>1. QED
    BY <1>8, <1>9, <1>10, <1>11 DEF Aligned
<1>13. QED
  BY <1>4, <1>5, <1>12 DEF Q, n, d

-----------------------------------------------------------------------------
(* Runs *)

LEMMA DocsFacts ==
  /\ "nobody" \notin DocRuns /\ DocRefs \in Seq(DocSet)
  /\ (\A i, j \in DOMAIN DocRefs : DocRefs[i] = DocRefs[j] => i = j)
  /\ NoDoc \notin DocTexts /\ DocRowIds \subseteq Nat /\ IsFiniteSet(DocRowIds)
  /\ \A t \in DocTexts : t \in Seq(Chunks) /\ DOMAIN t = 1..Len(t) /\ Len(t) \in Nat /\ \A i \in DOMAIN t : t[i] \in Chunks
<1>1. \A t \in DocTexts : t \in Seq(Chunks)
  BY SourceDocsAssumption DEF SourceDocsAssumption
<1>2. \A t \in Seq(Chunks) : DOMAIN t = 1..Len(t) /\ Len(t) \in Nat /\ \A i \in DOMAIN t : t[i] \in Chunks
  OBVIOUS
<1>3. QED
  BY <1>1, <1>2, SourceDocsAssumption DEF SourceDocsAssumption, IsInjective

\* A run that takes a step that is sound leaves the others as they are.
LEMMA StepRuns ==
  ASSUME RunsSound, NEW w \in DocRuns, NEW s, RunSound(s), docRun' = [docRun EXCEPT ![w] = s]
  PROVE  RunsSound'
<1>1. docRun' \in [DocRuns -> RunStates]
  BY DEF RunsSound, RunSound
<1>2. ASSUME NEW v \in DocRuns PROVE RunSound(docRun'[v])
  BY DEF RunsSound
<1>3. QED
  BY <1>1, <1>2 DEF RunsSound

LEMMA StepPreps ==
  ASSUME RunsSound, PrepsSound, NEW w \in DocRuns, NEW s, docRun' = [docRun EXCEPT ![w] = s],
         UNCHANGED <<rows, mixed>>, \A i \in DOMAIN s.pending : PrepSound(s.pending[i], rows, mixed)
  PROVE  PrepsSound'
<1>1. ASSUME NEW v \in DocRuns, NEW i \in DOMAIN docRun'[v].pending PROVE PrepSound(docRun'[v].pending[i], rows, mixed)
  BY DEF RunsSound, PrepsSound
<1>2. QED
  BY <1>1 DEF PrepsSound

\* A step of a run that leaves the rows alone.
LEMMA DocRunStep ==
  ASSUME DocsInductive, NEW w \in DocRuns, NEW s, RunSound(s), docRun' = [docRun EXCEPT ![w] = s],
         UNCHANGED <<rows, mixed>>, DocFilesTyped', FlagsTyped',
         \A i \in DOMAIN s.pending : PrepSound(s.pending[i], rows, mixed)
  PROVE  DocsInductive'
<1>1. RunsSound' /\ PrepsSound'
  BY StepRuns, StepPreps DEF DocsInductive
<1>2. DocFilesTyped' /\ RowsTyped' /\ FlagsTyped' /\ RowsSound'
  <2>1. RowsTyped'
    BY DEF DocsInductive, RowsTyped
  <2>2. RowsSound'
    BY DEF DocsInductive, RowsSound, VectorsTrue
  <2>3. QED
    BY <2>1, <2>2
<1>3. QED
  BY <1>1, <1>2 DEF DocsInductive

LEMMA IdleSound == IdleRun \in RunStates /\ RunSound(IdleRun) /\ IdleRun.pending = <<>>
<1>1. IdleRun \in RunStates
  BY DEF IdleRun, RunStates, Stages, Providers
<1>2. EachOnce(IdleRun)
  BY DEF IdleRun, EachOnce
<1>3. InHand(IdleRun)
  BY DEF IdleRun, InHand
<1>4. QED
  BY <1>1, <1>2, <1>3 DEF RunSound, IdleRun

LEMMA RunBegins ==
  ASSUME DocsInductive, NEW w \in DocRuns, indexRepoDocs(w)
  PROVE  DocsInductive'
<1>1. PICK readable \in {DocSet} \cup {DocSet \ {d} : d \in DocSet} :
        LET found == InOrder({i \in DOMAIN DocRefs : DocRefs[i] \in readable /\ files[DocRefs[i]] # NoDoc}) IN
          docRun' = [docRun EXCEPT ![w] = [IdleRun EXCEPT !.pc = "docs",
                     !.todo = [k \in DOMAIN found |-> [ref |-> DocRefs[found[k]], text |-> files[DocRefs[found[k]]]]]]]
  BY DEF indexRepoDocs, step
<1> DEFINE places == {i \in DOMAIN DocRefs : DocRefs[i] \in readable /\ files[DocRefs[i]] # NoDoc}
           found == InOrder(places)
           todo == [k \in DOMAIN found |-> [ref |-> DocRefs[found[k]], text |-> files[DocRefs[found[k]]]]]
           s == [IdleRun EXCEPT !.pc = "docs", !.todo = todo]
<1>2. places \subseteq Nat /\ IsFiniteSet(places)
  <2>1. DOMAIN DocRefs = 1..Len(DocRefs) /\ Len(DocRefs) \in Nat
    BY DocsFacts
  <2>2. IsFiniteSet(1..Len(DocRefs))
    <3>1. 1 \in Int /\ Len(DocRefs) \in Int
      BY <2>1
    <3>2. QED
      BY <3>1, FS_Interval
  <2>3. places \in SUBSET (1..Len(DocRefs))
    BY <2>1
  <2>4. QED
    BY <2>2, <2>3, FS_Subset
<1>3. /\ found \in Seq(places) /\ DOMAIN found = 1..Cardinality(places) /\ Cardinality(places) \in Nat
      /\ \A j, k \in DOMAIN found : found[j] = found[k] => j = k
  <2> HIDE DEF places
  <2>1. QED
    BY <1>2, Ordered
<1>4. \A k \in DOMAIN found : found[k] \in places
  <2> HIDE DEF found, places
  <2>1. QED
    BY <1>3
<1>5. \A k \in DOMAIN found : todo[k].ref = DocRefs[found[k]] /\ todo[k] \in Found
  <2> SUFFICES ASSUME NEW k \in DOMAIN found PROVE todo[k].ref = DocRefs[found[k]] /\ todo[k] \in Found
    OBVIOUS
  <2> HIDE DEF found
  <2>1. DocRefs[found[k]] \in DocSet /\ files[DocRefs[found[k]]] # NoDoc
    BY <1>4 DEF DocSet
  <2>2. files[DocRefs[found[k]]] \in DocTexts
    BY <2>1 DEF DocsInductive, DocFilesTyped
  <2>3. QED
    BY <2>1, <2>2 DEF Found
<1>6. todo \in Seq(Found) /\ \A i, j \in DOMAIN todo : todo[i].ref = todo[j].ref => i = j
  <2> HIDE DEF found, places
  <2>1. DOMAIN todo = 1..Cardinality(places)
    BY <1>3
  <2>2. todo \in [1..Cardinality(places) -> Found]
    BY <1>3, <1>5
  <2>3. todo \in Seq(Found)
    BY <2>2, <1>3
  <2>4. ASSUME NEW i \in DOMAIN todo, NEW j \in DOMAIN todo, todo[i].ref = todo[j].ref PROVE i = j
    <3>1. i \in DOMAIN found /\ j \in DOMAIN found /\ DocRefs[found[i]] = DocRefs[found[j]]
      BY <2>4, <1>5, <2>1, <1>3
    <3>2. found[i] \in DOMAIN DocRefs /\ found[j] \in DOMAIN DocRefs
      BY <3>1, <1>4 DEF places
    <3>3. QED
      BY <3>1, <3>2, <1>3, DocsFacts
  <2>5. QED
    BY <2>3, <2>4
<1> HIDE DEF todo, found, places
<1>7. /\ s \in RunStates /\ s.pc = "docs" /\ s.todo = todo /\ s.pending = <<>> /\ s.chunks = <<>> /\ s.vectors = <<>>
  <2>1. "docs" \in Stages
    BY DEF Stages
  <2>2. s \in RunStates
    BY <1>6, <2>1, IdleSound DEF RunStates
  <2>3. /\ IdleRun.pending = <<>> /\ IdleRun.chunks = <<>> /\ IdleRun.vectors = <<>>
    BY DEF IdleRun
  <2>4. /\ s.pc = "docs" /\ s.todo = todo /\ s.pending = <<>> /\ s.chunks = <<>> /\ s.vectors = <<>>
    BY <2>3, IdleSound DEF RunStates
  <2>5. QED
    BY <2>2, <2>4
<1>8. RunSound(s)
  <2>1. EachOnce(s)
    BY <1>6, <1>7 DEF EachOnce
  <2>2. InHand(s)
    BY <1>7, AlignedNone DEF InHand
  <2>3. QED
    BY <1>7, <2>1, <2>2 DEF RunSound
<1>9. docRun' = [docRun EXCEPT ![w] = s] /\ UNCHANGED <<rows, mixed, files, cancelled, cooldown>>
  BY <1>1 DEF indexRepoDocs, theWorld, todo, found, places
<1>10. QED
  <2> HIDE DEF s
  <2>1. \A i \in DOMAIN s.pending : PrepSound(s.pending[i], rows, mixed)
    BY <1>7
  <2>2. DocFilesTyped' /\ FlagsTyped'
    BY <1>9 DEF DocsInductive, DocFilesTyped, FlagsTyped
  <2>3. QED
    BY <1>8, <1>9, <2>1, <2>2, DocRunStep

\* What is prepared of a document speaks of its rows.
LEMMA PreparedSound ==
  ASSUME RowsTyped, RowsSound, NEW d \in DocSet, NEW text \in DocTexts
  PROVE  /\ prepareSourceDoc(d, text) \in Preps /\ prepareSourceDoc(d, text).ref = d
         /\ PrepSound(prepareSourceDoc(d, text), rows, mixed) /\ newChunks(prepareSourceDoc(d, text)) \in Seq(Chunks)
<1> DEFINE stored == {row \in rows : row.ref = d}
           reused == {row \in stored : row.index \in DOMAIN text /\ text[row.index] = row.content}
           left == {i \in DOMAIN text : \A row \in reused : row.index # i}
           p == prepareSourceDoc(d, text)
<1>1. /\ p.ref = d /\ p.text = text /\ p.reuse = {row.id : row \in reused} /\ p.dead = {row.id : row \in stored \ reused}
      /\ p.fresh = InOrder(left) /\ p = [ref |-> p.ref, text |-> p.text, reuse |-> p.reuse, dead |-> p.dead, fresh |-> p.fresh]
  BY DEF prepareSourceDoc
<1>2. left \subseteq Nat /\ IsFiniteSet(left) /\ left \subseteq DOMAIN text
  <2>1. DOMAIN text = 1..Len(text) /\ Len(text) \in Nat
    BY DocsFacts
  <2>2. IsFiniteSet(1..Len(text))
    BY <2>1, FS_Interval
  <2>3. left \in SUBSET (1..Len(text))
    BY <2>1
  <2>4. QED
    BY <2>1, <2>2, <2>3, FS_Subset
<1> HIDE DEF p
<1>3. /\ p.fresh \in Seq(left) /\ DOMAIN p.fresh = 1..Len(p.fresh) /\ Len(p.fresh) \in Nat
      /\ (\A i \in left : \E k \in DOMAIN p.fresh : p.fresh[k] = i)
      /\ \A j, k \in DOMAIN p.fresh : p.fresh[j] = p.fresh[k] => j = k
  <2> HIDE DEF left
  <2>1. p.fresh \in Seq(left)
    BY <1>1, <1>2, Ordered
  <2>2. QED
    BY <2>1, <1>1, <1>2, Ordered
<1>4. \A k \in DOMAIN p.fresh : p.fresh[k] \in left
  <2> HIDE DEF left
  <2>1. QED
    BY <1>3
<1>5. p \in Preps
  <2>1. p.reuse \in SUBSET DocRowIds /\ p.dead \in SUBSET DocRowIds
    BY <1>1 DEF RowsTyped, DocRows
  <2>2. p.fresh \in Seq(Nat)
    <3> HIDE DEF left
    <3>1. QED
      BY <1>2, <1>3, SeqMonotonic
  <2>3. QED
    BY <1>1, <2>1, <2>2 DEF Preps
<1>6. newChunks(p) \in Seq(Chunks)
  <2>1. newChunks(p) = [k \in 1..Len(p.fresh) |-> text[p.fresh[k]]]
    BY <1>1, <1>3 DEF newChunks
  <2>2. \A k \in 1..Len(p.fresh) : text[p.fresh[k]] \in Chunks
    BY <1>2, <1>3, <1>4, DocsFacts
  <2>3. newChunks(p) \in [1..Len(p.fresh) -> Chunks]
    BY <2>1, <2>2
  <2>4. QED
    BY <2>3, <1>3
<1>7. PrepSound(p, rows, mixed)
  <2>1. \A j, k \in DOMAIN p.fresh : p.fresh[j] \in DOMAIN p.text /\ (p.fresh[j] = p.fresh[k] => j = k)
    BY <1>1, <1>2, <1>3, <1>4
  <2>2. \A r \in rows : /\ r.id \in p.reuse <=> r \in reused
                        /\ r.id \in p.dead <=> r \in stored \ reused
    BY <1>1 DEF RowsTyped
  <2>3. p.reuse \cap p.dead = {}
    <3> SUFFICES ASSUME NEW id \in p.reuse, id \in p.dead PROVE FALSE
      OBVIOUS
    <3>1. PICK r \in reused : r.id = id
      BY <1>1
    <3>2. QED
      BY <3>1, <2>2
  <2>4. /\ \A r \in rows : r.id \in p.reuse => r.ref = p.ref /\ r.index \in DOMAIN p.text /\ r.content = p.text[r.index]
        /\ \A r \in rows : r.id \in p.dead => r.ref = p.ref
    BY <2>2, <1>1
  <2>5. \A r \in rows : r.ref = p.ref => r.id \in p.reuse \cup p.dead
    BY <2>2, <1>1
  <2>6. \A i \in DOMAIN p.text : (\E r \in rows : r.id \in p.reuse /\ r.index = i) <=> (\A k \in DOMAIN p.fresh : p.fresh[k] # i)
    <3> SUFFICES ASSUME NEW i \in DOMAIN text
                 PROVE  (\E r \in rows : r.id \in p.reuse /\ r.index = i) <=> (\A k \in DOMAIN p.fresh : p.fresh[k] # i)
      BY <1>1
    <3>1. (\A k \in DOMAIN p.fresh : p.fresh[k] # i) <=> i \notin left
      BY <1>3, <1>4
    <3>2. i \notin left <=> \E r \in reused : r.index = i
      OBVIOUS
    <3>3. QED
      BY <3>1, <3>2, <2>2
  <2>7. QED
    BY <2>1, <2>3, <2>4, <2>5, <2>6 DEF PrepSound
<1>8. QED
  BY <1>1, <1>5, <1>6, <1>7 DEF p

LEMMA RunFacts ==
  ASSUME DocsInductive, NEW w \in DocRuns
  PROVE  /\ run(w) = docRun[w] /\ run(w) \in RunStates /\ RunSound(run(w)) /\ EachOnce(run(w)) /\ InHand(run(w))
         /\ run(w).pending \in Seq(Preps) /\ run(w).todo \in Seq(Found) /\ run(w).chunks \in Seq(Chunks)
         /\ run(w).vectors \in Seq(Vectors)
         /\ \A i \in DOMAIN run(w).pending : PrepSound(run(w).pending[i], rows, mixed) /\ run(w).pending[i] \in Preps
<1>1. run(w) = docRun[w] /\ run(w) \in RunStates /\ RunSound(run(w)) /\ EachOnce(run(w)) /\ InHand(run(w))
  BY DEF run, DocsInductive, RunsSound, RunSound
<1>2. /\ run(w).pending \in Seq(Preps) /\ run(w).todo \in Seq(Found) /\ run(w).chunks \in Seq(Chunks)
      /\ run(w).vectors \in Seq(Vectors)
  BY <1>1 DEF RunStates
<1>3. \A i \in DOMAIN run(w).pending : PrepSound(run(w).pending[i], rows, mixed) /\ run(w).pending[i] \in Preps
  BY <1>1, <1>2 DEF DocsInductive, PrepsSound
<1>4. QED
  BY <1>1, <1>2, <1>3

\* A document is prepared once and then no longer to do.
Moved(r, s, p) ==
  /\ r.pending \in Seq(Preps) /\ r.todo \in Seq(Found) /\ r.todo # <<>> /\ EachOnce(r) /\ p \in Preps
  /\ p.ref = r.todo[1].ref /\ s.todo = Tail(r.todo) /\ (s.pending = <<p>> \o r.pending \/ s.pending = Append(r.pending, p))

LEMMA OnceMoved ==
  ASSUME NEW r, NEW s, NEW p, Moved(r, s, p)
  PROVE  /\ EachOnce(s) /\ s.pending \in Seq(Preps) /\ s.todo \in Seq(Found) /\ s.pending # <<>>
         /\ \A i \in DOMAIN s.pending : s.pending[i] = p \/ \E j \in DOMAIN r.pending : s.pending[i] = r.pending[j]
<1>0. /\ r.pending \in Seq(Preps) /\ r.todo \in Seq(Found) /\ r.todo # <<>> /\ EachOnce(r) /\ p \in Preps
      /\ p.ref = r.todo[1].ref /\ s.todo = Tail(r.todo) /\ (s.pending = <<p>> \o r.pending \/ s.pending = Append(r.pending, p))
  BY DEF Moved
<1> DEFINE P == r.pending
           T == r.todo
<1>1. /\ s.todo \in Seq(Found) /\ Len(T) \in Nat /\ Len(T) > 0 /\ DOMAIN T = 1..Len(T) /\ DOMAIN s.todo = 1..(Len(T) - 1)
      /\ \A i \in 1..(Len(T) - 1) : s.todo[i] = T[i + 1] /\ i + 1 \in 1..Len(T) /\ i + 1 # 1
  BY <1>0
<1>2. /\ s.pending \in Seq(Preps) /\ Len(P) \in Nat /\ DOMAIN P = 1..Len(P) /\ DOMAIN s.pending = 1..(Len(P) + 1)
      /\ \/ s.pending[1] = p /\ \A i \in 2..(Len(P) + 1) : s.pending[i] = P[i - 1] /\ i - 1 \in 1..Len(P)
         \/ s.pending[Len(P) + 1] = p /\ \A i \in 1..Len(P) : s.pending[i] = P[i]
  <2>1. CASE s.pending = <<p>> \o r.pending
    <3>1. <<p>> \in Seq(Preps) /\ Len(<<p>>) = 1 /\ <<p>>[1] = p
      BY <1>0
    <3>2. QED
      BY <2>1, <3>1, <1>0
  <2>2. CASE s.pending = Append(r.pending, p)
    BY <2>2, <1>0
  <2>3. QED
    BY <2>1, <2>2, <1>0
<1>3. /\ \A i, j \in 1..Len(P) : P[i].ref = P[j].ref => i = j
      /\ \A i, j \in 1..Len(T) : T[i].ref = T[j].ref => i = j
      /\ \A i \in 1..Len(P), j \in 1..Len(T) : P[i].ref # T[j].ref
  <2>1. EachOnce(r) /\ DOMAIN r.pending = 1..Len(P) /\ DOMAIN r.todo = 1..Len(T)
    BY <1>0, <1>1, <1>2
  <2>2. QED
    BY <2>1 DEF EachOnce
<1> HIDE DEF P, T
<1>4. 1 \in 1..Len(T) /\ p.ref = T[1].ref
  BY <1>0, <1>1 DEF T
<1>5. ASSUME NEW i \in DOMAIN s.pending
      PROVE  \/ s.pending[i] = p /\ (i = 1 \/ i = Len(P) + 1)
             \/ \E k \in 1..Len(P) : s.pending[i] = P[k]
  <2>1. CASE s.pending[1] = p /\ \A k \in 2..(Len(P) + 1) : s.pending[k] = P[k - 1] /\ k - 1 \in 1..Len(P)
    <3>1. i = 1 \/ i \in 2..(Len(P) + 1)
      BY <1>2
    <3>2. QED
      BY <3>1, <2>1
  <2>2. CASE s.pending[Len(P) + 1] = p /\ \A k \in 1..Len(P) : s.pending[k] = P[k]
    <3>1. i = Len(P) + 1 \/ i \in 1..Len(P)
      BY <1>2
    <3>2. QED
      BY <3>1, <2>2
  <2>3. QED
    BY <2>1, <2>2, <1>2
<1>6. \A i, j \in DOMAIN s.todo : s.todo[i].ref = s.todo[j].ref => i = j
  <2> SUFFICES ASSUME NEW i \in 1..(Len(T) - 1), NEW j \in 1..(Len(T) - 1), s.todo[i].ref = s.todo[j].ref PROVE i = j
    BY <1>1 DEF T
  <2>1. /\ i + 1 \in 1..Len(T) /\ j + 1 \in 1..Len(T) /\ T[i + 1].ref = T[j + 1].ref
    BY <1>1 DEF T
  <2>2. i + 1 = j + 1
    BY <2>1, <1>3
  <2>3. QED
    BY <2>2
<1>7. \A i \in DOMAIN s.pending, j \in DOMAIN s.todo : s.pending[i].ref # s.todo[j].ref
  <2> SUFFICES ASSUME NEW i \in DOMAIN s.pending, NEW j \in 1..(Len(T) - 1) PROVE s.pending[i].ref # s.todo[j].ref
    BY <1>1 DEF T
  <2>1. s.todo[j] = T[j + 1] /\ j + 1 \in 1..Len(T) /\ j + 1 # 1
    BY <1>1 DEF T
  <2>2. p.ref # T[j + 1].ref
    BY <2>1, <1>3, <1>4
  <2>3. \A k \in 1..Len(P) : P[k].ref # T[j + 1].ref
    BY <2>1, <1>3
  <2>4. QED
    BY <2>1, <2>2, <2>3, <1>5
<1>8. \A i, j \in DOMAIN s.pending : s.pending[i].ref = s.pending[j].ref => i = j
  <2> SUFFICES ASSUME NEW i \in 1..(Len(P) + 1), NEW j \in 1..(Len(P) + 1), s.pending[i].ref = s.pending[j].ref PROVE i = j
    BY <1>2
  <2>1. CASE s.pending[1] = p /\ \A k \in 2..(Len(P) + 1) : s.pending[k] = P[k - 1] /\ k - 1 \in 1..Len(P)
    <3>1. CASE i = 1 /\ j = 1
      BY <3>1
    <3>2. CASE i # 1 /\ j # 1
      <4>1. i \in 2..(Len(P) + 1) /\ j \in 2..(Len(P) + 1)
        BY <3>2, <1>2
      <4>2. P[i - 1].ref = P[j - 1].ref /\ i - 1 \in 1..Len(P) /\ j - 1 \in 1..Len(P)
        BY <4>1, <2>1
      <4>3. i - 1 = j - 1
        BY <4>2, <1>3
      <4>4. QED
        BY <4>3
    <3>3. CASE i = 1 /\ j # 1
      BY <3>3, <2>1, <1>2, <1>3, <1>4
    <3>4. CASE i # 1 /\ j = 1
      BY <3>4, <2>1, <1>2, <1>3, <1>4
    <3>5. QED
      BY <3>1, <3>2, <3>3, <3>4
  <2>2. CASE s.pending[Len(P) + 1] = p /\ \A k \in 1..Len(P) : s.pending[k] = P[k]
    <3>1. i = Len(P) + 1 \/ i \in 1..Len(P)
      BY <1>2
    <3>2. j = Len(P) + 1 \/ j \in 1..Len(P)
      BY <1>2
    <3>3. QED
      BY <3>1, <3>2, <2>2, <1>2, <1>3, <1>4
  <2>3. QED
    BY <2>1, <2>2, <1>2
<1>9. s.pending # <<>>
  BY <1>2
<1>10. EachOnce(s)
  BY <1>6, <1>7, <1>8 DEF EachOnce
<1>11. \A i \in DOMAIN s.pending : s.pending[i] = p \/ \E j \in DOMAIN P : s.pending[i] = P[j]
  BY <1>2, <1>5
<1>12. QED
  BY <1>1, <1>2, <1>9, <1>10, <1>11 DEF P

\* A run that is done with the first of its documents.
LEMMA OnceRest ==
  ASSUME NEW r, NEW s, r.pending \in Seq(Preps), EachOnce(r), r.pending # <<>>, s.todo = r.todo, s.pending = Tail(r.pending)
  PROVE  /\ EachOnce(s) /\ s.pending \in Seq(Preps)
         /\ \A i \in DOMAIN s.pending : s.pending[i].ref # r.pending[1].ref /\ \E j \in DOMAIN r.pending : s.pending[i] = r.pending[j]
<1> DEFINE P == r.pending
<1>1. /\ s.pending \in Seq(Preps) /\ Len(P) \in Nat /\ DOMAIN P = 1..Len(P) /\ DOMAIN s.pending = 1..(Len(P) - 1)
      /\ 1 \in 1..Len(P) /\ \A i \in 1..(Len(P) - 1) : s.pending[i] = P[i + 1] /\ i + 1 \in 1..Len(P) /\ i + 1 # 1
  OBVIOUS
<1>2. /\ \A i, j \in 1..Len(P) : P[i].ref = P[j].ref => i = j
      /\ \A i \in 1..Len(P), j \in DOMAIN s.todo : P[i].ref # s.todo[j].ref
      /\ \A i, j \in DOMAIN s.todo : s.todo[i].ref = s.todo[j].ref => i = j
  BY <1>1 DEF EachOnce
<1> HIDE DEF P
<1>3. \A i, j \in DOMAIN s.pending : s.pending[i].ref = s.pending[j].ref => i = j
  <2> SUFFICES ASSUME NEW i \in 1..(Len(P) - 1), NEW j \in 1..(Len(P) - 1), s.pending[i].ref = s.pending[j].ref PROVE i = j
    BY <1>1
  <2>1. i + 1 = j + 1
    BY <1>1, <1>2
  <2>2. QED
    BY <2>1
<1>4. \A i \in DOMAIN s.pending, j \in DOMAIN s.todo : s.pending[i].ref # s.todo[j].ref
  BY <1>1, <1>2
<1>5. ASSUME NEW i \in DOMAIN s.pending
      PROVE  s.pending[i].ref # P[1].ref /\ \E j \in DOMAIN P : s.pending[i] = P[j]
  <2>1. s.pending[i] = P[i + 1] /\ i + 1 \in 1..Len(P) /\ i + 1 # 1
    BY <1>1
  <2>2. QED
    BY <2>1, <1>1, <1>2
<1>6. EachOnce(s)
  BY <1>2, <1>3, <1>4 DEF EachOnce
<1>7. QED
  BY <1>1, <1>5, <1>6 DEF P

LEMMA ChunksFacts ==
  ASSUME NEW p \in Preps, NEW R, NEW M, PrepSound(p, R, M), p.text \in DocTexts
  PROVE  /\ newChunks(p) \in Seq(Chunks) /\ DOMAIN newChunks(p) = DOMAIN p.fresh /\ Len(newChunks(p)) = Len(p.fresh)
         /\ DOMAIN p.fresh = 1..Len(p.fresh) /\ Len(p.fresh) \in Nat
         /\ \A j \in DOMAIN p.fresh : newChunks(p)[j] = p.text[p.fresh[j]]
<1>1. p.fresh \in Seq(Nat)
  BY DEF Preps
<1>2. DOMAIN p.fresh = 1..Len(p.fresh) /\ Len(p.fresh) \in Nat
  BY <1>1
<1>3. \A j \in DOMAIN p.fresh : p.fresh[j] \in DOMAIN p.text /\ p.text[p.fresh[j]] \in Chunks
  BY DocsFacts DEF PrepSound
<1>4. newChunks(p) = [j \in 1..Len(p.fresh) |-> p.text[p.fresh[j]]]
  BY <1>2 DEF newChunks
<1>5. newChunks(p) \in [1..Len(p.fresh) -> Chunks] /\ \A j \in DOMAIN p.fresh : newChunks(p)[j] = p.text[p.fresh[j]]
  BY <1>2, <1>3, <1>4
<1>6. newChunks(p) \in Seq(Chunks) /\ Len(newChunks(p)) = Len(p.fresh)
  BY <1>2, <1>5
<1>7. QED
  BY <1>2, <1>5, <1>6

LEMMA DocPrepared ==
  ASSUME DocsInductive, NEW w \in DocRuns, PrepareDoc(w)
  PROVE  DocsInductive'
<1> DEFINE r == run(w)
           p == prepareSourceDoc(r.todo[1].ref, r.todo[1].text)
           chunks == r.chunks \o newChunks(p)
<1>1. /\ r.pc = "docs" /\ r.todo # <<>> /\ r \in RunStates /\ EachOnce(r) /\ InHand(r)
      /\ r.pending \in Seq(Preps) /\ r.todo \in Seq(Found) /\ r.chunks \in Seq(Chunks)
      /\ \A i \in DOMAIN r.pending : PrepSound(r.pending[i], rows, mixed)
  BY RunFacts DEF PrepareDoc
<1>2. r.todo[1] \in Found
  BY <1>1
<1>3. p \in Preps /\ p.ref = r.todo[1].ref /\ PrepSound(p, rows, mixed) /\ newChunks(p) \in Seq(Chunks)
  BY <1>2, PreparedSound DEF Found, DocsInductive
<1>4. Aligned(r.pending, r.chunks)
  BY <1>1 DEF InHand
<1>5. /\ UNCHANGED <<rows, mixed>> /\ DocFilesTyped' /\ FlagsTyped'
  BY DEF PrepareDoc, theWorld, DocsInductive, DocFilesTyped, FlagsTyped
<1>6. /\ Tail(r.todo) \in Seq(Found) /\ chunks \in Seq(Chunks)
      /\ <<p>> \o r.pending \in Seq(Preps) /\ Append(r.pending, p) \in Seq(Preps)
  BY <1>1, <1>3
<1>7. CASE p.fresh = <<>>
  <2> DEFINE s == [r EXCEPT !.todo = Tail(@), !.pc = "touch", !.pending = <<p>> \o @]
  <2>1. docRun' = [docRun EXCEPT ![w] = s]
    BY <1>7 DEF PrepareDoc, step
  <2> HIDE DEF p
  <2>2. s \in RunStates /\ s.pc = "touch" /\ s.todo = Tail(r.todo) /\ s.pending = <<p>> \o r.pending /\ s.chunks = r.chunks
        /\ s.vectors = r.vectors /\ s.tag = r.tag
    BY <1>1, <1>6 DEF RunStates, Stages
  <2>3. s.pending[1] = p
    BY <2>2, <1>1, <1>3
  <2> HIDE DEF r, s
  <2>4. EachOnce(s) /\ s.pending # <<>> /\ \A i \in DOMAIN s.pending : s.pending[i] = p \/ \E j \in DOMAIN r.pending : s.pending[i] = r.pending[j]
    <3>1. Moved(r, s, p)
      BY <2>2, <1>1, <1>3 DEF Moved
    <3>2. QED
      BY <3>1, OnceMoved
  <2>5. Aligned(s.pending, s.chunks)
    BY <2>2, <1>1, <1>3, <1>4, <1>7, AlignedFirst
  <2>6. InHand(s)
    BY <2>2, <2>3, <2>4, <2>5, <1>1, <1>7 DEF InHand
  <2>7. RunSound(s) /\ \A i \in DOMAIN s.pending : PrepSound(s.pending[i], rows, mixed)
    BY <2>2, <2>4, <2>6, <1>1, <1>3 DEF RunSound
  <2>8. QED
    BY <2>1, <2>7, <1>5, DocRunStep
<1>8. CASE p.fresh # <<>>
  <2> DEFINE s == [r EXCEPT !.todo = Tail(@), !.pending = Append(@, p), !.chunks = chunks,
                            !.pc = IF Len(chunks) >= EmbedBatch THEN "embed" ELSE @]
  <2>1. docRun' = [docRun EXCEPT ![w] = s]
    BY <1>8 DEF PrepareDoc, step
  <2> HIDE DEF p, chunks
  <2>2. s \in RunStates /\ s.pc \in {"docs", "embed"} /\ s.todo = Tail(r.todo) /\ s.pending = Append(r.pending, p) /\ s.chunks = chunks
        /\ s.vectors = r.vectors /\ s.tag = r.tag
    BY <1>1, <1>6 DEF RunStates, Stages
  <2> HIDE DEF r, s
  <2>3. EachOnce(s) /\ s.pending # <<>> /\ \A i \in DOMAIN s.pending : s.pending[i] = p \/ \E j \in DOMAIN r.pending : s.pending[i] = r.pending[j]
    <3>1. Moved(r, s, p)
      BY <2>2, <1>1, <1>3 DEF Moved
    <3>2. QED
      BY <3>1, OnceMoved
  <2>4. Aligned(s.pending, s.chunks)
    BY <2>2, <1>1, <1>3, <1>4, AlignedLast DEF chunks
  <2>5. InHand(s)
    BY <2>2, <2>3, <2>4, <1>1 DEF InHand
  <2>6. RunSound(s) /\ \A i \in DOMAIN s.pending : PrepSound(s.pending[i], rows, mixed)
    BY <2>2, <2>3, <2>5, <1>1, <1>3 DEF RunSound
  <2>7. QED
    BY <2>1, <2>6, <1>5, DocRunStep
<1>9. QED
  BY <1>7, <1>8

LEMMA DocsEnded ==
  ASSUME DocsInductive, NEW w \in DocRuns, EndOfDocs(w)
  PROVE  DocsInductive'
<1> DEFINE r == run(w)
           s == [r EXCEPT !.pc = IF r.pending # <<>> THEN "embed" ELSE "stale", !.todo = <<>>]
<1>1. r.pc = "docs" /\ r \in RunStates /\ EachOnce(r) /\ InHand(r) /\ \A i \in DOMAIN r.pending : PrepSound(r.pending[i], rows, mixed)
  BY RunFacts DEF EndOfDocs
<1>2. /\ docRun' = [docRun EXCEPT ![w] = s] /\ UNCHANGED <<rows, mixed>> /\ DocFilesTyped' /\ FlagsTyped'
  BY DEF EndOfDocs, step, theWorld, DocsInductive, DocFilesTyped, FlagsTyped
<1>3. <<>> \in Seq(Found) /\ DOMAIN <<>> = {}
  OBVIOUS
<1>4. s \in RunStates /\ s.pc = (IF r.pending # <<>> THEN "embed" ELSE "stale") /\ s.todo = <<>> /\ s.pending = r.pending
      /\ s.chunks = r.chunks /\ s.vectors = r.vectors /\ s.tag = r.tag
  BY <1>1, <1>3 DEF RunStates, Stages
<1> HIDE DEF r, s
<1>5. EachOnce(s)
  BY <1>1, <1>3, <1>4 DEF EachOnce
<1>6. InHand(s)
  BY <1>1, <1>4 DEF InHand
<1>7. RunSound(s)
  BY <1>4, <1>5, <1>6 DEF RunSound
<1>8. QED
  BY <1>1, <1>2, <1>4, <1>7, DocRunStep

\* The vectors of an answer are those of the chunks asked for.
Answered(r, c, to, s) ==
  /\ s \in RunStates /\ s.pc = to /\ s.chunks = <<>> /\ s.todo = r.todo /\ s.pending = r.pending /\ ChunksOf(s.vectors) = c
  /\ \A i \in DOMAIN s.vectors : s.vectors[i].by = "local" => s.tag = "local"

LEMMA AnswerSound ==
  ASSUME NEW w \in DocRuns, NEW c \in Seq(Chunks), NEW to \in Stages, run(w) \in RunStates, Embedded(w, c, to)
  PROVE  \E s : docRun' = [docRun EXCEPT ![w] = s] /\ (cooldown' = cooldown \/ cooldown' = TRUE) /\ Answered(run(w), c, to, s)
<1> DEFINE by(who) == [i \in DOMAIN c |-> [of |-> c[i], by |-> who]]
<1>1. /\ DOMAIN c = 1..Len(c) /\ Len(c) \in Nat /\ <<>> \in Seq(Chunks) /\ \A i \in DOMAIN c : c[i] \in Chunks
  OBVIOUS
<1>2. ASSUME NEW who \in Providers
      PROVE  by(who) \in Seq(Vectors) /\ ChunksOf(by(who)) = c /\ DOMAIN by(who) = DOMAIN c
             /\ \A i \in DOMAIN by(who) : by(who)[i].by = who
  <2>1. \A i \in DOMAIN c : [of |-> c[i], by |-> who] \in Vectors
    BY <1>1 DEF Vectors
  <2>2. by(who) \in [1..Len(c) -> Vectors]
    BY <1>1, <2>1
  <2>3. by(who) \in Seq(Vectors)
    BY <1>1, <2>2
  <2>4. DOMAIN by(who) = DOMAIN c /\ \A i \in DOMAIN c : by(who)[i].of = c[i] /\ by(who)[i].by = who
    OBVIOUS
  <2>5. ChunksOf(by(who)) = [i \in DOMAIN c |-> c[i]]
    BY <2>4 DEF ChunksOf
  <2>6. [i \in DOMAIN c |-> c[i]] = c
    OBVIOUS
  <2>7. QED
    BY <2>3, <2>4, <2>5, <2>6
<1>3. "voyage" \in Providers /\ "local" \in Providers
  BY DEF Providers
<1>4. CASE /\ ~cooldown /\ UNCHANGED cooldown
           /\ step(w, [run(w) EXCEPT !.pc = to, !.chunks = <<>>, !.vectors = by("voyage")])
  <2> DEFINE s == [run(w) EXCEPT !.pc = to, !.chunks = <<>>, !.vectors = by("voyage")]
  <2>1. docRun' = [docRun EXCEPT ![w] = s] /\ cooldown' = cooldown
    BY <1>4 DEF step
  <2> HIDE DEF by
  <2>2. s \in RunStates /\ s.pc = to /\ s.chunks = <<>> /\ s.todo = run(w).todo /\ s.pending = run(w).pending /\ s.vectors = by("voyage")
    BY <1>1, <1>2, <1>3 DEF RunStates
  <2> HIDE DEF s
  <2>3. ChunksOf(s.vectors) = c /\ \A i \in DOMAIN s.vectors : s.vectors[i].by = "voyage"
    BY <2>2, <1>2, <1>3
  <2>4. QED
    BY <2>1, <2>2, <2>3 DEF Answered
<1>5. CASE /\ cooldown' = TRUE
           /\ step(w, [run(w) EXCEPT !.pc = to, !.chunks = <<>>, !.tag = "local", !.vectors = by("local")])
  <2> DEFINE s == [run(w) EXCEPT !.pc = to, !.chunks = <<>>, !.tag = "local", !.vectors = by("local")]
  <2>1. docRun' = [docRun EXCEPT ![w] = s] /\ cooldown' = TRUE
    BY <1>5 DEF step
  <2> HIDE DEF by
  <2>2. s \in RunStates /\ s.pc = to /\ s.chunks = <<>> /\ s.todo = run(w).todo /\ s.pending = run(w).pending /\ s.vectors = by("local")
        /\ s.tag = "local"
    BY <1>1, <1>2, <1>3 DEF RunStates
  <2> HIDE DEF s
  <2>3. ChunksOf(s.vectors) = c
    BY <2>2, <1>2, <1>3
  <2>4. QED
    BY <2>1, <2>2, <2>3 DEF Answered
<1>6. QED
  BY <1>4, <1>5 DEF Embedded

LEMMA BatchEmbedded ==
  ASSUME DocsInductive, NEW w \in DocRuns, EmbedAll(w)
  PROVE  DocsInductive'
<1> DEFINE r == run(w)
<1>1. /\ r.pc = "embed" /\ r \in RunStates /\ EachOnce(r) /\ InHand(r) /\ r.chunks \in Seq(Chunks)
      /\ \A i \in DOMAIN r.pending : PrepSound(r.pending[i], rows, mixed)
  BY RunFacts DEF EmbedAll
<1>2. r.pending # <<>> /\ Aligned(r.pending, r.chunks)
  BY <1>1 DEF InHand
<1>3. DocFilesTyped' /\ cancelled' = cancelled
  BY DEF EmbedAll, theWorld, DocsInductive, DocFilesTyped
<1>4. CASE Embedded(w, r.chunks, "write") /\ UNCHANGED <<rows, mixed>>
  <2>1. PICK c \in Seq(Chunks) : c = r.chunks
    BY <1>1
  <2>2. PICK to \in Stages : to = "write"
    BY DEF Stages
  <2>3. run(w) \in RunStates /\ Embedded(w, c, to)
    BY <1>1, <1>4, <2>1, <2>2 DEF Embedded
  <2>4. PICK s : docRun' = [docRun EXCEPT ![w] = s] /\ (cooldown' = cooldown \/ cooldown' = TRUE) /\ Answered(run(w), c, to, s)
    BY <2>3, AnswerSound
  <2>5. /\ s \in RunStates /\ docRun' = [docRun EXCEPT ![w] = s] /\ (cooldown' = cooldown \/ cooldown' = TRUE)
        /\ s.pc = "write" /\ s.chunks = <<>> /\ s.todo = r.todo /\ s.pending = r.pending /\ ChunksOf(s.vectors) = c
        /\ \A i \in DOMAIN s.vectors : s.vectors[i].by = "local" => s.tag = "local"
    BY <2>2, <2>4 DEF Answered
  <2>6. EachOnce(s) /\ InHand(s)
    BY <2>1, <2>5, <1>1, <1>2 DEF EachOnce, InHand
  <2>7. FlagsTyped'
    BY <2>5, <1>3, <1>4 DEF DocsInductive, FlagsTyped
  <2>8. RunSound(s) /\ \A i \in DOMAIN s.pending : PrepSound(s.pending[i], rows, mixed)
    BY <2>5, <2>6, <1>1 DEF RunSound
  <2>9. QED
    BY <2>5, <2>7, <2>8, <1>3, <1>4, DocRunStep
<1>5. CASE EmbedThrows(w) /\ step(w, [r EXCEPT !.pc = "single", !.chunks = <<>>])
  <2> DEFINE s == [r EXCEPT !.pc = "single", !.chunks = <<>>]
  <2>1. docRun' = [docRun EXCEPT ![w] = s] /\ cooldown' = TRUE /\ UNCHANGED <<rows, mixed>>
    BY <1>5 DEF step, EmbedThrows
  <2>2. "single" \in Stages /\ <<>> \in Seq(Chunks)
    BY DEF Stages
  <2>3. s \in RunStates /\ s.pc = "single" /\ s.chunks = <<>> /\ s.todo = r.todo /\ s.pending = r.pending
        /\ s.vectors = r.vectors /\ s.tag = r.tag
    BY <2>2, <1>1 DEF RunStates
  <2> HIDE DEF r, s
  <2>4. EachOnce(s) /\ InHand(s)
    BY <2>3, <1>1, <1>2 DEF EachOnce, InHand
  <2>5. FlagsTyped'
    BY <2>1, <1>3 DEF DocsInductive, FlagsTyped
  <2>6. RunSound(s) /\ \A i \in DOMAIN s.pending : PrepSound(s.pending[i], rows, mixed)
    BY <2>3, <2>4, <1>1 DEF RunSound
  <2>7. QED
    BY <2>1, <2>5, <2>6, <1>3, DocRunStep
<1>6. QED
  BY <1>4, <1>5 DEF EmbedAll

\* A run that goes on to the next of its documents, after the first has failed or is written.
LEMMA NextSound ==
  ASSUME NEW w \in DocRuns, run(w) \in RunStates, EachOnce(run(w)), InHand(run(w)), run(w).pc \in {"single", "singleWrite"},
         NEW s, s = NextPending(w, Tail(run(w).pending), "single")
  PROVE  RunSound(s) /\ s.pending = Tail(run(w).pending)
<1> DEFINE r == run(w)
           rest == Tail(r.pending)
<1>1. r.pending # <<>> /\ r.chunks = <<>> /\ r.pending \in Seq(Preps)
  BY DEF InHand, RunStates
<1>2. rest \in Seq(Preps) /\ <<>> \in Seq(Vectors) /\ DOMAIN <<>> = {} /\ {"single", "docs"} \subseteq Stages
  BY <1>1 DEF Stages
<1> HIDE DEF rest
<1>3. /\ s \in RunStates /\ s.pending = rest /\ s.vectors = <<>> /\ s.pc = (IF rest = <<>> THEN "docs" ELSE "single")
      /\ s.todo = r.todo /\ s.chunks = r.chunks
  BY <1>1, <1>2 DEF NextPending, RunStates, rest
<1> HIDE DEF r
<1>4. EachOnce(s)
  <2>1. r.pending \in Seq(Preps) /\ EachOnce(r) /\ r.pending # <<>> /\ s.todo = r.todo /\ s.pending = Tail(r.pending)
    BY <1>1, <1>3 DEF rest, r
  <2>2. QED
    BY <2>1, OnceRest
<1>5. InHand(s)
  BY <1>1, <1>2, <1>3, AlignedNone DEF InHand
<1>6. QED
  BY <1>3, <1>4, <1>5 DEF RunSound, rest, r

LEMMA SingleEmbedded ==
  ASSUME DocsInductive, NEW w \in DocRuns, EmbedSingle(w)
  PROVE  DocsInductive'
<1> DEFINE r == run(w)
<1>1. /\ r.pc = "single" /\ r \in RunStates /\ EachOnce(r) /\ InHand(r) /\ r.pending \in Seq(Preps)
      /\ \A i \in DOMAIN r.pending : PrepSound(r.pending[i], rows, mixed) /\ r.pending[i] \in Preps
  BY RunFacts DEF EmbedSingle
<1>2. r.pending # <<>> /\ r.chunks = <<>> /\ 1 \in DOMAIN r.pending
  BY <1>1 DEF InHand
<1>3. DocFilesTyped' /\ cancelled' = cancelled
  BY DEF EmbedSingle, theWorld, DocsInductive, DocFilesTyped
<1>4. CASE Embedded(w, newChunks(r.pending[1]), "singleWrite") /\ UNCHANGED <<rows, mixed>>
  <2>1. r.pending[1] \in Preps /\ r.pending[1].text \in DocTexts /\ PrepSound(r.pending[1], rows, mixed)
    BY <1>1, <1>2 DEF Preps
  <2>2. PICK c \in Seq(Chunks) : c = newChunks(r.pending[1])
    BY <2>1, ChunksFacts
  <2>3. PICK to \in Stages : to = "singleWrite"
    BY DEF Stages
  <2>4. run(w) \in RunStates /\ Embedded(w, c, to)
    BY <1>1, <1>4, <2>2, <2>3 DEF Embedded
  <2>5. PICK s : docRun' = [docRun EXCEPT ![w] = s] /\ (cooldown' = cooldown \/ cooldown' = TRUE) /\ Answered(run(w), c, to, s)
    BY <2>4, AnswerSound
  <2>6. /\ s \in RunStates /\ s.pc = "singleWrite" /\ s.chunks = <<>> /\ s.todo = r.todo /\ s.pending = r.pending
        /\ ChunksOf(s.vectors) = newChunks(s.pending[1])
        /\ \A i \in DOMAIN s.vectors : s.vectors[i].by = "local" => s.tag = "local"
    BY <2>2, <2>3, <2>5 DEF Answered
  <2>7. EachOnce(s) /\ InHand(s)
    BY <2>6, <1>1, <1>2 DEF EachOnce, InHand
  <2>8. FlagsTyped'
    BY <2>5, <1>3, <1>4 DEF DocsInductive, FlagsTyped
  <2>9. RunSound(s) /\ \A i \in DOMAIN s.pending : PrepSound(s.pending[i], rows, mixed)
    BY <2>6, <2>7, <1>1 DEF RunSound
  <2>10. QED
    BY <2>5, <2>8, <2>9, <1>3, <1>4, DocRunStep
<1>5. CASE EmbedThrows(w) /\ step(w, NextPending(w, Tail(r.pending), "single"))
  <2> DEFINE s == NextPending(w, Tail(r.pending), "single")
  <2>1. docRun' = [docRun EXCEPT ![w] = s] /\ cooldown' = TRUE /\ UNCHANGED <<rows, mixed>>
    BY <1>5 DEF step, EmbedThrows
  <2>2. RunSound(s) /\ s.pending = Tail(r.pending)
    BY <1>1, NextSound
  <2> HIDE DEF s
  <2>3. FlagsTyped'
    BY <2>1, <1>3 DEF DocsInductive, FlagsTyped
  <2>4. \A i \in DOMAIN s.pending : PrepSound(s.pending[i], rows, mixed)
    <3>1. \A i \in DOMAIN s.pending : i + 1 \in DOMAIN r.pending /\ s.pending[i] = r.pending[i + 1]
      BY <2>2, <1>1, <1>2
    <3>2. QED
      BY <3>1, <1>1
  <2>5. QED
    BY <2>1, <2>2, <2>3, <2>4, <1>3, DocRunStep
<1>6. QED
  BY <1>4, <1>5 DEF EmbedSingle

LEMMA JobsSteps ==
  ASSUME DocsInductive, \/ \E w \in DocRuns : cancelJob(w) \/ startJob(w)
                        \/ EditDoc \/ CooldownOver
  PROVE  DocsInductive'
<1>1. ASSUME NEW w \in DocRuns, startJob(w) PROVE DocsInductive'
  <2>1. docRun' = [docRun EXCEPT ![w] = IdleRun] /\ UNCHANGED <<rows, mixed>> /\ DocFilesTyped' /\ FlagsTyped'
    BY <1>1 DEF startJob, step, theWorld, DocsInductive, DocFilesTyped, FlagsTyped
  <2>2. RunSound(IdleRun) /\ \A i \in DOMAIN IdleRun.pending : PrepSound(IdleRun.pending[i], rows, mixed)
    BY IdleSound
  <2>3. QED
    BY <2>1, <2>2, DocRunStep
<1>2. ASSUME UNCHANGED <<rows, mixed, docRun>>, DocFilesTyped', FlagsTyped' PROVE DocsInductive'
  <2>1. RowsTyped'
    BY <1>2 DEF DocsInductive, RowsTyped
  <2>2. RowsSound'
    BY <1>2 DEF DocsInductive, RowsSound, VectorsTrue
  <2>3. RunsSound' /\ PrepsSound'
    BY <1>2 DEF DocsInductive, RunsSound, PrepsSound
  <2>4. QED
    BY <1>2, <2>1, <2>2, <2>3 DEF DocsInductive
<1>3. ASSUME NEW w \in DocRuns, cancelJob(w) PROVE DocsInductive'
  <2>1. UNCHANGED <<rows, mixed, docRun>> /\ DocFilesTyped' /\ FlagsTyped'
    BY <1>3 DEF cancelJob, theWorld, DocsInductive, DocFilesTyped, FlagsTyped
  <2>2. QED
    BY <2>1, <1>2
<1>4. ASSUME EditDoc PROVE DocsInductive'
  <2>1. UNCHANGED <<rows, mixed, docRun>> /\ DocFilesTyped' /\ FlagsTyped'
    BY <1>4 DEF EditDoc, DocsInductive, DocFilesTyped, FlagsTyped
  <2>2. QED
    BY <2>1, <1>2
<1>5. ASSUME CooldownOver PROVE DocsInductive'
  <2>1. UNCHANGED <<rows, mixed, docRun>> /\ DocFilesTyped' /\ FlagsTyped'
    BY <1>5 DEF CooldownOver, theWorld, DocsInductive, DocFilesTyped, FlagsTyped
  <2>2. QED
    BY <2>1, <1>2
<1>6. QED
  BY <1>1, <1>3, <1>4, <1>5

-----------------------------------------------------------------------------
(* Writes *)

LEMMA PrepFacts ==
  ASSUME NEW p, NEW R, NEW M, PrepSound(p, R, M)
  PROVE  /\ \A j, k \in DOMAIN p.fresh : p.fresh[j] \in DOMAIN p.text /\ (p.fresh[j] = p.fresh[k] => j = k)
         /\ p.reuse \cap p.dead = {}
         /\ \A r \in R : r.id \in p.reuse => r.ref = p.ref /\ r.index \in DOMAIN p.text /\ r.content = p.text[r.index]
         /\ \A r \in R : r.id \in p.dead => r.ref = p.ref
         /\ p.ref \notin M => \A r \in R : r.ref = p.ref => r.id \in p.reuse \cup p.dead
         /\ p.ref \notin M =>
              \A i \in DOMAIN p.text : (\E r \in R : r.id \in p.reuse /\ r.index = i) <=> (\A k \in DOMAIN p.fresh : p.fresh[k] # i)
BY DEF PrepSound

NewRow(w, p, vectors, k) ==
  [id |-> InOrder(FreeIds)[k], ref |-> p.ref, index |-> p.fresh[k], content |-> p.text[p.fresh[k]],
   hash |-> p.text, vector |-> vectors[k], tag |-> run(w).tag]
TouchedRow(p, r, o) ==
  /\ o.id \in p.reuse /\ r = [o EXCEPT !.hash = p.text] /\ r.id = o.id /\ r.ref = o.ref /\ r.index = o.index
  /\ r.content = o.content /\ r.vector = o.vector /\ r.tag = o.tag /\ r.hash = p.text

LEMMA FreeOrder ==
  /\ FreeIds \subseteq DocRowIds /\ InOrder(FreeIds) \in Seq(FreeIds) /\ Cardinality(FreeIds) \in Nat
  /\ DOMAIN InOrder(FreeIds) = 1..Cardinality(FreeIds)
  /\ \A j, k \in DOMAIN InOrder(FreeIds) : InOrder(FreeIds)[j] = InOrder(FreeIds)[k] => j = k
<1>1. FreeIds \in SUBSET DocRowIds
  BY DEF FreeIds
<1>2. FreeIds \subseteq Nat /\ IsFiniteSet(FreeIds)
  BY <1>1, DocsFacts, FS_Subset
<1>3. QED
  BY <1>1, <1>2, Ordered

\* The rows a write leaves: those of others, those touched, those new.
LEMMA WrittenDocRows ==
  ASSUME DocsInductive, NEW w \in DocRuns, NEW p \in Preps, p \in Prepared(w), PrepSound(p, rows, mixed), NEW vectors,
         writeSourceDoc(w, p, vectors), \A k \in DOMAIN p.fresh : vectors[k] \in Vectors
  PROVE  \A r \in rows' :
           /\ r \in DocRows
           /\ \/ r \in rows /\ r.id \notin p.reuse \cup p.dead
              \/ \E o \in rows : TouchedRow(p, r, o)
              \/ \E k \in DOMAIN p.fresh : r = NewRow(w, p, vectors, k) /\ k \in DOMAIN InOrder(FreeIds) /\ r.id \in FreeIds
<1> DEFINE kept == {row \in rows : row.id \notin p.reuse \cup p.dead}
<1>1. rows' = kept \cup Touched(p) \cup {NewRow(w, p, vectors, k) : k \in DOMAIN p.fresh}
  BY DEF writeSourceDoc, NewRow
<1>2. rows \subseteq DocRows /\ p.text \in DocTexts /\ p.ref \in DocSet /\ run(w).tag \in Providers
  BY RunFacts DEF DocsInductive, RowsTyped, Preps, RunStates
<1>3. ASSUME NEW o \in DocRows
      PROVE  LET r == [o EXCEPT !.hash = p.text] IN
               /\ r \in DocRows /\ r.id = o.id /\ r.ref = o.ref /\ r.index = o.index
               /\ r.content = o.content /\ r.vector = o.vector /\ r.tag = o.tag /\ r.hash = p.text
  BY <1>2 DEF DocRows
<1>4. ASSUME NEW r \in Touched(p)
      PROVE  /\ r \in DocRows
             /\ \E o \in rows : TouchedRow(p, r, o)
  <2>1. PICK o \in rows : o.id \in p.reuse /\ r = [o EXCEPT !.hash = p.text]
    BY DEF Touched
  <2>2. o \in DocRows
    BY <2>1, <1>2
  <2>3. r \in DocRows /\ TouchedRow(p, r, o)
    BY <2>1, <2>2, <1>3 DEF TouchedRow
  <2>4. QED
    BY <2>1, <2>3
<1>5. ASSUME NEW k \in DOMAIN p.fresh PROVE k \in DOMAIN InOrder(FreeIds) /\ InOrder(FreeIds)[k] \in FreeIds /\ FreeIds \subseteq DocRowIds
  <2>1. p.fresh \in Seq(Nat) /\ Cardinality(FreeIds) >= Len(p.fresh)
    BY DEF Preps, writeSourceDoc
  <2>2. k \in DOMAIN InOrder(FreeIds)
    BY <2>1, FreeOrder
  <2>3. QED
    BY <2>2, FreeOrder
<1>6. ASSUME NEW k \in DOMAIN p.fresh
      PROVE  NewRow(w, p, vectors, k) \in DocRows
  <2>1. p.fresh[k] \in DOMAIN p.text
    BY DEF PrepSound
  <2>2. p.text[p.fresh[k]] \in Chunks /\ p.fresh[k] \in Nat \ {0}
    BY <2>1, <1>2, DocsFacts
  <2>3. vectors[k] \in Vectors
    OBVIOUS
  <2>4. QED
    BY <2>2, <2>3, <1>2, <1>5 DEF DocRows, NewRow
<1> SUFFICES ASSUME NEW r \in rows'
             PROVE  /\ r \in DocRows
                    /\ \/ r \in rows /\ r.id \notin p.reuse \cup p.dead
                       \/ \E o \in rows : TouchedRow(p, r, o)
                       \/ \E k \in DOMAIN p.fresh : r = NewRow(w, p, vectors, k) /\ k \in DOMAIN InOrder(FreeIds) /\ r.id \in FreeIds
  OBVIOUS
<1>7. CASE r \in kept
  BY <1>7, <1>2
<1>8. CASE r \in Touched(p)
  BY <1>8, <1>4
<1>9. CASE \E k \in DOMAIN p.fresh : r = NewRow(w, p, vectors, k)
  <2>1. PICK k \in DOMAIN p.fresh : r = NewRow(w, p, vectors, k)
    BY <1>9
  <2>2. r.id = InOrder(FreeIds)[k]
    BY <2>1 DEF NewRow
  <2>3. QED
    BY <2>1, <2>2, <1>5, <1>6
<1>10. QED
  BY <1>1, <1>7, <1>8, <1>9

\* Every row that is kept or touched, and every new chunk, is there afterwards.
LEMMA WrittenAll ==
  ASSUME DocsInductive, NEW w \in DocRuns, NEW p \in Preps, NEW vectors, writeSourceDoc(w, p, vectors)
  PROVE  /\ \A o \in rows : o.id \notin p.reuse \cup p.dead => o \in rows'
         /\ \A o \in rows : o.id \in p.reuse => \E r \in rows' : r.id = o.id /\ r.ref = o.ref /\ r.index = o.index
         /\ \A k \in DOMAIN p.fresh : \E r \in rows' : r.ref = p.ref /\ r.index = p.fresh[k]
<1> DEFINE kept == {row \in rows : row.id \notin p.reuse \cup p.dead}
<1>1. rows' = kept \cup Touched(p) \cup {NewRow(w, p, vectors, k) : k \in DOMAIN p.fresh}
  BY DEF writeSourceDoc, NewRow
<1>2. ASSUME NEW o \in rows, o.id \in p.reuse PROVE \E r \in rows' : r.id = o.id /\ r.ref = o.ref /\ r.index = o.index
  <2> DEFINE r == [o EXCEPT !.hash = p.text]
  <2>1. o \in DocRows
    BY DEF DocsInductive, RowsTyped
  <2>2. r.id = o.id /\ r.ref = o.ref /\ r.index = o.index
    BY <2>1 DEF DocRows
  <2>3. r \in Touched(p)
    BY <1>2 DEF Touched
  <2>4. QED
    BY <2>2, <2>3, <1>1
<1>3. ASSUME NEW k \in DOMAIN p.fresh PROVE \E r \in rows' : r.ref = p.ref /\ r.index = p.fresh[k]
  <2>1. NewRow(w, p, vectors, k) \in rows'
    BY <1>1
  <2>2. NewRow(w, p, vectors, k).ref = p.ref /\ NewRow(w, p, vectors, k).index = p.fresh[k]
    BY DEF NewRow
  <2>3. QED
    BY <2>1, <2>2
<1>4. QED
  BY <1>1, <1>2, <1>3

\* What a write leaves is one row per id, each with the vector of its chunk.
LEMMA WriteTyped ==
  ASSUME DocsInductive, NEW w \in DocRuns, NEW p \in Preps, p \in Prepared(w), PrepSound(p, rows, mixed), NEW vectors,
         writeSourceDoc(w, p, vectors),
         \A k \in DOMAIN p.fresh : /\ vectors[k] \in Vectors /\ vectors[k].of = p.text[p.fresh[k]]
                                   /\ vectors[k].by = "local" => run(w).tag = "local"
  PROVE  RowsTyped' /\ VectorsTrue'
<1>1. \A r \in rows' :
        /\ r \in DocRows
        /\ \/ r \in rows /\ r.id \notin p.reuse \cup p.dead
           \/ \E o \in rows : TouchedRow(p, r, o)
           \/ \E k \in DOMAIN p.fresh : r = NewRow(w, p, vectors, k) /\ k \in DOMAIN InOrder(FreeIds) /\ r.id \in FreeIds
  BY WrittenDocRows
<1>2. \A r, s \in rows : r.id = s.id => r = s
  BY DEF DocsInductive, RowsTyped
<1>3. \A o \in rows : o.id \notin FreeIds
  BY DEF FreeIds
<1>4. ASSUME NEW r \in rows', NEW s \in rows', r.id = s.id PROVE r = s
  <2>1. CASE r.id \in FreeIds
    <3>1. \A x \in rows' : x.id \in FreeIds => \E k \in DOMAIN p.fresh : x = NewRow(w, p, vectors, k) /\ k \in DOMAIN InOrder(FreeIds)
      BY <1>1, <1>3 DEF TouchedRow
    <3>2. PICK j \in DOMAIN p.fresh : r = NewRow(w, p, vectors, j) /\ j \in DOMAIN InOrder(FreeIds)
      BY <2>1, <3>1
    <3>3. PICK k \in DOMAIN p.fresh : s = NewRow(w, p, vectors, k) /\ k \in DOMAIN InOrder(FreeIds)
      BY <2>1, <3>1, <1>4
    <3>4. r.id = InOrder(FreeIds)[j] /\ s.id = InOrder(FreeIds)[k]
      BY <3>2, <3>3 DEF NewRow
    <3>5. j = k
      BY <3>2, <3>3, <3>4, <1>4, FreeOrder
    <3>6. QED
      BY <3>2, <3>3, <3>5
  <2>2. CASE r.id \notin FreeIds
    <3>1. \A x \in rows' : x.id \notin FreeIds => \/ x \in rows /\ x.id \notin p.reuse \cup p.dead
                                                  \/ \E o \in rows : TouchedRow(p, x, o)
      BY <1>1
    <3> DEFINE image(o) == IF o.id \in p.reuse THEN [o EXCEPT !.hash = p.text] ELSE o
    <3>2. ASSUME NEW x \in rows', x.id \notin FreeIds
          PROVE  \E o \in rows : o.id = x.id /\ x = image(o)
      <4>1. CASE x \in rows /\ x.id \notin p.reuse \cup p.dead
        <5>1. x \in rows /\ x.id = x.id /\ x = image(x)
          BY <4>1
        <5>2. QED
          BY <5>1
      <4>2. CASE \E o \in rows : TouchedRow(p, x, o)
        <5>1. PICK o \in rows : TouchedRow(p, x, o)
          BY <4>2
        <5>2. o.id = x.id /\ x = image(o)
          BY <5>1 DEF TouchedRow
        <5>3. QED
          BY <5>2
      <4>3. QED
        BY <3>1, <3>2, <4>1, <4>2
    <3> HIDE DEF image
    <3>3. PICK o \in rows : o.id = r.id /\ r = image(o)
      BY <2>2, <3>2
    <3>4. PICK q \in rows : q.id = s.id /\ s = image(q)
      BY <2>2, <3>2, <1>4
    <3>5. o = q
      BY <3>3, <3>4, <1>2, <1>4
    <3>6. QED
      BY <3>3, <3>4, <3>5
  <2>3. QED
    BY <2>1, <2>2
<1>5. ASSUME NEW r \in rows' PROVE r.vector.of = r.content /\ (r.vector.by = "local" => r.tag = "local")
  <2>1. \A o \in rows : o.vector.of = o.content /\ (o.vector.by = "local" => o.tag = "local")
    BY DEF DocsInductive, RowsSound, VectorsTrue
  <2>2. CASE r \in rows
    BY <2>1, <2>2
  <2>3. CASE \E o \in rows : TouchedRow(p, r, o)
    BY <2>1, <2>3 DEF TouchedRow
  <2>4. CASE \E k \in DOMAIN p.fresh : r = NewRow(w, p, vectors, k)
    <3>1. PICK k \in DOMAIN p.fresh : r = NewRow(w, p, vectors, k)
      BY <2>4
    <3>2. r.vector = vectors[k] /\ r.content = p.text[p.fresh[k]] /\ r.tag = run(w).tag
      BY <3>1 DEF NewRow
    <3>3. QED
      BY <3>2
  <2>5. QED
    BY <2>2, <2>3, <2>4, <1>1
<1>6. RowsTyped'
  BY <1>1, <1>4 DEF RowsTyped
<1>7. QED
  BY <1>5, <1>6 DEF VectorsTrue

\* What is in hand elsewhere still speaks of its rows; of the same document only what is not lost is claimed.
LEMMA WritePreps ==
  ASSUME DocsInductive, NEW w \in DocRuns, NEW p \in Preps, p \in Prepared(w), PrepSound(p, rows, mixed), NEW vectors,
         writeSourceDoc(w, p, vectors), \A k \in DOMAIN p.fresh : vectors[k] \in Vectors,
         NEW v \in DocRuns, NEW q \in Preps, q \in Prepared(v), PrepSound(q, rows, mixed), q.ref # p.ref \/ v # w
  PROVE  PrepSound(q, rows', mixed')
<1>1. \A r \in rows' :
        \/ r \in rows /\ r.id \notin p.reuse \cup p.dead
        \/ \E o \in rows : TouchedRow(p, r, o)
        \/ \E k \in DOMAIN p.fresh : r = NewRow(w, p, vectors, k) /\ r.id \in FreeIds
  BY WrittenDocRows
<1>2. \A r \in rows' : r.id \in FreeIds => r.id \notin q.reuse \cup q.dead
  BY DEF FreeIds, HeldIds
<1>3. mixed' = mixed \cup {d \in {p.ref} : \E u \in DocRuns \ {w} : \E x \in Prepared(u) : x.ref = d}
  BY DEF writeSourceDoc, Disturbed
<1>4. ASSUME NEW r \in rows' PROVE \/ r.ref = p.ref /\ r.id \in FreeIds
                                   \/ \E o \in rows : r.id = o.id /\ r.ref = o.ref /\ r.index = o.index /\ r.content = o.content
  <2>1. CASE r \in rows
    BY <2>1
  <2>2. CASE \E o \in rows : TouchedRow(p, r, o)
    BY <2>2 DEF TouchedRow
  <2>3. CASE \E k \in DOMAIN p.fresh : r = NewRow(w, p, vectors, k) /\ r.id \in FreeIds
    BY <2>3 DEF NewRow
  <2>4. QED
    BY <2>1, <2>2, <2>3, <1>1
<1>5. /\ \A r \in rows' : r.id \in q.reuse => r.ref = q.ref /\ r.index \in DOMAIN q.text /\ r.content = q.text[r.index]
      /\ \A r \in rows' : r.id \in q.dead => r.ref = q.ref
  <2>1. /\ \A o \in rows : o.id \in q.reuse => o.ref = q.ref /\ o.index \in DOMAIN q.text /\ o.content = q.text[o.index]
        /\ \A o \in rows : o.id \in q.dead => o.ref = q.ref
    BY PrepFacts
  <2>2. QED
    BY <2>1, <1>2, <1>4
<1>6. ASSUME q.ref \notin mixed'
      PROVE  /\ \A r \in rows' : r.ref = q.ref => r.id \in q.reuse \cup q.dead
             /\ \A i \in DOMAIN q.text : (\E r \in rows' : r.id \in q.reuse /\ r.index = i) <=> (\A k \in DOMAIN q.fresh : q.fresh[k] # i)
  <2>1. q.ref # p.ref /\ q.ref \notin mixed
    BY <1>3, <1>6
  <2>2. /\ \A r \in rows : r.ref = q.ref => r.id \in q.reuse \cup q.dead
        /\ \A i \in DOMAIN q.text : (\E r \in rows : r.id \in q.reuse /\ r.index = i) <=> (\A k \in DOMAIN q.fresh : q.fresh[k] # i)
    BY <2>1, PrepFacts
  <2>3. \A r \in rows : r.id \in q.reuse => r.id \notin p.reuse \cup p.dead /\ r \in rows'
    <3>1. \A r \in rows : r.id \in q.reuse => r.ref = q.ref
      BY PrepFacts
    <3>2. \A r \in rows : r.id \in p.reuse \cup p.dead => r.ref = p.ref
      BY PrepFacts
    <3>3. QED
      BY <3>1, <3>2, <2>1, WrittenAll
  <2>4. \A r \in rows' : r.ref = q.ref => r.id \in q.reuse \cup q.dead
    BY <2>1, <2>2, <1>4
  <2>5. ASSUME NEW i \in DOMAIN q.text
        PROVE  (\E r \in rows' : r.id \in q.reuse /\ r.index = i) <=> (\E r \in rows : r.id \in q.reuse /\ r.index = i)
    BY <2>3, <1>2, <1>4
  <2>6. QED
    BY <2>2, <2>4, <2>5
<1>7. /\ \A j, k \in DOMAIN q.fresh : q.fresh[j] \in DOMAIN q.text /\ (q.fresh[j] = q.fresh[k] => j = k)
      /\ q.reuse \cap q.dead = {}
  BY DEF PrepSound
<1>8. QED
  BY <1>5, <1>6, <1>7 DEF PrepSound

\* A document is after a write one text, chunk by chunk.
LEMMA WriteWhole ==
  ASSUME DocsInductive, NEW w \in DocRuns, NEW p \in Preps, p \in Prepared(w), PrepSound(p, rows, mixed), NEW vectors,
         writeSourceDoc(w, p, vectors), \A k \in DOMAIN p.fresh : vectors[k] \in Vectors,
         NEW d \in DocSet \ mixed'
  PROVE  WholeDoc(d, rows')
<1>1. \A r \in rows' :
        \/ r \in rows /\ r.id \notin p.reuse \cup p.dead
        \/ \E o \in rows : TouchedRow(p, r, o)
        \/ \E k \in DOMAIN p.fresh : r = NewRow(w, p, vectors, k)
  BY WrittenDocRows
<1>2. d \notin mixed /\ WholeDoc(d, rows)
  BY DEF writeSourceDoc, Disturbed, DocsInductive, RowsSound
<1>3. \A r \in rows : r.id \in p.reuse \cup p.dead => r.ref = p.ref
  BY PrepFacts
<1>4. CASE d # p.ref
  <2>1. \A r \in rows' : r.ref = d => r \in rows
    <3>1. SUFFICES ASSUME NEW r \in rows', r.ref = d PROVE r \in rows
      OBVIOUS
    <3>2. ~ \E k \in DOMAIN p.fresh : r = NewRow(w, p, vectors, k)
      BY <3>1, <1>4 DEF NewRow
    <3>3. ~ \E o \in rows : TouchedRow(p, r, o)
      BY <3>1, <1>3, <1>4 DEF TouchedRow
    <3>4. QED
      BY <3>1, <3>2, <3>3, <1>1
  <2>2. \A r \in rows : r.ref = d => r \in rows'
    BY <1>3, <1>4, WrittenAll
  <2>3. QED
    BY <2>1, <2>2, <1>2 DEF WholeDoc
<1>5. CASE d = p.ref
  <2>1. /\ \A r \in rows : r.ref = d => r.id \in p.reuse \cup p.dead
        /\ \A i \in DOMAIN p.text : (\E r \in rows : r.id \in p.reuse /\ r.index = i) <=> (\A k \in DOMAIN p.fresh : p.fresh[k] # i)
        /\ \A r \in rows : r.id \in p.reuse => r.index \in DOMAIN p.text /\ r.content = p.text[r.index]
        /\ \A j, k \in DOMAIN p.fresh : p.fresh[j] \in DOMAIN p.text /\ (p.fresh[j] = p.fresh[k] => j = k)
    BY <1>2, <1>5, PrepFacts
  <2>2. ASSUME NEW r \in rows', r.ref = d
        PROVE  \/ \E o \in rows : TouchedRow(p, r, o)
               \/ \E k \in DOMAIN p.fresh : r = NewRow(w, p, vectors, k)
    BY <2>1, <2>2, <1>1
  <2>3. ASSUME NEW r \in rows', r.ref = d PROVE r.index \in DOMAIN p.text /\ r.content = p.text[r.index] /\ r.hash = p.text
    <3>1. CASE \E o \in rows : TouchedRow(p, r, o)
      BY <3>1, <2>1 DEF TouchedRow
    <3>2. CASE \E k \in DOMAIN p.fresh : r = NewRow(w, p, vectors, k)
      BY <3>2, <2>1 DEF NewRow
    <3>3. QED
      BY <3>1, <3>2, <2>2, <2>3
  <2>4. ASSUME NEW r \in rows', NEW s \in rows', r.ref = d, s.ref = d, r.index = s.index PROVE r = s
    <3>1. CASE (\E o \in rows : TouchedRow(p, r, o)) /\ (\E q \in rows : TouchedRow(p, s, q))
      <4>1. PICK o \in rows : TouchedRow(p, r, o)
        BY <3>1
      <4>2. PICK q \in rows : TouchedRow(p, s, q)
        BY <3>1
      <4>3. o.ref = d /\ q.ref = d /\ o.index = q.index
        BY <4>1, <4>2, <2>4 DEF TouchedRow
      <4>4. o = q
        BY <4>3, <1>2 DEF WholeDoc
      <4>5. QED
        BY <4>1, <4>2, <4>4 DEF TouchedRow
    <3>2. CASE (\E j \in DOMAIN p.fresh : r = NewRow(w, p, vectors, j)) /\ (\E k \in DOMAIN p.fresh : s = NewRow(w, p, vectors, k))
      <4>1. PICK j \in DOMAIN p.fresh : r = NewRow(w, p, vectors, j)
        BY <3>2
      <4>2. PICK k \in DOMAIN p.fresh : s = NewRow(w, p, vectors, k)
        BY <3>2
      <4>3. p.fresh[j] = p.fresh[k]
        BY <4>1, <4>2, <2>4 DEF NewRow
      <4>4. j = k
        BY <4>3, <2>1
      <4>5. QED
        BY <4>1, <4>2, <4>4
    <3>3. ASSUME NEW x, NEW y, x.index = y.index, \E o \in rows : TouchedRow(p, x, o), \E k \in DOMAIN p.fresh : y = NewRow(w, p, vectors, k)
          PROVE  FALSE
      <4>1. PICK o \in rows : TouchedRow(p, x, o)
        BY <3>3
      <4>2. PICK k \in DOMAIN p.fresh : y = NewRow(w, p, vectors, k)
        BY <3>3
      <4>3. o.id \in p.reuse /\ o.index = p.fresh[k] /\ p.fresh[k] \in DOMAIN p.text
        BY <4>1, <4>2, <3>3, <2>1 DEF TouchedRow, NewRow
      <4>4. QED
        BY <4>3, <2>1
    <3>4. QED
      BY <3>1, <3>2, <3>3, <2>2, <2>4
  <2>5. ASSUME NEW i \in DOMAIN p.text PROVE \E r \in rows' : r.ref = d /\ r.index = i
    <3>1. CASE \E k \in DOMAIN p.fresh : p.fresh[k] = i
      BY <3>1, <1>5, WrittenAll
    <3>2. CASE \A k \in DOMAIN p.fresh : p.fresh[k] # i
      <4>1. PICK o \in rows : o.id \in p.reuse /\ o.index = i
        BY <3>2, <2>1
      <4>2. o.ref = d
        BY <4>1, <1>3, <1>5
      <4>3. QED
        BY <4>1, <4>2, WrittenAll
    <3>3. QED
      BY <3>1, <3>2
  <2>6. p.text \in DocTexts
    BY DEF Preps
  <2>7. QED
    BY <2>3, <2>4, <2>5, <2>6 DEF WholeDoc
<1>6. QED
  BY <1>4, <1>5

-----------------------------------------------------------------------------
(* The steps that write *)

\* The first document of a run, and what is in hand after it.
LEMMA FirstOf ==
  ASSUME DocsInductive, NEW w \in DocRuns, run(w).pending # <<>>
  PROVE  /\ run(w).pending[1] \in Preps /\ run(w).pending[1] \in Prepared(w) /\ PrepSound(run(w).pending[1], rows, mixed)
         /\ \A i \in DOMAIN Tail(run(w).pending) :
              LET q == Tail(run(w).pending)[i] IN
                q \in Preps /\ q \in Prepared(w) /\ PrepSound(q, rows, mixed) /\ q.ref # run(w).pending[1].ref
<1> DEFINE P == run(w).pending
<1>1. P \in Seq(Preps) /\ EachOnce(run(w)) /\ \A i \in DOMAIN P : PrepSound(P[i], rows, mixed) /\ P[i] \in Preps
  BY RunFacts
<1>2. \A i \in DOMAIN P : P[i] \in Prepared(w)
  BY DEF Prepared
<1>3. \A i, j \in DOMAIN P : P[i].ref = P[j].ref => i = j
  BY <1>1 DEF EachOnce
<1> HIDE DEF P
<1>4. 1 \in DOMAIN P /\ \A i \in DOMAIN Tail(P) : Tail(P)[i] = P[i + 1] /\ i + 1 \in DOMAIN P /\ i + 1 # 1
  <2>1. P # <<>>
    BY DEF P
  <2>2. QED
    BY <2>1, <1>1
<1>5. QED
  BY <1>1, <1>2, <1>3, <1>4 DEF P

\* A document is written, and the run goes on as s.
LEMMA WriteStep ==
  ASSUME DocsInductive, NEW w \in DocRuns, run(w).pending # <<>>, NEW s, RunSound(s), s.pending = Tail(run(w).pending),
         NEW p, p = run(w).pending[1], NEW vectors, writeSourceDoc(w, p, vectors),
         \A k \in DOMAIN p.fresh : /\ vectors[k] \in Vectors /\ vectors[k].of = p.text[p.fresh[k]]
                                   /\ vectors[k].by = "local" => run(w).tag = "local",
         docRun' = [docRun EXCEPT ![w] = [s EXCEPT !.ok = @ \cup {p.ref}]], UNCHANGED <<files, cancelled, cooldown>>
  PROVE  DocsInductive'
<1> DEFINE t == [s EXCEPT !.ok = @ \cup {p.ref}]
<1>1. p \in Preps /\ p \in Prepared(w) /\ PrepSound(p, rows, mixed)
  BY FirstOf
<1>2. \A k \in DOMAIN p.fresh : vectors[k] \in Vectors
  OBVIOUS
<1>3. RunSound(t) /\ t.pending = s.pending
  <2>1. s \in RunStates /\ p.ref \in DocSet
    BY <1>1 DEF RunSound, Preps
  <2>2. t \in RunStates /\ t.pc = s.pc /\ t.todo = s.todo /\ t.pending = s.pending /\ t.chunks = s.chunks
        /\ t.vectors = s.vectors /\ t.tag = s.tag
    BY <2>1 DEF RunStates
  <2> HIDE DEF t
  <2>3. EachOnce(t) /\ InHand(t)
    BY <2>2 DEF RunSound, EachOnce, InHand
  <2>4. QED
    BY <2>2, <2>3 DEF RunSound
<1>4. RunsSound'
  <2> HIDE DEF t
  <2>1. RunsSound /\ docRun' = [docRun EXCEPT ![w] = t]
    BY DEF DocsInductive, t
  <2>2. QED
    BY <1>3, <2>1, StepRuns
<1>5. RowsTyped' /\ VectorsTrue'
  BY <1>1, WriteTyped
<1>6. RowsSound'
  <2>1. \A d \in DocSet \ mixed' : WholeDoc(d, rows')
    BY <1>1, <1>2, WriteWhole
  <2>2. QED
    BY <1>5, <2>1 DEF RowsSound
<1>7. PrepsSound'
  <2> HIDE DEF t
  <2>1. SUFFICES ASSUME NEW v \in DocRuns, NEW i \in DOMAIN docRun'[v].pending
                 PROVE  PrepSound(docRun'[v].pending[i], rows', mixed')
    BY DEF PrepsSound
  <2>2. docRun \in [DocRuns -> RunStates] /\ docRun' = [docRun EXCEPT ![w] = t]
    BY DEF DocsInductive, RunsSound, t
  <2>3. PICK q : q = docRun'[v].pending[i]
    OBVIOUS
  <2>4. q \in Preps /\ q \in Prepared(v) /\ PrepSound(q, rows, mixed) /\ (q.ref # p.ref \/ v # w)
    <3>1. CASE v = w
      <4>1. i \in DOMAIN Tail(run(w).pending) /\ q = Tail(run(w).pending)[i]
        BY <3>1, <2>1, <2>2, <2>3, <1>3
      <4>2. QED
        BY <4>1, <3>1, FirstOf
    <3>2. CASE v # w
      <4>1. docRun'[v] = docRun[v]
        BY <3>2, <2>2
      <4>2. i \in DOMAIN run(v).pending /\ q = run(v).pending[i]
        BY <4>1, <2>1, <2>3 DEF run
      <4>3. QED
        BY <3>2, <4>2, RunFacts DEF Prepared
    <3>3. QED
      BY <3>1, <3>2
  <2>5. PrepSound(q, rows', mixed')
    BY <2>4, <1>1, <1>2, WritePreps
  <2>6. QED
    BY <2>3, <2>5
<1>8. DocFilesTyped' /\ FlagsTyped'
  <2>1. mixed' \subseteq DocSet
    BY <1>1 DEF writeSourceDoc, Disturbed, Preps, DocsInductive, FlagsTyped
  <2>2. QED
    BY <2>1 DEF DocsInductive, DocFilesTyped, FlagsTyped
<1>9. QED
  BY <1>4, <1>5, <1>6, <1>7, <1>8 DEF DocsInductive

\* Its write fails, and the run goes on as s.
LEMMA FailStep ==
  ASSUME DocsInductive, NEW w \in DocRuns, run(w).pending # <<>>, NEW s, RunSound(s), s.pending = Tail(run(w).pending),
         docRun' = [docRun EXCEPT ![w] = s], UNCHANGED <<rows, mixed, files, cancelled, cooldown>>
  PROVE  DocsInductive'
<1>1. \A i \in DOMAIN s.pending : PrepSound(s.pending[i], rows, mixed)
  BY FirstOf
<1>2. DocFilesTyped' /\ FlagsTyped'
  BY DEF DocsInductive, DocFilesTyped, FlagsTyped
<1>3. QED
  BY <1>1, <1>2, DocRunStep

LEMMA DocTouched ==
  ASSUME DocsInductive, NEW w \in DocRuns, TouchDoc(w)
  PROVE  DocsInductive'
<1> DEFINE r == run(w)
           s == [r EXCEPT !.pc = "docs", !.pending = Tail(@)]
<1>1. /\ r.pc = "touch" /\ r \in RunStates /\ EachOnce(r) /\ InHand(r)
      /\ r.pending \in Seq(Preps) /\ r.chunks \in Seq(Chunks) /\ UNCHANGED <<files, cancelled, cooldown>>
  BY RunFacts DEF TouchDoc, theWorld
<1>2. r.pending # <<>> /\ r.pending[1].fresh = <<>> /\ Aligned(r.pending, r.chunks)
  BY <1>1 DEF InHand
<1>3. Tail(r.pending) \in Seq(Preps)
  BY <1>1, <1>2
<1>4. /\ s \in RunStates /\ s.pc = "docs" /\ s.pending = Tail(r.pending) /\ s.todo = r.todo /\ s.chunks = r.chunks
      /\ s.vectors = r.vectors /\ s.tag = r.tag
  BY <1>1, <1>3 DEF RunStates, Stages
<1>5. EachOnce(s)
  <2> HIDE DEF s, r
  <2>1. QED
    BY <1>1, <1>2, <1>4, OnceRest
<1>6. Aligned(Tail(r.pending), r.chunks)
  <2>1. Len(<<>>) = 0 /\ SubSeq(r.chunks, 0 + 1, Len(r.chunks)) = r.chunks
    BY <1>1
  <2> HIDE DEF r
  <2>2. Aligned(Tail(r.pending), SubSeq(r.chunks, Len(r.pending[1].fresh) + 1, Len(r.chunks)))
    BY <1>1, <1>2, AlignedRest
  <2>3. QED
    BY <2>1, <2>2, <1>2
<1>7. RunSound(s)
  <2> HIDE DEF s, r
  <2>1. InHand(s)
    BY <1>1, <1>4, <1>6 DEF InHand
  <2>2. QED
    BY <1>4, <1>5, <2>1 DEF RunSound
<1>8. PICK p : p = r.pending[1]
  OBVIOUS
<1>9. \A k \in DOMAIN p.fresh : FALSE
  <2>1. DOMAIN <<>> = {}
    OBVIOUS
  <2>2. QED
    BY <2>1, <1>2, <1>8
<1>10. CASE writeSourceDoc(w, p, <<>>) /\ docRun' = [docRun EXCEPT ![w] = [s EXCEPT !.ok = @ \cup {p.ref}]]
  <2> HIDE DEF s
  <2>1. QED
    BY <1>1, <1>2, <1>4, <1>7, <1>8, <1>9, <1>10, WriteStep
<1>11. CASE docRun' = [docRun EXCEPT ![w] = s] /\ UNCHANGED <<rows, mixed>>
  <2> HIDE DEF s
  <2>1. QED
    BY <1>1, <1>2, <1>4, <1>7, <1>11, FailStep
<1>12. QED
  BY <1>8, <1>10, <1>11 DEF TouchDoc, step, writeSourceDoc, Touched

\* The vectors of a document are the first of those in hand; the others belong to those after it.
LEMMA VectorsSplit ==
  ASSUME NEW vs \in Seq(Vectors), NEW n \in 0..Len(vs)
  PROVE  /\ SubSeq(vs, 1, n) \in Seq(Vectors) /\ SubSeq(vs, n + 1, Len(vs)) \in Seq(Vectors)
         /\ \A k \in 1..n : SubSeq(vs, 1, n)[k] = vs[k] /\ k \in DOMAIN vs /\ vs[k] \in Vectors
         /\ \A i \in DOMAIN SubSeq(vs, n + 1, Len(vs)) : \E j \in DOMAIN vs : SubSeq(vs, n + 1, Len(vs))[i] = vs[j]
         /\ ChunksOf(vs) \in Seq(Chunks) /\ Len(ChunksOf(vs)) = Len(vs) /\ \A i \in DOMAIN vs : ChunksOf(vs)[i] = vs[i].of
         /\ ChunksOf(SubSeq(vs, n + 1, Len(vs))) = SubSeq(ChunksOf(vs), n + 1, Len(ChunksOf(vs)))
<1> DEFINE c == ChunksOf(vs)
           tail == SubSeq(vs, n + 1, Len(vs))
<1>1. Len(vs) \in Nat /\ n \in Nat /\ n <= Len(vs) /\ DOMAIN vs = 1..Len(vs) /\ \A i \in 1..Len(vs) : vs[i] \in Vectors
  OBVIOUS
<1>2. c = [i \in 1..Len(vs) |-> vs[i].of] /\ \A i \in 1..Len(vs) : vs[i].of \in Chunks
  BY <1>1 DEF ChunksOf, Vectors
<1>3. c \in [1..Len(vs) -> Chunks]
  BY <1>2
<1>4. c \in Seq(Chunks) /\ Len(c) = Len(vs) /\ \A i \in 1..Len(vs) : c[i] = vs[i].of
  BY <1>1, <1>2, <1>3
<1> HIDE DEF c
<1>5. SubSeq(vs, 1, n) \in Seq(Vectors) /\ \A k \in 1..n : SubSeq(vs, 1, n)[k] = vs[k] /\ k \in DOMAIN vs /\ vs[k] \in Vectors
  <2>1. 1 \in Int /\ n \in Int
    BY <1>1
  <2>2. \A k \in 1..n : k \in 1..Len(vs)
    BY <1>1
  <2>3. SubSeq(vs, 1, n) \in Seq(Vectors) /\ \A k \in 1..n : SubSeq(vs, 1, n)[k] = vs[k]
    BY <1>1
  <2>4. QED
    BY <1>1, <2>2, <2>3
<1>6. /\ tail \in Seq(Vectors) /\ DOMAIN tail = 1..(Len(vs) - n)
      /\ \A i \in 1..(Len(vs) - n) : tail[i] = vs[n + i] /\ n + i \in DOMAIN vs
  BY <1>1
<1>7. /\ DOMAIN SubSeq(c, n + 1, Len(c)) = 1..(Len(vs) - n)
      /\ \A i \in 1..(Len(vs) - n) : SubSeq(c, n + 1, Len(c))[i] = c[n + i]
      /\ SubSeq(c, n + 1, Len(c)) \in Seq(Chunks)
  BY <1>1, <1>4
<1> HIDE DEF tail
<1>8. ChunksOf(tail) = SubSeq(c, n + 1, Len(c))
  <2>1. ChunksOf(tail) = [i \in 1..(Len(vs) - n) |-> tail[i].of]
    BY <1>6 DEF ChunksOf
  <2>2. \A i \in 1..(Len(vs) - n) : tail[i].of = SubSeq(c, n + 1, Len(c))[i]
    BY <1>1, <1>4, <1>6, <1>7
  <2>3. SubSeq(c, n + 1, Len(c)) = [i \in 1..(Len(vs) - n) |-> SubSeq(c, n + 1, Len(c))[i]]
    BY <1>7
  <2>4. QED
    BY <2>1, <2>2, <2>3
<1>9. QED
  BY <1>1, <1>4, <1>5, <1>6, <1>8 DEF c, tail

LEMMA DocWritten ==
  ASSUME DocsInductive, NEW w \in DocRuns, WriteDoc(w)
  PROVE  DocsInductive'
<1> DEFINE r == run(w)
           rest == Tail(r.pending)
           n == Len(r.pending[1].fresh)
           vs == r.vectors
           mine == SubSeq(vs, 1, n)
<1>1. /\ r.pc \in {"write", "singleWrite"} /\ r \in RunStates /\ EachOnce(r) /\ InHand(r)
      /\ r.pending \in Seq(Preps) /\ vs \in Seq(Vectors) /\ UNCHANGED <<files, cancelled, cooldown>>
  BY RunFacts DEF WriteDoc, theWorld
<1>2. r.pending # <<>> /\ r.chunks = <<>> /\ \A i \in DOMAIN vs : vs[i].by = "local" => r.tag = "local"
  BY <1>1 DEF InHand
<1>3. r.pending[1] \in Preps /\ PrepSound(r.pending[1], rows, mixed) /\ r.pending[1].text \in DocTexts
  BY <1>2, FirstOf DEF Preps
<1>4. n \in Nat /\ DOMAIN r.pending[1].fresh = 1..n
  BY <1>3, ChunksFacts
<1>5. ChunksOf(vs) \in Seq(Chunks) /\ Len(ChunksOf(vs)) = Len(vs) /\ Len(vs) \in Nat
  <2> HIDE DEF vs
  <2>1. 0 \in 0..Len(vs) /\ Len(vs) \in Nat
    BY <1>1
  <2>2. QED
    BY <1>1, <2>1, VectorsSplit
<1>6. n \in 0..Len(vs) /\ \A k \in 1..n : ChunksOf(vs)[k] = r.pending[1].text[r.pending[1].fresh[k]]
  <2>1. CASE r.pc = "write"
    <3>1. Aligned(r.pending, ChunksOf(vs))
      BY <1>1, <2>1 DEF InHand
    <3> HIDE DEF r, vs
    <3>2. QED
      BY <3>1, <1>1, <1>2, <1>5, AlignedRest
  <2>2. CASE r.pc = "singleWrite"
    <3>1. ChunksOf(vs) = newChunks(r.pending[1])
      BY <1>1, <2>2 DEF InHand
    <3> HIDE DEF r, vs
    <3>2. Len(newChunks(r.pending[1])) = n /\ \A k \in 1..n : newChunks(r.pending[1])[k] = r.pending[1].text[r.pending[1].fresh[k]]
      BY <1>3, <1>4, ChunksFacts
    <3>3. QED
      BY <3>1, <3>2, <1>4, <1>5
  <2>3. QED
    BY <2>1, <2>2, <1>1
<1>7. \A k \in 1..n : /\ mine[k] \in Vectors /\ mine[k].of = r.pending[1].text[r.pending[1].fresh[k]]
                      /\ mine[k].by = "local" => r.tag = "local"
  <2> SUFFICES ASSUME NEW k \in 1..n
               PROVE  /\ mine[k] \in Vectors /\ mine[k].of = r.pending[1].text[r.pending[1].fresh[k]]
                      /\ mine[k].by = "local" => r.tag = "local"
    OBVIOUS
  <2> HIDE DEF n, vs, r
  <2>1. mine[k] = vs[k] /\ k \in DOMAIN vs /\ vs[k] \in Vectors /\ ChunksOf(vs)[k] = vs[k].of
    BY <1>1, <1>6, VectorsSplit
  <2> HIDE DEF mine
  <2>2. QED
    BY <2>1, <1>2, <1>6
<1> DEFINE s == IF r.pc = "write"
                THEN [NextPending(w, rest, "write") EXCEPT !.vectors = SubSeq(vs, n + 1, Len(vs))]
                ELSE NextPending(w, rest, "single")
<1>8. RunSound(s) /\ s.pending = rest
  <2>1. CASE r.pc = "singleWrite"
    <3>1. s = NextPending(w, Tail(run(w).pending), "single")
      BY <2>1
    <3> HIDE DEF s
    <3>2. QED
      BY <3>1, <1>1, <2>1, NextSound
  <2>2. CASE r.pc = "write"
    <3>1. /\ Aligned(rest, SubSeq(ChunksOf(vs), n + 1, Len(ChunksOf(vs))))
      <4>1. Aligned(r.pending, ChunksOf(vs))
        BY <1>1, <2>2 DEF InHand
      <4> HIDE DEF r, vs
      <4>2. QED
        BY <4>1, <1>1, <1>2, <1>5, AlignedRest
    <3> DEFINE left == SubSeq(vs, n + 1, Len(vs))
    <3>2. /\ left \in Seq(Vectors) /\ Aligned(rest, ChunksOf(left)) /\ \A i \in DOMAIN left : left[i].by = "local" => r.tag = "local"
      <4> HIDE DEF n, vs, r, rest
      <4>1. /\ left \in Seq(Vectors) /\ ChunksOf(left) = SubSeq(ChunksOf(vs), n + 1, Len(ChunksOf(vs)))
            /\ \A i \in DOMAIN left : \E j \in DOMAIN vs : left[i] = vs[j]
        BY <1>1, <1>6, VectorsSplit
      <4> HIDE DEF left
      <4>2. QED
        BY <3>1, <4>1, <1>2
    <3>3. rest \in Seq(Preps) /\ {"write", "docs"} \subseteq Stages /\ <<>> \in Seq(Vectors)
      BY <1>1, <1>2 DEF Stages
    <3> DEFINE m == NextPending(w, rest, "write")
    <3> HIDE DEF left, rest
    <3>4. /\ m \in RunStates /\ m.pending = rest /\ m.pc = (IF rest = <<>> THEN "docs" ELSE "write") /\ m.todo = r.todo
          /\ m.chunks = r.chunks /\ m.tag = r.tag
      BY <1>1, <3>3 DEF NextPending, RunStates
    <3>5. s = [m EXCEPT !.vectors = left]
      BY <2>2 DEF left, rest
    <3> HIDE DEF s, m, r
    <3>6. /\ s \in RunStates /\ s.pending = rest /\ s.pc = (IF rest = <<>> THEN "docs" ELSE "write") /\ s.todo = r.todo
          /\ s.chunks = r.chunks /\ s.tag = r.tag /\ s.vectors = left
      BY <3>2, <3>4, <3>5 DEF RunStates
    <3>7. EachOnce(s)
      <4>1. s.pending = Tail(r.pending)
        BY <3>6 DEF rest
      <4>2. QED
        BY <4>1, <3>6, <1>1, <1>2, OnceRest
    <3>8. InHand(s)
      BY <3>2, <3>6, <1>2, AlignedNone DEF InHand
    <3>9. QED
      BY <3>6, <3>7, <3>8 DEF RunSound
  <2>3. QED
    BY <2>1, <2>2, <1>1
<1>9. PICK p : p = r.pending[1]
  OBVIOUS
<1>10. PICK vectors : vectors = mine
  OBVIOUS
<1>11. CASE writeSourceDoc(w, p, vectors) /\ docRun' = [docRun EXCEPT ![w] = [s EXCEPT !.ok = @ \cup {p.ref}]]
  <2>1. \A k \in DOMAIN p.fresh : /\ vectors[k] \in Vectors /\ vectors[k].of = p.text[p.fresh[k]]
                                  /\ vectors[k].by = "local" => run(w).tag = "local"
    BY <1>4, <1>7, <1>9, <1>10
  <2>2. s.pending = Tail(run(w).pending)
    BY <1>8
  <2> HIDE DEF s
  <2>3. QED
    BY <2>1, <2>2, <1>1, <1>2, <1>8, <1>9, <1>11, WriteStep
<1>12. CASE docRun' = [docRun EXCEPT ![w] = s] /\ UNCHANGED <<rows, mixed>>
  <2>1. s.pending = Tail(run(w).pending)
    BY <1>8
  <2> HIDE DEF s
  <2>2. QED
    BY <2>1, <1>1, <1>2, <1>8, <1>12, FailStep
<1>13. \/ writeSourceDoc(w, p, vectors) /\ docRun' = [docRun EXCEPT ![w] = [s EXCEPT !.ok = @ \cup {p.ref}]]
       \/ docRun' = [docRun EXCEPT ![w] = s] /\ UNCHANGED <<rows, mixed>>
  BY <1>9, <1>10 DEF WriteDoc, step, writeSourceDoc, Touched
<1>14. QED
  BY <1>11, <1>12, <1>13

\* Documents are removed with all their rows; what is in hand of them elsewhere claims no more of them.
LEMMA RemoveSound ==
  ASSUME DocsInductive, NEW refs \in SUBSET DocSet, rows' = {row \in rows : row.ref \notin refs}, NEW others \in SUBSET DocRuns,
         mixed' = mixed \cup {d \in {row.ref : row \in rows \ rows'} : \E v \in others : \E p \in Prepared(v) : p.ref = d}
  PROVE  /\ RowsTyped' /\ RowsSound' /\ mixed' \subseteq DocSet
         /\ \A v \in others : \A q \in Prepared(v) : PrepSound(q, rows, mixed) => PrepSound(q, rows', mixed')
<1>1. rows' \subseteq rows /\ \A r \in rows : r \in rows' <=> r.ref \notin refs
  OBVIOUS
<1>2. RowsTyped'
  BY <1>1 DEF DocsInductive, RowsTyped
<1>3. VectorsTrue'
  BY <1>1 DEF DocsInductive, RowsSound, VectorsTrue
<1>4. mixed' \subseteq DocSet
  BY DEF DocsInductive, RowsTyped, DocRows, FlagsTyped
<1>5. ASSUME NEW d \in DocSet \ mixed' PROVE WholeDoc(d, rows')
  <2>1. WholeDoc(d, rows)
    BY DEF DocsInductive, RowsSound
  <2>2. CASE d \in refs
    <3>1. \A r \in rows' : r.ref # d
      BY <1>1, <2>2
    <3>2. QED
      BY <3>1 DEF WholeDoc
  <2>3. CASE d \notin refs
    <3>1. \A r \in rows : r.ref = d => r \in rows'
      BY <1>1, <2>3
    <3>2. QED
      BY <3>1, <1>1, <2>1 DEF WholeDoc
  <2>4. QED
    BY <2>2, <2>3
<1>6. ASSUME NEW v \in others, NEW q \in Prepared(v), PrepSound(q, rows, mixed) PROVE PrepSound(q, rows', mixed')
  <2>1. /\ \A j, k \in DOMAIN q.fresh : q.fresh[j] \in DOMAIN q.text /\ (q.fresh[j] = q.fresh[k] => j = k)
        /\ q.reuse \cap q.dead = {}
        /\ \A r \in rows : r.id \in q.reuse => r.ref = q.ref /\ r.index \in DOMAIN q.text /\ r.content = q.text[r.index]
        /\ \A r \in rows : r.id \in q.dead => r.ref = q.ref
    BY <1>6, PrepFacts
  <2>2. ASSUME q.ref \notin mixed'
        PROVE  /\ \A r \in rows' : r.ref = q.ref => r.id \in q.reuse \cup q.dead
               /\ \A i \in DOMAIN q.text : (\E r \in rows' : r.id \in q.reuse /\ r.index = i) <=> (\A k \in DOMAIN q.fresh : q.fresh[k] # i)
    <3>1. /\ \A r \in rows : r.ref = q.ref => r.id \in q.reuse \cup q.dead
          /\ \A i \in DOMAIN q.text : (\E r \in rows : r.id \in q.reuse /\ r.index = i) <=> (\A k \in DOMAIN q.fresh : q.fresh[k] # i)
      BY <1>6, <2>2, PrepFacts
    <3>2. \A r \in rows : r.ref = q.ref => r \in rows'
      BY <2>2
    <3>3. \A r \in rows : r.id \in q.reuse => r \in rows'
      BY <2>1, <3>2
    <3>4. QED
      BY <1>1, <3>1, <3>3
  <2>3. QED
    BY <1>1, <2>1, <2>2 DEF PrepSound
<1>7. QED
  BY <1>2, <1>3, <1>4, <1>5, <1>6 DEF RowsSound

LEMMA StaleRemoved ==
  ASSUME DocsInductive, NEW w \in DocRuns, RemoveStale(w)
  PROVE  DocsInductive'
<1> DEFINE r == run(w)
           s == [r EXCEPT !.pc = "done"]
<1>1. r.pc = "stale" /\ r \in RunStates /\ EachOnce(r) /\ InHand(r) /\ UNCHANGED <<files, cancelled, cooldown>>
  BY RunFacts DEF RemoveStale, theWorld
<1>2. r.pending = <<>>
  BY <1>1 DEF InHand
<1>3. /\ s \in RunStates /\ s.pc = "done" /\ s.pending = r.pending /\ s.todo = r.todo /\ s.chunks = r.chunks
      /\ s.vectors = r.vectors /\ s.tag = r.tag
  BY <1>1 DEF RunStates, Stages
<1>4. docRun' = [docRun EXCEPT ![w] = s]
  BY DEF RemoveStale, step
<1> HIDE DEF s
<1>5. RunSound(s)
  <2>1. EachOnce(s) /\ InHand(s)
    BY <1>1, <1>2, <1>3 DEF EachOnce, InHand
  <2>2. QED
    BY <1>3, <2>1 DEF RunSound
<1>6. CASE w \in cancelled
  <2>1. UNCHANGED <<rows, mixed>> /\ DocFilesTyped' /\ FlagsTyped'
    BY <1>1, <1>6 DEF RemoveStale, DocsInductive, DocFilesTyped, FlagsTyped
  <2>2. \A i \in DOMAIN s.pending : PrepSound(s.pending[i], rows, mixed)
    BY <1>2, <1>3
  <2>3. QED
    BY <1>4, <1>5, <2>1, <2>2, DocRunStep
<1>7. CASE w \notin cancelled
  <2>1. PICK refs \in SUBSET DocSet : refs = DocSet \ r.ok
    OBVIOUS
  <2>2. rows' = {row \in rows : row.ref \notin refs}
    BY <1>7, <2>1 DEF RemoveStale, DocsInductive, RowsTyped, DocRows
  <2>3. mixed' = mixed \cup {d \in {row.ref : row \in rows \ rows'} : \E v \in DocRuns \ {w} : \E p \in Prepared(v) : p.ref = d}
    <3>1. rows \ rows' = {row \in rows : row.ref \notin r.ok}
      BY <1>7 DEF RemoveStale
    <3>2. mixed' = Disturbed(w, {row.ref : row \in {row \in rows : row.ref \notin r.ok}})
      BY <1>7 DEF RemoveStale
    <3>3. QED
      BY <3>1, <3>2 DEF Disturbed
  <2>4. /\ RowsTyped' /\ RowsSound' /\ mixed' \subseteq DocSet
        /\ \A v \in DocRuns \ {w} : \A q \in Prepared(v) : PrepSound(q, rows, mixed) => PrepSound(q, rows', mixed')
    BY <2>2, <2>3, RemoveSound
  <2>5. RunsSound'
    BY <1>4, <1>5, StepRuns DEF DocsInductive
  <2>6. PrepsSound'
    <3>1. SUFFICES ASSUME NEW v \in DocRuns, NEW i \in DOMAIN docRun'[v].pending
                   PROVE  PrepSound(docRun'[v].pending[i], rows', mixed')
      BY DEF PrepsSound
    <3>2. docRun \in [DocRuns -> RunStates]
      BY DEF DocsInductive, RunsSound
    <3>3. v # w /\ docRun'[v] = run(v)
      BY <3>1, <3>2, <1>2, <1>3, <1>4 DEF run
    <3>4. PrepSound(run(v).pending[i], rows, mixed) /\ run(v).pending[i] \in Prepared(v)
      BY <3>1, <3>3, RunFacts DEF Prepared
    <3>5. QED
      BY <2>4, <3>3, <3>4
  <2>7. DocFilesTyped' /\ FlagsTyped'
    BY <1>1, <2>4 DEF DocsInductive, DocFilesTyped, FlagsTyped
  <2>8. QED
    BY <2>4, <2>5, <2>6, <2>7 DEF DocsInductive
<1>8. QED
  BY <1>6, <1>7

LEMMA AllRemoved ==
  ASSUME DocsInductive, clearProjectKnowledge
  PROVE  DocsInductive'
<1>1. rows' = {} /\ UNCHANGED <<files, docRun, cancelled, cooldown>>
  BY DEF clearProjectKnowledge, theWorld
<1>2. rows' = {row \in rows : row.ref \notin DocSet}
  BY <1>1 DEF DocsInductive, RowsTyped, DocRows
<1>3. mixed' = mixed \cup {d \in {row.ref : row \in rows \ rows'} : \E v \in DocRuns : \E p \in Prepared(v) : p.ref = d}
  <2>1. DocRuns \ {"nobody"} = DocRuns /\ rows \ rows' = rows
    BY <1>1, DocsFacts
  <2>2. mixed' = Disturbed("nobody", {row.ref : row \in rows})
    BY DEF clearProjectKnowledge
  <2>3. QED
    BY <2>1, <2>2 DEF Disturbed
<1>4. /\ RowsTyped' /\ RowsSound' /\ mixed' \subseteq DocSet
      /\ \A v \in DocRuns : \A q \in Prepared(v) : PrepSound(q, rows, mixed) => PrepSound(q, rows', mixed')
  BY <1>2, <1>3, RemoveSound
<1>5. RunsSound'
  BY <1>1 DEF DocsInductive, RunsSound
<1>6. PrepsSound'
  <2>1. SUFFICES ASSUME NEW v \in DocRuns, NEW i \in DOMAIN docRun'[v].pending
                 PROVE  PrepSound(docRun'[v].pending[i], rows', mixed')
    BY DEF PrepsSound
  <2>2. docRun'[v] = run(v) /\ PrepSound(run(v).pending[i], rows, mixed) /\ run(v).pending[i] \in Prepared(v)
    BY <2>1, <1>1, RunFacts DEF Prepared, run
  <2>3. QED
    BY <1>4, <2>2
<1>7. DocFilesTyped' /\ FlagsTyped'
  BY <1>1, <1>4 DEF DocsInductive, DocFilesTyped, FlagsTyped
<1>8. QED
  BY <1>4, <1>5, <1>6, <1>7 DEF DocsInductive

LEMMA DocsStart == DocsInit => DocsInductive
<1> SUFFICES ASSUME DocsInit PROVE DocsInductive
  OBVIOUS
<1>1. DocFilesTyped /\ FlagsTyped
  BY SourceDocsAssumption DEF SourceDocsAssumption, DocsInit, DocFilesTyped, FlagsTyped
<1>2. RowsTyped /\ RowsSound
  BY DEF DocsInit, RowsTyped, RowsSound, VectorsTrue, WholeDoc
<1>3. docRun = [w \in DocRuns |-> IdleRun]
  BY DEF DocsInit
<1>4. RunsSound /\ PrepsSound
  BY <1>3, IdleSound DEF RunsSound, PrepsSound
<1>5. QED
  BY <1>1, <1>2, <1>4 DEF DocsInductive

LEMMA DocsStay == DocsInductive /\ [DocsNext]_docVars => DocsInductive'
<1> SUFFICES ASSUME DocsInductive, [DocsNext]_docVars PROVE DocsInductive'
  OBVIOUS
<1>1. ASSUME NEW w \in DocRuns, indexRepoDocs(w) \/ PrepareDoc(w) \/ EndOfDocs(w) \/ EmbedAll(w) \/ EmbedSingle(w) PROVE DocsInductive'
  BY <1>1, RunBegins, DocPrepared, DocsEnded, BatchEmbedded, SingleEmbedded
<1>2. ASSUME NEW w \in DocRuns, TouchDoc(w) \/ WriteDoc(w) \/ RemoveStale(w) PROVE DocsInductive'
  BY <1>2, DocTouched, DocWritten, StaleRemoved
<1>3. CASE (\E w \in DocRuns : cancelJob(w) \/ startJob(w)) \/ EditDoc \/ CooldownOver
  BY <1>3, JobsSteps
<1>4. CASE clearProjectKnowledge
  BY <1>4, AllRemoved
<1>5. CASE UNCHANGED docVars
  <2>1. UNCHANGED <<files, rows, docRun, cancelled, cooldown, mixed>>
    BY <1>5 DEF docVars
  <2>2. DocFilesTyped' /\ FlagsTyped'
    BY <2>1 DEF DocsInductive, DocFilesTyped, FlagsTyped
  <2>3. RowsTyped' /\ RowsSound'
    BY <2>1 DEF DocsInductive, RowsTyped, RowsSound, VectorsTrue
  <2>4. RunsSound' /\ PrepsSound'
    BY <2>1 DEF DocsInductive, RunsSound, PrepsSound
  <2>5. QED
    BY <2>2, <2>3, <2>4 DEF DocsInductive
<1>6. QED
  BY <1>1, <1>2, <1>3, <1>4, <1>5 DEF DocsNext

LEMMA DocsRight == DocsInductive => DocsInv
<1> SUFFICES ASSUME DocsInductive PROVE DocsInv
  OBVIOUS
<1>1. DocsTypeOK
  <2>1. ASSUME NEW w \in DocRuns
        PROVE  docRun[w].pc \in Stages /\ docRun[w].tag \in Providers /\ docRun[w].ok \subseteq DocSet
    <3>1. docRun[w] \in RunStates
      BY DEF DocsInductive, RunsSound
    <3>2. QED
      BY <3>1 DEF RunStates
  <2>2. QED
    BY <2>1 DEF DocsInductive, DocFilesTyped, RowsTyped, FlagsTyped, DocsTypeOK
<1>2. ASSUME NEW d \in DocSet \ mixed, {row \in rows : row.ref = d} # {}
      PROVE  \E t \in DocTexts :
               /\ {<<row.index, row.content>> : row \in {row \in rows : row.ref = d}} = {<<i, t[i]>> : i \in DOMAIN t}
               /\ Cardinality({row \in rows : row.ref = d}) = Len(t)
               /\ \A row \in {row \in rows : row.ref = d} : row.hash = t
  <2> DEFINE stored == {row \in rows : row.ref = d}
  <2>1. WholeDoc(d, rows)
    BY DEF DocsInductive, RowsSound
  <2>2. PICK t \in DocTexts :
          /\ \A r \in stored : r.index \in DOMAIN t /\ r.content = t[r.index] /\ r.hash = t
          /\ \A i \in DOMAIN t : \E r \in stored : r.index = i
    BY <1>2, <2>1 DEF WholeDoc
  <2>3. \A r, s \in stored : r.index = s.index => r = s
    BY <2>1 DEF WholeDoc
  <2> HIDE DEF stored
  <2>4. {<<row.index, row.content>> : row \in stored} = {<<i, t[i]>> : i \in DOMAIN t}
    <3>1. ASSUME NEW x \in {<<row.index, row.content>> : row \in stored} PROVE x \in {<<i, t[i]>> : i \in DOMAIN t}
      BY <2>2
    <3>2. ASSUME NEW i \in DOMAIN t PROVE <<i, t[i]>> \in {<<row.index, row.content>> : row \in stored}
      <4>1. PICK row \in stored : row.index = i
        BY <2>2
      <4>2. row.content = t[i]
        BY <2>2, <4>1
      <4>3. QED
        BY <4>1, <4>2
    <3>3. QED
      BY <3>1, <3>2
  <2>5. Cardinality(stored) = Len(t)
    <3> DEFINE at == [i \in 1..Len(t) |-> CHOOSE r \in stored : r.index = i]
    <3>1. DOMAIN t = 1..Len(t) /\ Len(t) \in Nat
      BY DocsFacts
    <3>2. \A i \in 1..Len(t) : at[i] \in stored /\ at[i].index = i
      BY <2>2, <3>1
    <3>3. at \in [1..Len(t) -> stored]
      BY <3>2
    <3>4. \A r \in stored : r.index \in 1..Len(t) /\ at[r.index] = r
      BY <2>2, <2>3, <3>1, <3>2
    <3> HIDE DEF at
    <3>5. at \in Bijection(1..Len(t), stored)
      BY <3>2, <3>3, <3>4 DEF Bijection, Injection, Surjection, IsInjective
    <3>6. IsFiniteSet(1..Len(t)) /\ Cardinality(1..Len(t)) = Len(t)
      <4>1. 1 \in Int /\ Len(t) \in Int
        BY <3>1
      <4>2. IsFiniteSet(1..Len(t)) /\ Cardinality(1..Len(t)) = IF 1 > Len(t) THEN 0 ELSE Len(t) - 1 + 1
        BY <4>1, FS_Interval
      <4>3. QED
        BY <3>1, <4>2
    <3>7. ExistsBijection(1..Len(t), stored)
      BY <3>5 DEF ExistsBijection
    <3>8. QED
      BY <3>6, <3>7, FS_Bijection
  <2>6. QED
    BY <2>2, <2>4, <2>5 DEF stored
<1>3. WholeDocs
  BY <1>2 DEF WholeDocs
<1>4. QED
  BY <1>1, <1>3 DEF DocsInv, DocsInductive, RowsSound

\* Whatever fails on the way, and however two runs and the jobs interleave, the rows of a document are the
\* chunks of one text, each once and with its own vector, unless a second writer was at the same document.
THEOREM DocsHold == DocsSpec => []DocsInv
<1>1. DocsSpec => []DocsInductive
  BY DocsStart, DocsStay, PTL DEF DocsSpec
<1>2. QED
  BY <1>1, DocsRight, PTL
=============================================================================

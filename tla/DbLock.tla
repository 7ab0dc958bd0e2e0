------------------------------- MODULE DbLock -------------------------------
(***************************************************************************)
(* The exclusive lock on the embedded PGlite data directory                *)
(* (src/db/lifecycle.ts): acquireLock, releaseLock, openEmbedded and       *)
(* closeEmbedded, executed by several VibeOps processes on one directory.  *)
(*                                                                         *)
(* Each file system call is a step of its own, because the other processes *)
(* run between any two of them.  Covered: hard kills at every step, pids   *)
(* the OS hands to an unrelated process, a directory that is not yet       *)
(* initialised, an engine that fails to open.  Left out: what the engine   *)
(* does with the directory, snapshots, and the degraded-mode server a      *)
(* failed open falls back to (the process just stays in "failed").         *)
(***************************************************************************)
EXTENDS Naturals, FiniteSets

CONSTANTS
  Procs,       \* the processes that may open the data directory, once each
  None,        \* no process
  Serial,      \* TRUE: nobody starts openEmbedded while another is inside it
  StartKnown,  \* TRUE: the OS start time of a process can be read
  MaxKills     \* bound: how many processes may be killed

ASSUME DbLockAssumption ==
  /\ None \notin Procs
  /\ Serial \in BOOLEAN
  /\ StartKnown \in BOOLEAN
  /\ MaxKills \in Nat

VARIABLES
  pc,          \* where each process is in openEmbedded / closeEmbedded
  file,        \* the lock file: "absent", "empty" (created), "written"
  holder,      \* the process that created the current lock file
  alive,       \* the processes the OS still runs
  recycled,    \* dead processes whose pid now names another program
  initialised, \* PG_VERSION exists in the data directory
  fresh,       \* processes that read isFresh = true
  late,        \* processes in the second acquireLock of a fresh directory
  engine       \* processes that have the PGlite engine open

vars == <<pc, file, holder, alive, recycled, initialised, fresh, late, engine>>

Opening == {"create", "inspect", "reclaim", "stamp", "drop", "opening"}
Ended   == {"refused", "failed", "closed", "dead"}
PC      == {"idle", "open", "closing"} \cup Opening \cup Ended

TypeOK ==
  /\ pc \in [Procs -> PC]
  /\ file \in {"absent", "empty", "written"}
  /\ holder \in Procs \cup {None}
  /\ alive \in SUBSET Procs
  /\ recycled \in SUBSET Procs
  /\ initialised \in BOOLEAN
  /\ fresh \in SUBSET Procs
  /\ late \in SUBSET Procs
  /\ engine \in SUBSET Procs

Init ==
  /\ pc = [p \in Procs |-> "idle"]
  /\ file = "absent"
  /\ holder = None
  /\ alive = Procs
  /\ recycled = {}
  /\ initialised \in BOOLEAN
  /\ fresh = {}
  /\ late = {}
  /\ engine = {}

Goto(p, to) == pc' = [pc EXCEPT ![p] = to]

Unlink == file' = "absent" /\ holder' = None

-----------------------------------------------------------------------------
(* acquireLock *)

(* Mutants of HolderAlive: a lock is stolen from a holder that has had it for    *)
(* long; no liveness check at all; the pid alone, without the start time.        *)
StealByAge(q) == q \in alive /\ pc[q] # "open"
NeverAlive(q) == FALSE
PidOnly(q) == q \in alive \cup recycled

\* pidAlive, then the start time: a recycled pid counts as dead only when the
\* lock recorded a start time to compare.
HolderAlive(q) == q \in alive \/ (q \in recycled /\ ~StartKnown)

\* openSync(lockPath, "wx"): the exclusive create.
Create(p) ==
  /\ pc[p] = "create"
  /\ \/ /\ file = "absent"
        /\ file' = "empty"
        /\ holder' = p
        /\ Goto(p, "stamp")
     \/ /\ file # "absent"
        /\ Goto(p, "inspect")
        /\ UNCHANGED <<file, holder>>
  /\ UNCHANGED <<alive, recycled, initialised, fresh, late, engine>>

(* Mutant of Refuse: the refused opener always cleans up after itself. *)
RefuseAndUnlink(p) ==
  /\ Goto(p, IF p \in late THEN "failed" ELSE "refused") /\ Unlink
  /\ UNCHANGED <<alive, recycled, initialised, fresh, late, engine>>

\* EmbeddedDbLockedError.  In the second acquireLock of a fresh directory it is
\* caught by openEmbedded, which unlinks the lock file and leaves the client open.
Refuse(p) ==
  /\ IF p \in late THEN Goto(p, "failed") /\ Unlink
                   ELSE Goto(p, "refused") /\ UNCHANGED <<file, holder>>
  /\ UNCHANGED <<alive, recycled, initialised, fresh, late, engine>>

\* readLock and holderAlive: an unreadable (still empty, or just removed) lock
\* and a live holder refuse; a dead holder is to be reclaimed.
Inspect(p) ==
  /\ pc[p] = "inspect"
  /\ \/ /\ file # "written" \/ HolderAlive(holder)
        /\ Refuse(p)
     \/ /\ file = "written" /\ ~HolderAlive(holder)
        /\ Goto(p, "reclaim")
        /\ UNCHANGED <<file, holder, alive, recycled, initialised, fresh, late, engine>>

\* unlinkSync, then back to the exclusive create.  It removes whatever lock file
\* is there by now; with none there it throws, which ends the open.
Reclaim(p) ==
  /\ pc[p] = "reclaim"
  /\ Goto(p, IF file = "absent" THEN "failed" ELSE "create")
  /\ Unlink
  /\ UNCHANGED <<alive, recycled, initialised, fresh, late, engine>>

\* writeSync of pid and start time.  It goes to the inode the process created,
\* which is no longer the lock file if somebody unlinked it meanwhile.
Stamp(p) ==
  /\ pc[p] = "stamp"
  /\ file' = IF holder = p THEN "written" ELSE file
  /\ Goto(p, IF p \in late THEN "open" ELSE IF p \in fresh THEN "drop" ELSE "opening")
  /\ UNCHANGED <<holder, alive, recycled, initialised, fresh, late, engine>>

-----------------------------------------------------------------------------
(* openEmbedded *)

\* The existsSync(PG_VERSION) test that decides isFresh, before acquireLock.
Begin(p) ==
  /\ pc[p] = "idle"
  /\ Serial => \A q \in Procs : pc[q] \notin Opening
  /\ fresh' = IF initialised THEN fresh ELSE fresh \cup {p}
  /\ Goto(p, "create")
  /\ UNCHANGED <<file, holder, alive, recycled, initialised, late, engine>>

\* A fresh directory must be empty for the engine, so the lock is taken off again.
DropFresh(p) ==
  /\ pc[p] = "drop"
  /\ Goto(p, IF file = "absent" THEN "failed" ELSE "opening")
  /\ Unlink
  /\ UNCHANGED <<alive, recycled, initialised, fresh, late, engine>>

\* makeClient and CREATE EXTENSION succeed; a fresh directory is locked again.
OpenOk(p) ==
  /\ pc[p] = "opening"
  /\ engine' = engine \cup {p}
  /\ initialised' = TRUE
  /\ IF p \in fresh THEN Goto(p, "create") /\ late' = late \cup {p}
                    ELSE Goto(p, "open") /\ UNCHANGED late
  /\ UNCHANGED <<file, holder, alive, recycled, fresh>>

\* The engine does not open: releaseLock, then EmbeddedDbOpenError.
OpenFail(p) ==
  /\ pc[p] = "opening"
  /\ Goto(p, "failed")
  /\ Unlink
  /\ UNCHANGED <<alive, recycled, initialised, fresh, late, engine>>

-----------------------------------------------------------------------------
(* closeEmbedded, kills, and the OS *)

CloseEngine(p) ==
  /\ pc[p] = "open"
  /\ engine' = engine \ {p}
  /\ Goto(p, "closing")
  /\ UNCHANGED <<file, holder, alive, recycled, initialised, fresh, late>>

\* releaseLock unlinks the lock file without looking whose it is.
Release(p) ==
  /\ pc[p] = "closing"
  /\ Unlink
  /\ Goto(p, "closed")
  /\ UNCHANGED <<alive, recycled, initialised, fresh, late, engine>>

\* A hard kill: the engine goes with the process, the lock file stays.
Kill(p) ==
  /\ pc[p] \notin {"idle", "closed", "dead"}
  /\ Cardinality(Procs \ alive) < MaxKills
  /\ alive' = alive \ {p}
  /\ engine' = engine \ {p}
  /\ Goto(p, "dead")
  /\ UNCHANGED <<file, holder, recycled, initialised, fresh, late>>

Recycle(p) ==
  /\ p \notin alive /\ p \notin recycled
  /\ recycled' = recycled \cup {p}
  /\ UNCHANGED <<pc, file, holder, alive, initialised, fresh, late, engine>>

Next == \E p \in Procs :
  \/ Begin(p) \/ Create(p) \/ Inspect(p) \/ Reclaim(p) \/ Stamp(p)
  \/ DropFresh(p) \/ OpenOk(p) \/ OpenFail(p)
  \/ CloseEngine(p) \/ Release(p)
  \/ Kill(p) \/ Recycle(p)

Spec == Init /\ [][Next]_vars

-----------------------------------------------------------------------------
(* Properties *)

\* The processes that read and write the data directory.
Using == engine \cup {p \in Procs : pc[p] = "opening"}

\* At most one process works on the data directory: "concurrent open corrupts
\* PGlite" (src/db/lifecycle.ts, above EmbeddedDbLockedError).
OneEngine == \A p, q \in Using : p = q

\* Nobody but the holder itself takes away the lock of a process that is running
\* on the directory: "A live holder is NEVER displaced".
LiveLockKept ==
  [][\A p \in Procs :
       pc[p] = "open" /\ file = "written" /\ holder = p /\ pc'[p] = "open"
         => file' = "written" /\ holder' = p]_vars

\* A lock a killed process left behind never turns a later opener away, even when
\* its pid has since been given to another program (the failure that "kept the
\* sidecar down for days", above readLock).
StaleLockReclaimed ==
  [][\A p \in Procs :
       pc[p] = "inspect" /\ pc'[p] \in {"refused", "failed"}
         /\ file = "written" => holder \in alive]_vars

(***************************************************************************)
(* The inductive invariant behind OneEngine, for serial opens.  Whoever is *)
(* past the exclusive create owns the lock file, except in the window of a *)
(* fresh directory, where there is no lock file at all and, because opens  *)
(* are serial, nobody to notice.                                           *)
(***************************************************************************)
Owned(p) ==
  /\ pc[p] \in {"open", "closing", "drop"} => file = "written" /\ holder = p
  /\ pc[p] = "drop" => p \in fresh
  /\ pc[p] = "stamp" => file = "empty" /\ holder = p
  /\ pc[p] = "opening" /\ p \notin fresh => file = "written" /\ holder = p
  /\ pc[p] = "opening" /\ p \in fresh => file = "absent"
  /\ pc[p] = "create" /\ p \in late => file = "absent"
  /\ pc[p] = "reclaim" => file = "written" /\ holder \notin alive

OneOpener == \A p, q \in Procs : pc[p] \in Opening /\ pc[q] \in Opening => p = q

EngineOwner ==
  \A p \in engine : \/ pc[p] = "open"
                    \/ pc[p] \in {"create", "stamp"} /\ p \in late

LateOnly == \A p \in late : pc[p] \in {"create", "stamp", "open", "closing"} \cup Ended

LiveWhenRunning ==
  \A p \in Procs : pc[p] \in Opening \cup {"idle", "open", "closing"} => p \in alive

LockInv ==
  /\ TypeOK
  /\ \A p \in Procs : Owned(p)
  /\ OneOpener
  /\ EngineOwner
  /\ LateOnly
  /\ LiveWhenRunning
=============================================================================

---------------------------- MODULE ProjectVaults -----------------------------
(***************************************************************************)
(* Which project vaults are watched: the rescans of src/ingest/watch.ts,   *)
(* asked for by the routes of src/api/app.ts that change projects and run  *)
(* one after the other.  A rescan lists the projects and their folders,    *)
(* closes the watchers that are wrong and starts those that are missing,   *)
(* with an await between any two of these steps.  A step that throws ends  *)
(* the rescan where it is, and the chain goes on as if it had been done.   *)
(***************************************************************************)
EXTENDS Naturals, FiniteSets

CONSTANTS
  VaultProjects,  \* projects
  VaultDirs,      \* folders a project's vault may be in
  ProjectEdits    \* bound: changes of projects

ASSUME ProjectVaultsAssumption == ProjectEdits \in Nat /\ VaultDirs # {}

NoDir == "none"

VARIABLES
  project,     \* per project: none, live or deleted
  vaultPath,   \* the folder its settings name
  watchedPath, \* the folder its watcher watches
  rescans,     \* rescans asked for and not begun
  desired,     \* what the rescan under way found: a folder per project
  rescan,      \* the rescan under way: off, stopping or starting
  unasked,     \* history: projects changed by a route that asks for no rescan
  leftOut,     \* history: projects the last rescan did not get to, since it threw
  projectEdits \* how many changes there have been

projectVaultVars == <<project, vaultPath, watchedPath, rescans, desired, rescan, unasked, leftOut, projectEdits>>

ProjectVaultsInit ==
  /\ project = [p \in VaultProjects |-> "none"] /\ vaultPath = [p \in VaultProjects |-> CHOOSE d \in VaultDirs : TRUE]
  /\ watchedPath = [p \in VaultProjects |-> NoDir] /\ rescans = 0 /\ desired = [p \in VaultProjects |-> NoDir]
  /\ rescan = "off" /\ unasked = {} /\ leftOut = {} /\ projectEdits = 0

ProjectEvent == projectEdits < ProjectEdits /\ projectEdits' = projectEdits + 1
                /\ UNCHANGED <<watchedPath, desired, rescan, leftOut>>

(* Mutant of AskRescan: a rescan under way stands for the one asked for.    *)
AskUnlessBusy == rescans' = IF rescan # "off" \/ rescans > 0 THEN rescans ELSE 1
\* rescanProjectVaults adds to the chain.
AskRescan == rescans' = rescans + 1

\* POST /projects asks for a rescan; an import does not.
CreateProject(p) ==
  /\ ProjectEvent /\ project[p] = "none" /\ project' = [project EXCEPT ![p] = "live"]
  /\ \/ AskRescan /\ UNCHANGED unasked
     \/ unasked' = unasked \cup {p} /\ UNCHANGED rescans
  /\ UNCHANGED vaultPath

SetVaultPath(p, d) ==
  /\ ProjectEvent /\ project[p] = "live" /\ vaultPath' = [vaultPath EXCEPT ![p] = d] /\ AskRescan
  /\ UNCHANGED <<project, unasked>>

\* DELETE /projects/:id asks for none: the watcher of a project that is gone goes on.
DeleteProject(p) ==
  /\ ProjectEvent /\ project[p] = "live" /\ project' = [project EXCEPT ![p] = "deleted"]
  /\ unasked' = unasked \cup {p} /\ UNCHANGED <<vaultPath, rescans>>

RescanLists ==
  /\ rescan = "off" /\ rescans > 0 /\ rescans' = rescans - 1 /\ rescan' = "stopping"
  /\ desired' = [p \in VaultProjects |-> IF project[p] = "live" THEN vaultPath[p] ELSE NoDir]
  /\ unasked' = {} /\ leftOut' = {}
  /\ UNCHANGED <<project, vaultPath, watchedPath, projectEdits>>

WronglyWatched == {p \in VaultProjects : watchedPath[p] # NoDir /\ watchedPath[p] # desired[p]}
NotYetWatched == {p \in VaultProjects : desired[p] # NoDir /\ watchedPath[p] = NoDir}

\* Watchers of projects that are gone or moved are closed, one await after the other.
RescanStops ==
  /\ rescan = "stopping"
  /\ IF WronglyWatched = {} THEN rescan' = "starting" /\ UNCHANGED watchedPath
     ELSE \E p \in WronglyWatched : watchedPath' = [watchedPath EXCEPT ![p] = NoDir] /\ UNCHANGED rescan
  /\ UNCHANGED <<project, vaultPath, rescans, desired, unasked, leftOut, projectEdits>>

startProjectVault ==
  /\ rescan = "starting"
  /\ IF NotYetWatched = {} THEN rescan' = "off" /\ UNCHANGED watchedPath
     ELSE \E p \in NotYetWatched : watchedPath' = [watchedPath EXCEPT ![p] = desired[p]] /\ UNCHANGED rescan
  /\ UNCHANGED <<project, vaultPath, rescans, desired, unasked, leftOut, projectEdits>>

\* The projects cannot be listed, a watcher does not close, or a folder cannot be made or watched:
\* the rescan is over, and what it has not done is left until somebody asks for another.
RescanThrows ==
  /\ \/ /\ rescan = "off" /\ rescans > 0
        /\ rescans' = rescans - 1 /\ leftOut' = VaultProjects
     \/ /\ (rescan = "stopping" /\ WronglyWatched # {}) \/ (rescan = "starting" /\ NotYetWatched # {})
        /\ leftOut' = WronglyWatched \cup NotYetWatched /\ UNCHANGED rescans
  /\ rescan' = "off"
  /\ UNCHANGED <<project, vaultPath, watchedPath, desired, unasked, projectEdits>>

ProjectVaultsNext ==
  \/ RescanLists \/ RescanStops \/ startProjectVault \/ RescanThrows
  \/ \E p \in VaultProjects : CreateProject(p) \/ DeleteProject(p) \/ \E d \in VaultDirs : SetVaultPath(p, d)

-------------------------------------------------------------------------------
ProjectVaultsTypeOK ==
  /\ project \in [VaultProjects -> {"none", "live", "deleted"}] /\ rescan \in {"off", "stopping", "starting"}
  /\ rescans \in Nat /\ unasked \cup leftOut \subseteq VaultProjects
  /\ watchedPath \in [VaultProjects -> VaultDirs \cup {NoDir}]

\* When the rescans are done each project's vault is watched where its settings say and no other
\* is, but for projects changed by the routes that ask for no rescan and, after a rescan that threw,
\* for those it had yet to get to.
VaultsWatched ==
  rescan = "off" /\ rescans = 0 =>
    \A p \in VaultProjects : watchedPath[p] = (IF project[p] = "live" THEN vaultPath[p] ELSE NoDir) \/ p \in unasked \cup leftOut

\* Watches end where the settings say, in whatever order changes, rescans and their failures come.
ProjectVaultsInv == ProjectVaultsTypeOK /\ VaultsWatched
===============================================================================

------------------------------ MODULE Sandboxes -------------------------------
(***************************************************************************)
(* Sandboxes on the disk (src/forge/sandbox.ts) and the sweep of those     *)
(* nobody needs (cleanupMergedSandboxes of src/forge/runs.ts).             *)
(*                                                                         *)
(* A sandbox is a git worktree of the project's repository whose           *)
(* dependency folders are links into that repository.  Whoever deletes a   *)
(* sandbox with such a link in it deletes the repository's own folder, so  *)
(* links are removed first; which there are is known from the defaults and *)
(* from a manifest beside the sandbox.  Runs, discards and the sweep work  *)
(* on the same sandboxes, with an await between their steps.               *)
(*                                                                         *)
(* Abstracted: one repository; a branch is only ahead of it or merged.     *)
(***************************************************************************)
EXTENDS Naturals, FiniteSets

CONSTANTS
  SandTickets,  \* tickets with a sandbox
  SandDirs,     \* dependency folders of the repository
  DefaultDirs,  \* DEPS_DIRS
  SandActors,   \* runs, discards and sweeps under way
  SandWork      \* bound: how much the actors may begin

ASSUME SandAssumption == DefaultDirs \subseteq SandDirs /\ SandWork \in Nat

NoSandbox == "none"

VARIABLES
  checkout,  \* what is at the sandbox's path: nothing, a worktree, or files git knows nothing of
  deps,      \* what each dependency folder in it is
  manifest,  \* the folders recorded as linked
  forgeBranch, \* the forge branch: none, merged or ahead of the base
  known,     \* git has a record of the worktree
  ticketIs,  \* the ticket: open, closed or gone
  worker,    \* where each actor is
  damaged,   \* history: folders of the repository that were deleted through a link
  unlisted,  \* history: links made and not recorded when the server died, or not to be removed
  lost,      \* history: tickets whose branch was deleted with work on it that nobody gave up
  miscounted,\* history: tickets whose commits git did not count
  met,       \* history: tickets on which an actor began while another was cleaning up
  begun      \* what actors have begun so far

sandVars == <<checkout, deps, manifest, forgeBranch, known, ticketIs, worker, damaged, unlisted, lost, miscounted, met, begun>>

Off == [pc |-> "idle", on |-> NoSandbox, todo |-> {}, made |-> {}]
NoDeps == [d \in SandDirs |-> "none"]

SandTypeOK ==
  /\ checkout \in [SandTickets -> {"none", "tree", "orphan"}]
  /\ deps \in [SandTickets -> [SandDirs -> {"none", "link", "copy"}]]
  /\ manifest \in [SandTickets -> SUBSET SandDirs] /\ forgeBranch \in [SandTickets -> {"none", "merged", "ahead"}]
  /\ known \subseteq SandTickets /\ ticketIs \in [SandTickets -> {"open", "closed", "gone"}]
  /\ damaged \subseteq SandDirs /\ lost \subseteq SandTickets /\ miscounted \subseteq SandTickets
  /\ \A a \in SandActors : worker[a].todo \cup worker[a].made \subseteq SandDirs

SandInit ==
  /\ checkout = [t \in SandTickets |-> "none"] /\ deps = [t \in SandTickets |-> NoDeps]
  /\ manifest = [t \in SandTickets |-> {}] /\ forgeBranch = [t \in SandTickets |-> "none"]
  /\ known = {} /\ ticketIs = [t \in SandTickets |-> "open"]
  /\ worker = [a \in SandActors |-> Off]
  /\ damaged = {} /\ unlisted = {} /\ lost = {} /\ miscounted = {} /\ met = {} /\ begun = 0

-----------------------------------------------------------------------------
disk == <<checkout, deps, manifest, forgeBranch, known>>
past == <<damaged, unlisted, lost, miscounted>>
meets(a, t) ==
  /\ begun' = begun + 1
  /\ met' = IF \E b \in SandActors \ {a} : worker[b].on = t THEN met \cup {t} ELSE met

at(a, pc) == worker[a].pc = pc
on(a) == worker[a].on
moves(a, pc) == worker' = [worker EXCEPT ![a].pc = pc]
rests(a) == worker' = [worker EXCEPT ![a] = Off]

linkedDirs(t) == DefaultDirs \cup manifest[t]
hasActiveRun(t) == \E a \in SandActors : on(a) = t /\ worker[a].pc \in {"ensure", "link", "record", "work"}

\* A run of an open ticket asks for its sandbox; the folders to link are a setting of the project.
BeginRun(a, t) ==
  /\ at(a, "idle") /\ begun < SandWork /\ ticketIs[t] = "open" /\ ~hasActiveRun(t)
  /\ \E dirs \in {DefaultDirs, SandDirs} :
       worker' = [worker EXCEPT ![a] = [pc |-> "ensure", on |-> t, todo |-> dirs, made |-> {}]]
  /\ meets(a, t) /\ UNCHANGED <<disk, ticketIs, past>>

\* What is on the disk is used as it is; otherwise the branch is attached, or made.
ensureSandbox(a) ==
  /\ at(a, "ensure") /\ moves(a, "link")
  /\ LET t == on(a) IN
       IF checkout[t] # "none" THEN UNCHANGED disk
       ELSE /\ checkout' = [checkout EXCEPT ![t] = "tree"] /\ known' = known \cup {t}
            /\ forgeBranch' = [forgeBranch EXCEPT ![t] = IF @ = "none" THEN "merged" ELSE @]
            /\ UNCHANGED <<deps, manifest>>
  /\ UNCHANGED <<ticketIs, past, met, begun>>

\* One folder after the other; what is there stays, but a link makes way for a copy.  The write may
\* fail: the sandbox is then without that folder.
linkDeps(a) ==
  /\ at(a, "link")
  /\ LET t == on(a) IN
       \E d \in worker[a].todo, as \in {"link", "copy", "none"} :
         /\ deps' = [deps EXCEPT ![t][d] = IF @ = "none" \/ (@ = "link" /\ as = "copy") THEN as ELSE @]
         /\ worker' = [worker EXCEPT ![a].todo = @ \ {d},
                                     ![a].made = IF deps[t][d] = "none" /\ as = "link" THEN @ \cup {d} ELSE @]
  /\ UNCHANGED <<checkout, manifest, forgeBranch, known, ticketIs, past, met, begun>>

\* The manifest is written when all are made: until then a link of no default is on no list.
RecordLinks(a) ==
  /\ at(a, "link") /\ worker[a].todo = {}
  /\ worker' = [worker EXCEPT ![a].pc = "work", ![a].made = {}]
  /\ LET t == on(a)
         made == worker[a].made IN
       manifest' = [manifest EXCEPT ![t] = IF made # {} THEN linkedDirs(t) \cup made ELSE @]
  /\ UNCHANGED <<checkout, deps, forgeBranch, known, ticketIs, past, met, begun>>

\* The run commits, or leaves nothing.  A promotion merges the branch and closes the ticket.
SandRunEnds(a) ==
  /\ at(a, "work") /\ rests(a)
  /\ \/ forgeBranch' = [forgeBranch EXCEPT ![on(a)] = "ahead"] /\ UNCHANGED ticketIs
     \/ forgeBranch' = [forgeBranch EXCEPT ![on(a)] = "merged"] /\ ticketIs' = [ticketIs EXCEPT ![on(a)] = "closed"]
     \/ UNCHANGED <<forgeBranch, ticketIs>>
  /\ UNCHANGED <<checkout, deps, manifest, known, past, met, begun>>

\* Tickets are closed and opened again by hand.
TicketMoves(t, to) ==
  /\ ticketIs[t] # to /\ ticketIs[t] # "gone" /\ ~hasActiveRun(t)
  /\ ticketIs' = [ticketIs EXCEPT ![t] = to]
  /\ UNCHANGED <<disk, worker, past, met, begun>>

-----------------------------------------------------------------------------
\* A discard is asked for: what is on the branch is given up.
discardSandbox(a, t) ==
  /\ at(a, "idle") /\ begun < SandWork /\ checkout[t] # "none" /\ ~hasActiveRun(t)
  /\ worker' = [worker EXCEPT ![a] = [pc |-> "unlink", on |-> t, todo |-> {}, made |-> {}]]
  /\ forgeBranch' = [forgeBranch EXCEPT ![t] = IF @ = "ahead" THEN "merged" ELSE @]
  /\ meets(a, t) /\ UNCHANGED <<checkout, deps, manifest, known, ticketIs, past>>

\* The sweep takes a sandbox no run is active in.
SweepSandbox(a, t) ==
  /\ at(a, "idle") /\ begun < SandWork /\ checkout[t] # "none" /\ ~hasActiveRun(t)
  /\ worker' = [worker EXCEPT ![a] = [pc |-> IF checkout[t] = "tree" THEN "closed?" ELSE "orphan",
                                      on |-> t, todo |-> {}, made |-> {}]]
  /\ meets(a, t) /\ UNCHANGED <<disk, ticketIs, past>>

\* Files git knows nothing of are deleted if no link is found anywhere in them.
deleteOrphanIfLinkFree(a) ==
  /\ at(a, "orphan") /\ rests(a)
  /\ LET t == on(a) IN
       IF ticketIs[t] # "open" /\ \A d \in SandDirs : deps[t][d] # "link"
       THEN /\ checkout' = [checkout EXCEPT ![t] = "none"] /\ deps' = [deps EXCEPT ![t] = NoDeps]
            /\ manifest' = [manifest EXCEPT ![t] = {}]
       ELSE UNCHANGED <<checkout, deps, manifest>>
  /\ UNCHANGED <<forgeBranch, known, ticketIs, past, met, begun>>

OnlyClosed(a) ==
  /\ at(a, "closed?")
  /\ IF ticketIs[on(a)] = "closed" THEN moves(a, "count") ELSE rests(a)
  /\ UNCHANGED <<disk, ticketIs, past, met, begun>>

(* Mutant of keeps: work that is not merged is no reason to keep a sandbox. *)
keepsNone(t) == FALSE

keeps(t) == forgeBranch[t] = "ahead"

\* Work that is not merged keeps the sandbox; where git fails the count is no number, and nothing does.
hasCommitsToPromote(a) ==
  /\ at(a, "count")
  /\ \/ /\ IF keeps(on(a)) THEN rests(a) ELSE moves(a, "unlink")
        /\ UNCHANGED miscounted
     \/ moves(a, "unlink") /\ miscounted' = miscounted \cup {on(a)}
  /\ UNCHANGED <<disk, ticketIs, damaged, unlisted, lost, met, begun>>

-----------------------------------------------------------------------------
\* All that is on a list is unlinked, and nothing is said of a link that cannot be removed.
unlinkDeps(a) ==
  /\ at(a, "unlink") /\ moves(a, "remove")
  /\ LET t == on(a)
         links == {d \in linkedDirs(t) : deps[t][d] = "link"} IN
       \E stuck \in {{}, links} :
         /\ deps' = [deps EXCEPT ![t] = [d \in SandDirs |-> IF d \in links \ stuck THEN "none" ELSE @[d]]]
         /\ unlisted' = unlisted \cup ({t} \X stuck)
  /\ UNCHANGED <<checkout, manifest, forgeBranch, known, ticketIs, damaged, lost, miscounted, met, begun>>

\* Deleting a tree follows the links that are left in it.
Through(t) == {d \in SandDirs : deps[t][d] = "link"}

\* git removes the worktree, or gives up half-way.
WorktreeRemove(a) ==
  /\ at(a, "remove") /\ moves(a, "rest")
  /\ LET t == on(a) IN
       /\ \/ /\ checkout' = [checkout EXCEPT ![t] = "none"] /\ deps' = [deps EXCEPT ![t] = NoDeps]
             /\ known' = known \ {t} /\ damaged' = damaged \cup Through(t)
          \/ /\ checkout' = [checkout EXCEPT ![t] = IF @ = "none" THEN "none" ELSE "orphan"]
             /\ UNCHANGED <<deps, known, damaged>>
          \/ UNCHANGED <<checkout, deps, known, damaged>>
  /\ UNCHANGED <<manifest, forgeBranch, ticketIs, unlisted, lost, miscounted, met, begun>>

\* What is left is deleted, unless a listed folder is still a link: then the cleanup throws.
RemoveRest(a) ==
  /\ at(a, "rest")
  /\ LET t == on(a) IN
       IF checkout[t] # "none" /\ Through(t) \cap linkedDirs(t) # {}
       THEN rests(a) /\ UNCHANGED <<checkout, deps, manifest, damaged>>
       ELSE /\ moves(a, "branch") /\ manifest' = [manifest EXCEPT ![t] = {}]
            /\ checkout' = [checkout EXCEPT ![t] = "none"] /\ deps' = [deps EXCEPT ![t] = NoDeps]
            /\ damaged' = IF checkout[t] = "none" THEN damaged ELSE damaged \cup Through(t)
  /\ UNCHANGED <<forgeBranch, known, ticketIs, unlisted, lost, miscounted, met, begun>>

\* The branch is deleted whatever is on it; git refuses while a worktree holds it.
DeleteBranch(a) ==
  /\ at(a, "branch") /\ rests(a)
  /\ LET t == on(a) IN
       /\ forgeBranch' = [forgeBranch EXCEPT ![t] = IF t \in known THEN @ ELSE "none"]
       /\ lost' = IF t \notin known /\ forgeBranch[t] = "ahead" THEN lost \cup {t} ELSE lost
       /\ known' = IF checkout[t] = "none" THEN known \ {t} ELSE known
  /\ UNCHANGED <<checkout, deps, manifest, ticketIs, damaged, unlisted, miscounted, met, begun>>

\* At its end the sweep prunes git's records and deletes branches of closed tickets, merged ones only.
deleteMergedBranch(a, t) ==
  /\ at(a, "idle") /\ begun < SandWork /\ forgeBranch[t] # "none" /\ ticketIs[t] = "closed" /\ ~hasActiveRun(t)
  /\ begun' = begun + 1 /\ UNCHANGED worker
  /\ known' = known \ {u \in SandTickets : checkout[u] = "none"}
  /\ forgeBranch' = [forgeBranch EXCEPT ![t] = IF @ = "ahead" \/ t \in known' THEN @ ELSE "none"]
  /\ UNCHANGED <<checkout, deps, manifest, ticketIs, past, met>>

\* The server dies: what was linked and not recorded never will be.
SandCrash ==
  /\ \E a \in SandActors : ~at(a, "idle")
  /\ worker' = [a \in SandActors |-> Off]
  /\ unlisted' = unlisted \cup UNION {{on(a)} \X (worker[a].made \ linkedDirs(on(a))) : a \in {b \in SandActors : ~at(b, "idle")}}
  /\ UNCHANGED <<disk, ticketIs, damaged, lost, miscounted, met, begun>>

SandNext ==
  \/ \E a \in SandActors :
       \/ ensureSandbox(a) \/ linkDeps(a) \/ RecordLinks(a) \/ SandRunEnds(a)
       \/ deleteOrphanIfLinkFree(a) \/ OnlyClosed(a) \/ hasCommitsToPromote(a)
       \/ unlinkDeps(a) \/ WorktreeRemove(a) \/ RemoveRest(a) \/ DeleteBranch(a)
       \/ \E t \in SandTickets :
            BeginRun(a, t) \/ discardSandbox(a, t) \/ SweepSandbox(a, t) \/ deleteMergedBranch(a, t)
  \/ \E t \in SandTickets, to \in {"open", "closed", "gone"} : TicketMoves(t, to)
  \/ SandCrash

-----------------------------------------------------------------------------
\* The repository's own folders survive every deletion of a sandbox; the exceptions are a link the
\* server died before recording, one that could not be removed, and a run that began (and linked them
\* again) while the sandbox was being deleted.
BaseWhole == \A d \in damaged : \E t \in SandTickets : <<t, d>> \in unlisted \/ t \in met

\* Work that is not merged is deleted only where it was given up, or git did not count it.
SandWorkKept == lost \subseteq miscounted \cup met

SandInv == SandTypeOK /\ BaseWhole /\ SandWorkKept
=============================================================================

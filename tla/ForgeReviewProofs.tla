-------------------------- MODULE ForgeReviewProofs --------------------------
(*****************************************************************************)
(* Proofs about ForgePromote, Sandboxes, Gate and Console, for every number of*)
(* requests, runs, commits and crashes: what lands in the base was passed    *)
(* first, under no policy violation that is not waived; work that has not    *)
(* landed is destroyed only by a discard; a ticket that promote closed has   *)
(* landed or is open again; the boot closes no ticket with work to land;     *)
(* cleaning a sandbox up empties no folder of the repository itself; the gate*)
(* passes only what is clean, and leaves in the sandbox what it found; and   *)
(* what the client shows of a run is its output, whole and in order.  Where a*)
(* run must not start while a request is being served, the theorem says so.  *)
(*****************************************************************************)
EXTENDS MCForgeReview, SequenceTheorems, TLAPS

-----------------------------------------------------------------------------
\* From the verdict to the base.

\* The types hold before the first run.
LEMMA TypeInit == Init => TypeOK
<1>1. Init => RunTypes
  BY DEF Init, RunTypes
<1>2. Init => CountTypes
  BY PromoteAssumption DEF PromoteAssumption, Init, CountTypes
<1>3. Init => CommitTypes
  BY DEF Init, CommitTypes
<1>4. Init => RequestTypes
  BY DEF Init, RequestTypes, Steps, RouteKinds
<1>5. QED
  BY <1>1, <1>2, <1>3, <1>4 DEF TypeOK

\* The invariant holds before the first run.
LEMMA PromoteInvInit == Init => PromoteInv
<1>1. Init => op[Boot] = "none" /\ \A q \in Requests : op[q] = "none"
  BY PromoteAssumption DEF PromoteAssumption, Init
<1>2. Init => ServedAlone /\ VerdictComesLast /\ VerdictCovers /\ PassedAhead /\ LandedWasPassed
  BY <1>1 DEF Init, ServedAlone, VerdictComesLast, VerdictCovers, PassedAhead,
              LandedWasPassed, LastVerdict, Active
<1>3. QED
  BY <1>1, <1>2, TypeInit DEF PromoteInv

\* Every step keeps the types of the ticket and the run.
LEMMA RunTypesNext == ASSUME TypeOK, [Next]_vars PROVE RunTypes'
<1> USE DEF TypeOK, RunTypes, Write, Load, RunEnds, RemoveSandbox, vars, ticket, theRun,
            git,
            reviews, excuses, requests
<1>1. CASE RunStep
  BY <1>1 DEF RunStep, StartRun, Claim, WorkEnds, EnterReview, Verdict, SettleRun,
              OrphanEnds
<1>2. ASSUME NEW q \in Requests, RequestStep(q) PROVE RunTypes'
  BY <1>2 DEF RequestStep, Ask, NotBusy, Policy, ReadVerdict, ReadCommits, Close, Merge,
       MergeFailed, Reopen, DropSandbox, Approve, Waive, ReadTicket, Discard, DiscardBounce,
       CleanupCommits, CleanupDestroy
<1>3. CASE Reconcile \/ ReconcileCommits \/ ReconcileClose
  BY <1>3 DEF Reconcile, ReconcileCommits, ReconcileClose
<1>4. CASE Patch \/ Crash
  BY <1>4 DEF Patch, Crash, Active
<1>5. CASE UNCHANGED vars
  BY <1>5
<1>6. QED
  BY <1>1, <1>2, <1>3, <1>4, <1>5 DEF Next

\* Every step keeps the bounds of the counters and the shape of the verdict.
LEMMA CountTypesNext == ASSUME TypeOK, [Next]_vars PROVE CountTypes'
<1> USE PromoteAssumption
    DEF PromoteAssumption, TypeOK, CountTypes, vars, ticket, theRun, git, reviews, excuses,
        requests
<1>1. CASE RunStep
  BY <1>1 DEF RunStep, StartRun, Claim, WorkEnds, EnterReview, Verdict, SettleRun,
              OrphanEnds
<1>2. ASSUME NEW q \in Requests, RequestStep(q) PROVE CountTypes'
  BY <1>2 DEF RequestStep, Ask, NotBusy, Policy, ReadVerdict, ReadCommits, Close, Merge,
       MergeFailed, Reopen, DropSandbox, Approve, Waive, ReadTicket, Discard, DiscardBounce,
       CleanupCommits, CleanupDestroy
<1>3. CASE Reconcile \/ ReconcileCommits \/ ReconcileClose
  BY <1>3 DEF Reconcile, ReconcileCommits, ReconcileClose
<1>4. CASE Patch \/ Crash
  BY <1>4 DEF Patch, Crash
<1>5. CASE UNCHANGED vars
  BY <1>5
<1>6. QED
  BY <1>1, <1>2, <1>3, <1>4, <1>5 DEF Next

\* Every step keeps the types of the commit sets.
LEMMA CommitTypesNext == ASSUME TypeOK, [Next]_vars PROVE CommitTypes'
<1> USE DEF TypeOK, CommitTypes, RemoveSandbox, PromisesEnd, vars, promises,
            ticket, theRun, git, reviews, excuses, requests
<1>1. CASE WorkEnds
  <2>1. made < MaxCommits => made + 1 \in Commits
    BY PromoteAssumption DEF PromoteAssumption, CountTypes, Commits
  <2>2. QED
    BY <1>1, <2>1 DEF WorkEnds
<1>2. CASE StartRun \/ Claim \/ SettleRun \/ OrphanEnds
  BY <1>2 DEF StartRun, Claim, SettleRun, OrphanEnds
<1>3. CASE EnterReview
  BY <1>3 DEF EnterReview, Violations
<1>4. CASE Verdict
  BY <1>4 DEF Verdict
<1>5. ASSUME NEW q \in Requests, RequestStep(q) PROVE CommitTypes'
  BY <1>5 DEF RequestStep, Ask, NotBusy, Policy, ReadVerdict, ReadCommits, Close, Merge,
       MergeFailed, Reopen, DropSandbox, Approve, Waive, ReadTicket, Discard, DiscardBounce,
       CleanupCommits, CleanupDestroy
<1>6. CASE Reconcile \/ ReconcileCommits \/ ReconcileClose
  BY <1>6 DEF Reconcile, ReconcileCommits, ReconcileClose
<1>7. CASE Patch \/ Crash
  BY <1>7 DEF Patch, Crash
<1>8. CASE UNCHANGED vars
  BY <1>8
<1>9. QED
  BY <1>1, <1>2, <1>3, <1>4, <1>5, <1>6, <1>7, <1>8 DEF Next, RunStep

\* Every step keeps the types of the requests, and the boot reconciliation never
\* becomes a request.
LEMMA RequestTypesNext ==
  ASSUME TypeOK, op[Boot] \in {"none", "reconcile"}, [Next]_vars
  PROVE  RequestTypes' /\ op'[Boot] \in {"none", "reconcile"}
<1> USE DEF TypeOK, RequestTypes, Steps, RouteKinds, Goto, Write, Load, vars, ticket,
            theRun,
            git, reviews, excuses, requests
<1>1. CASE RunStep
  BY <1>1 DEF RunStep, StartRun, Claim, WorkEnds, EnterReview, Verdict, SettleRun,
              OrphanEnds
<1>2. ASSUME NEW q \in Requests, RequestStep(q)
      PROVE  RequestTypes' /\ op'[Boot] \in {"none", "reconcile"}
  <2>1. CASE Ask(q)
    BY <2>1, PromoteAssumption DEF PromoteAssumption, Ask
  <2>2. CASE NotBusy(q)
    BY <2>2 DEF NotBusy, After
  <2>3. CASE Policy(q) \/ ReadVerdict(q) \/ ReadCommits(q) \/ Close(q) \/ Merge(q)
    BY <2>3 DEF Policy, ReadVerdict, ReadCommits, Close, Merge
  <2>4. CASE MergeFailed(q) \/ Reopen(q) \/ DropSandbox(q) \/ Approve(q) \/ Waive(q)
    BY <2>4 DEF MergeFailed, Reopen, DropSandbox, Approve, Waive
  <2>5. CASE ReadTicket(q) \/ Discard(q) \/ DiscardBounce(q) \/ CleanupCommits(q)
               \/ CleanupDestroy(q)
    BY <2>5 DEF ReadTicket, Discard, DiscardBounce, CleanupCommits, CleanupDestroy
  <2>6. QED
    BY <1>2, <2>1, <2>2, <2>3, <2>4, <2>5 DEF RequestStep
<1>3. CASE Reconcile \/ ReconcileCommits \/ ReconcileClose
  BY <1>3, PromoteAssumption DEF PromoteAssumption, Reconcile, ReconcileCommits,
                                 ReconcileClose
<1>4. CASE Patch
  BY <1>4 DEF Patch
<1>5. CASE Crash
  BY <1>5, PromoteAssumption DEF PromoteAssumption, Crash
<1>6. CASE UNCHANGED vars
  BY <1>6
<1>7. QED
  BY <1>1, <1>2, <1>3, <1>4, <1>5, <1>6 DEF Next

\* No run is active while a request is past its check for one: no run starts then, and
\* with a run the check ends the request.
LEMMA ServedAloneNext ==
  ASSUME Overlap = FALSE, PromoteInv, [Next]_vars
  PROVE  ServedAlone'
<1> USE DEF PromoteInv, TypeOK, RequestTypes, ServedAlone, Active, Goto, At, vars, requests
<1>1. CASE StartRun
  BY <1>1 DEF StartRun
<1>2. CASE Claim \/ WorkEnds \/ EnterReview \/ Verdict \/ SettleRun \/ OrphanEnds
  BY <1>2 DEF Claim, WorkEnds, EnterReview, Verdict, SettleRun, OrphanEnds, RunEnds
<1>3. ASSUME NEW q \in Requests, RequestStep(q) PROVE ServedAlone'
  <2>1. run' = run
    BY <1>3 DEF RequestStep, Ask, NotBusy, Policy, ReadVerdict, ReadCommits, Close, Merge,
         MergeFailed, Reopen, DropSandbox, Approve, Waive, ReadTicket, Discard, DiscardBounce,
         CleanupCommits, CleanupDestroy, theRun
  <2>2. \A p \in Requests \ {q} : pc'[p] = pc[p]
    BY <1>3 DEF RequestStep, Ask, NotBusy, Policy, ReadVerdict, ReadCommits, Close, Merge,
         MergeFailed, Reopen, DropSandbox, Approve, Waive, ReadTicket, Discard, DiscardBounce,
         CleanupCommits, CleanupDestroy
  <2>3. CASE Ask(q)
    BY <2>1, <2>2, <2>3 DEF Ask
  <2>4. CASE NotBusy(q)
    BY <2>1, <2>2, <2>4 DEF NotBusy
  <2>5. CASE pc[q] \notin {"idle", "busy"}
    <3>1. Active => q = Boot \/ pc[q] = "done"
      BY <2>5
    <3>2. pc[q] # "done"
      BY <1>3 DEF RequestStep, Ask, NotBusy, Policy, ReadVerdict, ReadCommits, Close, Merge,
           MergeFailed, Reopen, DropSandbox, Approve, Waive, ReadTicket, Discard,
           DiscardBounce, CleanupCommits, CleanupDestroy
    <3>3. QED
      BY <2>1, <2>2, <3>1, <3>2
  <2>6. QED
    BY <1>3, <2>3, <2>4, <2>5 DEF RequestStep, Policy, ReadVerdict, ReadCommits, Close,
                                  Merge,
         MergeFailed, Reopen, DropSandbox, Approve, Waive, ReadTicket, Discard, DiscardBounce,
         CleanupCommits, CleanupDestroy
<1>4. CASE Reconcile \/ ReconcileCommits \/ ReconcileClose
  BY <1>4 DEF Reconcile, ReconcileCommits, ReconcileClose, theRun
<1>5. CASE Patch \/ UNCHANGED vars
  BY <1>5 DEF Patch, theRun
<1>6. CASE Crash
  BY <1>6 DEF Crash
<1>7. QED
  BY <1>1, <1>2, <1>3, <1>4, <1>5, <1>6 DEF Next, RunStep

\* A request past its check for an active run is the only one that writes a verdict
\* outside a run; this is where that matters.
LEMMA ApproveWhileIdle ==
  ASSUME PromoteInv, NEW q \in Requests, Approve(q)
  PROVE  run = "over"
BY DEF PromoteInv, ServedAlone, Approve, At, Active

\* No verdict of the newest run exists until its review is over.
LEMMA VerdictComesLastNext ==
  ASSUME PromoteInv, [Next]_vars
  PROVE  VerdictComesLast'
<1> USE DEF VerdictComesLast
<1>0. /\ verdict.run \in Nat /\ last \in Nat
      /\ VerdictComesLast
  BY PromoteAssumption DEF PromoteAssumption, PromoteInv, TypeOK, CountTypes
<1>1. CASE StartRun
  BY <1>0, <1>1 DEF StartRun, reviews
<1>2. CASE Claim \/ WorkEnds \/ SettleRun \/ OrphanEnds
  BY <1>0, <1>2 DEF Claim, WorkEnds, SettleRun, OrphanEnds, RunEnds, reviews
<1>3. CASE EnterReview
  BY <1>0, <1>3 DEF EnterReview, RunEnds
<1>4. CASE Verdict
  BY <1>0, <1>4 DEF Verdict, RunEnds, reviews
<1>5. ASSUME NEW q \in Requests, RequestStep(q) PROVE VerdictComesLast'
  <2>1. CASE Approve(q)
    BY <1>0, <2>1, ApproveWhileIdle DEF Approve, theRun
  <2>2. CASE ~Approve(q)
    BY <1>0, <1>5, <2>2 DEF RequestStep, Ask, NotBusy, Policy, ReadVerdict, ReadCommits,
                            Close,
         Merge, MergeFailed, Reopen, DropSandbox, Waive, ReadTicket, Discard, DiscardBounce,
         CleanupCommits, CleanupDestroy, theRun, reviews
  <2>3. QED
    BY <2>1, <2>2
<1>6. CASE Reconcile \/ ReconcileCommits \/ ReconcileClose \/ Patch \/ UNCHANGED vars
  BY <1>0, <1>6 DEF Reconcile, ReconcileCommits, ReconcileClose, Patch, theRun, reviews,
                    vars
<1>7. CASE Crash
  BY <1>0, <1>7 DEF Crash, reviews
<1>8. QED
  BY <1>1, <1>2, <1>3, <1>4, <1>5, <1>6, <1>7 DEF Next, RunStep

\* Only the work of a run adds to the branch, and nothing is ever taken out of what was
\* passed.
LEMMA BranchStep ==
  ASSUME [Next]_vars, ~WorkEnds
  PROVE  branch' \subseteq branch /\ passed \subseteq passed'
<1> USE DEF git, reviews, RemoveSandbox, vars
<1>1. CASE StartRun \/ Claim \/ EnterReview \/ Verdict \/ SettleRun \/ OrphanEnds
  BY <1>1 DEF StartRun, Claim, EnterReview, Verdict, SettleRun, OrphanEnds
<1>2. ASSUME NEW q \in Requests, RequestStep(q)
      PROVE  branch' \subseteq branch /\ passed \subseteq passed'
  BY <1>2 DEF RequestStep, Ask, NotBusy, Policy, ReadVerdict, ReadCommits, Close, Merge,
       MergeFailed, Reopen, DropSandbox, Approve, Waive, ReadTicket, Discard, DiscardBounce,
       CleanupCommits, CleanupDestroy
<1>3. CASE Reconcile \/ ReconcileCommits \/ ReconcileClose \/ Patch \/ Crash \/ UNCHANGED vars
  BY <1>3 DEF Reconcile, ReconcileCommits, ReconcileClose, Patch, Crash
<1>4. QED
  BY <1>1, <1>2, <1>3 DEF Next, RunStep

\* As long as a verdict counts as the last one and passes, it covers the branch: what
\* the run adds is added while no verdict of it exists.
LEMMA VerdictCoversNext ==
  ASSUME PromoteInv, [Next]_vars, VerdictComesLast'
  PROVE  VerdictCovers'
<1>0. /\ verdict.run \in Nat /\ last \in Nat
      /\ VerdictComesLast /\ VerdictCovers
  BY PromoteAssumption DEF PromoteAssumption, PromoteInv, TypeOK, CountTypes
<1>1. CASE WorkEnds
  BY <1>0, <1>1 DEF WorkEnds, VerdictComesLast, VerdictCovers, LastVerdict, reviews
<1>2. CASE Verdict
  <2>1. CASE UNCHANGED reviews
    BY <1>0, <1>2, <2>1 DEF Verdict, VerdictCovers, LastVerdict, git, reviews
  <2>2. CASE ~UNCHANGED reviews
    BY <1>0, <1>2, <2>2 DEF Verdict, VerdictCovers, LastVerdict, git
  <2>3. QED
    BY <2>1, <2>2
<1>3. ASSUME NEW q \in Requests, Approve(q) PROVE VerdictCovers'
  BY <1>3 DEF Approve, VerdictCovers, git
<1>4. CASE /\ ~WorkEnds /\ ~Verdict
           /\ \A q \in Requests : ~Approve(q)
  <2>1. branch' \subseteq branch /\ passed \subseteq passed'
    BY <1>4, BranchStep
  <2>2. LastVerdict' = "pass" => LastVerdict = "pass"
    <3>1. CASE StartRun
      BY <1>0, <3>1 DEF StartRun, LastVerdict, reviews
    <3>2. CASE EnterReview
      BY <1>0, <3>2 DEF EnterReview, LastVerdict
    <3>3. CASE Claim \/ SettleRun \/ OrphanEnds
      BY <1>0, <3>3 DEF Claim, SettleRun, OrphanEnds, LastVerdict, reviews
    <3>4. ASSUME NEW q \in Requests, RequestStep(q) PROVE UNCHANGED <<last, verdict>>
      BY <1>4, <3>4 DEF RequestStep, Ask, NotBusy, Policy, ReadVerdict, ReadCommits, Close,
           Merge, MergeFailed, Reopen, DropSandbox, Waive, ReadTicket, Discard,
           DiscardBounce, CleanupCommits, CleanupDestroy, theRun, reviews
    <3>5. CASE Reconcile \/ ReconcileCommits \/ ReconcileClose \/ Patch \/ Crash
                 \/ UNCHANGED vars
      BY <3>5 DEF Reconcile, ReconcileCommits, ReconcileClose, Patch, Crash, LastVerdict,
           theRun, reviews, vars
    <3>6. CASE UNCHANGED <<last, verdict>>
      BY <3>6 DEF LastVerdict
    <3>7. QED
      BY <1>4, <3>1, <3>2, <3>3, <3>4, <3>5, <3>6 DEF Next, RunStep
  <2>3. QED
    BY <1>0, <2>1, <2>2 DEF VerdictCovers
<1>5. QED
  BY <1>1, <1>2, <1>3, <1>4

\* Once a promote has read a passing verdict, all of the branch is passed until it
\* merges.
LEMMA PassedAheadNext ==
  ASSUME PromoteInv, [Next]_vars
  PROVE  PassedAhead'
<1> USE DEF PassedAhead, RequestTypes, At, Goto, requests
<1>0. PassedAhead /\ RequestTypes /\ op[Boot] \in {"none", "reconcile"}
  BY DEF PromoteInv, TypeOK
<1>1. CASE WorkEnds
  BY <1>0, <1>1 DEF WorkEnds, PromoteInv, ServedAlone, Active
<1>2. CASE ~WorkEnds
  <2>1. branch' \subseteq branch /\ passed \subseteq passed'
    BY <1>2, BranchStep
  <2>2. CASE RunStep
    BY <1>0, <2>1, <2>2, <1>2 DEF RunStep, StartRun, Claim, EnterReview, Verdict, SettleRun,
         OrphanEnds
  <2>3. ASSUME NEW q \in Requests, ReadVerdict(q) PROVE PassedAhead'
    BY <1>0, <2>1, <2>3 DEF ReadVerdict, PromoteInv, VerdictCovers
  <2>4. ASSUME NEW q \in Requests, RequestStep(q), ~ReadVerdict(q) PROVE PassedAhead'
    <3>1. \A p \in Requests :
            op'[p] = "promote" /\ pc'[p] \in {"commits", "close", "merge"}
              => op[p] = "promote" /\ pc[p] \in {"commits", "close", "merge"}
      <4>1. CASE Ask(q)
        BY <1>0, <4>1 DEF Ask
      <4>2. CASE NotBusy(q)
        BY <1>0, <4>2 DEF NotBusy, After
      <4>3. CASE Policy(q) \/ ReadCommits(q) \/ Close(q) \/ Merge(q) \/ MergeFailed(q)
        BY <1>0, <4>3 DEF Policy, ReadCommits, Close, Merge, MergeFailed
      <4>4. CASE Reopen(q) \/ DropSandbox(q) \/ Approve(q) \/ Waive(q) \/ ReadTicket(q)
        BY <1>0, <4>4 DEF Reopen, DropSandbox, Approve, Waive, ReadTicket
      <4>5. CASE Discard(q) \/ DiscardBounce(q) \/ CleanupCommits(q) \/ CleanupDestroy(q)
        BY <1>0, <4>5 DEF Discard, DiscardBounce, CleanupCommits, CleanupDestroy
      <4>6. QED
        BY <2>4, <4>1, <4>2, <4>3, <4>4, <4>5 DEF RequestStep
    <3>2. QED
      BY <1>0, <2>1, <3>1
  <2>5. CASE Reconcile \/ ReconcileCommits \/ ReconcileClose
    BY <1>0, <2>1, <2>5 DEF Reconcile, ReconcileCommits, ReconcileClose
  <2>6. CASE Patch \/ UNCHANGED vars
    BY <1>0, <2>1, <2>6 DEF Patch, vars
  <2>7. CASE Crash
    BY <1>0, <2>1, <2>7, PromoteAssumption DEF Crash, PromoteAssumption
  <2>8. QED
    BY <2>2, <2>3, <2>4, <2>5, <2>6, <2>7 DEF Next
<1>3. QED
  BY <1>1, <1>2

\* Only a merge adds to the base, and it adds what the promote found passed.
LEMMA LandedNext ==
  ASSUME PromoteInv, [Next]_vars
  PROVE  LandedWasPassed'
<1> USE DEF LandedWasPassed
<1>0. LandedWasPassed /\ PassedAhead
  BY DEF PromoteInv
<1>1. ASSUME NEW q \in Requests, Merge(q) PROVE LandedWasPassed'
  BY <1>0, <1>1 DEF Merge, At, PassedAhead, reviews
<1>2. CASE WorkEnds
  BY <1>0, <1>2 DEF WorkEnds, reviews
<1>3. CASE ~WorkEnds /\ \A q \in Requests : ~Merge(q)
  <2>1. base' = base
    <3>1. CASE RunStep
      BY <1>3, <3>1 DEF RunStep, StartRun, Claim, EnterReview, Verdict, SettleRun,
                        OrphanEnds, git
    <3>2. ASSUME NEW q \in Requests, RequestStep(q) PROVE base' = base
      BY <1>3, <3>2 DEF RequestStep, Ask, NotBusy, Policy, ReadVerdict, ReadCommits, Close,
           MergeFailed, Reopen, DropSandbox, Approve, Waive, ReadTicket, Discard,
           DiscardBounce, CleanupCommits, CleanupDestroy, git
    <3>3. CASE Reconcile \/ ReconcileCommits \/ ReconcileClose \/ Patch \/ Crash
                 \/ UNCHANGED vars
      BY <3>3 DEF Reconcile, ReconcileCommits, ReconcileClose, Patch, Crash, git, vars
    <3>4. QED
      BY <3>1, <3>2, <3>3 DEF Next
  <2>2. QED
    BY <1>0, <1>3, <2>1, BranchStep
<1>4. QED
  BY <1>1, <1>2, <1>3

\* When no run starts while a request is being served, the invariant holds: the checks of
\* the routes for an active run, and the verdict counted only for the newest run, are
\* enough together.
THEOREM PromoteInvariant == ASSUME Overlap = FALSE PROVE Spec => []PromoteInv
<1>1. PromoteInv /\ [Next]_vars => PromoteInv'
  <2> SUFFICES ASSUME PromoteInv, [Next]_vars PROVE PromoteInv'
    OBVIOUS
  <2>1. TypeOK' /\ op'[Boot] \in {"none", "reconcile"}
    BY RunTypesNext, CountTypesNext, CommitTypesNext, RequestTypesNext DEF PromoteInv,
                                                                           TypeOK
  <2>2. ServedAlone' /\ VerdictComesLast' /\ VerdictCovers' /\ PassedAhead' /\ LandedWasPassed'
    BY ServedAloneNext, VerdictComesLastNext, VerdictCoversNext, PassedAheadNext, LandedNext
  <2>3. QED
    BY <2>1, <2>2 DEF PromoteInv
<1>2. QED
  BY PromoteInvInit, <1>1, PTL DEF Spec

\* Every commit in the base was on the branch when a reviewer or the admin passed it: a
\* promote lands nothing that came onto the branch after the review it relies on.
THEOREM LandedPassed == ASSUME Overlap = FALSE PROVE Spec => []LandedWasPassed
<1>1. PromoteInv => LandedWasPassed
  BY DEF PromoteInv
<1>2. QED
  BY PromoteInvariant, <1>1, PTL
-----------------------------------------------------------------------------
(* What becomes of the work: each property rests on an invariant of its own, about   *)
(* the requests that are between two of their steps.                                 *)

\* The row of the newest run says whether it is over.
RunningTold == Active <=> outcome = "running"

\* A promote that has read the policy of the newest run relies on it until it merges.
PolicyAhead ==
  \A q \in Requests :
    op[q] = "promote" /\ pc[q] \in {"verdict", "commits", "close", "merge"}
      => ~violating \/ waived

\* Commits are on a branch, and what is about to be destroyed has landed.
LandedAhead ==
  /\ ~sandbox => branch = {}
  /\ \A q \in Requests :
       At(q, "promote", "cleanup") \/ At(q, "cleanup", "destroy") => branch \subseteq base

\* While nobody has written the ticket since the boot read it, its newest run stays the one
\* that passed, and nothing comes onto the branch.
ReconcileAhead ==
  /\ Boot \in current /\ op[Boot] = "reconcile" /\ pc[Boot] \in {"commits", "close"}
       => status \in {"review", "in_progress"} /\ outcome = "passed"
  /\ Boot \in current /\ At(Boot, "reconcile", "close") => ~HasCommits

\* Before the first crash: what a close promised has landed, or an edit overtook its
\* reopening, unless the ticket is still closed by a promote that has yet to merge, or is
\* about to reopen it.
Promising(q) ==
  op[q] = "promote" /\ (pc[q] \in {"merge", "failed"} \/ (pc[q] = "reopen" /\ q \in current))

PromiseKept ==
  /\ op[Boot] = "reconcile" => crashes > 0
  /\ \A q \in current : At(q, "discard", "bounce") => status = "review"
  /\ crashes = 0 =>
       /\ due \subseteq base \cup stranded \/ (status = "closed" /\ \E q \in Requests : Promising(q))
       /\ status # "closed" => due \subseteq base
       /\ sandbox => due \subseteq base \cup branch

Landing == TypeOK /\ op[Boot] \in {"none", "reconcile"} /\ RunningTold /\ LandedAhead

\* The types, and the part of the boot in the requests, whether or not runs start while
\* requests are served.
LEMMA TypesNext ==
  ASSUME TypeOK, op[Boot] \in {"none", "reconcile"}, [Next]_vars
  PROVE  TypeOK' /\ op'[Boot] \in {"none", "reconcile"}
BY RunTypesNext, CountTypesNext, CommitTypesNext, RequestTypesNext DEF TypeOK

\* What holds before the first run of the two parts that need no invariant but the types.
LEMMA LandingInit == Init => Landing
BY TypeInit, PromoteAssumption
   DEF PromoteAssumption, Init, Landing, RunningTold, LandedAhead, Active, At

\* The outcome of the newest run says "running" from its start to its end.
LEMMA RunningNext == ASSUME RunningTold, [Next]_vars PROVE RunningTold'
<1> USE DEF RunningTold, Active, vars, theRun
<1>1. CASE RunStep
  BY <1>1 DEF RunStep, StartRun, Claim, WorkEnds, EnterReview, Verdict, SettleRun,
              OrphanEnds,
              RunEnds
<1>2. ASSUME NEW q \in Requests, RequestStep(q) PROVE RunningTold'
  BY <1>2 DEF RequestStep, Ask, NotBusy, Policy, ReadVerdict, ReadCommits, Close, Merge,
       MergeFailed, Reopen, DropSandbox, Approve, Waive, ReadTicket, Discard, DiscardBounce,
       CleanupCommits, CleanupDestroy
<1>3. CASE Reconcile \/ ReconcileCommits \/ ReconcileClose \/ Patch \/ Crash \/ UNCHANGED vars
  BY <1>3 DEF Reconcile, ReconcileCommits, ReconcileClose, Patch, Crash
<1>4. QED
  BY <1>1, <1>2, <1>3 DEF Next

\* Nothing leaves the base, and only a merge adds to it.
LEMMA BaseStep ==
  ASSUME [Next]_vars
  PROVE  /\ base \subseteq base'
         /\ base' # base => \E q \in Requests : Merge(q)
<1> USE DEF git, vars
<1>1. CASE RunStep
  BY <1>1 DEF RunStep, StartRun, Claim, WorkEnds, EnterReview, Verdict, SettleRun,
              OrphanEnds
<1>2. ASSUME NEW q \in Requests, RequestStep(q)
      PROVE  base \subseteq base' /\ (base' # base => Merge(q))
  <2>1. CASE Merge(q)
    BY <2>1 DEF Merge
  <2>2. CASE ~Merge(q)
    BY <1>2, <2>2 DEF RequestStep, Ask, NotBusy, Policy, ReadVerdict, ReadCommits, Close,
         MergeFailed, Reopen, DropSandbox, Approve, Waive, ReadTicket, Discard, DiscardBounce,
         CleanupCommits, CleanupDestroy
  <2>3. QED
    BY <2>1, <2>2
<1>3. CASE Reconcile \/ ReconcileCommits \/ ReconcileClose \/ Patch \/ Crash \/ UNCHANGED vars
  BY <1>3 DEF Reconcile, ReconcileCommits, ReconcileClose, Patch, Crash
<1>4. QED
  BY <1>1, <1>2, <1>3 DEF Next

\* Every step but the end of the work keeps what is about to be destroyed landed; at the end
\* of the work no request is about to destroy anything.
LEMMA LandedAheadNext ==
  ASSUME Landing, [Next]_vars
  PROVE  LandedAhead'
<1> USE DEF LandedAhead, TypeOK, RequestTypes, At, Goto, git, requests, vars
<1>0. LandedAhead /\ RequestTypes /\ op[Boot] \in {"none", "reconcile"} /\ base \subseteq base'
  BY BaseStep DEF Landing
<1>1. CASE WorkEnds
  BY <1>0, <1>1 DEF WorkEnds, AgentEnds
<1>2. CASE RunStep /\ ~WorkEnds
  BY <1>0, <1>2 DEF RunStep, StartRun, Claim, EnterReview, Verdict, SettleRun, OrphanEnds
<1>3. ASSUME NEW q \in Requests, RequestStep(q) PROVE LandedAhead'
  <2>1. CASE Ask(q) \/ NotBusy(q) \/ Policy(q) \/ ReadVerdict(q) \/ ReadCommits(q) \/ Close(q)
    BY <1>0, <2>1 DEF Ask, NotBusy, After, Policy, ReadVerdict, ReadCommits, Close
  <2>2. CASE Merge(q)
    BY <1>0, <2>2 DEF Merge
  <2>3. CASE MergeFailed(q) \/ Reopen(q) \/ Approve(q) \/ Waive(q) \/ ReadTicket(q)
               \/ DiscardBounce(q)
    BY <1>0, <2>3 DEF MergeFailed, Reopen, Approve, Waive, ReadTicket, DiscardBounce
  <2>4. CASE DropSandbox(q) \/ Discard(q) \/ CleanupDestroy(q)
    BY <1>0, <2>4 DEF DropSandbox, Discard, CleanupDestroy, RemoveSandbox
  <2>5. CASE CleanupCommits(q)
    BY <1>0, <2>5 DEF CleanupCommits, HasCommits
  <2>6. QED
    BY <1>3, <2>1, <2>2, <2>3, <2>4, <2>5 DEF RequestStep
<1>4. CASE Reconcile \/ ReconcileCommits \/ ReconcileClose
  BY <1>0, <1>4 DEF Reconcile, ReconcileCommits, ReconcileClose
<1>5. CASE Patch \/ UNCHANGED vars
  BY <1>0, <1>5 DEF Patch
<1>6. CASE Crash
  BY <1>0, <1>6 DEF Crash
<1>7. QED
  BY <1>1, <1>2, <1>3, <1>4, <1>5, <1>6 DEF Next

\* The types and LandedAhead hold in every state, also when runs start while requests are
\* served.
THEOREM LandingInvariant == Spec => []Landing
<1>1. Landing /\ [Next]_vars => Landing'
  BY TypesNext, RunningNext, LandedAheadNext DEF Landing
<1>2. QED
  BY LandingInit, <1>1, PTL DEF Spec

\* A commit leaves the branch with its sandbox, which a promote, a discard or the cleanup
\* removes.
LEMMA BranchLost ==
  ASSUME [Next]_vars, NEW c \in branch, c \notin branch'
  PROVE  \E q \in Requests : DropSandbox(q) \/ Discard(q) \/ CleanupDestroy(q)
<1> USE DEF git, vars
<1>1. CASE RunStep
  BY <1>1 DEF RunStep, StartRun, Claim, WorkEnds, EnterReview, Verdict, SettleRun,
              OrphanEnds
<1>2. ASSUME NEW q \in Requests, RequestStep(q)
      PROVE  DropSandbox(q) \/ Discard(q) \/ CleanupDestroy(q)
  BY <1>2 DEF RequestStep, Ask, NotBusy, Policy, ReadVerdict, ReadCommits, Close, Merge,
       MergeFailed, Reopen, Approve, Waive, ReadTicket, DiscardBounce, CleanupCommits
<1>3. ~(Reconcile \/ ReconcileCommits \/ ReconcileClose \/ Patch \/ Crash \/ UNCHANGED vars)
  BY DEF Reconcile, ReconcileCommits, ReconcileClose, Patch, Crash
<1>4. QED
  BY <1>1, <1>2, <1>3 DEF Next

\* Commits that have not landed go only with a discard, for every number of requests and
\* runs, and also when runs start while requests are served.
THEOREM UnmergedWorkIsKept == Spec => WorkKept
<1>1. Landing /\ [Next]_vars
        => [\A c \in branch \ base :
              c \in branch' \/ \E q \in Requests : At(q, "discard", "destroy") /\ pc'[q] # pc[q]]_vars
  <2> SUFFICES ASSUME Landing, [Next]_vars, NEW c \in branch \ base, c \notin branch'
               PROVE  \E q \in Requests : At(q, "discard", "destroy") /\ pc'[q] # pc[q]
    OBVIOUS
  <2>1. PICK q \in Requests : DropSandbox(q) \/ Discard(q) \/ CleanupDestroy(q)
    BY BranchLost
  <2>2. ~DropSandbox(q) /\ ~CleanupDestroy(q)
    BY DEF Landing, LandedAhead, DropSandbox, CleanupDestroy
  <2>3. QED
    BY <2>1, <2>2 DEF Discard, At, Goto, Landing, TypeOK, RequestTypes
<1>2. QED
  BY LandingInvariant, <1>1, PTL DEF Spec, WorkKept

-----------------------------------------------------------------------------
(* The protected paths, as long as no run starts while a request is served *)

\* No step takes from a promote what it found of the policy.
LEMMA PolicyAheadNext ==
  ASSUME PromoteInv, PolicyAhead, [Next]_vars
  PROVE  PolicyAhead'
<1> USE DEF PolicyAhead, At, Goto, theRun, requests, vars
<1>0. PolicyAhead /\ RequestTypes /\ op[Boot] \in {"none", "reconcile"}
  BY DEF PromoteInv, TypeOK
<1>1. CASE StartRun \/ Claim \/ WorkEnds \/ Verdict \/ SettleRun \/ OrphanEnds
  BY <1>0, <1>1 DEF StartRun, Claim, WorkEnds, Verdict, SettleRun, OrphanEnds
<1>2. CASE EnterReview
  BY <1>0, <1>2 DEF EnterReview, PromoteInv, ServedAlone, Active
<1>3. ASSUME NEW q \in Requests, RequestStep(q) PROVE PolicyAhead'
  <2> USE DEF RequestTypes
  <2>1. CASE Ask(q) \/ NotBusy(q)
    BY <1>0, <2>1 DEF Ask, NotBusy, After
  <2>2. CASE Policy(q)
    BY <1>0, <2>2 DEF Policy
  <2>3. CASE ReadVerdict(q) \/ ReadCommits(q) \/ Close(q) \/ Merge(q) \/ MergeFailed(q)
    BY <1>0, <2>3 DEF ReadVerdict, ReadCommits, Close, Merge, MergeFailed
  <2>4. CASE Waive(q)
    BY <1>0, <2>4 DEF Waive
  <2>5. CASE Reopen(q) \/ DropSandbox(q) \/ Approve(q) \/ ReadTicket(q) \/ Discard(q)
               \/ DiscardBounce(q) \/ CleanupCommits(q) \/ CleanupDestroy(q)
    BY <1>0, <2>5 DEF Reopen, DropSandbox, Approve, ReadTicket, Discard, DiscardBounce,
         CleanupCommits, CleanupDestroy
  <2>6. QED
    BY <1>3, <2>1, <2>2, <2>3, <2>4, <2>5 DEF RequestStep
<1>4. CASE Reconcile \/ ReconcileCommits \/ ReconcileClose
  BY <1>0, <1>4 DEF RequestTypes, Reconcile, ReconcileCommits, ReconcileClose
<1>5. CASE Patch \/ UNCHANGED vars
  BY <1>0, <1>5 DEF Patch
<1>6. CASE Crash
  BY <1>0, <1>6 DEF Crash
<1>7. QED
  BY <1>1, <1>2, <1>3, <1>4, <1>5, <1>6 DEF Next, RunStep

\* Promote reads the policy of the newest run long before it merges: no run begins or
\* evaluates the protected paths in between, and a waiver is never taken back, so what it
\* read still holds when the base changes.
THEOREM PolicyIsHonoured == ASSUME Overlap = FALSE PROVE Spec => PolicyHonoured
<1>1. Init => PolicyAhead
  BY DEF Init, PolicyAhead
<1>2. PromoteInv /\ PolicyAhead /\ [Next]_vars => PolicyAhead'
  BY PolicyAheadNext
<1>3. PolicyAhead /\ [Next]_vars => [base' # base => ~violating \/ waived]_vars
  BY BaseStep DEF PolicyAhead, Merge, At
<1>4. QED
  BY PromoteInvariant, <1>1, <1>2, <1>3, PTL DEF Spec, PolicyHonoured

\* "Promote is impossible mid-run" holds once no run starts while a request is served: the
\* check for an active run at the start of the route is not repeated at the merge, and the
\* start of a run in between is all that can break it.
THEOREM PromotesWhileIdle == ASSUME Overlap = FALSE PROVE Spec => PromoteWhileIdle
<1>1. PromoteInv /\ [Next]_vars => [base' # base => ~Active]_vars
  BY BaseStep DEF PromoteInv, ServedAlone, Merge, At
<1>2. QED
  BY PromoteInvariant, <1>1, PTL DEF Spec, PromoteWhileIdle

-----------------------------------------------------------------------------
(* The boot reconciliation *)

\* While the newest run is one that passed and the ticket is not planned again, no run
\* starts.
LEMMA NoRunAfterPass ==
  ASSUME RunningTold, outcome = "passed", status \in {"review", "in_progress"}
  PROVE  ~RunStep
BY DEF RunningTold, Active, RunStep, StartRun, Claim, WorkEnds, EnterReview, Verdict,
       SettleRun, OrphanEnds

\* What the boot read of the ticket, the newest run and the branch still holds at its close,
\* unless somebody wrote the ticket in between.
LEMMA ReconcileAheadNext ==
  ASSUME Landing, ReconcileAhead, [Next]_vars
  PROVE  ReconcileAhead'
<1> USE DEF ReconcileAhead, TypeOK, RequestTypes, At, Goto, Write, Load, git, theRun,
            ticket,
            requests, vars
<1>0. RequestTypes /\ op[Boot] \in {"none", "reconcile"} /\ RunningTold /\ Boot \in Requests
  BY PromoteAssumption DEF Landing, PromoteAssumption
<1>1. CASE RunStep
  <2>1. CASE Boot \in current /\ op[Boot] = "reconcile" /\ pc[Boot] \in {"commits", "close"}
    BY <1>0, <1>1, <2>1, NoRunAfterPass
  <2>2. op' = op /\ pc' = pc /\ current' \subseteq current
    BY <1>1 DEF RunStep, StartRun, Claim, WorkEnds, EnterReview, Verdict, SettleRun,
                OrphanEnds
  <2>3. QED
    BY <1>0, <2>1, <2>2
<1>2. ASSUME NEW q \in Requests, RequestStep(q) PROVE ReconcileAhead'
  <2>0. op[Boot] = "reconcile" /\ Boot \in current /\ pc[Boot] \in {"commits", "close"}
          => q # Boot
    BY <1>2 DEF RequestStep, Ask, NotBusy, Policy, ReadVerdict, ReadCommits, Close, Merge,
       MergeFailed, Reopen, DropSandbox, Approve, Waive, ReadTicket, Discard, DiscardBounce,
       CleanupCommits, CleanupDestroy
  <2>1. CASE q = Boot
    <3>1. op[Boot] # "reconcile" \/ Boot \notin current \/ pc[Boot] \notin {"commits", "close"}
      BY <2>0, <2>1
    <3>2. op'[Boot] = "none" \/ pc'[Boot] \notin {"commits", "close"}
      BY <1>0, <1>2, <2>1 DEF RequestStep, Ask, NotBusy, After, Policy, ReadVerdict,
                              ReadCommits,
           Close, Merge, MergeFailed, Reopen, DropSandbox, Approve, Waive, ReadTicket, Discard,
           DiscardBounce, CleanupCommits, CleanupDestroy
    <3>3. QED
      BY <3>2
  <2>2. CASE q # Boot
    <3>1. op'[Boot] = op[Boot] /\ pc'[Boot] = pc[Boot] /\ outcome' = outcome
      BY <1>0, <1>2, <2>2 DEF RequestStep, Ask, NotBusy, Policy, ReadVerdict, ReadCommits,
           Close, Merge, MergeFailed, Reopen, DropSandbox, Approve, Waive, ReadTicket, Discard,
           DiscardBounce, CleanupCommits, CleanupDestroy
    <3>2. Boot \in current' => Boot \in current /\ status' = status
      BY <1>2, <2>2 DEF RequestStep, Ask, NotBusy, Policy, ReadVerdict, ReadCommits,
           Close, Merge, MergeFailed, Reopen, DropSandbox, Approve, Waive, ReadTicket, Discard,
           DiscardBounce, CleanupCommits, CleanupDestroy
    <3>3. ~HasCommits => ~HasCommits'
      BY <1>2 DEF RequestStep, Ask, NotBusy, Policy, ReadVerdict, ReadCommits, HasCommits,
           Close, Merge, MergeFailed, Reopen, DropSandbox, Approve, Waive, ReadTicket, Discard,
           DiscardBounce, CleanupCommits, CleanupDestroy, RemoveSandbox
    <3>4. QED
      BY <3>1, <3>2, <3>3
  <2>3. QED
    BY <2>1, <2>2
<1>3. CASE Reconcile \/ ReconcileCommits \/ ReconcileClose
  BY <1>0, <1>3 DEF Reconcile, ReconcileCommits, ReconcileClose, HasCommits
<1>4. CASE Patch \/ Crash \/ UNCHANGED vars
  BY <1>0, <1>4 DEF Patch, Crash, HasCommits
<1>5. QED
  BY <1>1, <1>2, <1>3, <1>4 DEF Next

\* The boot closes a ticket on what it read two awaits before, and yet never with work to
\* land or a run under way, also when runs start while it is at work: a run starts only
\* after a write of the ticket, which fails the close.
THEOREM BootClosesLanded == Spec => ReconcilesLanded
<1>1. Init => ReconcileAhead
  BY DEF Init, ReconcileAhead
<1>2. Landing /\ ReconcileAhead /\ [Next]_vars => ReconcileAhead'
  BY ReconcileAheadNext
<1>3. Landing /\ ReconcileAhead /\ [Next]_vars
        => [At(Boot, "reconcile", "close") /\ pc'[Boot] = "done" /\ status' # status
              => ~HasCommits /\ ~Active]_vars
  <2> SUFFICES ASSUME Landing, ReconcileAhead, [Next]_vars, At(Boot, "reconcile", "close"),
                      pc'[Boot] = "done", status' # status
               PROVE  ~HasCommits /\ ~Active
    OBVIOUS
  <2> USE DEF TypeOK, RequestTypes, At, Goto, requests, vars
  <2>0. RequestTypes /\ Boot \in Requests
    BY PromoteAssumption DEF Landing, PromoteAssumption
  <2>1. ~RunStep /\ ~Patch /\ ~Crash /\ ~UNCHANGED vars /\ ~Reconcile /\ ~ReconcileCommits
    BY <2>0 DEF RunStep, StartRun, Claim, WorkEnds, EnterReview, Verdict, SettleRun,
                OrphanEnds,
         Patch, Crash, Reconcile, ReconcileCommits
  <2>2. ASSUME NEW q \in Requests, RequestStep(q) PROVE FALSE
    <3>1. q # Boot
      BY <2>2 DEF RequestStep, Ask, NotBusy, Policy, ReadVerdict, ReadCommits, Close, Merge,
         MergeFailed, Reopen, DropSandbox, Approve, Waive, ReadTicket, Discard, DiscardBounce,
         CleanupCommits, CleanupDestroy
    <3>2. pc'[Boot] = pc[Boot]
      BY <2>0, <2>2, <3>1 DEF RequestStep, Ask, NotBusy, Policy, ReadVerdict, ReadCommits,
                              Close,
         Merge, MergeFailed, Reopen, DropSandbox, Approve, Waive, ReadTicket, Discard,
         DiscardBounce, CleanupCommits, CleanupDestroy
    <3>3. QED
      BY <3>2
  <2>3. ReconcileClose /\ Boot \in current
    BY <2>1, <2>2 DEF Next, ReconcileClose
  <2>4. QED
    BY <2>3 DEF ReconcileAhead, Landing, RunningTold
<1>4. QED
  BY LandingInvariant, <1>1, <1>2, <1>3, PTL DEF Spec, ReconcilesLanded

-----------------------------------------------------------------------------
(* The promise of a close *)

\* A run takes its steps while no request is at work, so no promise is open.
LEMMA PromiseRun ==
  ASSUME PromoteInv, PromiseKept, RunStep
  PROVE  PromiseKept'
<1> USE DEF PromiseKept, Promising, At, Goto, Write, RunEnds, Active, git, promises, ticket, requests
<1>0. /\ RequestTypes /\ op[Boot] \in {"none", "reconcile"} /\ ServedAlone
      /\ crashes \in Nat
  BY DEF PromoteInv, TypeOK, CountTypes
<1>1. CASE StartRun
  BY <1>0, <1>1 DEF StartRun
<1>2. CASE ~StartRun
  <2>1. Active
    BY <1>2 DEF RunStep, Claim, WorkEnds, EnterReview, Verdict, SettleRun, OrphanEnds
  <2>2. ~\E q \in Requests : Promising(q)
    BY <1>0, <2>1 DEF ServedAlone
  <2>3. \A q \in Requests : ~At(q, "discard", "bounce")
    BY <1>0, <2>1 DEF ServedAlone
  <2>4. crashes = 0 => due \subseteq base \cup stranded
    BY <2>2
  <2>5. /\ due' = due /\ stranded' = stranded /\ base' = base
        /\ op' = op /\ pc' = pc /\ crashes' = crashes
        /\ current' \subseteq current /\ branch \subseteq branch'
        /\ status = "closed" => status' = "closed" /\ sandbox' = sandbox
    BY <1>2 DEF RunStep, Claim, WorkEnds, EnterReview, Verdict, SettleRun, OrphanEnds
  <2>6. current \subseteq Requests
    BY <1>0 DEF RequestTypes
  <2>7. op'[Boot] = "reconcile" => crashes' > 0
    BY <2>5
  <2>8. \A q \in current' : ~(op'[q] = "discard" /\ pc'[q] = "bounce")
    BY <2>3, <2>5, <2>6
  <2>9. crashes' = 0 => /\ due' \subseteq base' \cup stranded'
                        /\ status' # "closed" => due' \subseteq base'
                        /\ sandbox' => due' \subseteq base' \cup branch'
    <3> SUFFICES ASSUME crashes = 0
                 PROVE  /\ due' \subseteq base' \cup stranded'
                        /\ status' # "closed" => due' \subseteq base'
                        /\ sandbox' => due' \subseteq base' \cup branch'
      BY <2>5
    <3>1. /\ status # "closed" => due \subseteq base
          /\ sandbox => due \subseteq base \cup branch
      OBVIOUS
    <3>2. QED
      BY <2>4, <2>5, <3>1
  <2>10. QED
    BY <2>7, <2>8, <2>9
<1>3. QED
  BY <1>1, <1>2

\* What a request closes it merges or reopens, and a write that forestalls the reopening is
\* itself a promise, takes the promise back, or leaves the ticket open.
LEMMA PromiseRequest ==
  ASSUME PromoteInv, PromiseKept, NEW q \in Requests, RequestStep(q)
  PROVE  PromiseKept'
<1> USE DEF PromiseKept, Promising, RequestTypes, At, Goto, Write, Load, git, promises, ticket,
            requests
<1>0. /\ RequestTypes /\ op[Boot] \in {"none", "reconcile"} /\ Boot \in Requests
  BY PromoteAssumption DEF PromoteInv, TypeOK, PromoteAssumption
<1>1. CASE Ask(q)
  BY <1>0, <1>1 DEF Ask
<1>2. CASE NotBusy(q) \/ Policy(q) \/ ReadVerdict(q) \/ ReadCommits(q) \/ Approve(q) \/ Waive(q)
             \/ CleanupCommits(q)
  BY <1>0, <1>2 DEF NotBusy, After, Policy, ReadVerdict, ReadCommits, Approve, Waive,
       CleanupCommits
<1>3. CASE Close(q)
  BY <1>0, <1>3 DEF Close
<1>4. CASE Merge(q)
  BY <1>0, <1>4 DEF Merge
<1>5. CASE MergeFailed(q)
  BY <1>0, <1>5 DEF MergeFailed
<1>6. CASE Reopen(q)
  BY <1>0, <1>6 DEF Reopen, PromisesEnd
<1>7. CASE DropSandbox(q) \/ CleanupDestroy(q)
  BY <1>0, <1>7 DEF DropSandbox, CleanupDestroy, RemoveSandbox
<1>8. CASE Discard(q)
  BY <1>0, <1>8 DEF Discard, RemoveSandbox
<1>9. CASE ReadTicket(q)
  BY <1>0, <1>9 DEF ReadTicket
<1>10. CASE DiscardBounce(q)
  BY <1>0, <1>10 DEF DiscardBounce
<1>11. QED
  BY <1>1, <1>2, <1>3, <1>4, <1>5, <1>6, <1>7, <1>8, <1>9, <1>10 DEF RequestStep

\* The reconciliation runs after a crash only; an edit of the status ends the promise, and
\* any other edit strands it when a promote was about to reopen the ticket.
LEMMA PromiseOther ==
  ASSUME PromoteInv, PromiseKept,
         Reconcile \/ ReconcileCommits \/ ReconcileClose \/ Patch \/ Crash \/ UNCHANGED vars
  PROVE  PromiseKept'
<1> USE DEF PromiseKept, Promising, RequestTypes, At, Goto, Write, Load, git, promises, ticket,
            requests,
            vars
<1>0. /\ RequestTypes /\ op[Boot] \in {"none", "reconcile"} /\ Boot \in Requests
      /\ crashes \in Nat
  BY PromoteAssumption DEF PromoteInv, TypeOK, CountTypes, PromoteAssumption
<1>1. CASE Reconcile \/ ReconcileCommits \/ ReconcileClose
  BY <1>0, <1>1 DEF Reconcile, ReconcileCommits, ReconcileClose
<1>2. CASE Patch \/ UNCHANGED vars
  BY <1>0, <1>2 DEF Patch, PromisesEnd, Reopening
<1>3. CASE Crash
  BY <1>0, <1>3 DEF Crash
<1>4. QED
  BY <1>1, <1>2, <1>3

\* Until the first crash, a ticket that promote closed has its code in the base once no
\* promote is at work: whatever fails the merge, the ticket is reopened, by the promote or
\* by whoever wrote its status first.  All that keeps it closed is an edit of something else
\* between the promote's last look at the ticket and its write.
THEOREM MergesOrReopens == ASSUME Overlap = FALSE PROVE Spec => []MergeOrReopen
<1>1. Init => PromiseKept
  BY PromoteAssumption DEF Init, PromiseKept, PromoteAssumption
<1>2. PromoteInv /\ PromiseKept /\ [Next]_vars => PromiseKept'
  BY PromiseRun, PromiseRequest, PromiseOther DEF Next
<1>3. PromiseKept => MergeOrReopen
  BY DEF PromiseKept, Promising, MergeOrReopen
<1>4. QED
  BY PromoteInvariant, <1>1, <1>2, <1>3, PTL DEF Spec

-----------------------------------------------------------------------------
\* The folders of the sandboxes, their links and their branches.

SandSpec == SandInit /\ [][SandNext]_sandVars

SandSteps == {"idle", "ensure", "link", "record", "work", "orphan", "closed?", "count",
              "unlink", "remove", "rest", "branch"}
SandPlaces == [pc : SandSteps, on : SandTickets \cup {NoSandbox},
               todo : SUBSET SandDirs, made : SUBSET SandDirs]

WorkersTyped ==
  /\ worker \in [SandActors -> SandPlaces]
  /\ \A a \in SandActors : ~at(a, "idle") => on(a) \in SandTickets

\* Who is alone on a sandbox nobody met another on.
AloneThere ==
  \A a, b \in SandActors :
    ~at(a, "idle") /\ ~at(b, "idle") /\ on(a) = on(b) /\ on(a) \notin met => a = b

\* A link is on a list, or its maker has yet to record it, or it is known to be on none.
LinksListed ==
  \A t \in SandTickets, d \in SandDirs :
    deps[t][d] = "link" =>
      \/ d \in linkedDirs(t)
      \/ <<t, d>> \in unlisted
      \/ \E a \in SandActors : at(a, "link") /\ on(a) = t /\ d \in worker[a].made

\* Once the listed links are gone, only those on no list are left.
Unlinked ==
  \A a \in SandActors, d \in SandDirs :
    worker[a].pc \in {"remove", "rest"} /\ on(a) \notin met /\ deps[on(a)][d] = "link"
      => <<on(a), d>> \in unlisted

\* A cleanup that has begun has no work before it that somebody wants.
NothingWanted ==
  \A a \in SandActors :
    worker[a].pc \in {"unlink", "remove", "rest", "branch"} /\ on(a) \notin met \cup miscounted
      => forgeBranch[on(a)] # "ahead"

SandInductive ==
  /\ SandInv /\ WorkersTyped /\ AloneThere /\ LinksListed /\ Unlinked /\ NothingWanted

\* Whoever moves on keeps what he has; whoever rests has nothing; the others stay where they are.
LEMMA MovesOn ==
  ASSUME WorkersTyped, NEW a \in SandActors, NEW p \in SandSteps \ {"idle"}, ~at(a, "idle"),
         moves(a, p)
  PROVE  /\ WorkersTyped'
         /\ \A b \in SandActors \ {a} : worker'[b] = worker[b]
         /\ worker'[a].pc = p /\ worker'[a].on = on(a) /\ worker'[a].made = worker[a].made
<1>1. /\ worker \in [SandActors -> SandPlaces] /\ worker[a] \in SandPlaces
      /\ worker' = [worker EXCEPT ![a] = [worker[a] EXCEPT !.pc = p]]
  BY DEF WorkersTyped, moves
<1>2. /\ [worker[a] EXCEPT !.pc = p] \in SandPlaces
      /\ [worker[a] EXCEPT !.pc = p].pc = p /\ [worker[a] EXCEPT !.pc = p].on = worker[a].on
      /\ [worker[a] EXCEPT !.pc = p].made = worker[a].made
  BY <1>1 DEF SandPlaces
<1>3. /\ worker' \in [SandActors -> SandPlaces] /\ worker'[a] = [worker[a] EXCEPT !.pc = p]
      /\ \A b \in SandActors \ {a} : worker'[b] = worker[b]
  BY <1>1, <1>2
<1>4. QED
  BY <1>1, <1>2, <1>3 DEF WorkersTyped, at, on

LEMMA ComesToRest ==
  ASSUME WorkersTyped, NEW a \in SandActors, rests(a)
  PROVE  /\ WorkersTyped'
         /\ \A b \in SandActors \ {a} : worker'[b] = worker[b]
         /\ worker'[a].pc = "idle"
BY DEF WorkersTyped, rests, at, on, Off, SandPlaces, SandSteps, NoSandbox

\* The types of what is on the disk.
DiskTyped ==
  /\ checkout \in [SandTickets -> {"none", "tree", "orphan"}]
  /\ deps \in [SandTickets -> [SandDirs -> {"none", "link", "copy"}]]
  /\ manifest \in [SandTickets -> SUBSET SandDirs]
  /\ forgeBranch \in [SandTickets -> {"none", "merged", "ahead"}]
  /\ known \subseteq SandTickets /\ ticketIs \in [SandTickets -> {"open", "closed", "gone"}]
  /\ damaged \subseteq SandDirs /\ lost \subseteq SandTickets /\ miscounted \subseteq SandTickets

\* Where the actors are.
LEMMA WorkersStep ==
  ASSUME SandTypeOK, WorkersTyped, [SandNext]_sandVars
  PROVE  WorkersTyped'
<1>1. ASSUME NEW a \in SandActors, ensureSandbox(a) PROVE WorkersTyped'
  <2>1. ~at(a, "idle") /\ moves(a, "link") /\ "link" \in SandSteps \ {"idle"}
    BY <1>1 DEF ensureSandbox, at, SandSteps
  <2>2. QED
    BY <2>1, MovesOn
<1>2. ASSUME NEW a \in SandActors, linkDeps(a) PROVE WorkersTyped'
  <2>1. worker[a] \in SandPlaces /\ worker \in [SandActors -> SandPlaces] /\ on(a) \in SandTickets
    BY <1>2 DEF linkDeps, WorkersTyped, at
  <2>2. PICK d \in SandDirs, m \in SUBSET SandDirs :
          worker' = [worker EXCEPT ![a] = [worker[a] EXCEPT !.todo = @ \ {d}, !.made = m]]
    <3>1. PICK d \in worker[a].todo, as \in {"link", "copy", "none"} :
            worker' = [worker EXCEPT ![a].todo = @ \ {d},
                         ![a].made = IF deps[on(a)][d] = "none" /\ as = "link" THEN @ \cup {d} ELSE @]
      BY <1>2 DEF linkDeps
    <3>2. worker[a].todo \subseteq SandDirs /\ worker[a].made \subseteq SandDirs
      BY <2>1 DEF SandPlaces
    <3>3. QED
      BY <2>1, <3>1, <3>2 DEF SandPlaces
  <2>3. [worker[a] EXCEPT !.todo = @ \ {d}, !.made = m] \in SandPlaces
    BY <2>1 DEF SandPlaces
  <2>4. [worker[a] EXCEPT !.todo = @ \ {d}, !.made = m].on = worker[a].on
    BY <2>1 DEF SandPlaces
  <2>5. QED
    BY <2>1, <2>2, <2>3, <2>4 DEF WorkersTyped, at, on
<1>3. ASSUME NEW a \in SandActors, RecordLinks(a) PROVE WorkersTyped'
  <2>1. worker[a] \in SandPlaces /\ worker \in [SandActors -> SandPlaces] /\ on(a) \in SandTickets
    BY <1>3 DEF RecordLinks, WorkersTyped, at
  <2>2. worker' = [worker EXCEPT ![a] = [worker[a] EXCEPT !.pc = "work", !.made = {}]]
    BY <1>3, <2>1 DEF RecordLinks, SandPlaces
  <2>3. /\ [worker[a] EXCEPT !.pc = "work", !.made = {}] \in SandPlaces
        /\ [worker[a] EXCEPT !.pc = "work", !.made = {}].on = worker[a].on
    BY <2>1 DEF SandPlaces, SandSteps
  <2>4. QED
    BY <2>1, <2>2, <2>3 DEF WorkersTyped, at, on
<1>4. ASSUME NEW a \in SandActors, SandRunEnds(a) PROVE WorkersTyped'
  BY <1>4
    DEF SandRunEnds, at, on, moves, rests, disk, past, SandTypeOK, WorkersTyped, SandPlaces,
        SandSteps, Off, NoSandbox
<1>5. ASSUME NEW a \in SandActors, deleteOrphanIfLinkFree(a) PROVE WorkersTyped'
  BY <1>5
    DEF deleteOrphanIfLinkFree, at, on, moves, rests, disk, past, SandTypeOK, WorkersTyped,
        SandPlaces, SandSteps, Off, NoSandbox
<1>6. ASSUME NEW a \in SandActors, OnlyClosed(a) PROVE WorkersTyped'
  <2>1. ~at(a, "idle") /\ "count" \in SandSteps \ {"idle"} /\ (rests(a) \/ moves(a, "count"))
    BY <1>6 DEF OnlyClosed, at, SandSteps
  <2>2. QED
    BY <2>1, MovesOn, ComesToRest
<1>7. ASSUME NEW a \in SandActors, hasCommitsToPromote(a) PROVE WorkersTyped'
  <2>1. ~at(a, "idle") /\ "unlink" \in SandSteps \ {"idle"} /\ (rests(a) \/ moves(a, "unlink"))
    BY <1>7 DEF hasCommitsToPromote, at, SandSteps
  <2>2. QED
    BY <2>1, MovesOn, ComesToRest
<1>8. ASSUME NEW a \in SandActors, unlinkDeps(a) PROVE WorkersTyped'
  <2>1. ~at(a, "idle") /\ moves(a, "remove") /\ "remove" \in SandSteps \ {"idle"}
    BY <1>8 DEF unlinkDeps, at, SandSteps
  <2>2. QED
    BY <2>1, MovesOn
<1>9. ASSUME NEW a \in SandActors, WorktreeRemove(a) PROVE WorkersTyped'
  <2>1. ~at(a, "idle") /\ moves(a, "rest") /\ "rest" \in SandSteps \ {"idle"}
    BY <1>9 DEF WorktreeRemove, at, SandSteps
  <2>2. QED
    BY <2>1, MovesOn
<1>10. ASSUME NEW a \in SandActors, RemoveRest(a) PROVE WorkersTyped'
  <2>1. ~at(a, "idle") /\ "branch" \in SandSteps \ {"idle"} /\ (rests(a) \/ moves(a, "branch"))
    BY <1>10 DEF RemoveRest, at, SandSteps
  <2>2. QED
    BY <2>1, MovesOn, ComesToRest
<1>11. ASSUME NEW a \in SandActors, DeleteBranch(a) PROVE WorkersTyped'
  BY <1>11
    DEF DeleteBranch, at, on, moves, rests, disk, past, SandTypeOK, WorkersTyped, SandPlaces,
        SandSteps, Off, NoSandbox
<1>12. ASSUME NEW a \in SandActors, NEW t \in SandTickets, BeginRun(a, t) PROVE WorkersTyped'
  <2>1. PICK dirs \in {DefaultDirs, SandDirs} :
          worker' = [worker EXCEPT ![a] = [pc |-> "ensure", on |-> t, todo |-> dirs, made |-> {}]]
    BY <1>12 DEF BeginRun
  <2>2. [pc |-> "ensure", on |-> t, todo |-> dirs, made |-> {}] \in SandPlaces
    BY <2>1, SandAssumption DEF SandAssumption, SandPlaces, SandSteps
  <2>3. QED
    BY <2>1, <2>2 DEF WorkersTyped, at, on
<1>13. ASSUME NEW a \in SandActors, NEW t \in SandTickets, discardSandbox(a, t)
       PROVE  WorkersTyped'
  BY <1>13
    DEF discardSandbox, at, on, moves, rests, disk, past, meets, SandTypeOK, WorkersTyped,
        SandPlaces, SandSteps, Off, NoSandbox
<1>14. ASSUME NEW a \in SandActors, NEW t \in SandTickets, SweepSandbox(a, t) PROVE WorkersTyped'
  BY <1>14
    DEF SweepSandbox, at, on, moves, rests, disk, past, meets, SandTypeOK, WorkersTyped,
        SandPlaces, SandSteps, Off, NoSandbox
<1>15. ASSUME NEW a \in SandActors, NEW t \in SandTickets, deleteMergedBranch(a, t)
       PROVE  WorkersTyped'
  BY <1>15
    DEF deleteMergedBranch, at, on, moves, rests, disk, past, SandTypeOK, WorkersTyped,
        SandPlaces, SandSteps, Off, NoSandbox
<1>16. ASSUME NEW t \in SandTickets, NEW to \in {"open", "closed", "gone"}, TicketMoves(t, to)
       PROVE  WorkersTyped'
  BY <1>16
    DEF TicketMoves, at, on, moves, rests, disk, past, SandTypeOK, WorkersTyped, SandPlaces,
        SandSteps, Off, NoSandbox
<1>17. CASE SandCrash
  BY <1>17
    DEF SandCrash, at, on, moves, rests, disk, past, linkedDirs, SandTypeOK, WorkersTyped,
        SandPlaces, SandSteps, Off, NoSandbox
<1>18. CASE UNCHANGED sandVars
  BY <1>18 DEF sandVars, at, on, SandTypeOK, WorkersTyped, SandPlaces, SandSteps, Off, NoSandbox
<1>19. QED
  BY <1>1, <1>2, <1>3, <1>4, <1>5, <1>6, <1>7, <1>8, <1>9, <1>10, <1>11, <1>12, <1>13, <1>14,
     <1>15, <1>16, <1>17, <1>18 DEF SandNext

\* What is on the disk.
LEMMA DiskStep ==
  ASSUME SandTypeOK, WorkersTyped, [SandNext]_sandVars
  PROVE  DiskTyped'
<1>1. ASSUME NEW a \in SandActors, ensureSandbox(a) PROVE DiskTyped'
  <2>1. on(a) \in SandTickets
    BY <1>1 DEF ensureSandbox, WorkersTyped, at
  <2>2. CASE checkout[on(a)] # "none"
    BY <1>1, <2>2 DEF ensureSandbox, SandTypeOK, DiskTyped, disk, past
  <2>3. CASE checkout[on(a)] = "none"
    <3>1. /\ checkout' = [checkout EXCEPT ![on(a)] = "tree"] /\ known' = known \cup {on(a)}
          /\ forgeBranch' = [forgeBranch EXCEPT ![on(a)] = IF @ = "none" THEN "merged" ELSE @]
          /\ UNCHANGED <<deps, manifest, ticketIs, damaged, lost, miscounted>>
      BY <1>1, <2>3 DEF ensureSandbox, past
    <3>2. QED
      BY <2>1, <3>1 DEF SandTypeOK, DiskTyped
  <2>4. QED
    BY <2>2, <2>3
<1>2. ASSUME NEW a \in SandActors, linkDeps(a) PROVE DiskTyped'
  <2>1. on(a) \in SandTickets
    BY <1>2 DEF linkDeps, WorkersTyped, at
  <2>2. PICK d \in worker[a].todo, as \in {"link", "copy", "none"} :
          deps' = [deps EXCEPT ![on(a)][d] = IF @ = "none" \/ (@ = "link" /\ as = "copy") THEN as ELSE @]
    BY <1>2 DEF linkDeps
  <2>3. d \in SandDirs /\ deps[on(a)] \in [SandDirs -> {"none", "link", "copy"}]
    BY <2>1 DEF SandTypeOK, WorkersTyped, SandPlaces
  <2>4. deps' \in [SandTickets -> [SandDirs -> {"none", "link", "copy"}]]
    <3>1. PICK v \in {"none", "link", "copy"} : deps' = [deps EXCEPT ![on(a)][d] = v]
      BY <2>2, <2>3
    <3>2. [deps[on(a)] EXCEPT ![d] = v] \in [SandDirs -> {"none", "link", "copy"}]
      BY <2>3
    <3>3. deps \in [SandTickets -> [SandDirs -> {"none", "link", "copy"}]]
      BY DEF SandTypeOK
    <3>4. QED
      BY <2>1, <3>1, <3>2, <3>3
  <2>5. QED
    BY <1>2, <2>4 DEF linkDeps, SandTypeOK, DiskTyped, past
<1>3. ASSUME NEW a \in SandActors, RecordLinks(a) PROVE DiskTyped'
  <2>1. on(a) \in SandTickets
    BY <1>3 DEF RecordLinks, WorkersTyped, at
  <2>2. worker[a].made \subseteq SandDirs /\ linkedDirs(on(a)) \subseteq SandDirs
    BY <2>1, SandAssumption DEF SandAssumption, linkedDirs, SandTypeOK, WorkersTyped, SandPlaces
  <2>3. manifest' \in [SandTickets -> SUBSET SandDirs]
    BY <1>3, <2>1, <2>2 DEF RecordLinks, SandTypeOK
  <2>4. QED
    BY <1>3, <2>3 DEF RecordLinks, SandTypeOK, DiskTyped, past
<1>4. ASSUME NEW a \in SandActors, SandRunEnds(a) PROVE DiskTyped'
  BY <1>4
    DEF SandRunEnds, at, on, moves, rests, disk, past, SandTypeOK, WorkersTyped, SandPlaces,
        DiskTyped, NoDeps, linkedDirs, Through
<1>5. ASSUME NEW a \in SandActors, deleteOrphanIfLinkFree(a) PROVE DiskTyped'
  <2>1. on(a) \in SandTickets
    BY <1>5 DEF deleteOrphanIfLinkFree, WorkersTyped, at
  <2>2. NoDeps \in [SandDirs -> {"none", "link", "copy"}]
    BY DEF NoDeps
  <2>3. checkout' \in [SandTickets -> {"none", "tree", "orphan"}]
    BY <1>5, <2>1 DEF deleteOrphanIfLinkFree, SandTypeOK
  <2>4. deps' \in [SandTickets -> [SandDirs -> {"none", "link", "copy"}]]
    BY <1>5, <2>1, <2>2 DEF deleteOrphanIfLinkFree, SandTypeOK
  <2>5. manifest' \in [SandTickets -> SUBSET SandDirs]
    BY <1>5, <2>1 DEF deleteOrphanIfLinkFree, SandTypeOK
  <2>6. QED
    BY <1>5, <2>3, <2>4, <2>5 DEF deleteOrphanIfLinkFree, SandTypeOK, DiskTyped, past
<1>6. ASSUME NEW a \in SandActors, OnlyClosed(a) PROVE DiskTyped'
  BY <1>6
    DEF OnlyClosed, at, on, moves, rests, disk, past, SandTypeOK, WorkersTyped, SandPlaces,
        DiskTyped, NoDeps, linkedDirs, Through
<1>7. ASSUME NEW a \in SandActors, hasCommitsToPromote(a) PROVE DiskTyped'
  BY <1>7
    DEF hasCommitsToPromote, at, on, moves, rests, disk, past, keeps, SandTypeOK, WorkersTyped,
        SandPlaces, DiskTyped, NoDeps, linkedDirs, Through
<1>8. ASSUME NEW a \in SandActors, unlinkDeps(a) PROVE DiskTyped'
  BY <1>8
    DEF unlinkDeps, at, on, moves, rests, disk, past, linkedDirs, SandTypeOK, WorkersTyped,
        SandPlaces, DiskTyped, NoDeps, Through
<1>9. ASSUME NEW a \in SandActors, WorktreeRemove(a) PROVE DiskTyped'
  <2>1. on(a) \in SandTickets
    BY <1>9 DEF WorktreeRemove, WorkersTyped, at
  <2>2. NoDeps \in [SandDirs -> {"none", "link", "copy"}]
    BY DEF NoDeps
  <2>3. checkout' \in [SandTickets -> {"none", "tree", "orphan"}]
    BY <1>9, <2>1 DEF WorktreeRemove, SandTypeOK
  <2>4. deps' \in [SandTickets -> [SandDirs -> {"none", "link", "copy"}]]
    BY <1>9, <2>1, <2>2 DEF WorktreeRemove, SandTypeOK
  <2>5. known' \subseteq SandTickets /\ damaged' \subseteq SandDirs
    BY <1>9, <2>1 DEF WorktreeRemove, SandTypeOK, Through
  <2>6. QED
    BY <1>9, <2>3, <2>4, <2>5 DEF WorktreeRemove, SandTypeOK, DiskTyped
<1>10. ASSUME NEW a \in SandActors, RemoveRest(a) PROVE DiskTyped'
  <2>1. on(a) \in SandTickets
    BY <1>10 DEF RemoveRest, WorkersTyped, at
  <2>2. NoDeps \in [SandDirs -> {"none", "link", "copy"}]
    BY DEF NoDeps
  <2>3. checkout' \in [SandTickets -> {"none", "tree", "orphan"}]
    BY <1>10, <2>1 DEF RemoveRest, SandTypeOK
  <2>4. deps' \in [SandTickets -> [SandDirs -> {"none", "link", "copy"}]]
    BY <1>10, <2>1, <2>2 DEF RemoveRest, SandTypeOK
  <2>5. manifest' \in [SandTickets -> SUBSET SandDirs] /\ damaged' \subseteq SandDirs
    BY <1>10, <2>1 DEF RemoveRest, SandTypeOK, Through
  <2>6. QED
    BY <1>10, <2>3, <2>4, <2>5 DEF RemoveRest, SandTypeOK, DiskTyped
<1>11. ASSUME NEW a \in SandActors, DeleteBranch(a) PROVE DiskTyped'
  BY <1>11
    DEF DeleteBranch, at, on, moves, rests, disk, past, SandTypeOK, WorkersTyped, SandPlaces,
        DiskTyped, NoDeps, linkedDirs, Through
<1>12. ASSUME NEW a \in SandActors, NEW t \in SandTickets, BeginRun(a, t) PROVE DiskTyped'
  BY <1>12
    DEF BeginRun, at, on, moves, rests, disk, past, meets, SandTypeOK, WorkersTyped, SandPlaces,
        DiskTyped, NoDeps, linkedDirs, Through
<1>13. ASSUME NEW a \in SandActors, NEW t \in SandTickets, discardSandbox(a, t) PROVE DiskTyped'
  BY <1>13
    DEF discardSandbox, at, on, moves, rests, disk, past, meets, SandTypeOK, WorkersTyped,
        SandPlaces, DiskTyped, NoDeps, linkedDirs, Through
<1>14. ASSUME NEW a \in SandActors, NEW t \in SandTickets, SweepSandbox(a, t) PROVE DiskTyped'
  BY <1>14
    DEF SweepSandbox, at, on, moves, rests, disk, past, meets, SandTypeOK, WorkersTyped,
        SandPlaces, DiskTyped, NoDeps, linkedDirs, Through
<1>15. ASSUME NEW a \in SandActors, NEW t \in SandTickets, deleteMergedBranch(a, t)
       PROVE  DiskTyped'
  BY <1>15
    DEF deleteMergedBranch, at, on, moves, rests, disk, past, SandTypeOK, WorkersTyped,
        SandPlaces, DiskTyped, NoDeps, linkedDirs, Through
<1>16. ASSUME NEW t \in SandTickets, NEW to \in {"open", "closed", "gone"}, TicketMoves(t, to)
       PROVE  DiskTyped'
  BY <1>16
    DEF TicketMoves, at, on, moves, rests, disk, past, SandTypeOK, WorkersTyped, SandPlaces,
        DiskTyped, NoDeps, linkedDirs, Through
<1>17. CASE SandCrash
  BY <1>17
    DEF SandCrash, at, on, moves, rests, disk, past, linkedDirs, SandTypeOK, WorkersTyped,
        SandPlaces, DiskTyped, NoDeps, Through
<1>18. CASE UNCHANGED sandVars
  BY <1>18
    DEF sandVars, at, on, SandTypeOK, WorkersTyped, SandPlaces, DiskTyped, NoDeps, linkedDirs,
        Through
<1>19. QED
  BY <1>1, <1>2, <1>3, <1>4, <1>5, <1>6, <1>7, <1>8, <1>9, <1>10, <1>11, <1>12, <1>13, <1>14,
     <1>15, <1>16, <1>17, <1>18 DEF SandNext

\* Whoever comes to a sandbox another is on meets it.
LEMMA AloneStep ==
  ASSUME SandTypeOK, WorkersTyped, AloneThere, [SandNext]_sandVars
  PROVE  AloneThere'
<1>1. ASSUME NEW a \in SandActors, ensureSandbox(a) PROVE AloneThere'
  BY <1>1
    DEF ensureSandbox, at, on, moves, rests, disk, past, SandTypeOK, WorkersTyped, SandPlaces,
        AloneThere, Off
<1>2. ASSUME NEW a \in SandActors, linkDeps(a) PROVE AloneThere'
  BY <1>2
    DEF linkDeps, at, on, moves, rests, disk, past, SandTypeOK, WorkersTyped, SandPlaces,
        AloneThere, Off
<1>3. ASSUME NEW a \in SandActors, RecordLinks(a) PROVE AloneThere'
  BY <1>3
    DEF RecordLinks, at, on, moves, rests, disk, past, linkedDirs, SandTypeOK, WorkersTyped,
        SandPlaces, AloneThere, Off
<1>4. ASSUME NEW a \in SandActors, SandRunEnds(a) PROVE AloneThere'
  BY <1>4
    DEF SandRunEnds, at, on, moves, rests, disk, past, SandTypeOK, WorkersTyped, SandPlaces,
        AloneThere, Off
<1>5. ASSUME NEW a \in SandActors, deleteOrphanIfLinkFree(a) PROVE AloneThere'
  BY <1>5
    DEF deleteOrphanIfLinkFree, at, on, moves, rests, disk, past, SandTypeOK, WorkersTyped,
        SandPlaces, AloneThere, Off
<1>6. ASSUME NEW a \in SandActors, OnlyClosed(a) PROVE AloneThere'
  BY <1>6
    DEF OnlyClosed, at, on, moves, rests, disk, past, SandTypeOK, WorkersTyped, SandPlaces,
        AloneThere, Off
<1>7. ASSUME NEW a \in SandActors, hasCommitsToPromote(a) PROVE AloneThere'
  BY <1>7
    DEF hasCommitsToPromote, at, on, moves, rests, disk, past, keeps, SandTypeOK, WorkersTyped,
        SandPlaces, AloneThere, Off
<1>8. ASSUME NEW a \in SandActors, unlinkDeps(a) PROVE AloneThere'
  BY <1>8
    DEF unlinkDeps, at, on, moves, rests, disk, past, linkedDirs, SandTypeOK, WorkersTyped,
        SandPlaces, AloneThere, Off
<1>9. ASSUME NEW a \in SandActors, WorktreeRemove(a) PROVE AloneThere'
  BY <1>9
    DEF WorktreeRemove, at, on, moves, rests, disk, past, Through, SandTypeOK, WorkersTyped,
        SandPlaces, AloneThere, Off
<1>10. ASSUME NEW a \in SandActors, RemoveRest(a) PROVE AloneThere'
  BY <1>10
    DEF RemoveRest, at, on, moves, rests, disk, past, Through, linkedDirs, SandTypeOK,
        WorkersTyped, SandPlaces, AloneThere, Off
<1>11. ASSUME NEW a \in SandActors, DeleteBranch(a) PROVE AloneThere'
  BY <1>11
    DEF DeleteBranch, at, on, moves, rests, disk, past, SandTypeOK, WorkersTyped, SandPlaces,
        AloneThere, Off
<1>12. ASSUME NEW a \in SandActors, NEW t \in SandTickets, BeginRun(a, t) PROVE AloneThere'
  BY <1>12
    DEF BeginRun, at, on, moves, rests, disk, past, meets, SandTypeOK, WorkersTyped, SandPlaces,
        AloneThere, Off
<1>13. ASSUME NEW a \in SandActors, NEW t \in SandTickets, discardSandbox(a, t) PROVE AloneThere'
  BY <1>13
    DEF discardSandbox, at, on, moves, rests, disk, past, meets, SandTypeOK, WorkersTyped,
        SandPlaces, AloneThere, Off
<1>14. ASSUME NEW a \in SandActors, NEW t \in SandTickets, SweepSandbox(a, t) PROVE AloneThere'
  BY <1>14
    DEF SweepSandbox, at, on, moves, rests, disk, past, meets, SandTypeOK, WorkersTyped,
        SandPlaces, AloneThere, Off
<1>15. ASSUME NEW a \in SandActors, NEW t \in SandTickets, deleteMergedBranch(a, t)
       PROVE  AloneThere'
  BY <1>15
    DEF deleteMergedBranch, at, on, moves, rests, disk, past, SandTypeOK, WorkersTyped,
        SandPlaces, AloneThere, Off
<1>16. ASSUME NEW t \in SandTickets, NEW to \in {"open", "closed", "gone"}, TicketMoves(t, to)
       PROVE  AloneThere'
  BY <1>16
    DEF TicketMoves, at, on, moves, rests, disk, past, SandTypeOK, WorkersTyped, SandPlaces,
        AloneThere, Off
<1>17. CASE SandCrash
  BY <1>17
    DEF SandCrash, at, on, moves, rests, disk, past, linkedDirs, SandTypeOK, WorkersTyped,
        SandPlaces, AloneThere, Off
<1>18. CASE UNCHANGED sandVars
  BY <1>18 DEF sandVars, at, on, SandTypeOK, WorkersTyped, SandPlaces, AloneThere, Off
<1>19. QED
  BY <1>1, <1>2, <1>3, <1>4, <1>5, <1>6, <1>7, <1>8, <1>9, <1>10, <1>11, <1>12, <1>13, <1>14,
     <1>15, <1>16, <1>17, <1>18 DEF SandNext

\* A link stays on a list, with its maker, or known to be on none.
LEMMA ListedStep ==
  ASSUME SandTypeOK, WorkersTyped, LinksListed, [SandNext]_sandVars
  PROVE  LinksListed'
<1>1. ASSUME NEW a \in SandActors, ensureSandbox(a) PROVE LinksListed'
  BY <1>1
    DEF ensureSandbox, at, on, moves, rests, disk, past, SandTypeOK, WorkersTyped, SandPlaces,
        LinksListed, linkedDirs, Off, NoDeps
<1>2. ASSUME NEW a \in SandActors, linkDeps(a) PROVE LinksListed'
  <2>1. /\ worker[a] \in SandPlaces /\ worker \in [SandActors -> SandPlaces]
        /\ on(a) \in SandTickets
        /\ at(a, "link") /\ UNCHANGED <<manifest, met, unlisted>>
    BY <1>2 DEF linkDeps, WorkersTyped, at, past
  <2>2. PICK d \in worker[a].todo, as \in {"link", "copy", "none"} :
          /\ deps' = [deps EXCEPT ![on(a)][d] = IF @ = "none" \/ (@ = "link" /\ as = "copy") THEN as ELSE @]
          /\ worker' = [worker EXCEPT ![a].todo = @ \ {d},
                         ![a].made = IF deps[on(a)][d] = "none" /\ as = "link" THEN @ \cup {d} ELSE @]
    BY <1>2 DEF linkDeps
  <2>3. d \in SandDirs
    BY <2>1 DEF SandPlaces
  <2>4. /\ \A b \in SandActors : worker'[b].pc = worker[b].pc /\ worker'[b].on = worker[b].on
        /\ \A b \in SandActors : worker[b].made \subseteq worker'[b].made
        /\ deps[on(a)][d] = "none" /\ as = "link" => d \in worker'[a].made
    BY <2>1, <2>2 DEF SandPlaces
  <2>5. ASSUME NEW t \in SandTickets, NEW e \in SandDirs, deps'[t][e] = "link",
               deps[t][e] # "link"
        PROVE  t = on(a) /\ e = d /\ deps[on(a)][d] = "none" /\ as = "link"
    BY <2>1, <2>2, <2>3, <2>5 DEF SandTypeOK
  <2>6. ASSUME NEW t \in SandTickets, NEW e \in SandDirs, deps'[t][e] = "link"
        PROVE  \/ e \in linkedDirs(t)' \/ <<t, e>> \in unlisted'
               \/ \E b \in SandActors : worker'[b].pc = "link" /\ worker'[b].on = t /\ e \in worker'[b].made
    <3>1. CASE deps[t][e] = "link"
      <4>1. CASE \E b \in SandActors : at(b, "link") /\ on(b) = t /\ e \in worker[b].made
        BY <2>4, <4>1 DEF at, on
      <4>2. CASE e \in linkedDirs(t) \/ <<t, e>> \in unlisted
        BY <2>1, <4>2 DEF linkedDirs
      <4>3. QED
        BY <3>1, <4>1, <4>2 DEF LinksListed
    <3>2. CASE deps[t][e] # "link"
      <4>1. t = on(a) /\ e \in worker'[a].made /\ worker'[a].pc = "link" /\ worker'[a].on = t
        BY <2>1, <2>4, <2>5, <2>6, <3>2 DEF at, on
      <4>2. QED
        BY <4>1
    <3>3. QED
      BY <3>1, <3>2
  <2>7. QED
    BY <2>6 DEF LinksListed, at, on
<1>3. ASSUME NEW a \in SandActors, RecordLinks(a) PROVE LinksListed'
  <2>1. /\ worker[a] \in SandPlaces /\ worker \in [SandActors -> SandPlaces]
        /\ on(a) \in SandTickets
        /\ deps' = deps /\ unlisted' = unlisted
    BY <1>3 DEF RecordLinks, WorkersTyped, at, past
  <2>2. \A b \in SandActors \ {a} : worker'[b] = worker[b]
    BY <1>3, <2>1 DEF RecordLinks
  <2>3. /\ \A t \in SandTickets : linkedDirs(t) \subseteq linkedDirs(t)'
        /\ worker[a].made \subseteq DefaultDirs \cup manifest'[on(a)]
    <3>1. manifest' = [manifest EXCEPT ![on(a)] =
                         IF worker[a].made # {} THEN linkedDirs(on(a)) \cup worker[a].made ELSE @]
      BY <1>3 DEF RecordLinks
    <3>2. manifest \in [SandTickets -> SUBSET SandDirs]
      BY DEF SandTypeOK
    <3>3. /\ \A t \in SandTickets \ {on(a)} : manifest'[t] = manifest[t]
          /\ manifest'[on(a)] =
               IF worker[a].made # {} THEN linkedDirs(on(a)) \cup worker[a].made ELSE manifest[on(a)]
      BY <2>1, <3>1, <3>2
    <3>4. \A t \in SandTickets : linkedDirs(t)' = DefaultDirs \cup manifest'[t]
      BY DEF linkedDirs
    <3>5. \A t \in SandTickets : linkedDirs(t) = DefaultDirs \cup manifest[t]
      BY DEF linkedDirs
    <3>6. \A t \in SandTickets \ {on(a)} : linkedDirs(t) = linkedDirs(t)'
      BY <3>3, <3>4, <3>5
    <3>7. linkedDirs(on(a)) \cup worker[a].made \subseteq DefaultDirs \cup manifest'[on(a)]
      BY <2>1, <3>3, <3>4, <3>5
    <3>8. \A t \in SandTickets : linkedDirs(t) \subseteq linkedDirs(t)'
      <4>1. linkedDirs(on(a)) = DefaultDirs \cup manifest[on(a)]
        BY DEF linkedDirs
      <4>2. ASSUME NEW t \in SandTickets PROVE linkedDirs(t) \subseteq linkedDirs(t)'
        <5>1. CASE t = on(a)
          BY <3>4, <3>7, <5>1
        <5>2. CASE t # on(a)
          BY <3>6, <5>2
        <5>3. QED
          BY <5>1, <5>2
      <4>3. QED
        BY <4>2
    <3>9. QED
      BY <3>7, <3>8
  <2>4. ASSUME NEW t \in SandTickets, NEW e \in SandDirs, deps'[t][e] = "link"
        PROVE  \/ e \in linkedDirs(t)' \/ <<t, e>> \in unlisted'
               \/ \E b \in SandActors : worker'[b].pc = "link" /\ worker'[b].on = t /\ e \in worker'[b].made
    <3>1. CASE e \in linkedDirs(t) \/ <<t, e>> \in unlisted
      BY <2>1, <2>3, <3>1
    <3>2. ASSUME NEW b \in SandActors, at(b, "link"), on(b) = t, e \in worker[b].made
          PROVE  e \in linkedDirs(t)' \/ (worker'[b].pc = "link" /\ worker'[b].on = t /\ e \in worker'[b].made)
      <4>1. CASE b = a
        BY <2>3, <3>2, <4>1 DEF linkedDirs
      <4>2. CASE b # a
        BY <2>2, <3>2, <4>2 DEF at, on
      <4>3. QED
        BY <4>1, <4>2
    <3>3. QED
      BY <2>1, <2>4, <3>1, <3>2 DEF LinksListed
  <2>5. QED
    BY <2>4 DEF LinksListed, at, on
<1>4. ASSUME NEW a \in SandActors, SandRunEnds(a) PROVE LinksListed'
  BY <1>4
    DEF SandRunEnds, at, on, moves, rests, disk, past, SandTypeOK, WorkersTyped, SandPlaces,
        LinksListed, linkedDirs, Off, NoDeps
<1>5. ASSUME NEW a \in SandActors, deleteOrphanIfLinkFree(a) PROVE LinksListed'
  <2>1. /\ \A b \in SandActors \ {a} : worker'[b] = worker[b]
        /\ WorkersTyped' /\ on(a) \in SandTickets /\ worker'[a].pc = "idle"
    BY <1>5, ComesToRest DEF deleteOrphanIfLinkFree, WorkersTyped, at
  <2>2. ~at(a, "link") /\ unlisted' = unlisted
    BY <1>5 DEF deleteOrphanIfLinkFree, at, past
  <2>3. CASE deps' = [deps EXCEPT ![on(a)] = NoDeps] /\ manifest' = [manifest EXCEPT ![on(a)] = {}]
    <3>1. \A d \in SandDirs : deps'[on(a)][d] # "link"
      BY <2>1, <2>3 DEF NoDeps, SandTypeOK
    <3>2. \A t \in SandTickets \ {on(a)} : deps'[t] = deps[t] /\ manifest'[t] = manifest[t]
      BY <2>1, <2>3 DEF SandTypeOK
    <3>3. QED
      BY <2>1, <2>2, <3>1, <3>2 DEF LinksListed, at, on, linkedDirs
  <2>4. CASE UNCHANGED <<deps, manifest>>
    BY <2>1, <2>2, <2>4 DEF LinksListed, at, on, linkedDirs
  <2>5. QED
    BY <1>5, <2>3, <2>4 DEF deleteOrphanIfLinkFree
<1>6. ASSUME NEW a \in SandActors, OnlyClosed(a) PROVE LinksListed'
  <2>1. /\ \A b \in SandActors \ {a} : worker'[b] = worker[b]
        /\ WorkersTyped' /\ on(a) \in SandTickets
        /\ worker'[a].pc = "idle" \/ (worker'[a].pc = "count" /\ worker'[a].on = on(a))
    <3>1. ~at(a, "idle") /\ "count" \in SandSteps \ {"idle"} /\ (rests(a) \/ moves(a, "count"))
      BY <1>6 DEF OnlyClosed, at, SandSteps
    <3>2. QED
      BY <3>1, MovesOn, ComesToRest DEF WorkersTyped
  <2>2. ~at(a, "link") /\ UNCHANGED <<deps, manifest, met, unlisted>>
    BY <1>6 DEF OnlyClosed, at, disk, past
  <2>3. QED
    BY <2>1, <2>2 DEF LinksListed, at, on, linkedDirs
<1>7. ASSUME NEW a \in SandActors, hasCommitsToPromote(a) PROVE LinksListed'
  <2>1. /\ \A b \in SandActors \ {a} : worker'[b] = worker[b]
        /\ WorkersTyped' /\ on(a) \in SandTickets
        /\ worker'[a].pc = "idle" \/ (worker'[a].pc = "unlink" /\ worker'[a].on = on(a))
    <3>1. ~at(a, "idle") /\ "unlink" \in SandSteps \ {"idle"} /\ (rests(a) \/ moves(a, "unlink"))
      BY <1>7 DEF hasCommitsToPromote, at, SandSteps
    <3>2. QED
      BY <3>1, MovesOn, ComesToRest DEF WorkersTyped
  <2>2. ~at(a, "link") /\ UNCHANGED <<deps, manifest, met, unlisted>>
    BY <1>7 DEF hasCommitsToPromote, at, disk, past
  <2>3. QED
    BY <2>1, <2>2 DEF LinksListed, at, on, linkedDirs
<1>8. ASSUME NEW a \in SandActors, unlinkDeps(a) PROVE LinksListed'
  BY <1>8
    DEF unlinkDeps, at, on, moves, rests, disk, past, linkedDirs, SandTypeOK, WorkersTyped,
        SandPlaces, LinksListed, Off, NoDeps
<1>9. ASSUME NEW a \in SandActors, WorktreeRemove(a) PROVE LinksListed'
  BY <1>9
    DEF WorktreeRemove, at, on, moves, rests, disk, past, Through, SandTypeOK, WorkersTyped,
        SandPlaces, LinksListed, linkedDirs, Off, NoDeps
<1>10. ASSUME NEW a \in SandActors, RemoveRest(a) PROVE LinksListed'
  <2>1. /\ \A b \in SandActors \ {a} : worker'[b] = worker[b]
        /\ WorkersTyped' /\ on(a) \in SandTickets
        /\ worker'[a].pc = "idle" \/ (worker'[a].pc = "branch" /\ worker'[a].on = on(a))
    <3>1. ~at(a, "idle") /\ "branch" \in SandSteps \ {"idle"} /\ (rests(a) \/ moves(a, "branch"))
      BY <1>10 DEF RemoveRest, at, SandSteps
    <3>2. QED
      BY <3>1, MovesOn, ComesToRest DEF WorkersTyped
  <2>2. ~at(a, "link") /\ unlisted' = unlisted
    BY <1>10 DEF RemoveRest, at, past
  <2>3. CASE deps' = [deps EXCEPT ![on(a)] = NoDeps] /\ manifest' = [manifest EXCEPT ![on(a)] = {}]
    <3>1. \A d \in SandDirs : deps'[on(a)][d] # "link"
      BY <2>1, <2>3 DEF NoDeps, SandTypeOK
    <3>2. \A t \in SandTickets \ {on(a)} : deps'[t] = deps[t] /\ manifest'[t] = manifest[t]
      BY <2>1, <2>3 DEF SandTypeOK
    <3>3. QED
      BY <2>1, <2>2, <3>1, <3>2 DEF LinksListed, at, on, linkedDirs
  <2>4. CASE UNCHANGED <<deps, manifest>>
    BY <2>1, <2>2, <2>4 DEF LinksListed, at, on, linkedDirs
  <2>5. QED
    BY <1>10, <2>3, <2>4 DEF RemoveRest
<1>11. ASSUME NEW a \in SandActors, DeleteBranch(a) PROVE LinksListed'
  BY <1>11
    DEF DeleteBranch, at, on, moves, rests, disk, past, SandTypeOK, WorkersTyped, SandPlaces,
        LinksListed, linkedDirs, Off, NoDeps
<1>12. ASSUME NEW a \in SandActors, NEW t \in SandTickets, BeginRun(a, t) PROVE LinksListed'
  BY <1>12
    DEF BeginRun, at, on, moves, rests, disk, past, meets, SandTypeOK, WorkersTyped, SandPlaces,
        LinksListed, linkedDirs, Off, NoDeps
<1>13. ASSUME NEW a \in SandActors, NEW t \in SandTickets, discardSandbox(a, t) PROVE LinksListed'
  BY <1>13
    DEF discardSandbox, at, on, moves, rests, disk, past, meets, SandTypeOK, WorkersTyped,
        SandPlaces, LinksListed, linkedDirs, Off, NoDeps
<1>14. ASSUME NEW a \in SandActors, NEW t \in SandTickets, SweepSandbox(a, t) PROVE LinksListed'
  BY <1>14
    DEF SweepSandbox, at, on, moves, rests, disk, past, meets, SandTypeOK, WorkersTyped,
        SandPlaces, LinksListed, linkedDirs, Off, NoDeps
<1>15. ASSUME NEW a \in SandActors, NEW t \in SandTickets, deleteMergedBranch(a, t)
       PROVE  LinksListed'
  BY <1>15
    DEF deleteMergedBranch, at, on, moves, rests, disk, past, SandTypeOK, WorkersTyped,
        SandPlaces, LinksListed, linkedDirs, Off, NoDeps
<1>16. ASSUME NEW t \in SandTickets, NEW to \in {"open", "closed", "gone"}, TicketMoves(t, to)
       PROVE  LinksListed'
  BY <1>16
    DEF TicketMoves, at, on, moves, rests, disk, past, SandTypeOK, WorkersTyped, SandPlaces,
        LinksListed, linkedDirs, Off, NoDeps
<1>17. CASE SandCrash
  BY <1>17
    DEF SandCrash, at, on, moves, rests, disk, past, linkedDirs, SandTypeOK, WorkersTyped,
        SandPlaces, LinksListed, Off, NoDeps
<1>18. CASE UNCHANGED sandVars
  BY <1>18
    DEF sandVars, at, on, SandTypeOK, WorkersTyped, SandPlaces, LinksListed, linkedDirs, Off,
        NoDeps
<1>19. QED
  BY <1>1, <1>2, <1>3, <1>4, <1>5, <1>6, <1>7, <1>8, <1>9, <1>10, <1>11, <1>12, <1>13, <1>14,
     <1>15, <1>16, <1>17, <1>18 DEF SandNext

\* No link appears in a sandbox between the unlinking and the deletion.
LEMMA UnlinkedStep ==
  ASSUME SandTypeOK, WorkersTyped, AloneThere, LinksListed, Unlinked, [SandNext]_sandVars
  PROVE  Unlinked'
<1>1. ASSUME NEW a \in SandActors, ensureSandbox(a) PROVE Unlinked'
  BY <1>1
    DEF ensureSandbox, at, on, moves, rests, disk, past, SandTypeOK, WorkersTyped, SandPlaces,
        AloneThere, LinksListed, Unlinked, linkedDirs, Off, NoDeps
<1>2. ASSUME NEW a \in SandActors, linkDeps(a) PROVE Unlinked'
  <2>1. /\ worker[a] \in SandPlaces /\ worker \in [SandActors -> SandPlaces]
        /\ on(a) \in SandTickets
        /\ at(a, "link") /\ UNCHANGED <<manifest, met, unlisted>>
    BY <1>2 DEF linkDeps, WorkersTyped, at, past
  <2>2. PICK d \in worker[a].todo, as \in {"link", "copy", "none"} :
          /\ deps' = [deps EXCEPT ![on(a)][d] = IF @ = "none" \/ (@ = "link" /\ as = "copy") THEN as ELSE @]
          /\ worker' = [worker EXCEPT ![a].todo = @ \ {d},
                         ![a].made = IF deps[on(a)][d] = "none" /\ as = "link" THEN @ \cup {d} ELSE @]
    BY <1>2 DEF linkDeps
  <2>3. \A b \in SandActors : worker'[b].pc = worker[b].pc /\ worker'[b].on = worker[b].on
    BY <2>1, <2>2 DEF SandPlaces
  <2>4. \A t \in SandTickets \ {on(a)} : deps'[t] = deps[t]
    BY <2>1, <2>2 DEF SandTypeOK
  <2>5. ASSUME NEW b \in SandActors, NEW e \in SandDirs, worker'[b].pc \in {"remove", "rest"},
               worker'[b].on \notin met', deps'[worker'[b].on][e] = "link"
        PROVE  <<worker'[b].on, e>> \in unlisted'
    <3>1. /\ ~at(b, "idle") /\ ~at(a, "idle") /\ b # a /\ on(b) \notin met
          /\ worker[b].pc \in {"remove", "rest"}
      BY <2>1, <2>3, <2>5 DEF at, on
    <3>2. on(b) # on(a) /\ on(b) \in SandTickets
      BY <2>1, <3>1 DEF AloneThere, WorkersTyped
    <3>3. deps[on(b)][e] = "link" /\ worker'[b].on = on(b)
      BY <2>3, <2>4, <2>5, <3>2 DEF on
    <3>4. QED
      BY <2>1, <3>1, <3>3 DEF Unlinked
  <2>6. QED
    BY <2>5 DEF Unlinked, on
<1>3. ASSUME NEW a \in SandActors, RecordLinks(a) PROVE Unlinked'
  BY <1>3
    DEF RecordLinks, at, on, moves, rests, disk, past, linkedDirs, SandTypeOK, WorkersTyped,
        SandPlaces, AloneThere, LinksListed, Unlinked, Off, NoDeps
<1>4. ASSUME NEW a \in SandActors, SandRunEnds(a) PROVE Unlinked'
  BY <1>4
    DEF SandRunEnds, at, on, moves, rests, disk, past, SandTypeOK, WorkersTyped, SandPlaces,
        AloneThere, LinksListed, Unlinked, linkedDirs, Off, NoDeps
<1>5. ASSUME NEW a \in SandActors, deleteOrphanIfLinkFree(a) PROVE Unlinked'
  <2>1. /\ \A b \in SandActors \ {a} : worker'[b] = worker[b]
        /\ WorkersTyped' /\ on(a) \in SandTickets /\ worker'[a].pc = "idle"
    BY <1>5, ComesToRest DEF deleteOrphanIfLinkFree, WorkersTyped, at
  <2>2. unlisted' = unlisted /\ met' = met
    BY <1>5 DEF deleteOrphanIfLinkFree, past
  <2>3. CASE deps' = [deps EXCEPT ![on(a)] = NoDeps]
    <3>1. \A d \in SandDirs : deps'[on(a)][d] # "link"
      BY <2>1, <2>3 DEF NoDeps, SandTypeOK
    <3>2. \A t \in SandTickets \ {on(a)} : deps'[t] = deps[t]
      BY <2>1, <2>3 DEF SandTypeOK
    <3>3. ASSUME NEW b \in SandActors, NEW e \in SandDirs, worker'[b].pc \in {"remove", "rest"},
               worker'[b].on \notin met', deps'[worker'[b].on][e] = "link"
        PROVE  <<worker'[b].on, e>> \in unlisted'
      <4>1. b # a
        BY <2>1, <3>3
      <4>2. worker'[b].on \in SandTickets /\ worker'[b] = worker[b]
        BY <2>1, <3>3, <4>1 DEF WorkersTyped, at, on
      <4>3. worker'[b].on # on(a)
        BY <3>1, <3>3
      <4>4. QED
        BY <2>1, <2>2, <3>2, <3>3, <4>1, <4>2, <4>3 DEF Unlinked, on
    <3>4. QED
      BY <3>3 DEF Unlinked, on
  <2>4. CASE UNCHANGED deps
    BY <2>1, <2>2, <2>4 DEF Unlinked, at, on
  <2>5. QED
    BY <1>5, <2>3, <2>4 DEF deleteOrphanIfLinkFree
<1>6. ASSUME NEW a \in SandActors, OnlyClosed(a) PROVE Unlinked'
  <2>1. /\ \A b \in SandActors \ {a} : worker'[b] = worker[b]
        /\ WorkersTyped' /\ on(a) \in SandTickets
        /\ worker'[a].pc = "idle" \/ (worker'[a].pc = "count" /\ worker'[a].on = on(a))
    <3>1. ~at(a, "idle") /\ "count" \in SandSteps \ {"idle"} /\ (rests(a) \/ moves(a, "count"))
      BY <1>6 DEF OnlyClosed, at, SandSteps
    <3>2. QED
      BY <3>1, MovesOn, ComesToRest DEF WorkersTyped
  <2>2. ~at(a, "link") /\ UNCHANGED <<deps, manifest, met, unlisted>>
    BY <1>6 DEF OnlyClosed, at, disk, past
  <2>3. QED
    BY <2>1, <2>2 DEF Unlinked, at, on, linkedDirs
<1>7. ASSUME NEW a \in SandActors, hasCommitsToPromote(a) PROVE Unlinked'
  <2>1. /\ \A b \in SandActors \ {a} : worker'[b] = worker[b]
        /\ WorkersTyped' /\ on(a) \in SandTickets
        /\ worker'[a].pc = "idle" \/ (worker'[a].pc = "unlink" /\ worker'[a].on = on(a))
    <3>1. ~at(a, "idle") /\ "unlink" \in SandSteps \ {"idle"} /\ (rests(a) \/ moves(a, "unlink"))
      BY <1>7 DEF hasCommitsToPromote, at, SandSteps
    <3>2. QED
      BY <3>1, MovesOn, ComesToRest DEF WorkersTyped
  <2>2. ~at(a, "link") /\ UNCHANGED <<deps, manifest, met, unlisted>>
    BY <1>7 DEF hasCommitsToPromote, at, disk, past
  <2>3. QED
    BY <2>1, <2>2 DEF Unlinked, at, on, linkedDirs
<1>8. ASSUME NEW a \in SandActors, unlinkDeps(a) PROVE Unlinked'
  <2>1. /\ ~at(a, "idle") /\ at(a, "unlink") /\ on(a) \in SandTickets /\ met' = met
        /\ \A b \in SandActors \ {a} : worker'[b] = worker[b]
        /\ worker'[a].on = on(a)
    <3>1. /\ ~at(a, "idle") /\ at(a, "unlink") /\ met' = met /\ moves(a, "remove")
          /\ "remove" \in SandSteps \ {"idle"}
      BY <1>8 DEF unlinkDeps, at, SandSteps
    <3>2. QED
      BY <3>1, MovesOn DEF WorkersTyped
  <2>2. PICK stuck \in {{}, {d \in linkedDirs(on(a)) : deps[on(a)][d] = "link"}} :
          /\ deps' = [deps EXCEPT ![on(a)] =
               [d \in SandDirs |-> IF d \in {e \in linkedDirs(on(a)) : deps[on(a)][e] = "link"} \ stuck
                                   THEN "none" ELSE @[d]]]
          /\ unlisted' = unlisted \cup ({on(a)} \X stuck)
    BY <1>8 DEF unlinkDeps
  <2>3. \A d \in SandDirs : deps'[on(a)][d] = "link" =>
          deps[on(a)][d] = "link" /\ (d \notin linkedDirs(on(a)) \/ d \in stuck)
    BY <2>1, <2>2 DEF SandTypeOK
  <2>4. \A t \in SandTickets \ {on(a)} : deps'[t] = deps[t]
    BY <2>1, <2>2 DEF SandTypeOK
  <2>5. ASSUME NEW b \in SandActors, NEW e \in SandDirs, worker'[b].pc \in {"remove", "rest"},
               worker'[b].on \notin met', deps'[worker'[b].on][e] = "link"
        PROVE  <<worker'[b].on, e>> \in unlisted'
    <3>1. CASE b = a
      <4>1. deps[on(a)][e] = "link" /\ (e \notin linkedDirs(on(a)) \/ e \in stuck) /\ on(a) \notin met
        BY <2>1, <2>3, <2>5, <3>1
      <4>2. CASE e \in stuck
        BY <2>1, <2>2, <3>1, <4>2
      <4>3. CASE e \notin linkedDirs(on(a))
        <5>1. ~ \E c \in SandActors : at(c, "link") /\ on(c) = on(a)
          BY <2>1, <4>1 DEF AloneThere, at
        <5>2. <<on(a), e>> \in unlisted
          BY <2>1, <4>1, <4>3, <5>1 DEF LinksListed
        <5>3. QED
          BY <2>1, <2>2, <3>1, <5>2
      <4>4. QED
        BY <4>1, <4>2, <4>3
    <3>2. CASE b # a
      <4>1. /\ ~at(b, "idle") /\ on(b) \notin met /\ worker[b].pc \in {"remove", "rest"}
            /\ worker'[b].on = on(b)
        BY <2>1, <2>5, <3>2 DEF at, on
      <4>2. on(b) # on(a) /\ on(b) \in SandTickets
        BY <2>1, <3>2, <4>1 DEF AloneThere, WorkersTyped
      <4>3. deps[on(b)][e] = "link"
        BY <2>4, <2>5, <4>1, <4>2
      <4>4. QED
        BY <2>2, <4>1, <4>3 DEF Unlinked
    <3>3. QED
      BY <3>1, <3>2
  <2>6. QED
    BY <2>5 DEF Unlinked, on
<1>9. ASSUME NEW a \in SandActors, WorktreeRemove(a) PROVE Unlinked'
  BY <1>9
    DEF WorktreeRemove, at, on, moves, rests, disk, past, Through, SandTypeOK, WorkersTyped,
        SandPlaces, AloneThere, LinksListed, Unlinked, linkedDirs, Off, NoDeps
<1>10. ASSUME NEW a \in SandActors, RemoveRest(a) PROVE Unlinked'
  <2>1. /\ \A b \in SandActors \ {a} : worker'[b] = worker[b]
        /\ WorkersTyped' /\ on(a) \in SandTickets
        /\ worker'[a].pc = "idle" \/ (worker'[a].pc = "branch" /\ worker'[a].on = on(a))
    <3>1. ~at(a, "idle") /\ "branch" \in SandSteps \ {"idle"} /\ (rests(a) \/ moves(a, "branch"))
      BY <1>10 DEF RemoveRest, at, SandSteps
    <3>2. QED
      BY <3>1, MovesOn, ComesToRest DEF WorkersTyped
  <2>2. unlisted' = unlisted /\ met' = met
    BY <1>10 DEF RemoveRest, past
  <2>3. CASE deps' = [deps EXCEPT ![on(a)] = NoDeps]
    <3>1. \A d \in SandDirs : deps'[on(a)][d] # "link"
      BY <2>1, <2>3 DEF NoDeps, SandTypeOK
    <3>2. \A t \in SandTickets \ {on(a)} : deps'[t] = deps[t]
      BY <2>1, <2>3 DEF SandTypeOK
    <3>3. ASSUME NEW b \in SandActors, NEW e \in SandDirs, worker'[b].pc \in {"remove", "rest"},
               worker'[b].on \notin met', deps'[worker'[b].on][e] = "link"
        PROVE  <<worker'[b].on, e>> \in unlisted'
      <4>1. b # a
        BY <2>1, <3>3
      <4>2. worker'[b].on \in SandTickets /\ worker'[b] = worker[b]
        BY <2>1, <3>3, <4>1 DEF WorkersTyped, at, on
      <4>3. worker'[b].on # on(a)
        BY <3>1, <3>3
      <4>4. QED
        BY <2>1, <2>2, <3>2, <3>3, <4>1, <4>2, <4>3 DEF Unlinked, on
    <3>4. QED
      BY <3>3 DEF Unlinked, on
  <2>4. CASE UNCHANGED deps
    BY <2>1, <2>2, <2>4 DEF Unlinked, at, on
  <2>5. QED
    BY <1>10, <2>3, <2>4 DEF RemoveRest
<1>11. ASSUME NEW a \in SandActors, DeleteBranch(a) PROVE Unlinked'
  BY <1>11
    DEF DeleteBranch, at, on, moves, rests, disk, past, SandTypeOK, WorkersTyped, SandPlaces,
        AloneThere, LinksListed, Unlinked, linkedDirs, Off, NoDeps
<1>12. ASSUME NEW a \in SandActors, NEW t \in SandTickets, BeginRun(a, t) PROVE Unlinked'
  BY <1>12
    DEF BeginRun, at, on, moves, rests, disk, past, meets, SandTypeOK, WorkersTyped, SandPlaces,
        AloneThere, LinksListed, Unlinked, linkedDirs, Off, NoDeps
<1>13. ASSUME NEW a \in SandActors, NEW t \in SandTickets, discardSandbox(a, t) PROVE Unlinked'
  BY <1>13
    DEF discardSandbox, at, on, moves, rests, disk, past, meets, SandTypeOK, WorkersTyped,
        SandPlaces, AloneThere, LinksListed, Unlinked, linkedDirs, Off, NoDeps
<1>14. ASSUME NEW a \in SandActors, NEW t \in SandTickets, SweepSandbox(a, t) PROVE Unlinked'
  BY <1>14
    DEF SweepSandbox, at, on, moves, rests, disk, past, meets, SandTypeOK, WorkersTyped,
        SandPlaces, AloneThere, LinksListed, Unlinked, linkedDirs, Off, NoDeps
<1>15. ASSUME NEW a \in SandActors, NEW t \in SandTickets, deleteMergedBranch(a, t)
       PROVE  Unlinked'
  BY <1>15
    DEF deleteMergedBranch, at, on, moves, rests, disk, past, SandTypeOK, WorkersTyped,
        SandPlaces, AloneThere, LinksListed, Unlinked, linkedDirs, Off, NoDeps
<1>16. ASSUME NEW t \in SandTickets, NEW to \in {"open", "closed", "gone"}, TicketMoves(t, to)
       PROVE  Unlinked'
  BY <1>16
    DEF TicketMoves, at, on, moves, rests, disk, past, SandTypeOK, WorkersTyped, SandPlaces,
        AloneThere, LinksListed, Unlinked, linkedDirs, Off, NoDeps
<1>17. CASE SandCrash
  BY <1>17
    DEF SandCrash, at, on, moves, rests, disk, past, linkedDirs, SandTypeOK, WorkersTyped,
        SandPlaces, AloneThere, LinksListed, Unlinked, Off, NoDeps
<1>18. CASE UNCHANGED sandVars
  BY <1>18
    DEF sandVars, at, on, SandTypeOK, WorkersTyped, SandPlaces, AloneThere, LinksListed, Unlinked,
        linkedDirs, Off, NoDeps
<1>19. QED
  BY <1>1, <1>2, <1>3, <1>4, <1>5, <1>6, <1>7, <1>8, <1>9, <1>10, <1>11, <1>12, <1>13, <1>14,
     <1>15, <1>16, <1>17, <1>18 DEF SandNext

\* No work appears on a branch between the count and its deletion.
LEMMA WantedStep ==
  ASSUME SandTypeOK, WorkersTyped, AloneThere, NothingWanted, [SandNext]_sandVars
  PROVE  NothingWanted'
<1>1. ASSUME NEW a \in SandActors, ensureSandbox(a) PROVE NothingWanted'
  BY <1>1
    DEF ensureSandbox, at, on, moves, rests, disk, past, SandTypeOK, WorkersTyped, SandPlaces,
        AloneThere, NothingWanted, Off
<1>2. ASSUME NEW a \in SandActors, linkDeps(a) PROVE NothingWanted'
  BY <1>2
    DEF linkDeps, at, on, moves, rests, disk, past, SandTypeOK, WorkersTyped, SandPlaces,
        AloneThere, NothingWanted, Off
<1>3. ASSUME NEW a \in SandActors, RecordLinks(a) PROVE NothingWanted'
  BY <1>3
    DEF RecordLinks, at, on, moves, rests, disk, past, linkedDirs, SandTypeOK, WorkersTyped,
        SandPlaces, AloneThere, NothingWanted, Off
<1>4. ASSUME NEW a \in SandActors, SandRunEnds(a) PROVE NothingWanted'
  BY <1>4
    DEF SandRunEnds, at, on, moves, rests, disk, past, SandTypeOK, WorkersTyped, SandPlaces,
        AloneThere, NothingWanted, Off
<1>5. ASSUME NEW a \in SandActors, deleteOrphanIfLinkFree(a) PROVE NothingWanted'
  BY <1>5
    DEF deleteOrphanIfLinkFree, at, on, moves, rests, disk, past, SandTypeOK, WorkersTyped,
        SandPlaces, AloneThere, NothingWanted, Off
<1>6. ASSUME NEW a \in SandActors, OnlyClosed(a) PROVE NothingWanted'
  BY <1>6
    DEF OnlyClosed, at, on, moves, rests, disk, past, SandTypeOK, WorkersTyped, SandPlaces,
        AloneThere, NothingWanted, Off
<1>7. ASSUME NEW a \in SandActors, hasCommitsToPromote(a) PROVE NothingWanted'
  BY <1>7
    DEF hasCommitsToPromote, at, on, moves, rests, disk, past, keeps, SandTypeOK, WorkersTyped,
        SandPlaces, AloneThere, NothingWanted, Off
<1>8. ASSUME NEW a \in SandActors, unlinkDeps(a) PROVE NothingWanted'
  BY <1>8
    DEF unlinkDeps, at, on, moves, rests, disk, past, linkedDirs, SandTypeOK, WorkersTyped,
        SandPlaces, AloneThere, NothingWanted, Off
<1>9. ASSUME NEW a \in SandActors, WorktreeRemove(a) PROVE NothingWanted'
  BY <1>9
    DEF WorktreeRemove, at, on, moves, rests, disk, past, Through, SandTypeOK, WorkersTyped,
        SandPlaces, AloneThere, NothingWanted, Off
<1>10. ASSUME NEW a \in SandActors, RemoveRest(a) PROVE NothingWanted'
  <2>1. /\ \A b \in SandActors \ {a} : worker'[b] = worker[b]
        /\ WorkersTyped' /\ on(a) \in SandTickets
        /\ worker'[a].pc = "idle" \/ (worker'[a].pc = "branch" /\ worker'[a].on = on(a))
    <3>1. ~at(a, "idle") /\ "branch" \in SandSteps \ {"idle"} /\ (rests(a) \/ moves(a, "branch"))
      BY <1>10 DEF RemoveRest, at, SandSteps
    <3>2. QED
      BY <3>1, MovesOn, ComesToRest DEF WorkersTyped
  <2>2. UNCHANGED <<met, miscounted, forgeBranch>> /\ at(a, "rest")
    BY <1>10 DEF RemoveRest
  <2>3. QED
    BY <2>1, <2>2 DEF NothingWanted, at, on
<1>11. ASSUME NEW a \in SandActors, DeleteBranch(a) PROVE NothingWanted'
  BY <1>11
    DEF DeleteBranch, at, on, moves, rests, disk, past, SandTypeOK, WorkersTyped, SandPlaces,
        AloneThere, NothingWanted, Off
<1>12. ASSUME NEW a \in SandActors, NEW t \in SandTickets, BeginRun(a, t) PROVE NothingWanted'
  BY <1>12
    DEF BeginRun, at, on, moves, rests, disk, past, meets, SandTypeOK, WorkersTyped, SandPlaces,
        AloneThere, NothingWanted, Off
<1>13. ASSUME NEW a \in SandActors, NEW t \in SandTickets, discardSandbox(a, t)
       PROVE  NothingWanted'
  BY <1>13
    DEF discardSandbox, at, on, moves, rests, disk, past, meets, SandTypeOK, WorkersTyped,
        SandPlaces, AloneThere, NothingWanted, Off
<1>14. ASSUME NEW a \in SandActors, NEW t \in SandTickets, SweepSandbox(a, t) PROVE NothingWanted'
  BY <1>14
    DEF SweepSandbox, at, on, moves, rests, disk, past, meets, SandTypeOK, WorkersTyped,
        SandPlaces, AloneThere, NothingWanted, Off
<1>15. ASSUME NEW a \in SandActors, NEW t \in SandTickets, deleteMergedBranch(a, t)
       PROVE  NothingWanted'
  BY <1>15
    DEF deleteMergedBranch, at, on, moves, rests, disk, past, SandTypeOK, WorkersTyped,
        SandPlaces, AloneThere, NothingWanted, Off
<1>16. ASSUME NEW t \in SandTickets, NEW to \in {"open", "closed", "gone"}, TicketMoves(t, to)
       PROVE  NothingWanted'
  BY <1>16
    DEF TicketMoves, at, on, moves, rests, disk, past, SandTypeOK, WorkersTyped, SandPlaces,
        AloneThere, NothingWanted, Off
<1>17. CASE SandCrash
  BY <1>17
    DEF SandCrash, at, on, moves, rests, disk, past, linkedDirs, SandTypeOK, WorkersTyped,
        SandPlaces, AloneThere, NothingWanted, Off
<1>18. CASE UNCHANGED sandVars
  BY <1>18
    DEF sandVars, at, on, SandTypeOK, WorkersTyped, SandPlaces, AloneThere, NothingWanted, Off
<1>19. QED
  BY <1>1, <1>2, <1>3, <1>4, <1>5, <1>6, <1>7, <1>8, <1>9, <1>10, <1>11, <1>12, <1>13, <1>14,
     <1>15, <1>16, <1>17, <1>18 DEF SandNext

\* What is deleted was unlinked, and its work is not wanted.
LEMMA DamageStep ==
  ASSUME SandTypeOK, WorkersTyped, Unlinked, NothingWanted, BaseWhole, SandWorkKept,
         [SandNext]_sandVars
  PROVE  (BaseWhole /\ SandWorkKept)'
<1>1. ASSUME NEW a \in SandActors, ensureSandbox(a) PROVE (BaseWhole /\ SandWorkKept)'
  BY <1>1
    DEF ensureSandbox, at, on, moves, rests, disk, past, SandTypeOK, WorkersTyped, Unlinked,
        NothingWanted, BaseWhole, SandWorkKept
<1>2. ASSUME NEW a \in SandActors, linkDeps(a) PROVE (BaseWhole /\ SandWorkKept)'
  BY <1>2
    DEF linkDeps, at, on, moves, rests, disk, past, SandTypeOK, WorkersTyped, Unlinked,
        NothingWanted, BaseWhole, SandWorkKept
<1>3. ASSUME NEW a \in SandActors, RecordLinks(a) PROVE (BaseWhole /\ SandWorkKept)'
  BY <1>3
    DEF RecordLinks, at, on, moves, rests, disk, past, linkedDirs, SandTypeOK, WorkersTyped,
        Unlinked, NothingWanted, BaseWhole, SandWorkKept
<1>4. ASSUME NEW a \in SandActors, SandRunEnds(a) PROVE (BaseWhole /\ SandWorkKept)'
  BY <1>4
    DEF SandRunEnds, at, on, moves, rests, disk, past, SandTypeOK, WorkersTyped, Unlinked,
        NothingWanted, BaseWhole, SandWorkKept
<1>5. ASSUME NEW a \in SandActors, deleteOrphanIfLinkFree(a) PROVE (BaseWhole /\ SandWorkKept)'
  BY <1>5
    DEF deleteOrphanIfLinkFree, at, on, moves, rests, disk, past, SandTypeOK, WorkersTyped,
        Unlinked, NothingWanted, BaseWhole, SandWorkKept
<1>6. ASSUME NEW a \in SandActors, OnlyClosed(a) PROVE (BaseWhole /\ SandWorkKept)'
  BY <1>6
    DEF OnlyClosed, at, on, moves, rests, disk, past, SandTypeOK, WorkersTyped, Unlinked,
        NothingWanted, BaseWhole, SandWorkKept
<1>7. ASSUME NEW a \in SandActors, hasCommitsToPromote(a) PROVE (BaseWhole /\ SandWorkKept)'
  BY <1>7
    DEF hasCommitsToPromote, at, on, moves, rests, disk, past, keeps, SandTypeOK, WorkersTyped,
        Unlinked, NothingWanted, BaseWhole, SandWorkKept
<1>8. ASSUME NEW a \in SandActors, unlinkDeps(a) PROVE (BaseWhole /\ SandWorkKept)'
  BY <1>8
    DEF unlinkDeps, at, on, moves, rests, disk, past, linkedDirs, SandTypeOK, WorkersTyped,
        Unlinked, NothingWanted, BaseWhole, SandWorkKept
<1>9. ASSUME NEW a \in SandActors, WorktreeRemove(a) PROVE (BaseWhole /\ SandWorkKept)'
  BY <1>9
    DEF WorktreeRemove, at, on, moves, rests, disk, past, Through, SandTypeOK, WorkersTyped,
        Unlinked, NothingWanted, BaseWhole, SandWorkKept
<1>10. ASSUME NEW a \in SandActors, RemoveRest(a) PROVE (BaseWhole /\ SandWorkKept)'
  <2>1. /\ on(a) \in SandTickets /\ worker[a].pc = "rest"
        /\ UNCHANGED <<unlisted, met, lost, miscounted>>
        /\ damaged' \subseteq damaged \cup Through(on(a))
    BY <1>10 DEF RemoveRest, WorkersTyped, at
  <2>2. \A d \in Through(on(a)) : <<on(a), d>> \in unlisted \/ on(a) \in met
    BY <2>1 DEF Through, Unlinked
  <2>3. QED
    BY <2>1, <2>2 DEF BaseWhole, SandWorkKept
<1>11. ASSUME NEW a \in SandActors, DeleteBranch(a) PROVE (BaseWhole /\ SandWorkKept)'
  BY <1>11
    DEF DeleteBranch, at, on, moves, rests, disk, past, SandTypeOK, WorkersTyped, Unlinked,
        NothingWanted, BaseWhole, SandWorkKept
<1>12. ASSUME NEW a \in SandActors, NEW t \in SandTickets, BeginRun(a, t)
       PROVE  (BaseWhole /\ SandWorkKept)'
  BY <1>12
    DEF BeginRun, at, on, moves, rests, disk, past, meets, SandTypeOK, WorkersTyped, Unlinked,
        NothingWanted, BaseWhole, SandWorkKept
<1>13. ASSUME NEW a \in SandActors, NEW t \in SandTickets, discardSandbox(a, t)
       PROVE  (BaseWhole /\ SandWorkKept)'
  BY <1>13
    DEF discardSandbox, at, on, moves, rests, disk, past, meets, SandTypeOK, WorkersTyped,
        Unlinked, NothingWanted, BaseWhole, SandWorkKept
<1>14. ASSUME NEW a \in SandActors, NEW t \in SandTickets, SweepSandbox(a, t)
       PROVE  (BaseWhole /\ SandWorkKept)'
  BY <1>14
    DEF SweepSandbox, at, on, moves, rests, disk, past, meets, SandTypeOK, WorkersTyped, Unlinked,
        NothingWanted, BaseWhole, SandWorkKept
<1>15. ASSUME NEW a \in SandActors, NEW t \in SandTickets, deleteMergedBranch(a, t)
       PROVE  (BaseWhole /\ SandWorkKept)'
  BY <1>15
    DEF deleteMergedBranch, at, on, moves, rests, disk, past, SandTypeOK, WorkersTyped, Unlinked,
        NothingWanted, BaseWhole, SandWorkKept
<1>16. ASSUME NEW t \in SandTickets, NEW to \in {"open", "closed", "gone"}, TicketMoves(t, to)
       PROVE  (BaseWhole /\ SandWorkKept)'
  BY <1>16
    DEF TicketMoves, at, on, moves, rests, disk, past, SandTypeOK, WorkersTyped, Unlinked,
        NothingWanted, BaseWhole, SandWorkKept
<1>17. CASE SandCrash
  BY <1>17
    DEF SandCrash, at, on, moves, rests, disk, past, linkedDirs, SandTypeOK, WorkersTyped,
        Unlinked, NothingWanted, BaseWhole, SandWorkKept
<1>18. CASE UNCHANGED sandVars
  BY <1>18
    DEF sandVars, at, on, SandTypeOK, WorkersTyped, Unlinked, NothingWanted, BaseWhole,
        SandWorkKept
<1>19. QED
  BY <1>1, <1>2, <1>3, <1>4, <1>5, <1>6, <1>7, <1>8, <1>9, <1>10, <1>11, <1>12, <1>13, <1>14,
     <1>15, <1>16, <1>17, <1>18 DEF SandNext

\* Nothing is on the disk and nobody works.
LEMMA SandStarts == SandInit => SandInductive
BY DEF SandInit, SandInductive, SandInv, SandTypeOK, BaseWhole, SandWorkKept, WorkersTyped,
       SandPlaces,
       SandSteps, AloneThere, LinksListed, Unlinked, NothingWanted, at, on, Off, NoDeps, NoSandbox

\* The repository's own folders survive and wanted work is kept, whoever deletes what and when.
THEOREM SandHolds == SandSpec => []SandInv
<1>1. SandInit => SandInductive
  BY SandStarts
<1>2. SandInductive /\ [SandNext]_sandVars => SandInductive'
  BY WorkersStep, DiskStep, AloneStep, ListedStep, UnlinkedStep, WantedStep, DamageStep
     DEF SandInductive, SandInv, SandTypeOK, DiskTyped, WorkersTyped, SandPlaces
<1>3. SandInductive => SandInv
  BY DEF SandInductive
<1>4. QED
  BY <1>1, <1>2, <1>3, PTL DEF SandSpec

-----------------------------------------------------------------------------
-----------------------------------------------------------------------------
\* The review of a change in its sandbox (Gate).

GateSpec == GateInit /\ [][GateNext]_gateVars

\* A test is never taken back, nor is anything before the first review; and in the middle of a probe
\* what the branch holds is the work.
TreeKept ==
  /\ \A f \in GateTests : inTree[f] = "head"
  /\ gateReviews = 0 => /\ gpc = "idle" /\ ~broken /\ change = NoChange
                        /\ \A f \in GateFiles : inTree[f] = "head" /\ onBranch[f] = "head"
  /\ ~broken => \A f \in changed : onBranch[f] = "head"

\* What is wrong blocks, and a verdict has heard the reviewer and all the checks.
VerdictReady ==
  /\ present \subseteq found
  /\ ran \in Seq(0..1)
  /\ result = "passed" => gpc = "idle"
  /\ gpc = "verdict" => chunks # {} /\ Len(ran) = GateCommands

GateInductive == GateInv /\ TreeKept /\ VerdictReady

\* Every step keeps the types of the review.
LEMMA GateTypesStep == GateInductive /\ [GateNext]_gateVars => GateTypeOK'
<1> SUFFICES ASSUME GateInductive, [GateNext]_gateVars
             PROVE  GateTypeOK'
  OBVIOUS
<1> USE GateAssumption DEF GateAssumption, GateInductive, GateInv, GateTypeOK, GateChecks, gateTo, tree, commands
<1>1. CASE forgeCommitAll
  BY <1>1 DEF forgeCommitAll
<1>2. CASE ResumeToReview
  BY <1>2 DEF ResumeToReview
<1>3. CASE evaluateProtectedPaths
  BY <1>3 DEF evaluateProtectedPaths
<1>4. CASE ScanSecrets
  BY <1>4 DEF ScanSecrets, Threw, Blocks
<1>5. CASE CheckFileSet
  BY <1>5 DEF CheckFileSet, Threw, Blocks
<1>6. CASE RevertModified
  BY <1>6 DEF RevertModified, newTests, changed
<1>7. CASE sandboxDeletePaths
  BY <1>7 DEF sandboxDeletePaths, Threw
<1>8. CASE ProbeTest
  <2>1. found' \subseteq GateChecks /\ present' \subseteq GateChecks
    BY <1>8 DEF ProbeTest, Blocks
  <2>2. untested' \subseteq GateTests
    BY <1>8 DEF ProbeTest
  <2>3. cmd' = NoCommand /\ gpc' = "test" /\ UNCHANGED <<change, onBranch, inTree, result, gateReviews>>
    BY <1>8 DEF ProbeTest
  <2>4. QED
    BY <2>1, <2>2, <2>3 DEF NoCommand
<1>9. CASE NoRunner \/ ProbeOver \/ MapCriteria
  BY <1>9 DEF NoRunner, ProbeOver, MapCriteria
<1>10. CASE RestoreSources
  BY <1>10 DEF RestoreSources, Restored
<1>11. CASE CheckCitations
  BY <1>11 DEF CheckCitations, Threw, Blocks
<1>12. CASE parseGateOverrides
  BY <1>12 DEF parseGateOverrides
<1>13. CASE runOne \/ CheckExits \/ CheckTimesOut \/ CheckSettles \/ CheckRan
  <2>1. UNCHANGED <<gpc, change, onBranch, inTree, found, present, untested, result, gateReviews>>
    BY <1>13 DEF runOne, CheckExits, CheckTimesOut, CheckSettles, CheckRan
  <2> DEFINE Commands == [is : {"off", "up", "exited", "settled"}, timer : BOOLEAN, late : BOOLEAN, code : 0..1]
  <2>2. ASSUME runOne \/ CheckRan PROVE cmd' \in Commands
    <3>1. cmd' = [NoCommand EXCEPT !.is = "up", !.timer = TRUE] \/ cmd' = NoCommand
      BY <2>2 DEF runOne, CheckRan
    <3>2. NoCommand \in Commands
      BY DEF NoCommand
    <3>3. [NoCommand EXCEPT !.is = "up", !.timer = TRUE] \in Commands
      BY <3>2
    <3>4. QED
      BY <3>1, <3>2, <3>3
  <2>3. ASSUME CheckExits \/ CheckSettles PROVE cmd' \in Commands
    <3>1. \A code \in 0..1 : [is |-> "settled", timer |-> FALSE, late |-> FALSE, code |-> code] \in Commands
      OBVIOUS
    <3>2. \A code \in 0..1 : [cmd EXCEPT !.is = "exited", !.code = code] \in Commands
      OBVIOUS
    <3>3. cmd.code \in 0..1 /\ 1 \in 0..1
      OBVIOUS
    <3>4. QED
      BY <2>3, <3>1, <3>2, <3>3 DEF CheckExits, CheckSettles, Settles
  <2>4. ASSUME CheckTimesOut PROVE cmd' \in Commands
    BY <2>4 DEF CheckTimesOut
  <2>5. QED
    BY <1>13, <2>1, <2>2, <2>3, <2>4
<1>14. CASE chunkReviewDiff \/ ReviewRead \/ JudgeReview
  BY <1>14 DEF chunkReviewDiff, ReviewRead, JudgeReview
<1>15. CASE GateCrash
  BY <1>15 DEF GateCrash, NoCommand
<1>16. CASE UNCHANGED gateVars
  BY <1>16 DEF gateVars
<1>17. QED
  BY <1>1, <1>2, <1>3, <1>4, <1>5, <1>6, <1>7, <1>8, <1>9, <1>10, <1>11, <1>12, <1>13, <1>14, <1>15,
     <1>16 DEF GateNext

\* A probe gives back what it took, unless git failed or the server died.
LEMMA TreeStep == GateInductive /\ [GateNext]_gateVars => TreeWhole' /\ TreeKept'
<1> SUFFICES ASSUME GateInductive, [GateNext]_gateVars
             PROVE  TreeWhole' /\ TreeKept'
  OBVIOUS
<1> USE GateAssumption DEF GateAssumption, GateInductive, GateInv, GateTypeOK, TreeWhole, TreeKept, changed, gateTo, tree
<1>1. CASE forgeCommitAll
  BY <1>1 DEF forgeCommitAll
<1>2. CASE ResumeToReview
  BY <1>2 DEF ResumeToReview
<1>3. CASE evaluateProtectedPaths \/ ScanSecrets \/ CheckFileSet
  BY <1>3 DEF evaluateProtectedPaths, ScanSecrets, CheckFileSet
<1>4. CASE RevertModified
  BY <1>4 DEF RevertModified, Modified, probed
<1>5. CASE sandboxDeletePaths
  BY <1>5 DEF sandboxDeletePaths, Added, probed
<1>6. CASE ProbeTest \/ NoRunner \/ ProbeOver
  BY <1>6 DEF ProbeTest, NoRunner, ProbeOver
<1>7. CASE RestoreSources
  <2>1. UNCHANGED <<change, onBranch, gateReviews>> /\ gpc' = "ac-map" /\ gateReviews # 0
    BY <1>7 DEF RestoreSources
  <2>2. CASE broken' = TRUE /\ UNCHANGED inTree
    BY <2>1, <2>2
  <2>3. CASE inTree' = Restored /\ (broken' <=> \E f \in changed : onBranch[f] # "head")
    BY <2>1, <2>3 DEF Restored, probed
  <2>4. QED
    BY <1>7, <2>2, <2>3 DEF RestoreSources
<1>8. CASE MapCriteria \/ CheckCitations \/ parseGateOverrides
  BY <1>8 DEF MapCriteria, CheckCitations, parseGateOverrides
<1>9. CASE runOne \/ CheckExits \/ CheckTimesOut \/ CheckSettles \/ CheckRan
  BY <1>9 DEF runOne, CheckExits, CheckTimesOut, CheckSettles, CheckRan
<1>10. CASE chunkReviewDiff \/ ReviewRead \/ JudgeReview
  BY <1>10 DEF chunkReviewDiff, ReviewRead, JudgeReview
<1>11. CASE GateCrash
  BY <1>11 DEF GateCrash
<1>12. CASE UNCHANGED gateVars
  BY <1>12 DEF gateVars
<1>13. QED
  BY <1>1, <1>2, <1>3, <1>4, <1>5, <1>6, <1>7, <1>8, <1>9, <1>10, <1>11, <1>12 DEF GateNext

\* Who leaves the probe or the review has waited for its command.
LEMMA CommandStep == GateInductive /\ [GateNext]_gateVars => NoStrayCommand'
<1> SUFFICES ASSUME GateInductive, [GateNext]_gateVars
             PROVE  NoStrayCommand'
  OBVIOUS
<1> USE DEF GateInductive, GateInv, NoStrayCommand, NoCommand, gateTo, commands
<1>1. CASE forgeCommitAll \/ ResumeToReview \/ evaluateProtectedPaths \/ ScanSecrets \/ CheckFileSet
  BY <1>1 DEF forgeCommitAll, ResumeToReview, evaluateProtectedPaths, ScanSecrets, CheckFileSet
<1>2. CASE RevertModified \/ sandboxDeletePaths \/ ProbeTest \/ NoRunner \/ ProbeOver \/ RestoreSources
  BY <1>2 DEF RevertModified, sandboxDeletePaths, ProbeTest, NoRunner, ProbeOver, RestoreSources
<1>3. CASE MapCriteria \/ CheckCitations \/ parseGateOverrides
  BY <1>3 DEF MapCriteria, CheckCitations, parseGateOverrides
<1>4. CASE runOne \/ CheckExits \/ CheckTimesOut \/ CheckSettles \/ CheckRan
  BY <1>4 DEF runOne, CheckExits, CheckTimesOut, CheckSettles, CheckRan
<1>5. CASE chunkReviewDiff \/ ReviewRead \/ JudgeReview \/ GateCrash
  BY <1>5 DEF chunkReviewDiff, ReviewRead, JudgeReview, GateCrash
<1>6. CASE UNCHANGED gateVars
  BY <1>6 DEF gateVars
<1>7. QED
  BY <1>1, <1>2, <1>3, <1>4, <1>5, <1>6 DEF GateNext

\* A verdict counts what the gate found, what was said and what the checks returned.
LEMMA VerdictStep == GateInductive /\ [GateNext]_gateVars => PassedClean' /\ VerdictReady'
<1> SUFFICES ASSUME GateInductive, [GateNext]_gateVars
             PROVE  PassedClean' /\ VerdictReady'
  OBVIOUS
<1> USE DEF GateInductive, GateInv, NoStrayCommand, PassedClean, VerdictReady, gateTo, commands
<1>1. CASE forgeCommitAll \/ ResumeToReview
  <2>1. ran' = <<>> /\ found' = {} /\ present' = {} /\ result' = "none" /\ gpc' = "policy"
    BY <1>1 DEF forgeCommitAll, ResumeToReview
  <2>2. QED
    BY <2>1
<1>2. CASE evaluateProtectedPaths
  BY <1>2 DEF evaluateProtectedPaths
<1>3. CASE ScanSecrets \/ CheckFileSet \/ CheckCitations
  BY <1>3 DEF ScanSecrets, CheckFileSet, CheckCitations, Threw, Blocks
<1>4. CASE RevertModified \/ NoRunner \/ ProbeOver \/ RestoreSources \/ MapCriteria
  BY <1>4 DEF RevertModified, NoRunner, ProbeOver, RestoreSources, MapCriteria
<1>5. CASE sandboxDeletePaths
  BY <1>5 DEF sandboxDeletePaths, Threw
<1>6. CASE ProbeTest
  BY <1>6 DEF ProbeTest, Blocks
<1>7. CASE parseGateOverrides
  BY <1>7 DEF parseGateOverrides
<1>8. CASE runOne \/ CheckExits \/ CheckTimesOut \/ CheckSettles
  BY <1>8 DEF runOne, CheckExits, CheckTimesOut, CheckSettles
<1>9. CASE CheckRan
  <2>1. cmd.code \in 0..1
    BY DEF GateTypeOK
  <2>2. ran' \in Seq(0..1) /\ result # "passed" /\ gpc' # "verdict"
    BY <1>9, <2>1 DEF CheckRan
  <2>3. QED
    BY <1>9, <2>2 DEF CheckRan
<1>10. CASE chunkReviewDiff \/ ReviewRead
  BY <1>10 DEF chunkReviewDiff, ReviewRead
<1>11. CASE JudgeReview
  <2>1. VerdictReady'
    BY <1>11 DEF JudgeReview
  <2>2. result' = "passed" => chunks = {"PASS"} /\ found = {} /\ \A i \in DOMAIN ran : ran[i] = 0
    BY <1>11 DEF JudgeReview, mergeReviewVerdicts
  <2>3. PassedClean'
    BY <1>11, <2>2 DEF JudgeReview
  <2>4. QED
    BY <2>1, <2>3
<1>12. CASE GateCrash
  BY <1>12 DEF GateCrash
<1>13. CASE UNCHANGED gateVars
  BY <1>13 DEF gateVars
<1>14. QED
  BY <1>1, <1>2, <1>3, <1>4, <1>5, <1>6, <1>7, <1>8, <1>9, <1>10, <1>11, <1>12, <1>13 DEF GateNext

\* Before the first review there is no change and nothing is taken back.
LEMMA GateStarts == GateInit => GateInductive
BY GateAssumption DEF GateAssumption, GateInit, GateInductive, GateInv, GateTypeOK, TreeWhole, PassedClean,
   NoStrayCommand, TreeKept, VerdictReady, NoChange, NoCommand, changed, GateChecks

\* The gate holds: what passed is clean, no command runs astray, and outside a probe the sandbox holds the
\* work, for every change, set of files and number of checks and reviews.
THEOREM GateHolds == GateSpec => []GateInv
<1>1. GateInit => GateInductive
  BY GateStarts
<1>2. GateInductive /\ [GateNext]_gateVars => GateInductive'
  BY GateTypesStep, TreeStep, CommandStep, VerdictStep DEF GateInductive, GateInv
<1>3. GateInductive => GateInv
  BY DEF GateInductive
<1>4. QED
  BY <1>1, <1>2, <1>3, PTL DEF GateSpec

-----------------------------------------------------------------------------
\* What an operator is shown of a run (Console).

ConsoleSpec == ConsoleInit /\ [][ConsoleNext]_conVars

NoRun == 0
SomeRun == ConRuns \cup {NoRun}
Offsets == 0..OutputMax
Phases == {"", "unmade", "running", "passed"}
Pieces == ConRuns \X Offsets \X Offsets
QueryTypes == [known : {"none", "ok", "error"}, run : SomeRun, status : Phases]
PollTypes == [run : SomeRun, after : Offsets, next : Offsets, status : Phases]
ViewTypes == [ticket : ConTickets \cup {NoTicket}, active : SomeRun, shown : Seq(Pieces), offset : Offsets,
              derived : {<<>>} \cup (ConTickets \X SomeRun \X Phases), unavailable : BOOLEAN]

ConsoleTyped ==
  /\ served \in [ConRuns -> [status : Phases, output : Offsets]]
  /\ listed \in [ConTickets -> QueryTypes]
  /\ view \in ViewTypes
  /\ polls \in [PollSlots -> PollTypes]
  /\ reading \subseteq ConRuns
  /\ asked \in [AskSlots -> [ticket : ConTickets \cup {NoTicket}, run : SomeRun, how : Hows]]
  /\ crossed \in BOOLEAN /\ strayed \in BOOLEAN

\* An answer to a poll is a stretch of output of a run.
PollsForward == \A s \in PollSlots : polls[s].after <= polls[s].next /\ (polls[s].run = 0 => polls[s] = NoPoll)

\* What is asked for and listed of a ticket is a run of its own, and what was derived has been listed.
TicketsOwn ==
  /\ \A a \in AskSlots : asked[a].run # 0 => TicketOfRun[asked[a].run] = asked[a].ticket
  /\ \A t \in ConTickets : /\ listed[t].run # 0 => TicketOfRun[listed[t].run] = t
                           /\ listed[t].run = 0 => listed[t].status = ""
  /\ view.derived # <<>> => listed[view.derived[1]].known # "none"

ConsoleInductive == ConsoleInv /\ ConsoleTyped /\ PollsForward /\ TicketsOwn

\* Output begins at offset 0, which is no run.
LEMMA OffsetsCounted == Offsets \subseteq Nat /\ 0 \in Offsets /\ 0 \notin ConRuns /\ TicketOfRun \in [ConRuns -> ConTickets]
<1>1. OutputMax \in Nat
  BY ConsoleAssumption DEF ConsoleAssumption
<1>2. Offsets \subseteq Nat /\ 0 \in Offsets
  BY <1>1 DEF Offsets
<1>3. 0 \notin ConRuns /\ TicketOfRun \in [ConRuns -> ConTickets]
  BY ConsoleAssumption DEF ConsoleAssumption
<1>4. QED
  BY <1>2, <1>3

\* What the deriving effect makes of a view.
LEMMA DeriveDoes ==
  ASSUME NEW v \in ViewTypes, NEW l \in [ConTickets -> QueryTypes],
         \A t \in ConTickets : l[t].run = 0 => l[t].status = ""
  PROVE  LET d == Derive(v, l)
             q == l[v.ticket]
             key == DerivedKey(v.ticket, l)
         IN  /\ d \in ViewTypes
             /\ d.ticket = v.ticket /\ d.unavailable = v.unavailable
             /\ \/ v.ticket = NoTicket /\ d.active = v.active /\ d.shown = v.shown /\ d.offset = v.offset /\ d.derived = <<>>
                \/ v.ticket # NoTicket /\ (v.derived = key \/ q.known = "none") /\ d = v
                \/ /\ v.ticket # NoTicket /\ v.derived # key /\ q.known # "none" /\ d.derived = key
                   /\ \/ d.active = 0 /\ d.shown = <<>>
                      \/ d.active = q.run /\ q.run # 0 /\ d.shown = <<>> /\ d.offset = 0
                      \/ d.active = 0 /\ d.shown = v.shown /\ q.status = "passed" /\ q.run # 0 /\ q.known = "ok"
<1> DEFINE q == l[v.ticket]
           key == DerivedKey(v.ticket, l)
           w == [v EXCEPT !.derived = key]
<1>0. 0 \in Offsets /\ <<>> \in Seq(Pieces)
  BY OffsetsCounted, EmptySeq
<1>1. CASE v.ticket = NoTicket
  BY <1>1 DEF Derive, ViewTypes
<1>2. CASE v.ticket # NoTicket /\ (v.derived = key \/ q.known = "none")
  <2>1. [v EXCEPT !.derived = key].derived = key
    BY DEF ViewTypes
  <2>2. QED
    BY <1>2, <2>1 DEF Derive
<1>3. CASE v.ticket # NoTicket /\ ~(v.derived = key \/ q.known = "none")
  <2>1. v.ticket \in ConTickets /\ q \in QueryTypes
    BY <1>3 DEF ViewTypes
  <2>2. key \in ConTickets \X SomeRun \X Phases
    BY <2>1 DEF DerivedKey, QueryTypes
  <2>3. w \in ViewTypes /\ w.ticket = v.ticket /\ w.shown = v.shown /\ w.derived = key /\ w.unavailable = v.unavailable
    BY <2>2 DEF ViewTypes
  <2>4. v.derived # key /\ q.known # "none"
    BY <1>3
  <2>5. Derive(v, l) = IF q.known = "error" THEN Emptied(w)
                       ELSE IF q.status = "running" THEN [Emptied(w) EXCEPT !.active = q.run]
                       ELSE IF RunOver(q.status) THEN [w EXCEPT !.active = 0, !.offset = 0]
                       ELSE Emptied(w)
    BY <1>3, <2>3, <2>4 DEF Derive
  <2> HIDE DEF w, key
  <2> DEFINE e == Emptied(w)
  <2>6. e \in ViewTypes /\ e.ticket = w.ticket /\ e.active = 0 /\ e.shown = <<>> /\ e.offset = 0 /\ e.derived = w.derived
        /\ e.unavailable = w.unavailable
    BY <1>0, <2>3 DEF Emptied, ViewTypes, SomeRun, NoRun
  <2> HIDE DEF e
  <2>7. q.status \in {"running", "passed"} => q.run # 0
    BY <2>1 DEF QueryTypes
  <2>8. CASE Derive(v, l) = e
    BY <1>3, <2>3, <2>4, <2>6, <2>8 DEF key
  <2>9. CASE q.status = "running" /\ Derive(v, l) = [e EXCEPT !.active = q.run]
    <3>1. /\ Derive(v, l) \in ViewTypes /\ Derive(v, l).active = q.run /\ Derive(v, l).shown = <<>>
          /\ Derive(v, l).offset = 0 /\ Derive(v, l).derived = w.derived /\ Derive(v, l).ticket = w.ticket
          /\ Derive(v, l).unavailable = w.unavailable
      BY <2>1, <2>6, <2>9 DEF ViewTypes, QueryTypes
    <3>2. QED
      BY <1>3, <2>3, <2>4, <2>7, <2>9, <3>1 DEF key
  <2>10. CASE q.status = "passed" /\ q.known = "ok" /\ Derive(v, l) = [w EXCEPT !.active = 0, !.offset = 0]
    <3>1. /\ Derive(v, l) \in ViewTypes /\ Derive(v, l).active = 0 /\ Derive(v, l).shown = v.shown
          /\ Derive(v, l).derived = w.derived /\ Derive(v, l).ticket = w.ticket
          /\ Derive(v, l).unavailable = w.unavailable
      BY <1>0, <2>3, <2>10 DEF ViewTypes, SomeRun, NoRun
    <3>2. QED
      BY <1>3, <2>3, <2>4, <2>7, <2>10, <3>1 DEF key
  <2>11. q.known \in {"none", "ok", "error"}
    BY <2>1 DEF QueryTypes
  <2>12. QED
    BY <2>4, <2>5, <2>8, <2>9, <2>10, <2>11 DEF e, RunOver
<1>4. QED
  BY <1>1, <1>2, <1>3

\* The next offset, and the lesser of two.
LEMMA OffsetNext ==
  \A m, n \in Offsets : /\ n < OutputMax => n + 1 \in Offsets
                        /\ m < n => m <= n
                        /\ ~(m < n) => n <= n
<1>1. OutputMax \in Nat
  BY ConsoleAssumption DEF ConsoleAssumption
<1>2. QED
  BY <1>1 DEF Offsets

\* What is no poll has no stretch.
LEMMA NoPollTyped == NoPoll \in PollTypes /\ NoPoll.after <= NoPoll.next
<1>1. 0 \in SomeRun /\ 0 \in Offsets /\ "" \in Phases
  BY OffsetsCounted DEF SomeRun, NoRun, Phases
<1>2. NoPoll \in PollTypes
  BY <1>1 DEF NoPoll, PollTypes
<1>3. NoPoll.after = 0 /\ NoPoll.next = 0
  BY DEF NoPoll
<1>4. QED
  BY <1>2, <1>3

\* A piece of output behind what is shown.
LEMMA ChunkShown ==
  ASSUME NEW s \in Seq(Pieces), NEW r \in ConRuns, NEW from \in Offsets, NEW to \in Offsets
  PROVE  /\ Chunk(r, from, to) \in Seq(Pieces) /\ s \o Chunk(r, from, to) \in Seq(Pieces)
         /\ \A i \in DOMAIN Chunk(r, from, to) : Chunk(r, from, to)[i][1] = r
         /\ from < to => /\ DOMAIN (s \o Chunk(r, from, to)) = 1..(Len(s) + 1)
                         /\ \A i \in 1..Len(s) : (s \o Chunk(r, from, to))[i] = s[i]
                         /\ (s \o Chunk(r, from, to))[Len(s) + 1] = <<r, from, to>>
         /\ ~(from < to) => s \o Chunk(r, from, to) = s
<1>1. CASE from < to
  <2>1. <<r, from, to>> \in Pieces
    BY DEF Pieces
  <2> DEFINE p == <<r, from, to>>
  <2>2. p[1] = r /\ Chunk(r, from, to) = <<p>> /\ p \in Pieces
    BY <1>1, <2>1 DEF Chunk
  <2> HIDE DEF p
  <2>3. <<p>> \in Seq(Pieces) /\ DOMAIN <<p>> = {1} /\ <<p>>[1] = p
    BY <2>2
  <2>4. /\ s \o <<p>> \in Seq(Pieces) /\ DOMAIN (s \o <<p>>) = 1..(Len(s) + 1)
        /\ \A i \in 1..Len(s) : (s \o <<p>>)[i] = s[i]
        /\ (s \o <<p>>)[Len(s) + 1] = p
    BY <2>2, <2>3
  <2>5. QED
    BY <1>1, <2>2, <2>3, <2>4 DEF p
<1>2. CASE ~(from < to)
  <2>1. Chunk(r, from, to) = <<>>
    BY <1>2 DEF Chunk
  <2>2. QED
    BY <1>2, <2>1, EmptySeq, ConcatEmptySeq
<1>3. QED
  BY <1>1, <1>2

\* The effects keep the types of a view and the polls of the run it follows.
LEMMA SettleTyped ==
  ASSUME ConsoleInductive, NEW v \in ViewTypes, NEW l \in [ConTickets -> QueryTypes], Settle(v, l),
         v.active = view.active, v.derived = view.derived,
         \A t \in ConTickets : /\ l[t].run # 0 => TicketOfRun[l[t].run] = t
                               /\ l[t].run = 0 => l[t].status = "",
         \A t \in ConTickets : listed[t].known # "none" => l[t].known # "none",
         UNCHANGED <<served, asked>>, crossed' = crossed, strayed' \in BOOLEAN
  PROVE  ConsoleTyped' /\ PollsForward' /\ TicketsOwn' /\ PollsFollow'
<1> DEFINE d == Derive(v, l)
<1>0. \A t \in ConTickets : l[t].run = 0 => l[t].status = ""
  OBVIOUS
<1>1. d \in ViewTypes /\ d.ticket = v.ticket /\ (d.derived # v.derived => d.derived = <<>> \/ l[d.derived[1]].known # "none")
  <2>1. DerivedKey(v.ticket, l)[1] = v.ticket
    BY DEF DerivedKey
  <2>2. /\ d \in ViewTypes /\ d.ticket = v.ticket
        /\ \/ d.derived = <<>>
           \/ d = v
           \/ d.derived = DerivedKey(v.ticket, l) /\ l[v.ticket].known # "none"
    BY <1>0, DeriveDoes
  <2> HIDE DEF d
  <2>3. QED
    BY <2>1, <2>2
<1>2. view' = d /\ listed' = l /\ polls' = PollsFor(d) /\ reading' = ReadsWhole(d, l)
  BY DEF Settle
<1>3. v.ticket \in ConTickets \cup {NoTicket} /\ v.derived \in {<<>>} \cup (ConTickets \X SomeRun \X Phases)
      /\ d.derived \in {<<>>} \cup (ConTickets \X SomeRun \X Phases) /\ d.ticket \in ConTickets \cup {NoTicket}
  BY <1>1 DEF ViewTypes
<1>4. reading' \subseteq ConRuns
  <2>1. CASE d.derived # <<>> /\ d.derived # view.derived
    <3>1. d.ticket \in ConTickets /\ (l[d.ticket].status = "passed" => l[d.ticket].run \in ConRuns)
      <4>1. d.ticket # NoTicket
        <5>1. \/ v.ticket = NoTicket /\ d.derived = <<>>
              \/ v.ticket # NoTicket
          BY <1>0, DeriveDoes
        <5>2. QED
          BY <1>1, <2>1, <5>1
      <4>2. d.ticket \in ConTickets
        BY <4>1, <1>3
      <4>3. l[d.ticket] \in QueryTypes
        BY <4>2
      <4>4. QED
        BY <4>2, <4>3 DEF QueryTypes, SomeRun, NoRun
    <3>2. QED
      BY <1>2, <3>1 DEF ReadsWhole, RunOver, ConsoleInductive, ConsoleTyped
  <2>2. CASE ~(d.derived # <<>> /\ d.derived # view.derived)
    BY <1>2, <2>2 DEF ReadsWhole, ConsoleInductive, ConsoleTyped
  <2>3. QED
    BY <2>1, <2>2
<1> HIDE DEF d
<1>5. NoPoll \in PollTypes /\ NoPoll.after <= NoPoll.next
  BY NoPollTyped
<1>6. polls' = Abandon \/ (polls' = polls /\ view'.active = view.active)
  BY <1>2 DEF PollsFor
<1>7. polls' \in [PollSlots -> PollTypes] /\ PollsForward'
  BY <1>5, <1>6 DEF Abandon, PollsForward, ConsoleInductive, ConsoleTyped
<1>8. PollsFollow'
  BY <1>6 DEF Abandon, PollsFollow, ConsoleInductive, ConsoleInv
<1>9. TicketsOwn'
  <2>1. view'.derived # <<>> => listed'[view'.derived[1]].known # "none"
    <3>1. CASE d.derived = v.derived /\ d.derived # <<>>
      <4>1. listed[v.derived[1]].known # "none" /\ v.derived[1] \in ConTickets
        BY <1>3, <3>1 DEF ConsoleInductive, TicketsOwn
      <4>2. QED
        BY <1>2, <3>1, <4>1
    <3>2. QED
      BY <1>1, <1>2, <3>1
  <2>2. QED
    BY <1>2, <2>1 DEF ConsoleInductive, TicketsOwn
<1>10. QED
  BY <1>1, <1>2, <1>4, <1>7, <1>8, <1>9 DEF ConsoleInductive, ConsoleTyped

\* The types hold, an answer to a poll is one of the run that is followed, and what is asked for and listed
\* of a ticket is its own.
LEMMA ConsoleTypesStep ==
  ConsoleInductive /\ [ConsoleNext]_conVars => ConsoleTyped' /\ PollsForward' /\ TicketsOwn' /\ PollsFollow'
<1> DEFINE Good == ConsoleTyped /\ PollsForward /\ TicketsOwn /\ PollsFollow
<1> SUFFICES ASSUME ConsoleInductive, [ConsoleNext]_conVars PROVE Good'
  OBVIOUS
<1>0. ConsoleTyped /\ PollsForward /\ TicketsOwn /\ PollsFollow
  BY DEF ConsoleInductive, ConsoleInv
<1>1. listed \in [ConTickets -> QueryTypes] /\ view \in ViewTypes
      /\ \A t \in ConTickets : /\ listed[t].run # 0 => TicketOfRun[listed[t].run] = t
                               /\ listed[t].run = 0 => listed[t].status = ""
  BY <1>0 DEF ConsoleTyped, TicketsOwn
<1>2. ASSUME NEW t \in ConTickets, handleSelectTicket(t) PROVE Good'
  <2> DEFINE v == [view EXCEPT !.ticket = t, !.unavailable = FALSE]
  <2>1. v \in ViewTypes /\ v.active = view.active /\ v.derived = view.derived
    BY <1>1 DEF ViewTypes
  <2>2. Settle(v, listed) /\ UNCHANGED <<served, asked, crossed>> /\ strayed' \in BOOLEAN
    <3>1. (strayed \/ view.derived = DerivedKey(t, listed)) \in BOOLEAN
      OBVIOUS
    <3>2. QED
      BY <1>2, <3>1 DEF handleSelectTicket
  <2> HIDE DEF v
  <2>3. QED
    BY <1>1, <2>1, <2>2, SettleTyped
<1>3. CASE SelectionGone
  <2> DEFINE v == [view EXCEPT !.ticket = NoTicket]
  <2>1. v \in ViewTypes /\ v.active = view.active /\ v.derived = view.derived
    BY <1>1 DEF ViewTypes
  <2>2. Settle(v, listed) /\ UNCHANGED <<served, asked, crossed>> /\ strayed' \in BOOLEAN
    BY <1>0, <1>3 DEF SelectionGone, ConsoleTyped
  <2> HIDE DEF v
  <2>3. QED
    BY <1>1, <2>1, <2>2, SettleTyped
<1>4. CASE RunsAnswered
  <2>1. PICK q \in QueryTypes :
          /\ Settle(view, [listed EXCEPT ![view.ticket] = q])
          /\ q.known # "none"
          /\ q.run # 0 => TicketOfRun[q.run] = view.ticket
          /\ q.run = 0 => q.status = ""
    <3> DEFINE t == view.ticket
               newest == {r \in Made(t) : \A p \in Made(t) : p <= r}
               listing == [known |-> "ok", run |-> 0, status |-> ""]
    <3>0. t \in ConTickets
      BY <1>1, <1>4 DEF RunsAnswered, ViewTypes
    <3>1. ASSUME NEW r \in newest PROVE [listing EXCEPT !.run = r, !.status = served[r].status] \in QueryTypes
                                        /\ r \in ConRuns /\ r # 0 /\ TicketOfRun[r] = t
      BY <1>0, OffsetsCounted DEF Made, QueryTypes, ConsoleTyped, SomeRun
    <3>2. listing \in QueryTypes
      BY DEF QueryTypes, SomeRun, NoRun, Phases
    <3>3. [listed[t] EXCEPT !.known = "error"] \in QueryTypes
      BY <1>1, <3>0 DEF QueryTypes
    <3>4. CASE \E r \in newest : Settle(view, [listed EXCEPT ![t] = [listing EXCEPT !.run = r, !.status = served[r].status]])
      <4>1. PICK r \in newest : Settle(view, [listed EXCEPT ![t] = [listing EXCEPT !.run = r, !.status = served[r].status]])
        BY <3>4
      <4>2. QED
        BY <3>1, <4>1
    <3>5. CASE Settle(view, [listed EXCEPT ![t] = listing])
      BY <3>2, <3>5
    <3>6. CASE Settle(view, [listed EXCEPT ![t].known = "error"])
      <4>1. [listed EXCEPT ![t].known = "error"] = [listed EXCEPT ![t] = [listed[t] EXCEPT !.known = "error"]]
        BY <1>1, <3>0
      <4>2. listed[t] \in QueryTypes
        BY <1>1, <3>0
      <4>3. /\ [listed[t] EXCEPT !.known = "error"].known = "error"
            /\ [listed[t] EXCEPT !.known = "error"].run = listed[t].run
            /\ [listed[t] EXCEPT !.known = "error"].status = listed[t].status
        BY <4>2 DEF QueryTypes
      <4>4. /\ listed[t].run # 0 => TicketOfRun[listed[t].run] = t
            /\ listed[t].run = 0 => listed[t].status = ""
        BY <1>1, <3>0
      <4> DEFINE q == [listed[t] EXCEPT !.known = "error"]
      <4>5. Settle(view, [listed EXCEPT ![t] = q]) /\ q \in QueryTypes
        BY <3>3, <3>6, <4>1
      <4>6. q.known # "none" /\ (q.run # 0 => TicketOfRun[q.run] = t) /\ (q.run = 0 => q.status = "")
        BY <4>3, <4>4
      <4> HIDE DEF q
      <4>7. QED
        BY <4>5, <4>6
    <3>7. QED
      BY <1>4, <3>4, <3>5, <3>6 DEF RunsAnswered
  <2> DEFINE l == [listed EXCEPT ![view.ticket] = q]
  <2>2. /\ l \in [ConTickets -> QueryTypes]
        /\ \A t \in ConTickets : /\ l[t].run # 0 => TicketOfRun[l[t].run] = t
                                 /\ l[t].run = 0 => l[t].status = ""
        /\ \A t \in ConTickets : listed[t].known # "none" => l[t].known # "none"
    BY <1>1, <2>1
  <2>3. Settle(view, l) /\ UNCHANGED <<served, asked, crossed>> /\ strayed' \in BOOLEAN
    BY <1>0, <1>4, <2>1 DEF RunsAnswered, ConsoleTyped
  <2> HIDE DEF l
  <2>4. QED
    BY <1>1, <2>2, <2>3, SettleTyped
<1>5. CASE RowReplaced
  BY <1>0, <1>5, NoPollTyped DEF RowReplaced, Abandon, ConsoleTyped, PollsForward, TicketsOwn, PollsFollow
<1>6. ASSUME NEW a \in AskSlots, NEW how \in Hows, AskRun(a, how) PROVE Good'
  <2>1. UNCHANGED <<served, listed, polls, reading, crossed, strayed>> /\ view.ticket \in ConTickets \cup {NoTicket}
    BY <1>1, <1>6 DEF AskRun, ViewTypes
  <2>2. [ticket |-> view.ticket, run |-> 0, how |-> how] \in [ticket : ConTickets \cup {NoTicket}, run : SomeRun, how : Hows]
    BY <2>1 DEF SomeRun, NoRun
  <2>3. asked' = [asked EXCEPT ![a] = [ticket |-> view.ticket, run |-> 0, how |-> how]]
    BY <1>6 DEF AskRun
  <2>4. view' \in ViewTypes /\ view'.active = view.active /\ view'.derived = view.derived
    <3>1. CASE view' = view
      BY <1>1, <3>1
    <3>2. CASE view' = [view EXCEPT !.shown = <<>>, !.offset = 0, !.unavailable = FALSE]
      BY <1>1, <3>2, OffsetsCounted, EmptySeq DEF ViewTypes
    <3>3. QED
      BY <1>6, <3>1, <3>2 DEF AskRun
  <2>5. asked' \in [AskSlots -> [ticket : ConTickets \cup {NoTicket}, run : SomeRun, how : Hows]]
        /\ \A b \in AskSlots : asked'[b].run # 0 => asked'[b] = asked[b]
    BY <1>0, <2>2, <2>3 DEF ConsoleTyped
  <2>6. QED
    BY <1>0, <2>1, <2>4, <2>5 DEF ConsoleTyped, PollsForward, TicketsOwn, PollsFollow
<1>7. ASSUME NEW a \in AskSlots, AskAnswered(a) PROVE Good'
  <2> DEFINE q == asked[a]
             v == [view EXCEPT !.active = q.run, !.offset = IF q.how = "rework" THEN 0 ELSE view.offset]
  <2>1. q \in [ticket : ConTickets \cup {NoTicket}, run : SomeRun, how : Hows]
    BY <1>0 DEF ConsoleTyped
  <2>2. v \in ViewTypes /\ v.derived = view.derived
    BY <1>1, <2>1, OffsetsCounted DEF ViewTypes
  <2>3. view' = v /\ polls' = PollsFor(v) /\ asked' = [asked EXCEPT ![a] = NoAsk]
        /\ UNCHANGED <<served, listed, reading>>
    BY <1>7 DEF AskAnswered
  <2>4. crossed' \in BOOLEAN /\ strayed' \in BOOLEAN
    BY <1>7 DEF AskAnswered
  <2> HIDE DEF v
  <2>5. polls' = Abandon \/ (polls' = polls /\ v.active = view.active)
    BY <2>3 DEF PollsFor
  <2>6. NoAsk \in [ticket : ConTickets \cup {NoTicket}, run : SomeRun, how : Hows] /\ NoAsk.run = 0
    BY DEF NoAsk, SomeRun, NoRun, Hows
  <2>7. polls' \in [PollSlots -> PollTypes] /\ PollsForward' /\ PollsFollow'
    BY <1>0, <2>3, <2>5, NoPollTyped DEF Abandon, ConsoleTyped, PollsForward, PollsFollow
  <2>8. /\ asked' \in [AskSlots -> [ticket : ConTickets \cup {NoTicket}, run : SomeRun, how : Hows]]
        /\ \A b \in AskSlots : asked'[b].run # 0 => asked'[b] = asked[b]
    BY <1>0, <2>3, <2>6 DEF ConsoleTyped
  <2>9. QED
    BY <1>0, <2>2, <2>3, <2>4, <2>7, <2>8 DEF ConsoleTyped, TicketsOwn
<1>8. ASSUME NEW a \in AskSlots, AskRefused(a) PROVE Good'
  <2>1. asked' = [asked EXCEPT ![a] = NoAsk] /\ UNCHANGED <<served, listed, view, polls, reading, historyVars>>
    BY <1>8 DEF AskRefused
  <2>2. NoAsk \in [ticket : ConTickets \cup {NoTicket}, run : SomeRun, how : Hows] /\ NoAsk.run = 0
    BY DEF NoAsk, SomeRun, NoRun, Hows
  <2>3. /\ asked' \in [AskSlots -> [ticket : ConTickets \cup {NoTicket}, run : SomeRun, how : Hows]]
        /\ \A b \in AskSlots : asked'[b].run # 0 => asked'[b] = asked[b]
    BY <1>0, <2>1, <2>2 DEF ConsoleTyped
  <2>4. QED
    BY <1>0, <2>1, <2>3 DEF ConsoleTyped, PollsForward, TicketsOwn, PollsFollow, historyVars
<1>9. ASSUME NEW s \in PollSlots, poll(s) PROVE Good'
  <2> DEFINE r == view.active
             from == IF view.offset < served[r].output THEN view.offset ELSE served[r].output
             p == [run |-> r, after |-> from, next |-> served[r].output, status |-> served[r].status]
  <2>1. r \in ConRuns
    BY <1>1, <1>9 DEF poll, ViewTypes, SomeRun, NoRun
  <2>2. view.offset \in Offsets /\ served[r].output \in Offsets /\ served[r].status \in Phases
    BY <1>0, <1>1, <2>1 DEF ConsoleTyped, ViewTypes
  <2>3. from \in Offsets /\ from <= served[r].output
    BY <2>2, OffsetNext, Zenon
  <2> HIDE DEF from
  <2>4. p \in PollTypes /\ p.after <= p.next /\ p.run = view.active /\ p.run # 0
    BY <2>1, <2>2, <2>3, OffsetsCounted DEF PollTypes, SomeRun
  <2>5. polls' = [polls EXCEPT ![s] = p] /\ UNCHANGED <<served, listed, view, reading, asked, historyVars>>
    BY <1>9 DEF poll, from
  <2> HIDE DEF p
  <2>6. polls' \in [PollSlots -> PollTypes] /\ PollsForward' /\ PollsFollow'
    BY <1>0, <2>4, <2>5 DEF ConsoleTyped, PollsForward, PollsFollow
  <2>7. QED
    BY <1>0, <2>5, <2>6 DEF ConsoleTyped, TicketsOwn, historyVars
<1>10. ASSUME NEW s \in PollSlots, NEW v \in ViewTypes, v.derived = view.derived, view' = v,
              polls' = [PollsFor(v) EXCEPT ![s] = NoPoll], UNCHANGED <<served, listed, reading, asked, strayed>>,
              crossed' \in BOOLEAN
       PROVE  Good'
  <2>1. PollsFor(v) = Abandon \/ (PollsFor(v) = polls /\ v.active = view.active)
    BY DEF PollsFor
  <2>2. polls' \in [PollSlots -> PollTypes] /\ PollsForward' /\ PollsFollow'
    BY <1>0, <1>10, <2>1, NoPollTyped DEF Abandon, ConsoleTyped, PollsForward, PollsFollow
  <2>3. QED
    BY <1>0, <1>10, <2>2 DEF ConsoleTyped, TicketsOwn
<1>11. ASSUME NEW s \in PollSlots, PollLands(s) PROVE Good'
  <2> DEFINE p == polls[s]
             active == IF p.status = "running" THEN view.active ELSE 0
             v == [view EXCEPT !.shown = view.shown \o Chunk(p.run, p.after, p.next), !.offset = p.next, !.active = active]
  <2>1. p \in PollTypes /\ p.run = view.active /\ p # NoPoll
    BY <1>0, <1>11 DEF ConsoleTyped, PollsFollow, PollLands
  <2>2. view.shown \o Chunk(p.run, p.after, p.next) \in Seq(Pieces)
    <3>1. view.shown \in Seq(Pieces)
      BY <1>1 DEF ViewTypes
    <3>2. CASE p.run \in ConRuns
      <4>1. p.after \in Offsets /\ p.next \in Offsets
        BY <2>1 DEF PollTypes
      <4>2. QED
        BY <3>1, <3>2, <4>1, ChunkShown
    <3>3. CASE p.run = 0
      BY <2>1, <3>3, <1>0 DEF PollsForward
    <3>4. QED
      BY <2>1, <3>2, <3>3 DEF PollTypes, SomeRun, NoRun
  <2>3. active \in SomeRun /\ p.next \in Offsets
    BY <1>1, <2>1 DEF ViewTypes, PollTypes, SomeRun, NoRun
  <2>4. view' = v /\ polls' = [PollsFor(v) EXCEPT ![s] = NoPoll] /\ UNCHANGED <<served, listed, reading, asked, strayed>>
        /\ crossed' \in BOOLEAN
    BY <1>11 DEF PollLands
  <2> HIDE DEF active
  <2>5. v \in ViewTypes /\ v.derived = view.derived
    BY <1>1, <2>2, <2>3 DEF ViewTypes
  <2> HIDE DEF v
  <2>6. QED
    BY <1>10, <2>4, <2>5
<1>12. ASSUME NEW s \in PollSlots, PollFails(s) PROVE Good'
  <2> DEFINE v == [view EXCEPT !.active = 0]
  <2>1. v \in ViewTypes /\ v.derived = view.derived
    BY <1>1 DEF ViewTypes, SomeRun, NoRun
  <2>2. view' = v /\ polls' = [PollsFor(v) EXCEPT ![s] = NoPoll] /\ UNCHANGED <<served, listed, reading, asked, strayed>>
        /\ crossed' \in BOOLEAN
    BY <1>0, <1>12 DEF PollFails, ConsoleTyped
  <2> HIDE DEF v
  <2>3. QED
    BY <1>10, <2>1, <2>2
<1>13. ASSUME NEW r \in ConRuns, MakeRun(r) PROVE Good'
  <2>1. UNCHANGED <<listed, view, polls, reading, historyVars>> /\ served' = [served EXCEPT ![r].status = "running"]
    BY <1>13 DEF MakeRun
  <2>2. served' \in [ConRuns -> [status : Phases, output : Offsets]]
    BY <1>0, <2>1 DEF ConsoleTyped, Phases
  <2>3. /\ asked' \in [AskSlots -> [ticket : ConTickets \cup {NoTicket}, run : SomeRun, how : Hows]]
        /\ \A a \in AskSlots : asked'[a].run # 0 => TicketOfRun[asked'[a].run] = asked'[a].ticket
    <3>1. CASE UNCHANGED asked
      BY <1>0, <3>1 DEF ConsoleTyped, TicketsOwn
    <3>2. ASSUME NEW a \in AskSlots, asked[a].ticket = TicketOfRun[r], asked' = [asked EXCEPT ![a].run = r]
          PROVE  /\ asked' \in [AskSlots -> [ticket : ConTickets \cup {NoTicket}, run : SomeRun, how : Hows]]
                 /\ \A b \in AskSlots : asked'[b].run # 0 => TicketOfRun[asked'[b].run] = asked'[b].ticket
      BY <1>0, <3>2 DEF ConsoleTyped, TicketsOwn, SomeRun
    <3>3. QED
      BY <1>13, <3>1, <3>2 DEF MakeRun
  <2>4. QED
    BY <1>0, <2>1, <2>2, <2>3 DEF ConsoleTyped, PollsForward, TicketsOwn, PollsFollow, historyVars
<1>14. ASSUME NEW r \in ConRuns, Outputs(r) PROVE Good'
  <2>1. UNCHANGED <<listed, view, polls, reading, asked, historyVars>>
    BY <1>14 DEF Outputs
  <2>2. served' \in [ConRuns -> [status : Phases, output : Offsets]]
    <3>1. CASE served[r].output < OutputMax /\ served' = [served EXCEPT ![r].output = @ + 1]
      <4>1. served[r].output + 1 \in Offsets
        BY <1>0, <3>1, OffsetNext DEF ConsoleTyped
      <4>2. served' = [served EXCEPT ![r].output = served[r].output + 1]
        BY <3>1
      <4>3. QED
        BY <1>0, <4>1, <4>2 DEF ConsoleTyped
    <3>2. CASE served' = [served EXCEPT ![r].status = "passed"]
      BY <1>0, <3>2 DEF ConsoleTyped, Phases
    <3>3. QED
      BY <1>14, <3>1, <3>2 DEF Outputs
  <2>3. QED
    BY <1>0, <2>1, <2>2 DEF ConsoleTyped, PollsForward, TicketsOwn, PollsFollow, historyVars
<1>15. ASSUME NEW r \in ConRuns, WholeRead(r) PROVE Good'
  <2>1. UNCHANGED <<served, listed, polls, asked, crossed>> /\ reading' \subseteq ConRuns /\ strayed' \in BOOLEAN
    BY <1>0, <1>15 DEF WholeRead, ConsoleTyped
  <2>2. view' \in ViewTypes /\ view'.derived = view.derived /\ view'.active = view.active
    <3>1. CASE view' = [view EXCEPT !.shown = Chunk(r, 0, served[r].output)]
      <4>1. served[r].output \in Offsets
        BY <1>0 DEF ConsoleTyped
      <4>2. Chunk(r, 0, served[r].output) \in Seq(Pieces)
        BY <4>1, OffsetsCounted, EmptySeq, ChunkShown
      <4>3. QED
        BY <1>1, <3>1, <4>2 DEF ViewTypes
    <3>2. CASE view' = [view EXCEPT !.unavailable = TRUE]
      BY <1>1, <3>2 DEF ViewTypes
    <3>3. QED
      BY <1>15, <3>1, <3>2 DEF WholeRead
  <2>3. QED
    BY <1>0, <2>1, <2>2 DEF ConsoleTyped, PollsForward, TicketsOwn, PollsFollow
<1>16. CASE UNCHANGED conVars
  BY <1>0, <1>16 DEF conVars, ConsoleTyped, PollsForward, TicketsOwn, PollsFollow
<1>17. QED
  BY <1>2, <1>3, <1>4, <1>5, <1>6, <1>7, <1>8, <1>9, <1>11, <1>12, <1>13, <1>14, <1>15, <1>16 DEF ConsoleNext

\* The output read whole is the run's.
LEMMA WholeChunk ==
  ASSUME NEW r \in ConRuns, NEW to \in Offsets
  PROVE  \A i \in DOMAIN Chunk(r, 0, to) : Chunk(r, 0, to)[i][1] = r
<1> DEFINE p == <<r, 0, to>>
<1>1. p[1] = r
  OBVIOUS
<1>2. Chunk(r, 0, to) \in {<<>>, <<p>>}
  BY DEF Chunk
<1> HIDE DEF p
<1>3. QED
  BY <1>1, <1>2

\* What is behind the pieces shown so far is the run's.
LEMMA ChunkAdds ==
  ASSUME NEW s \in Seq(Pieces), NEW r \in ConRuns, NEW from \in Offsets, NEW to \in Offsets
  PROVE  \A i \in DOMAIN (s \o Chunk(r, from, to)) :
           (i \in DOMAIN s /\ (s \o Chunk(r, from, to))[i] = s[i]) \/ (s \o Chunk(r, from, to))[i][1] = r
<1> DEFINE s2 == s \o Chunk(r, from, to)
<1>1. CASE ~(from < to)
  BY <1>1, ChunkShown
<1>2. CASE from < to
  <2>1. DOMAIN s2 = 1..(Len(s) + 1) /\ (\A i \in 1..Len(s) : s2[i] = s[i]) /\ s2[Len(s) + 1] = <<r, from, to>>
    BY <1>2, ChunkShown
  <2>2. Len(s) \in Nat /\ DOMAIN s = 1..Len(s)
    BY LenProperties
  <2> HIDE DEF s2
  <2>3. \A i \in DOMAIN s2 : i \in 1..Len(s) \/ i = Len(s) + 1
    BY <2>1, <2>2
  <2>4. QED
    BY <2>1, <2>2, <2>3 DEF s2
<1>3. QED
  BY <1>1, <1>2

\* The types the invariant states follow.
LEMMA ConsoleTypes == ConsoleTyped => ConsoleTypeOK
  BY DEF ConsoleTyped, ConsoleTypeOK, ViewTypes, PollTypes, SomeRun, NoRun, Offsets

\* A piece that begins where the output shown of a run ends prolongs it.
LEMMA WholeGrows ==
  ASSUME NEW s \in Seq(Pieces), NEW r \in ConRuns, NEW from \in Offsets, NEW to \in Offsets, from <= to,
         Whole(s, r, from)
  PROVE  Whole(s \o Chunk(r, from, to), r, to)
<1>1. CASE ~(from < to)
  <2>1. from = to
    BY <1>1, OffsetsCounted
  <2>2. QED
    BY <1>1, <2>1, ChunkShown
<1>2. CASE from < to
  <2> DEFINE s2 == s \o Chunk(r, from, to)
             n == Len(s) + 1
             mine == {i \in DOMAIN s : s[i][1] = r}
             mine2 == {i \in DOMAIN s2 : s2[i][1] = r}
  <2>1. DOMAIN s2 = 1..n /\ (\A i \in 1..Len(s) : s2[i] = s[i]) /\ s2[n] = <<r, from, to>>
    BY <1>2, ChunkShown
  <2>2. Len(s) \in Nat /\ DOMAIN s = 1..Len(s)
    BY LenProperties
  <2> HIDE DEF s2
  <2>3. s2[n][1] = r /\ s2[n][2] = from /\ s2[n][3] = to
    BY <2>1
  <2>4. mine2 = mine \cup {n} /\ mine \subseteq 1..Len(s)
    BY <2>1, <2>2, <2>3
  <2>5. /\ mine = {} => from = 0
        /\ \A i \in mine :
             /\ (\A j \in mine : i <= j) => s[i][2] = 0
             /\ (\A j \in mine : j <= i) => s[i][3] = from
             /\ \A j \in mine : i < j /\ ~(\E k \in mine : i < k /\ k < j) => s[i][3] = s[j][2]
    BY DEF Whole
  <2>6. \A i \in mine : s2[i] = s[i] /\ i \in Nat /\ i < n
    BY <2>1, <2>2, <2>4
  <2> HIDE DEF mine, mine2
  <2>7. n \in Nat
    BY <2>2
  <2> HIDE DEF n
  <2>8. ASSUME NEW i \in mine2, \A j \in mine2 : i <= j PROVE s2[i][2] = 0
    <3>1. CASE i \in mine
      BY <2>4, <2>5, <2>6, <2>8, <3>1
    <3>2. CASE i = n
      <4>1. mine = {}
        BY <2>4, <2>6, <2>7, <2>8, <3>2
      <4>2. QED
        BY <2>3, <2>5, <3>2, <4>1
    <3>3. QED
      BY <2>4, <3>1, <3>2
  <2>9. ASSUME NEW i \in mine2, \A j \in mine2 : j <= i PROVE s2[i][3] = to
    <3>1. i = n
      BY <2>4, <2>6, <2>7, <2>9
    <3>2. QED
      BY <2>3, <3>1
  <2>10. ASSUME NEW i \in mine2, NEW j \in mine2, i < j, ~(\E k \in mine2 : i < k /\ k < j) PROVE s2[i][3] = s2[j][2]
    <3>1. i \in mine
      BY <2>4, <2>6, <2>7, <2>10
    <3>2. CASE j \in mine
      BY <2>4, <2>5, <2>6, <2>10, <3>1, <3>2
    <3>3. CASE j = n
      <4>1. \A k \in mine : k <= i
        BY <2>4, <2>6, <2>10, <3>1, <3>3
      <4>2. QED
        BY <2>3, <2>5, <2>6, <3>1, <3>3, <4>1
    <3>4. QED
      BY <2>4, <3>2, <3>3
  <2>11. mine2 # {}
    BY <2>4
  <2>12. QED
    BY <2>8, <2>9, <2>10, <2>11 DEF Whole, mine2, s2
<1>3. QED
  BY <1>1, <1>2

\* The output shown is whole through selections, answers, failures and polls.
LEMMA WholeStep == ConsoleInductive /\ [ConsoleNext]_conVars => OutputWhole'
<1> SUFFICES ASSUME ConsoleInductive, [ConsoleNext]_conVars PROVE OutputWhole'
  OBVIOUS
<1>0. ConsoleTyped /\ TicketsOwn /\ PollsFollow /\ OutputWhole
  BY DEF ConsoleInductive, ConsoleInv
<1>1. listed \in [ConTickets -> QueryTypes] /\ view \in ViewTypes /\ \A t \in ConTickets : listed[t].run = 0 => listed[t].status = ""
  BY <1>0 DEF ConsoleTyped, TicketsOwn
<1>2. \A r, o : Whole(<<>>, r, 0)
  BY DEF Whole
<1>3. ASSUME view'.active = view.active, view'.shown = view.shown, view'.offset = view.offset,
             crossed \/ strayed => crossed' \/ strayed'
      PROVE  OutputWhole'
  BY <1>0, <1>3 DEF OutputWhole
<1>4. ASSUME NEW v \in ViewTypes, NEW l \in [ConTickets -> QueryTypes], Settle(v, l),
             \A t \in ConTickets : l[t].run = 0 => l[t].status = "",
             v.active = view.active, v.shown = view.shown, v.offset = view.offset,
             crossed \/ strayed => crossed' \/ strayed'
      PROVE  OutputWhole'
  <2> DEFINE d == Derive(v, l)
  <2>1. \/ d.active = v.active /\ d.shown = v.shown /\ d.offset = v.offset
        \/ d.active = 0
        \/ d.shown = <<>> /\ d.offset = 0
    BY <1>4, DeriveDoes
  <2>2. view' = d
    BY <1>4 DEF Settle
  <2> HIDE DEF d
  <2>3. QED
    BY <1>2, <1>3, <1>4, <2>1, <2>2 DEF OutputWhole
<1>5. ASSUME NEW t \in ConTickets, handleSelectTicket(t) PROVE OutputWhole'
  <2> DEFINE v == [view EXCEPT !.ticket = t, !.unavailable = FALSE]
  <2>1. v \in ViewTypes /\ v.active = view.active /\ v.shown = view.shown /\ v.offset = view.offset
    BY <1>1 DEF ViewTypes
  <2>2. Settle(v, listed) /\ (crossed \/ strayed => crossed' \/ strayed')
    BY <1>5 DEF handleSelectTicket
  <2> HIDE DEF v
  <2>3. QED
    BY <1>1, <1>4, <2>1, <2>2
<1>6. CASE SelectionGone
  <2> DEFINE v == [view EXCEPT !.ticket = NoTicket]
  <2>1. v \in ViewTypes /\ v.active = view.active /\ v.shown = view.shown /\ v.offset = view.offset
    BY <1>1 DEF ViewTypes
  <2>2. Settle(v, listed) /\ (crossed \/ strayed => crossed' \/ strayed')
    BY <1>6 DEF SelectionGone
  <2> HIDE DEF v
  <2>3. QED
    BY <1>1, <1>4, <2>1, <2>2
<1>7. CASE RunsAnswered
  <2>1. PICK l : Settle(view, l)
    BY <1>7 DEF RunsAnswered
  <2>2. listed' = l /\ UNCHANGED <<crossed, strayed>>
    BY <1>7, <2>1 DEF RunsAnswered, Settle
  <2>3. l \in [ConTickets -> QueryTypes] /\ \A t \in ConTickets : l[t].run = 0 => l[t].status = ""
    BY <2>2, ConsoleTypesStep DEF ConsoleTyped, TicketsOwn
  <2>4. QED
    BY <1>1, <1>4, <2>1, <2>2, <2>3
<1>8. ASSUME NEW a \in AskSlots, NEW how \in Hows, AskRun(a, how) PROVE OutputWhole'
  <2>1. UNCHANGED <<crossed, strayed>>
    BY <1>8 DEF AskRun
  <2>2. CASE view' = view
    BY <1>3, <2>1, <2>2
  <2>3. CASE view' = [view EXCEPT !.shown = <<>>, !.offset = 0, !.unavailable = FALSE]
    BY <1>1, <1>2, <2>3 DEF OutputWhole, ViewTypes
  <2>4. QED
    BY <1>8, <2>2, <2>3 DEF AskRun
<1>9. ASSUME NEW a \in AskSlots, AskAnswered(a) PROVE OutputWhole'
  <2> DEFINE q == asked[a]
             v == [view EXCEPT !.active = q.run, !.offset = IF q.how = "rework" THEN 0 ELSE view.offset]
  <2>1. view' = v /\ (crossed \/ strayed => crossed' \/ strayed')
        /\ (~crossed' => (view.active = q.run /\ view.offset = v.offset) \/ (v.offset = 0 /\ ~Shows(view, q.run)))
    BY <1>9 DEF AskAnswered, Follows
  <2>2. v.active = q.run /\ v.shown = view.shown
    BY <1>1 DEF ViewTypes
  <2> HIDE DEF v
  <2>3. CASE crossed'
    BY <2>3 DEF OutputWhole
  <2>4. CASE view.active = q.run /\ view.offset = v.offset
    BY <1>3, <2>1, <2>2, <2>4
  <2>5. CASE v.offset = 0 /\ ~Shows(view, q.run)
    <3>1. Whole(v.shown, v.active, v.offset)
      BY <2>2, <2>5 DEF Whole, Shows
    <3>2. QED
      BY <2>1, <3>1 DEF OutputWhole
  <2>6. QED
    BY <2>1, <2>3, <2>4, <2>5
<1>10. ASSUME NEW s \in PollSlots, PollLands(s) PROVE OutputWhole'
  <2> DEFINE p == polls[s]
             active == IF p.status = "running" THEN view.active ELSE 0
             v == [view EXCEPT !.shown = view.shown \o Chunk(p.run, p.after, p.next), !.offset = p.next, !.active = active]
  <2>1. p \in PollTypes /\ p.run = view.active /\ p.after <= p.next
    BY <1>0, <1>10 DEF ConsoleTyped, PollsFollow, PollLands, ConsoleInductive, PollsForward
  <2>2. view' = v /\ (crossed' = (crossed \/ p.after # view.offset)) /\ strayed' = strayed
    BY <1>10 DEF PollLands
  <2>3. view'.active = active /\ view'.offset = p.next /\ view'.shown = view.shown \o Chunk(p.run, p.after, p.next)
    BY <1>1, <2>2 DEF ViewTypes
  <2>4. p.after \in Offsets /\ p.next \in Offsets /\ view.shown \in Seq(Pieces) /\ p.run \in SomeRun
    BY <1>1, <2>1 DEF PollTypes, ViewTypes
  <2> HIDE DEF v, p
  <2>5. CASE view.active # 0 /\ active = view.active /\ ~crossed' /\ ~strayed'
    <3>1. p.run \in ConRuns /\ p.after = view.offset
      BY <2>1, <2>2, <2>4, <2>5 DEF SomeRun, NoRun
    <3>2. Whole(view.shown, p.run, p.after)
      BY <1>0, <2>1, <2>2, <2>5, <3>1 DEF OutputWhole
    <3>3. Whole(view'.shown, p.run, p.next)
      BY <2>1, <2>3, <2>4, <3>1, <3>2, WholeGrows
    <3>4. QED
      BY <2>1, <2>3, <2>5, <3>3 DEF OutputWhole
  <2>6. CASE ~(view.active # 0 /\ active = view.active /\ ~crossed' /\ ~strayed')
    BY <2>3, <2>6 DEF OutputWhole
  <2>7. QED
    BY <2>5, <2>6
<1>11. ASSUME NEW s \in PollSlots, PollFails(s) PROVE OutputWhole'
  BY <1>1, <1>11 DEF PollFails, OutputWhole, ViewTypes
<1>12. ASSUME NEW r \in ConRuns, WholeRead(r) PROVE OutputWhole'
  <2>1. view'.active = view.active /\ (strayed' \/ view.active = 0)
    BY <1>1, <1>12 DEF WholeRead, ViewTypes
  <2>2. QED
    BY <2>1 DEF OutputWhole
<1>13. CASE UNCHANGED <<view, crossed, strayed>>
  BY <1>3, <1>13
<1>14. QED
  BY <1>5, <1>6, <1>7, <1>8, <1>9, <1>10, <1>11, <1>12, <1>13
     DEF ConsoleNext, RowReplaced, AskRefused, poll, MakeRun, Outputs, historyVars, conVars

\* What is followed and shown of a ticket is its own once its runs are known.
LEMMA OwnStep == ConsoleInductive /\ [ConsoleNext]_conVars => OwnOutput'
<1> SUFFICES ASSUME ConsoleInductive, [ConsoleNext]_conVars PROVE OwnOutput'
  OBVIOUS
<1>0. ConsoleTyped /\ TicketsOwn /\ PollsFollow /\ OwnOutput
  BY DEF ConsoleInductive, ConsoleInv
<1>1. listed \in [ConTickets -> QueryTypes] /\ view \in ViewTypes
      /\ \A t \in ConTickets : /\ listed[t].run # 0 => TicketOfRun[listed[t].run] = t
                               /\ listed[t].run = 0 => listed[t].status = ""
  BY <1>0 DEF ConsoleTyped, TicketsOwn
<1>2. ASSUME view'.ticket = view.ticket, view'.derived = view.derived,
             view'.active # 0 => view'.active = view.active, view'.shown \in {<<>>, view.shown},
             view'.unavailable = view.unavailable \/ view'.shown = <<>>, reading' = reading, strayed => strayed'
      PROVE  OwnOutput'
  <2>1. CASE view'.shown = <<>>
    BY <1>0, <1>2, <2>1 DEF OwnOutput
  <2>2. CASE view'.shown = view.shown
    BY <1>0, <1>2, <2>2 DEF OwnOutput
  <2>3. QED
    BY <1>2, <2>1, <2>2
\* What is derived anew, and what is not.
<1>3. ASSUME NEW v \in ViewTypes, NEW l \in [ConTickets -> QueryTypes], Settle(v, l),
             \A t \in ConTickets : /\ l[t].run # 0 => TicketOfRun[l[t].run] = t
                                   /\ l[t].run = 0 => l[t].status = "",
             v.active = view.active, v.shown = view.shown, v.derived = view.derived,
             strayed => strayed',
             v.ticket # NoTicket /\ (v.derived = DerivedKey(v.ticket, l) \/ l[v.ticket].known = "none") /\ ~strayed' =>
               (v.derived = <<>> \/ v.derived[1] # v.ticket \/ v = view)
      PROVE  OwnOutput'
  <2> DEFINE d == Derive(v, l)
             q == l[v.ticket]
             key == DerivedKey(v.ticket, l)
  <2>0. \A t \in ConTickets : l[t].run = 0 => l[t].status = ""
    BY <1>3
  <2>1. d.ticket = v.ticket /\ d.unavailable = v.unavailable
        /\ \/ v.ticket = NoTicket /\ d.active = v.active /\ d.shown = v.shown /\ d.offset = v.offset /\ d.derived = <<>>
           \/ v.ticket # NoTicket /\ (v.derived = key \/ q.known = "none") /\ d = v
           \/ /\ v.ticket # NoTicket /\ v.derived # key /\ q.known # "none" /\ d.derived = key
              /\ \/ d.active = 0 /\ d.shown = <<>>
                 \/ d.active = q.run /\ q.run # 0 /\ d.shown = <<>> /\ d.offset = 0
                 \/ d.active = 0 /\ d.shown = v.shown /\ q.status = "passed" /\ q.run # 0 /\ q.known = "ok"
    BY <2>0, DeriveDoes
  <2>2. view' = d /\ reading' = ReadsWhole(d, l)
    BY <1>3 DEF Settle
  <2> HIDE DEF d
  <2>3. CASE v.ticket = NoTicket
    BY <2>1, <2>2, <2>3 DEF OwnOutput
  <2>4. CASE v.ticket # NoTicket /\ (v.derived = key \/ q.known = "none")
    <3>1. d = v /\ reading' = reading
      BY <1>3, <2>1, <2>2, <2>4 DEF ReadsWhole
    <3>2. CASE strayed' \/ v.derived = <<>> \/ v.derived[1] # v.ticket
      BY <2>2, <3>1, <3>2 DEF OwnOutput
    <3>3. CASE v = view /\ ~strayed'
      BY <1>0, <1>3, <2>2, <3>1, <3>3 DEF OwnOutput
    <3>4. QED
      BY <1>3, <2>4, <3>2, <3>3
  <2>5. CASE v.ticket # NoTicket /\ ~(v.derived = key \/ q.known = "none")
    <3>0. v.ticket \in ConTickets
      BY <2>5 DEF ViewTypes
    <3>1. q.run # 0 => TicketOfRun[q.run] = v.ticket
      BY <1>3, <3>0
    <3>2. CASE d.active = 0 /\ d.shown = <<>>
      BY <2>2, <3>2 DEF OwnOutput
    <3>3. CASE d.active = q.run /\ q.run # 0 /\ d.shown = <<>>
      BY <2>1, <2>2, <3>1, <3>3 DEF OwnOutput
    <3>4. CASE d.active = 0 /\ d.shown = v.shown /\ q.status = "passed" /\ q.run # 0 /\ q.known = "ok"
      <4>0. key # <<>>
        BY DEF DerivedKey
      <4>1. d.derived = key /\ d.derived # view.derived /\ d.derived # <<>>
        <5> HIDE DEF key, q
        <5>1. QED
          BY <1>3, <2>1, <2>5, <4>0
      <4>2. q.run \in reading'
        BY <2>1, <2>2, <3>4, <4>1 DEF ReadsWhole, RunOver
      <4>3. QED
        BY <2>1, <2>2, <3>1, <3>4, <4>2 DEF OwnOutput
    <3>5. QED
      BY <2>1, <2>5, <3>2, <3>3, <3>4
  <2>6. QED
    BY <2>3, <2>4, <2>5
<1>4. view.derived # <<>> => view.derived[1] \in ConTickets /\ listed[view.derived[1]].known # "none"
  BY <1>0, <1>1 DEF TicketsOwn, ViewTypes
<1>5. ASSUME NEW t \in ConTickets, handleSelectTicket(t) PROVE OwnOutput'
  <2> DEFINE v == [view EXCEPT !.ticket = t, !.unavailable = FALSE]
  <2>1. v \in ViewTypes /\ v.active = view.active /\ v.shown = view.shown /\ v.derived = view.derived /\ v.ticket = t
    BY <1>1 DEF ViewTypes
  <2>2. Settle(v, listed) /\ strayed' = (strayed \/ view.derived = DerivedKey(t, listed))
    BY <1>5 DEF handleSelectTicket
  <2> HIDE DEF v
  <2>3. QED
    BY <1>1, <1>3, <1>4, <2>1, <2>2
<1>6. CASE SelectionGone
  <2> DEFINE v == [view EXCEPT !.ticket = NoTicket]
  <2>1. v \in ViewTypes /\ v.active = view.active /\ v.shown = view.shown /\ v.derived = view.derived /\ v.ticket = NoTicket
    BY <1>1 DEF ViewTypes
  <2>2. Settle(v, listed) /\ strayed' = strayed
    BY <1>6 DEF SelectionGone
  <2> HIDE DEF v
  <2>3. QED
    BY <1>1, <1>3, <2>1, <2>2
<1>7. CASE RunsAnswered
  <2>1. PICK l : Settle(view, l)
    BY <1>7 DEF RunsAnswered
  <2>2. listed' = l /\ UNCHANGED strayed
    BY <1>7, <2>1 DEF RunsAnswered, Settle
  <2>3. l \in [ConTickets -> QueryTypes] /\ \A t \in ConTickets : /\ l[t].run # 0 => TicketOfRun[l[t].run] = t
                                                                  /\ l[t].run = 0 => l[t].status = ""
    BY <2>2, ConsoleTypesStep DEF ConsoleTyped, TicketsOwn
  <2>4. QED
    BY <1>1, <1>3, <2>1, <2>2, <2>3
<1>8. ASSUME NEW a \in AskSlots, NEW how \in Hows, AskRun(a, how) PROVE OwnOutput'
  <2>1. UNCHANGED <<reading, strayed>>
    BY <1>8 DEF AskRun
  <2>2. CASE view' = view
    BY <1>2, <2>1, <2>2
  <2>3. CASE view' = [view EXCEPT !.shown = <<>>, !.offset = 0, !.unavailable = FALSE]
    BY <1>1, <1>2, <2>1, <2>3 DEF ViewTypes
  <2>4. QED
    BY <1>8, <2>2, <2>3 DEF AskRun
<1>9. ASSUME NEW a \in AskSlots, AskAnswered(a) PROVE OwnOutput'
  <2> DEFINE q == asked[a]
             v == [view EXCEPT !.active = q.run, !.offset = IF q.how = "rework" THEN 0 ELSE view.offset]
  <2>1. view' = v /\ strayed' = (strayed \/ q.ticket # view.ticket) /\ q.run # 0 /\ reading' = reading
    BY <1>9 DEF AskAnswered
  <2>2. v.active = q.run /\ v.shown = view.shown /\ v.ticket = view.ticket /\ v.derived = view.derived
        /\ v.unavailable = view.unavailable
    BY <1>1 DEF ViewTypes
  <2>3. TicketOfRun[q.run] = q.ticket
    BY <1>0, <2>1 DEF TicketsOwn
  <2> HIDE DEF v, q
  <2>4. QED
    BY <1>0, <2>1, <2>2, <2>3 DEF OwnOutput
<1>10. ASSUME NEW s \in PollSlots, PollLands(s) PROVE OwnOutput'
  <2> DEFINE p == polls[s]
             active == IF p.status = "running" THEN view.active ELSE 0
             v == [view EXCEPT !.shown = view.shown \o Chunk(p.run, p.after, p.next), !.offset = p.next, !.active = active]
  <2>1. p \in PollTypes /\ p.run = view.active /\ p.run # 0
    BY <1>0, <1>10 DEF ConsoleTyped, PollsFollow, PollLands, ConsoleInductive, PollsForward
  <2>2. view' = v /\ strayed' = strayed /\ reading' = reading
    BY <1>10 DEF PollLands
  <2>3. view'.active = active /\ view'.shown = view.shown \o Chunk(p.run, p.after, p.next)
        /\ view'.ticket = view.ticket /\ view'.derived = view.derived /\ view'.unavailable = view.unavailable
    BY <1>1, <2>2 DEF ViewTypes
  <2>4. p.after \in Offsets /\ p.next \in Offsets /\ view.shown \in Seq(Pieces) /\ p.run \in ConRuns
    BY <1>1, <2>1 DEF PollTypes, ViewTypes, SomeRun, NoRun
  <2> HIDE DEF v, p
  <2>5. \A i \in DOMAIN view'.shown : (i \in DOMAIN view.shown /\ view'.shown[i] = view.shown[i]) \/ view'.shown[i][1] = p.run
    <3> DEFINE more == Chunk(p.run, p.after, p.next)
    <3>1. \A i \in DOMAIN (view.shown \o more) :
            (i \in DOMAIN view.shown /\ (view.shown \o more)[i] = view.shown[i]) \/ (view.shown \o more)[i][1] = p.run
      BY <2>4, ChunkAdds
    <3>2. view'.shown = view.shown \o more
      BY <2>3
    <3> HIDE DEF more
    <3>3. QED
      BY <3>1, <3>2
  <2>6. QED
    BY <1>0, <2>1, <2>2, <2>3, <2>5 DEF OwnOutput
<1>11. ASSUME NEW s \in PollSlots, PollFails(s) PROVE OwnOutput'
  BY <1>1, <1>2, <1>11 DEF PollFails, ViewTypes
<1>12. ASSUME NEW r \in ConRuns, WholeRead(r) PROVE OwnOutput'
  <2>1. strayed' = (strayed \/ TicketOfRun[r] # view.ticket \/ view.active # 0) /\ served[r].output \in Offsets
    BY <1>0, <1>12 DEF WholeRead, ConsoleTyped
  <2>2. CASE view' = [view EXCEPT !.shown = Chunk(r, 0, served[r].output)]
    <3>1. \A i \in DOMAIN Chunk(r, 0, served[r].output) : Chunk(r, 0, served[r].output)[i][1] = r
      BY <2>1, WholeChunk
    <3>2. view'.ticket = view.ticket /\ view'.active = view.active /\ view'.shown = Chunk(r, 0, served[r].output)
      BY <1>1, <2>2 DEF ViewTypes
    <3>3. QED
      BY <2>1, <3>1, <3>2 DEF OwnOutput
  <2>3. CASE view' = [view EXCEPT !.unavailable = TRUE]
    BY <1>1, <2>1, <2>3 DEF OwnOutput, ViewTypes
  <2>4. QED
    BY <1>12, <2>2, <2>3 DEF WholeRead
<1>13. CASE UNCHANGED <<view, reading, strayed>>
  BY <1>0, <1>13 DEF OwnOutput
<1>14. QED
  BY <1>5, <1>6, <1>7, <1>8, <1>9, <1>10, <1>11, <1>12, <1>13
     DEF ConsoleNext, RowReplaced, AskRefused, poll, MakeRun, Outputs, historyVars, conVars

\* Nothing is selected, asked for or shown.
LEMMA ConsoleStarts == ConsoleInit => ConsoleInductive
<1> SUFFICES ASSUME ConsoleInit PROVE ConsoleInductive
  OBVIOUS
<1>1. 0 \in SomeRun /\ 0 \in Offsets /\ "" \in Phases /\ "unmade" \in Phases /\ <<>> \in Seq(Pieces)
  BY OffsetsCounted, EmptySeq DEF SomeRun, NoRun, Phases
<1>2. served \in [ConRuns -> [status : Phases, output : Offsets]] /\ listed \in [ConTickets -> QueryTypes]
  BY <1>1 DEF ConsoleInit, NotMade, QueryTypes
<1>3. view \in ViewTypes /\ view.active = 0 /\ view.derived = <<>> /\ view.ticket = NoTicket
  BY <1>1 DEF ConsoleInit, ViewTypes
<1>4. asked \in [AskSlots -> [ticket : ConTickets \cup {NoTicket}, run : SomeRun, how : Hows]] /\ \A a \in AskSlots : asked[a].run = 0
  BY <1>1 DEF ConsoleInit, NoAsk, Hows
<1>5. polls \in [PollSlots -> PollTypes] /\ PollsForward /\ PollsFollow
  BY NoPollTyped DEF ConsoleInit, PollsForward, PollsFollow
<1>6. reading = {} /\ crossed = FALSE /\ strayed = FALSE
  BY DEF ConsoleInit
<1>7. ConsoleTyped
  BY <1>2, <1>3, <1>4, <1>5, <1>6 DEF ConsoleTyped
<1>8. TicketsOwn
  BY <1>3, <1>4 DEF ConsoleInit, TicketsOwn
<1>9. QED
  BY <1>3, <1>5, <1>7, <1>8, ConsoleTypes DEF ConsoleInductive, ConsoleInv, OutputWhole, OwnOutput

\* The view of a ticket's run holds: the output shown of the run followed is whole and in order, and what is
\* shown of a ticket is its own, unless answers overlapped or strayed; for every number of tickets, runs, polls
\* and selections (useForgeRun.ts).
THEOREM ConsoleHolds == ConsoleSpec => []ConsoleInv
<1>1. ConsoleInit => ConsoleInductive
  BY ConsoleStarts
<1>2. ConsoleInductive /\ [ConsoleNext]_conVars => ConsoleInductive'
  <2>1. ConsoleTyped' => ConsoleTypeOK'
    BY DEF ConsoleTyped, ConsoleTypeOK, ViewTypes, PollTypes, SomeRun, NoRun, Offsets
  <2>2. QED
    BY <2>1, ConsoleTypesStep, WholeStep, OwnStep DEF ConsoleInductive, ConsoleInv
<1>3. ConsoleInductive => ConsoleInv
  BY DEF ConsoleInductive
<1>4. QED
  BY <1>1, <1>2, <1>3, PTL DEF ConsoleSpec

-----------------------------------------------------------------------------
\* What a reviewer goes by holds: the checks of a change (Gate) and the output shown of a run (Console).
THEOREM ReviewHolds == GateSpec /\ ConsoleSpec => []ReviewInv
<1>1. GateInv /\ ConsoleInv => ReviewInv
  BY DEF ReviewInv
<1>2. QED
  BY <1>1, GateHolds, ConsoleHolds, PTL

\* The run in which the four components take turns is one of those that the theorems are about.
THEOREM ReviewTogether == ReviewSpec => [](ReviewInv /\ SandInv) /\ WorkKept /\ ReconcilesLanded
<1>1. ReviewInit => Init /\ GateInit /\ SandInit /\ ConsoleInit
  BY DEF ReviewInit
<1>2. [ReviewNext]_<<acting, vars, gateVars, sandVars, conVars>> =>
        [Next]_vars /\ [GateNext]_gateVars /\ [SandNext]_sandVars /\ [ConsoleNext]_conVars
  BY DEF ReviewNext
<1>3. ReviewSpec => Spec /\ GateSpec /\ SandSpec /\ ConsoleSpec
  BY <1>1, <1>2, PTL DEF ReviewSpec, Spec, GateSpec, SandSpec, ConsoleSpec
<1>4. QED
  BY <1>3, ReviewHolds, SandHolds, UnmergedWorkIsKept, BootClosesLanded, PTL
=============================================================================

-------------------------- MODULE ForgeRunsProofs --------------------------
(* What ForgeRuns guarantees for every set of tickets and requests: who runs on   *)
(* a ticket, and then settling, checks, adopted agents, workers and their edits.  *)
EXTENDS ForgeRuns, FiniteSetTheorems, TLAPS

USE ForgeAssumption

Control == StartsAlone /\ NotYetRun /\ OpenRowKnown /\ TicketFree /\ OneOpenRow

\* A step that leaves the rows, the server and the requests alone and at most
\* settles runs; nearly every step is one.
Quiet ==
  /\ UNCHANGED <<row, scan, up>>
  /\ \A r \in Runs :
       /\ rs'[r] = rs[r] \/ (rs[r] = "running" /\ rs'[r] \in Settled)
       /\ pc'[r] \in Asking \cup {"idle", "refused"} => pc'[r] = pc[r]

\* The invariant holds when the server first comes up.
LEMMA RunInvInit == Init => RunInv
BY DEF Init, RunInv, TypeOK, StartsAlone, NotYetRun, OpenRowKnown, TicketFree,
       OneOpenRow, Statuses, Stages, Settled, Resumable, Modes, Asking, Awaiting,
       Pipeline, Over, Live, Gone, FateKnown

\* Every step keeps the types.
LEMMA TypeNext == ASSUME TypeOK, FateKnown, [Next]_vars PROVE TypeOK'
<1> USE DEF TypeOK, Statuses, Stages, Settled, Resumable, Modes, Asking, Awaiting,
            Pipeline, Over, Live, Gone,
            memory, database, disk, server,
            Settle, SetStatus, Bounce, Commit, Kill, Dead, Spawn, Goto
<1>1. ASSUME NEW r \in Runs, Request(r) PROVE TypeOK'
  BY <1>1 DEF Request, ResumeModes, ReworkModes
<1>2. ASSUME NEW r \in Runs, CheckBusy(r) PROVE TypeOK'
  BY <1>2 DEF CheckBusy
<1>3. ASSUME NEW r \in Runs, CheckCap(r) PROVE TypeOK'
  BY <1>3 DEF CheckCap
<1>4. ASSUME NEW r \in Runs, ReadTicket(r) PROVE TypeOK'
  BY <1>4 DEF ReadTicket
<1>5. ASSUME NEW r \in Runs, Register(r) PROVE TypeOK'
  BY <1>5 DEF Register
<1>6. ASSUME NEW r \in Runs, AfterPlan(r) PROVE TypeOK'
  BY <1>6 DEF AfterPlan
<1>7. ASSUME NEW r \in Runs, Claim(r) PROVE TypeOK'
  BY <1>7 DEF Claim
<1>8. ASSUME NEW r \in Runs, Prep(r) PROVE TypeOK'
  BY <1>8 DEF Prep
<1>9. ASSUME NEW r \in Runs, AfterWork(r) PROVE TypeOK'
  BY <1>9 DEF AfterWork
<1>10. ASSUME NEW r \in Runs, Save(r) PROVE TypeOK'
  BY <1>10 DEF Save
<1>11. ASSUME NEW r \in Runs, BounceAndSettle(r) PROVE TypeOK'
  BY <1>11 DEF BounceAndSettle, FateKnown
<1>12. ASSUME NEW r \in Runs, Report(r) PROVE TypeOK'
  BY <1>12 DEF Report
<1>13. ASSUME NEW r \in Runs, EnterReview(r) PROVE TypeOK'
  BY <1>13 DEF EnterReview
<1>14. ASSUME NEW r \in Runs, Gate(r) PROVE TypeOK'
  BY <1>14 DEF Gate
<1>15. ASSUME NEW r \in Runs, AfterReview(r) PROVE TypeOK'
  BY <1>15 DEF AfterReview
<1>16. ASSUME NEW r \in Runs, ChecksDone(r) PROVE TypeOK'
  BY <1>16 DEF ChecksDone
<1>17. ASSUME NEW r \in Runs, AfterChecks(r) PROVE TypeOK'
  BY <1>17 DEF AfterChecks
<1>18. ASSUME NEW r \in Runs, Verdict(r) PROVE TypeOK'
  BY <1>18 DEF Verdict
<1>19. ASSUME NEW r \in Runs, StopRun(r) PROVE TypeOK'
  BY <1>19 DEF StopRun
<1>20. ASSUME NEW r \in Runs, Stall(r) PROVE TypeOK'
  BY <1>20 DEF Stall
<1>21. ASSUME NEW r \in Runs, SweepSave(r) PROVE TypeOK'
  BY <1>21 DEF SweepSave
<1>22. ASSUME NEW r \in Runs, SweepForce(r) PROVE TypeOK'
  BY <1>22 DEF SweepForce
<1>23. ASSUME NEW r \in Runs, PersistSpawn(r) PROVE TypeOK'
  BY <1>23 DEF PersistSpawn
<1>24. ASSUME NEW r \in Runs, AgentExit(r) PROVE TypeOK'
  BY <1>24 DEF AgentExit
<1>25. ASSUME NEW r \in Runs, AgentEdit(r) PROVE TypeOK'
  BY <1>25 DEF AgentEdit
<1>26. ASSUME NEW r \in Runs, ReusePid(r) PROVE TypeOK'
  BY <1>26 DEF ReusePid
<1>27. ASSUME NEW r \in Runs, TailEnd(r) PROVE TypeOK'
  BY <1>27 DEF TailEnd
<1>28. ASSUME NEW r \in Runs, Begin(r) PROVE TypeOK'
  BY <1>28 DEF Begin
<1>29. ASSUME NEW r \in Runs, PersistSettle(r) PROVE TypeOK'
  BY <1>29 DEF PersistSettle
<1>30. ASSUME NEW r \in Runs, ScanRow(r) PROVE TypeOK'
  BY <1>30 DEF ScanRow
<1>31. ASSUME NEW t \in Tickets, Patch(t) PROVE TypeOK'
  BY <1>31 DEF Patch
<1>32. CASE Crash
  <2>0. UNCHANGED <<database, disk>> /\ crashes' = crashes + 1 /\ crashes < MaxCrashes
        /\ up' = FALSE /\ stopped' = {} /\ stalled' = {} /\ sweeping' = {}
        /\ checks' = {} /\ scan' = {}
    BY <1>32 DEF Crash
  <2>1. crashes' \in 0..MaxCrashes
    BY <2>0
  <2>2. /\ rs' = [r \in Runs |-> "none"]
        /\ mode' = [r \in Runs |-> "fresh"]
        /\ stage' = [r \in Runs |-> "plan"]
        /\ fate' = [r \in Runs |-> "none"]
        /\ pc' = [r \in Runs |-> IF pc[r] \in Over THEN pc[r] ELSE "lost"]
    BY <1>32 DEF Crash
  <2>3. agent' \in [Runs -> Live \cup Gone \cup {"none", "reused"}]
    <3>1. PICK S \in SUBSET {r \in Runs : agent[r] \in Live} :
            agent' = [r \in Runs |-> IF r \in S THEN Dead(agent[r]) ELSE agent[r]]
      BY <1>32 DEF Crash
    <3>2. QED
      BY <3>1
  <2>4. pc' \in [Runs -> Asking \cup Pipeline \cup Over]
    BY <2>2
  <2>5. QED
    BY <2>0, <2>1, <2>2, <2>3, <2>4
<1>33. CASE Restart
  BY <1>33 DEF Restart
<1>34. CASE UNCHANGED vars
  BY <1>34 DEF vars
<1>35. QED
  BY <1>1, <1>2, <1>3, <1>4, <1>5, <1>6, <1>7, <1>8, <1>9, <1>10, <1>11,
     <1>12, <1>13, <1>14, <1>15, <1>16, <1>17, <1>18, <1>19, <1>20, <1>21,
     <1>22, <1>23, <1>24, <1>25, <1>26, <1>27, <1>28, <1>29, <1>30, <1>31,
     <1>32, <1>33, <1>34 DEF Next, Start, Continue

\* A quiet step keeps Control.
LEMMA QuietControl == ASSUME TypeOK, Control, Quiet PROVE Control'
<1> USE DEF Control, Quiet, TypeOK, Settled, Resumable
<1>1. StartsAlone'
  BY DEF StartsAlone, Asking
<1>2. NotYetRun'
  BY DEF NotYetRun
<1>3. OpenRowKnown'
  BY DEF OpenRowKnown
<1>4. TicketFree'
  BY DEF TicketFree, Asking
<1>5. OneOpenRow'
  BY DEF OneOpenRow
<1>6. QED
  BY <1>1, <1>2, <1>3, <1>4, <1>5

\* A failing pipeline always knows how its run ends.
LEMMA FateNext == ASSUME TypeOK, FateKnown, [Next]_vars PROVE FateKnown'
<1> USE DEF FateKnown, TypeOK, memory, database, disk, server,
            Settle, SetStatus, Bounce, Commit, Kill, Spawn, Goto
<1>1. ASSUME NEW r \in Runs, Request(r) PROVE FateKnown'
  BY <1>1 DEF Request
<1>2. ASSUME NEW r \in Runs, CheckBusy(r) PROVE FateKnown'
  BY <1>2 DEF CheckBusy
<1>3. ASSUME NEW r \in Runs, CheckCap(r) PROVE FateKnown'
  BY <1>3 DEF CheckCap
<1>4. ASSUME NEW r \in Runs, ReadTicket(r) PROVE FateKnown'
  BY <1>4 DEF ReadTicket
<1>5. ASSUME NEW r \in Runs, Register(r) PROVE FateKnown'
  BY <1>5 DEF Register
<1>6. ASSUME NEW r \in Runs, AfterPlan(r) PROVE FateKnown'
  BY <1>6 DEF AfterPlan
<1>7. ASSUME NEW r \in Runs, Claim(r) PROVE FateKnown'
  BY <1>7 DEF Claim
<1>8. ASSUME NEW r \in Runs, Prep(r) PROVE FateKnown'
  BY <1>8 DEF Prep
<1>9. ASSUME NEW r \in Runs, AfterWork(r) PROVE FateKnown'
  BY <1>9 DEF AfterWork
<1>10. ASSUME NEW r \in Runs, Save(r) PROVE FateKnown'
  BY <1>10 DEF Save
<1>11. ASSUME NEW r \in Runs, BounceAndSettle(r) PROVE FateKnown'
  BY <1>11 DEF BounceAndSettle
<1>12. ASSUME NEW r \in Runs, Report(r) PROVE FateKnown'
  BY <1>12 DEF Report
<1>13. ASSUME NEW r \in Runs, EnterReview(r) PROVE FateKnown'
  BY <1>13 DEF EnterReview
<1>14. ASSUME NEW r \in Runs, Gate(r) PROVE FateKnown'
  BY <1>14 DEF Gate
<1>15. ASSUME NEW r \in Runs, AfterReview(r) PROVE FateKnown'
  BY <1>15 DEF AfterReview
<1>16. ASSUME NEW r \in Runs, ChecksDone(r) PROVE FateKnown'
  BY <1>16 DEF ChecksDone
<1>17. ASSUME NEW r \in Runs, AfterChecks(r) PROVE FateKnown'
  BY <1>17 DEF AfterChecks
<1>18. ASSUME NEW r \in Runs, Verdict(r) PROVE FateKnown'
  BY <1>18 DEF Verdict
<1>19. ASSUME NEW r \in Runs, StopRun(r) PROVE FateKnown'
  BY <1>19 DEF StopRun
<1>20. ASSUME NEW r \in Runs, Stall(r) PROVE FateKnown'
  BY <1>20 DEF Stall
<1>21. ASSUME NEW r \in Runs, SweepSave(r) PROVE FateKnown'
  BY <1>21 DEF SweepSave
<1>22. ASSUME NEW r \in Runs, SweepForce(r) PROVE FateKnown'
  BY <1>22 DEF SweepForce
<1>23. ASSUME NEW r \in Runs, PersistSpawn(r) PROVE FateKnown'
  BY <1>23 DEF PersistSpawn
<1>24. ASSUME NEW r \in Runs, AgentExit(r) PROVE FateKnown'
  BY <1>24 DEF AgentExit
<1>25. ASSUME NEW r \in Runs, AgentEdit(r) PROVE FateKnown'
  BY <1>25 DEF AgentEdit
<1>26. ASSUME NEW r \in Runs, ReusePid(r) PROVE FateKnown'
  BY <1>26 DEF ReusePid
<1>27. ASSUME NEW r \in Runs, TailEnd(r) PROVE FateKnown'
  BY <1>27 DEF TailEnd
<1>28. ASSUME NEW r \in Runs, Begin(r) PROVE FateKnown'
  BY <1>28 DEF Begin
<1>29. ASSUME NEW r \in Runs, PersistSettle(r) PROVE FateKnown'
  BY <1>29 DEF PersistSettle
<1>30. ASSUME NEW r \in Runs, ScanRow(r) PROVE FateKnown'
  BY <1>30 DEF ScanRow
<1>31. ASSUME NEW t \in Tickets, Patch(t) PROVE FateKnown'
  BY <1>31 DEF Patch
<1>32. CASE Crash
  BY <1>32 DEF Crash, Over
<1>33. CASE Restart
  BY <1>33 DEF Restart
<1>34. CASE UNCHANGED vars
  BY <1>34 DEF vars
<1>35. QED
  BY <1>1, <1>2, <1>3, <1>4, <1>5, <1>6, <1>7, <1>8, <1>9, <1>10, <1>11,
     <1>12, <1>13, <1>14, <1>15, <1>16, <1>17, <1>18, <1>19, <1>20, <1>21,
     <1>22, <1>23, <1>24, <1>25, <1>26, <1>27, <1>28, <1>29, <1>30, <1>31,
     <1>32, <1>33, <1>34 DEF Next, Start, Continue

\* The steps of a pipeline, of the sweeps, of the database and of the agents are
\* quiet.
LEMMA QuietStep ==
  ASSUME TypeOK, FateKnown, NEW r \in Runs,
         \/ Continue(r) \/ ChecksDone(r) \/ StopRun(r) \/ Stall(r) \/ SweepSave(r)
         \/ SweepForce(r) \/ PersistSpawn(r) \/ AgentExit(r) \/ AgentEdit(r)
         \/ ReusePid(r)
  PROVE  Quiet
<1> USE DEF Quiet, TypeOK, FateKnown, memory, database, disk, server, Settle,
            SetStatus, Bounce, Goto, Settled, Resumable, Asking
<1>1. CASE AfterPlan(r)
  BY <1>1 DEF AfterPlan
<1>2. CASE Claim(r)
  BY <1>2 DEF Claim
<1>3. CASE Prep(r)
  BY <1>3 DEF Prep
<1>4. CASE AfterWork(r)
  BY <1>4 DEF AfterWork
<1>5. CASE Save(r)
  BY <1>5 DEF Save
<1>6. CASE BounceAndSettle(r)
  BY <1>6 DEF BounceAndSettle
<1>7. CASE Report(r)
  BY <1>7 DEF Report
<1>8. CASE EnterReview(r)
  BY <1>8 DEF EnterReview
<1>9. CASE Gate(r)
  BY <1>9 DEF Gate
<1>10. CASE AfterReview(r)
  BY <1>10 DEF AfterReview
<1>11. CASE ChecksDone(r)
  BY <1>11 DEF ChecksDone
<1>12. CASE AfterChecks(r)
  BY <1>12 DEF AfterChecks
<1>13. CASE Verdict(r)
  BY <1>13 DEF Verdict
<1>14. CASE StopRun(r)
  BY <1>14 DEF StopRun
<1>15. CASE Stall(r)
  BY <1>15 DEF Stall
<1>16. CASE SweepSave(r)
  BY <1>16 DEF SweepSave
<1>17. CASE SweepForce(r)
  BY <1>17 DEF SweepForce
<1>18. CASE PersistSpawn(r)
  BY <1>18 DEF PersistSpawn
<1>19. CASE AgentExit(r)
  BY <1>19 DEF AgentExit
<1>20. CASE AgentEdit(r)
  BY <1>20 DEF AgentEdit
<1>21. CASE ReusePid(r)
  BY <1>21 DEF ReusePid
<1>22. CASE TailEnd(r)
  BY <1>22 DEF TailEnd
<1>23. CASE Begin(r)
  BY <1>23 DEF Begin
<1>24. QED
  BY <1>1, <1>2, <1>3, <1>4, <1>5, <1>6, <1>7, <1>8, <1>9, <1>10, <1>11,
     <1>12, <1>13, <1>14, <1>15, <1>16, <1>17, <1>18, <1>19, <1>20, <1>21,
     <1>22, <1>23 DEF Continue

\* The other steps: asking for a run, the settle write, crash and boot.
LEMMA ControlNext == ASSUME TypeOK, FateKnown, Control, [Next]_vars,
                            "overlap" \notin Hazards
                     PROVE  Control'
<1> USE DEF Control, StartsAlone, NotYetRun, OpenRowKnown, TicketFree, OneOpenRow,
            TypeOK, memory, database, disk, server, Goto, Asking
<1>1. ASSUME NEW r \in Runs, Request(r) PROVE Control'
  BY <1>1 DEF Request
<1>2. ASSUME NEW r \in Runs, CheckBusy(r) PROVE Control'
  BY <1>2 DEF CheckBusy, ActiveRuns
<1>3. ASSUME NEW r \in Runs, CheckCap(r) PROVE Control'
  BY <1>3 DEF CheckCap
<1>4. ASSUME NEW r \in Runs, ReadTicket(r) PROVE Control'
  BY <1>4 DEF ReadTicket, Unwritten
<1>5. ASSUME NEW r \in Runs, Register(r) PROVE Control'
  BY <1>5 DEF Register
<1>6. ASSUME NEW r \in Runs, PersistSettle(r) PROVE Control'
  BY <1>6 DEF PersistSettle, Unwritten, Settled, Resumable
<1>7. ASSUME NEW r \in Runs, ScanRow(r) PROVE Control'
  BY <1>7 DEF ScanRow
<1>8. ASSUME NEW t \in Tickets, Patch(t) PROVE Control'
  BY <1>8 DEF Patch
<1>9. CASE Crash
  BY <1>9 DEF Crash, Over
<1>10. CASE Restart
  BY <1>10 DEF Restart
<1>11. CASE UNCHANGED vars
  BY <1>11 DEF vars
<1>12. ASSUME NEW r \in Runs,
              \/ Continue(r) \/ ChecksDone(r) \/ StopRun(r) \/ Stall(r) \/ SweepSave(r)
              \/ SweepForce(r) \/ PersistSpawn(r) \/ AgentExit(r) \/ AgentEdit(r)
              \/ ReusePid(r)
       PROVE  Control'
  BY <1>12, QuietStep, QuietControl
<1>13. QED
  BY <1>1, <1>2, <1>3, <1>4, <1>5, <1>6, <1>7, <1>8, <1>9, <1>10, <1>11, <1>12
     DEF Next, Start

\* The types hold in every state, whatever the adversities.
THEOREM TypeCorrect == Spec => []TypeOK
<1>1. Init => TypeOK /\ FateKnown
  BY RunInvInit DEF RunInv
<1>2. TypeOK /\ FateKnown /\ [Next]_vars => (TypeOK /\ FateKnown)'
  BY TypeNext, FateNext
<1>3. QED
  BY <1>1, <1>2, PTL DEF Spec

\* The invariant behind the uniqueness of runs holds in every state when starts do
\* not overlap each other or the boot scan: through crashes, reattached agents,
\* sweeps and stops, whether or not agents die when they are killed.
THEOREM RunInvariant == ASSUME "overlap" \notin Hazards PROVE Spec => []RunInv
<1>1. Init => RunInv
  BY RunInvInit
<1>2. RunInv /\ [Next]_vars => RunInv'
  BY TypeNext, FateNext, ControlNext DEF RunInv, Control
<1>3. QED
  BY <1>1, <1>2, PTL DEF Spec

\* A ticket never has two runs, under the same condition.
THEOREM RunUniqueness == ASSUME "overlap" \notin Hazards PROVE Spec => []OneRunPerTicket
<1>1. Spec => []RunInv
  BY RunInvariant
<1>2. RunInv => OneRunPerTicket
  BY DEF RunInv, OpenRowKnown, OneOpenRow, OneRunPerTicket
<1>3. QED
  BY <1>1, <1>2, PTL

-----------------------------------------------------------------------------
(* Under every adversity: settling is final, checks are over, survivors are own *)

\* A run has no row and no memory before it registers, no memory while the server
\* is down, and none while the boot scan still has its row to handle.
SettleInv ==
  /\ \A r \in Runs :
       pc[r] \in Asking \cup {"idle", "refused"} => row[r] = "none" /\ rs[r] = "none"
  /\ ~up => scan = {} /\ \A r \in Runs : rs[r] = "none" /\ pc[r] \in Over
  /\ \A r \in scan : row[r] = "running" /\ rs[r] = "none" /\ pc[r] \in {"end", "lost"}

\* Checks outlive the review of their run only when it was stopped or stalled, and
\* only a stalled run settles before its pipeline is over.
ChecksInv ==
  /\ \A r \in checks : pc[r] \in {"review", "checks"} \/ r \in stopped \cup stalled
  /\ \A r \in Runs : rs[r] \in Settled => pc[r] = "end" \/ r \in stalled
  /\ sweeping \subseteq stalled

\* Every step keeps SettleInv.
LEMMA SettleNext == ASSUME TypeOK, SettleInv, [Next]_vars PROVE SettleInv'
<1> USE DEF SettleInv, TypeOK, Asking, Over, memory, database, disk, server, Goto,
            Settle, SetStatus
<1>1. ASSUME NEW r \in Runs, Request(r) \/ CheckBusy(r) \/ CheckCap(r) \/ ReadTicket(r)
      PROVE  SettleInv'
  BY <1>1 DEF Request, CheckBusy, CheckCap, ReadTicket
<1>2. ASSUME NEW r \in Runs, Register(r) PROVE SettleInv'
  BY <1>2 DEF Register
<1>3. ASSUME NEW r \in Runs, Begin(r) \/ AfterPlan(r) \/ Claim(r) \/ Prep(r)
      PROVE  SettleInv'
  BY <1>3 DEF Begin, AfterPlan, Claim, Prep
<1>4. ASSUME NEW r \in Runs,
             AfterWork(r) \/ Save(r) \/ BounceAndSettle(r) \/ Report(r) \/ EnterReview(r)
      PROVE  SettleInv'
  BY <1>4 DEF AfterWork, Save, BounceAndSettle, Report, EnterReview
<1>5. ASSUME NEW r \in Runs,
             Gate(r) \/ AfterReview(r) \/ AfterChecks(r) \/ Verdict(r) \/ TailEnd(r)
      PROVE  SettleInv'
  BY <1>5 DEF Gate, AfterReview, AfterChecks, Verdict, TailEnd
<1>6. ASSUME NEW r \in Runs,
             \/ ChecksDone(r) \/ StopRun(r) \/ Stall(r) \/ SweepSave(r) \/ SweepForce(r)
             \/ PersistSpawn(r) \/ AgentExit(r) \/ AgentEdit(r) \/ ReusePid(r)
      PROVE  SettleInv'
  BY <1>6 DEF ChecksDone, StopRun, Stall, SweepSave, SweepForce, PersistSpawn,
              AgentExit, AgentEdit, ReusePid
<1>7. ASSUME NEW r \in Runs, PersistSettle(r) PROVE SettleInv'
  BY <1>7 DEF PersistSettle, Unwritten, Settled, Resumable
<1>8. ASSUME NEW r \in Runs, ScanRow(r) PROVE SettleInv'
  BY <1>8 DEF ScanRow
<1>9. ASSUME NEW t \in Tickets, Patch(t) PROVE SettleInv'
  BY <1>9 DEF Patch
<1>10. CASE Crash
  BY <1>10 DEF Crash
<1>11. CASE Restart
  BY <1>11 DEF Restart
<1>12. CASE UNCHANGED vars
  BY <1>12 DEF vars
<1>13. QED
  BY <1>1, <1>2, <1>3, <1>4, <1>5, <1>6, <1>7, <1>8, <1>9, <1>10, <1>11, <1>12
     DEF Next, Start, Continue

\* Every step keeps ChecksInv.
LEMMA ChecksNext == ASSUME TypeOK, SettleInv, ChecksInv, [Next]_vars PROVE ChecksInv'
<1> USE DEF ChecksInv, TypeOK, Settled, Resumable, memory, database, disk, server, Goto,
            Settle, SetStatus
<1>1. ASSUME NEW r \in Runs, Request(r) \/ CheckBusy(r) \/ CheckCap(r) \/ ReadTicket(r)
      PROVE  ChecksInv'
  BY <1>1 DEF Request, CheckBusy, CheckCap, ReadTicket
<1>2. ASSUME NEW r \in Runs, Register(r) PROVE ChecksInv'
  BY <1>2 DEF Register
<1>3. ASSUME NEW r \in Runs, Begin(r) \/ AfterPlan(r) \/ Claim(r) \/ Prep(r)
      PROVE  ChecksInv'
  BY <1>3 DEF Begin, AfterPlan, Claim, Prep
<1>4. ASSUME NEW r \in Runs,
             AfterWork(r) \/ Save(r) \/ BounceAndSettle(r) \/ Report(r) \/ EnterReview(r)
      PROVE  ChecksInv'
  BY <1>4 DEF AfterWork, Save, BounceAndSettle, Report, EnterReview
<1>5. ASSUME NEW r \in Runs,
             Gate(r) \/ AfterReview(r) \/ AfterChecks(r) \/ Verdict(r) \/ TailEnd(r)
      PROVE  ChecksInv'
  BY <1>5 DEF Gate, AfterReview, AfterChecks, Verdict, TailEnd
<1>6. ASSUME NEW r \in Runs,
             \/ ChecksDone(r) \/ StopRun(r) \/ Stall(r) \/ SweepSave(r) \/ SweepForce(r)
             \/ PersistSpawn(r) \/ AgentExit(r) \/ AgentEdit(r) \/ ReusePid(r)
             \/ PersistSettle(r)
      PROVE  ChecksInv'
  BY <1>6 DEF ChecksDone, StopRun, Stall, SweepSave, SweepForce, PersistSpawn,
              AgentExit, AgentEdit, ReusePid, PersistSettle
<1>7. ASSUME NEW r \in Runs, ScanRow(r) PROVE ChecksInv'
  BY <1>7 DEF ScanRow, SettleInv
<1>8. ASSUME NEW t \in Tickets, Patch(t) PROVE ChecksInv'
  BY <1>8 DEF Patch
<1>9. CASE Crash
  BY <1>9 DEF Crash
<1>10. CASE Restart
  BY <1>10 DEF Restart
<1>11. CASE UNCHANGED vars
  BY <1>11 DEF vars
<1>12. QED
  BY <1>1, <1>2, <1>3, <1>4, <1>5, <1>6, <1>7, <1>8, <1>9, <1>10, <1>11
     DEF Next, Start, Continue

\* The two invariants, and the types, hold in every state under every adversity.
LEMMA SettlesRight == Spec => [](TypeOK /\ SettleInv /\ ChecksInv)
<1>1. Init => SettleInv /\ ChecksInv
  BY DEF Init, SettleInv, ChecksInv, Settled, Resumable
<1>2. TypeOK /\ TypeOK' /\ SettleInv /\ ChecksInv /\ [Next]_vars => (SettleInv /\ ChecksInv)'
  BY SettleNext, ChecksNext
<1>3. Spec => []TypeOK
  BY TypeCorrect
<1>4. QED
  BY <1>1, <1>2, <1>3, PTL DEF Spec

\* Unless it was stopped or stalled, a run does not settle while its checks still run
\* in the sandbox (reviewStage awaits them on every other path).
THEOREM ChecksAreOver == Spec => []ChecksOver
<1>1. TypeOK /\ ChecksInv => ChecksOver
  BY DEF TypeOK, ChecksInv, ChecksOver
<1>2. QED
  BY <1>1, SettlesRight, PTL

\* What a settled run has settled on stays, whichever of the pipeline, the log tail and
\* the two sweeps comes second (settle returns early).
LEMMA SettledStep ==
  ASSUME TypeOK, SettleInv, [Next]_vars, up', NEW q \in Runs, rs[q] \in Settled
  PROVE  rs'[q] = rs[q]
<1> USE DEF TypeOK, Settled, Resumable, memory, database, disk, server, Settle
<1>1. ASSUME NEW r \in Runs, Start(r) PROVE rs'[q] = rs[q]
  <2>1. CASE Register(r)
    BY <2>1 DEF Register, SettleInv, Asking
  <2>2. CASE Request(r) \/ CheckBusy(r) \/ CheckCap(r) \/ ReadTicket(r)
    BY <2>2 DEF Request, CheckBusy, CheckCap, ReadTicket
  <2>3. QED
    BY <1>1, <2>1, <2>2 DEF Start
<1>2. ASSUME NEW r \in Runs, Begin(r) \/ AfterPlan(r) \/ Claim(r) \/ Prep(r)
      PROVE  rs'[q] = rs[q]
  BY <1>2 DEF Begin, AfterPlan, Claim, Prep
<1>3. ASSUME NEW r \in Runs,
             AfterWork(r) \/ Save(r) \/ BounceAndSettle(r) \/ Report(r)
      PROVE  rs'[q] = rs[q]
  BY <1>3 DEF AfterWork, Save, BounceAndSettle, Report
<1>4. ASSUME NEW r \in Runs, EnterReview(r) PROVE rs'[q] = rs[q]
  BY <1>4 DEF EnterReview
<1>5. ASSUME NEW r \in Runs,
             Gate(r) \/ AfterReview(r) \/ AfterChecks(r) \/ Verdict(r) \/ TailEnd(r)
      PROVE  rs'[q] = rs[q]
  BY <1>5 DEF Gate, AfterReview, AfterChecks, Verdict, TailEnd
<1>6. ASSUME NEW r \in Runs,
             \/ ChecksDone(r) \/ StopRun(r) \/ Stall(r) \/ SweepSave(r) \/ SweepForce(r)
             \/ PersistSpawn(r) \/ AgentExit(r) \/ AgentEdit(r) \/ ReusePid(r)
             \/ PersistSettle(r)
      PROVE  rs'[q] = rs[q]
  BY <1>6 DEF ChecksDone, StopRun, Stall, SweepSave, SweepForce, PersistSpawn,
              AgentExit, AgentEdit, ReusePid, PersistSettle
<1>7. ASSUME NEW r \in Runs, ScanRow(r) PROVE rs'[q] = rs[q]
  BY <1>7 DEF ScanRow, SettleInv
<1>8. ASSUME NEW t \in Tickets, Patch(t) PROVE rs'[q] = rs[q]
  BY <1>8 DEF Patch
<1>9. CASE Restart \/ UNCHANGED vars
  BY <1>9 DEF Restart, vars
<1>10. CASE Crash
  BY <1>10 DEF Crash
<1>11. QED
  BY <1>1, <1>2, <1>3, <1>5, <1>6, <1>7, <1>8, <1>9, <1>10, <1>4 DEF Next, Continue

\* The first settle wins, under every adversity: what a run has settled on stays for as
\* long as the server is up (settle returns early when the run is no longer running).
THEOREM SettlesOnce == Spec => SettledIsFinal
<1>1. TypeOK /\ SettleInv /\ [Next]_vars
        => [up' => \A r \in Runs : rs[r] \in Settled => rs'[r] = rs[r]]_vars
  BY SettledStep
<1>2. QED
  BY <1>1, SettlesRight, PTL DEF Spec, SettledIsFinal

-----------------------------------------------------------------------------
(* Where agents die when they are killed and no pid is lost: workers and edits *)

\* Killed agents die before their run is settled by force, no pid is lost between a spawn and its
\* write, and starts do not overlap.
AgentsDie == Hazards \cap {"overlap", "wedged", "spawnloss"} = {}

\* A pipeline belongs to a run that has not settled; the sweep alone settles a run it
\* has stalled, between agents, while its pipeline goes on.
PipelineInv ==
  /\ \A r \in Runs : pc[r] \in Pipeline =>
       \/ rs[r] = "running"
       \/ r \in stalled /\ pc[r] \in {"gate", "review", "checks", "verdict", "bounce", "tail"}
  /\ \A r \in sweeping : pc[r] \in {"tail", "gate", "review", "checks", "verdict", "bounce", "end"}
  /\ sweeping \subseteq stalled
  /\ \A r \in Runs : row[r] = "running" => latest[TicketOf[r]] = r

\* A live agent belongs to an open row: to the stage its run is in, or, with its pid on
\* record, to a row the boot scan has to handle.
AgentInv ==
  /\ \A r \in Runs : agent[r] \in Live =>
       /\ row[r] = "running" /\ r \notin stopped \cup sweeping
       /\ up /\ r \notin scan => rs[r] = "running" /\ pc[r] \in Awaiting \cup {"tail"}
       /\ ~up \/ r \in scan => r \notin unsaved

\* A worker and nobody else works in the work stage, so its row says so once it names
\* the worker; whoever adopts it knows from the row that there are edits to save.
WorkerInv ==
  \A r \in Runs :
    /\ pc[r] \in Asking \cup {"idle", "refused", "begin", "plan", "claim", "prep"}
         => agent[r] \notin {"worker", "worked"}
    /\ pc[r] = "review" => agent[r] # "worker"
    /\ pc[r] \in {"prep", "work", "save"} => stage[r] = "work"
    /\ pc[r] = "tail" => mode[r] = "reattached"
    /\ mode[r] = "reattached" => pc[r] \in {"tail", "end"} /\ rs[r] # "none"
    /\ agent[r] = "worker" /\ r \notin unsaved => rowStage[r] = "work"
    /\ mode[r] = "reattached" /\ agent[r] \in {"worker", "worked"} => stage[r] = "work"

\* Once a worker is dead its edits are committed before its run goes on, except the
\* edits of an adopted one, which the sweep saves.
SavedInv ==
  \A r \in Runs :
    agent[r] = "worked" /\ latest[TicketOf[r]] = r /\ rs[r] # "none" =>
      /\ mode[r] # "reattached"
           /\ pc[r] \in {"report", "review0", "gate", "review", "checks", "verdict", "bounce", "end"}
         => TicketOf[r] \notin dirty
      /\ mode[r] = "reattached" /\ rs[r] = "failed" /\ r \notin sweeping
         => TicketOf[r] \notin dirty

\* A failed run has bounced its ticket, and only the newest run of a ticket claims it.
BounceInv ==
  \A r \in Runs :
    rs[r] = "failed" /\ r \notin sweeping /\ latest[TicketOf[r]] = r
      => status[TicketOf[r]] # "in_progress"

\* The open rows are never more than the limit; a request that has passed the limit,
\* or has read its ticket, has room for one more.
OpenRows == {r \in Runs : row[r] = "running"}
CapInv ==
  /\ IsFiniteSet(OpenRows) /\ Cardinality(OpenRows) <= MaxActive
  /\ \A r \in Runs :
       /\ pc[r] = "read" => Cardinality(ActiveRuns) < MaxActive
       /\ pc[r] = "register" => Cardinality(OpenRows) < MaxActive

\* Every step keeps PipelineInv where killed agents die.
LEMMA PipelineNext ==
  ASSUME TypeOK, Control, SettleInv, PipelineInv, [Next]_vars, AgentsDie
  PROVE  PipelineInv'
<1> USE DEF PipelineInv, AgentsDie, Pipeline, Awaiting, TypeOK, memory, database, disk,
            server, Goto, Settle, SetStatus, Kill, Dead
<1>1. ASSUME NEW r \in Runs,
             Request(r) \/ CheckBusy(r) \/ CheckCap(r) \/ ReadTicket(r)
      PROVE  PipelineInv'
  BY <1>1 DEF Request, CheckBusy, CheckCap, ReadTicket
<1>2. ASSUME NEW r \in Runs, Register(r) PROVE PipelineInv'
  BY <1>2 DEF Register, Control, TicketFree
<1>3. ASSUME NEW r \in Runs, Begin(r) \/ AfterPlan(r) PROVE PipelineInv'
  BY <1>3 DEF Begin, AfterPlan
<1>4. ASSUME NEW r \in Runs, Claim(r) \/ Prep(r) PROVE PipelineInv'
  BY <1>4 DEF Claim, Prep
<1>5. ASSUME NEW r \in Runs, AfterWork(r) \/ Save(r) PROVE PipelineInv'
  BY <1>5 DEF AfterWork, Save
<1>6. ASSUME NEW r \in Runs, BounceAndSettle(r) \/ Report(r) PROVE PipelineInv'
  BY <1>6 DEF BounceAndSettle, Report
<1>7. ASSUME NEW r \in Runs, EnterReview(r) PROVE PipelineInv'
  BY <1>7 DEF EnterReview
<1>8. ASSUME NEW r \in Runs, Gate(r) \/ AfterReview(r) PROVE PipelineInv'
  BY <1>8 DEF Gate, AfterReview
<1>9. ASSUME NEW r \in Runs, AfterChecks(r) \/ Verdict(r) PROVE PipelineInv'
  BY <1>9 DEF AfterChecks, Verdict
<1>10. ASSUME NEW r \in Runs, ChecksDone(r) \/ StopRun(r) \/ Stall(r) PROVE PipelineInv'
  BY <1>10 DEF ChecksDone, StopRun, Stall
<1>11. ASSUME NEW r \in Runs, SweepSave(r) PROVE PipelineInv'
  BY <1>11 DEF SweepSave
<1>12. ASSUME NEW r \in Runs, SweepForce(r) PROVE PipelineInv'
  BY <1>12 DEF SweepForce
<1>13. ASSUME NEW r \in Runs, PersistSpawn(r) \/ PersistSettle(r) PROVE PipelineInv'
  BY <1>13 DEF PersistSpawn, PersistSettle, Unwritten
<1>14. ASSUME NEW r \in Runs, AgentExit(r) \/ AgentEdit(r) \/ ReusePid(r) PROVE PipelineInv'
  BY <1>14 DEF AgentExit, AgentEdit, ReusePid
<1>15. ASSUME NEW r \in Runs, ScanRow(r) PROVE PipelineInv'
  BY <1>15 DEF ScanRow, OwnAgentAlive
<1>16. ASSUME NEW r \in Runs, TailEnd(r) PROVE PipelineInv'
  BY <1>16 DEF TailEnd
<1>17. CASE Crash
  BY <1>17 DEF Crash, Over
<1>18. CASE Restart
  BY <1>18 DEF Restart
<1>19. CASE UNCHANGED vars
  BY <1>19 DEF vars
<1>20. ASSUME NEW t \in Tickets, Patch(t) PROVE PipelineInv'
  BY <1>20 DEF Patch
<1>21. QED
  BY <1>1, <1>2, <1>3, <1>4, <1>5, <1>6, <1>7, <1>8, <1>9, <1>10, <1>11, <1>12, <1>13,
     <1>14, <1>15, <1>16, <1>17, <1>18, <1>19, <1>20
     DEF Next, Start, Continue

\* Every step keeps AgentInv under the same conditions.
LEMMA AgentNext ==
  ASSUME TypeOK, Control, SettleInv, PipelineInv, AgentInv, [Next]_vars, AgentsDie
  PROVE  AgentInv'
<1> USE DEF AgentInv, AgentsDie, Awaiting, Live, Gone, Spawn, TypeOK, memory, database,
            disk, server, Goto, Settle, SetStatus, Kill, Dead
<1>1. ASSUME NEW r \in Runs,
             Request(r) \/ CheckBusy(r) \/ CheckCap(r) \/ ReadTicket(r)
      PROVE  AgentInv'
  BY <1>1 DEF Request, CheckBusy, CheckCap, ReadTicket
<1>2. ASSUME NEW r \in Runs, Register(r) PROVE AgentInv'
  BY <1>2 DEF Register, Control, NotYetRun, Asking
<1>3. ASSUME NEW r \in Runs, Begin(r) \/ AfterPlan(r) PROVE AgentInv'
  BY <1>3 DEF Begin, AfterPlan, PipelineInv, Control, OpenRowKnown, Pipeline
<1>4. ASSUME NEW r \in Runs, Claim(r) \/ Prep(r) PROVE AgentInv'
  BY <1>4 DEF Claim, Prep, PipelineInv, Control, OpenRowKnown, Pipeline
<1>5. ASSUME NEW r \in Runs, AfterWork(r) \/ Save(r) PROVE AgentInv'
  BY <1>5 DEF AfterWork, Save
<1>6. ASSUME NEW r \in Runs, BounceAndSettle(r) \/ Report(r) PROVE AgentInv'
  BY <1>6 DEF BounceAndSettle, Report
<1>7. ASSUME NEW r \in Runs, EnterReview(r) PROVE AgentInv'
  BY <1>7 DEF EnterReview
<1>8. ASSUME NEW r \in Runs, Gate(r) \/ AfterReview(r) PROVE AgentInv'
  BY <1>8 DEF Gate, AfterReview, PipelineInv, Control, OpenRowKnown, Pipeline
<1>9. ASSUME NEW r \in Runs, AfterChecks(r) \/ Verdict(r) PROVE AgentInv'
  BY <1>9 DEF AfterChecks, Verdict
<1>10. ASSUME NEW r \in Runs, ChecksDone(r) \/ StopRun(r) \/ Stall(r) PROVE AgentInv'
  BY <1>10 DEF ChecksDone, StopRun, Stall, PipelineInv
<1>11. ASSUME NEW r \in Runs, SweepSave(r) PROVE AgentInv'
  BY <1>11 DEF SweepSave, PipelineInv
<1>12. ASSUME NEW r \in Runs, SweepForce(r) PROVE AgentInv'
  BY <1>12 DEF SweepForce
<1>13. ASSUME NEW r \in Runs, PersistSpawn(r) \/ PersistSettle(r) PROVE AgentInv'
  BY <1>13 DEF PersistSpawn, PersistSettle, Unwritten, Settled, Resumable, SettleInv
<1>14. ASSUME NEW r \in Runs, AgentExit(r) \/ AgentEdit(r) \/ ReusePid(r) PROVE AgentInv'
  BY <1>14 DEF AgentExit, AgentEdit, ReusePid
<1>15. ASSUME NEW r \in Runs, ScanRow(r) PROVE AgentInv'
  BY <1>15 DEF ScanRow, OwnAgentAlive, SettleInv
<1>16. ASSUME NEW r \in Runs, TailEnd(r) PROVE AgentInv'
  BY <1>16 DEF TailEnd
<1>17. CASE Crash
  BY <1>17 DEF Crash, Over
<1>18. CASE Restart
  BY <1>18 DEF Restart
<1>19. CASE UNCHANGED vars
  BY <1>19 DEF vars
<1>20. ASSUME NEW t \in Tickets, Patch(t) PROVE AgentInv'
  BY <1>20 DEF Patch
<1>21. QED
  BY <1>1, <1>2, <1>3, <1>4, <1>5, <1>6, <1>7, <1>8, <1>9, <1>10, <1>11, <1>12, <1>13,
     <1>14, <1>15, <1>16, <1>17, <1>18, <1>19, <1>20
     DEF Next, Start, Continue

\* Every step keeps WorkerInv under the same conditions.
LEMMA WorkerNext ==
  ASSUME TypeOK, Control, SettleInv, PipelineInv, AgentInv, WorkerInv, [Next]_vars,
         AgentsDie
  PROVE  WorkerInv'
<1> USE DEF WorkerInv, AgentsDie, Asking, Live, Gone, Spawn, TypeOK, memory, database,
            disk, server, Goto, Settle, SetStatus, Kill, Dead
<1>1. ASSUME NEW r \in Runs,
             Request(r) \/ CheckBusy(r) \/ CheckCap(r) \/ ReadTicket(r)
      PROVE  WorkerInv'
  BY <1>1 DEF Request, CheckBusy, CheckCap, ReadTicket, ResumeModes, ReworkModes, SettleInv
<1>2. ASSUME NEW r \in Runs, Register(r) PROVE WorkerInv'
  BY <1>2 DEF Register
<1>3. ASSUME NEW r \in Runs, Begin(r) \/ AfterPlan(r) PROVE WorkerInv'
  BY <1>3 DEF Begin, AfterPlan, PipelineInv, Pipeline
<1>4. ASSUME NEW r \in Runs, Claim(r) \/ Prep(r) PROVE WorkerInv'
  BY <1>4 DEF Claim, Prep, PipelineInv, Pipeline
<1>5. ASSUME NEW r \in Runs, AfterWork(r) \/ Save(r) PROVE WorkerInv'
  BY <1>5 DEF AfterWork, Save, PipelineInv, Pipeline
<1>6. ASSUME NEW r \in Runs, BounceAndSettle(r) \/ Report(r) PROVE WorkerInv'
  BY <1>6 DEF BounceAndSettle, Report, PipelineInv
<1>7. ASSUME NEW r \in Runs, EnterReview(r) PROVE WorkerInv'
  BY <1>7 DEF EnterReview, PipelineInv
<1>8. ASSUME NEW r \in Runs, Gate(r) \/ AfterReview(r) PROVE WorkerInv'
  BY <1>8 DEF Gate, AfterReview, AgentInv, Awaiting, SettleInv
<1>9. ASSUME NEW r \in Runs, AfterChecks(r) \/ Verdict(r) PROVE WorkerInv'
  BY <1>9 DEF AfterChecks, Verdict
<1>10. ASSUME NEW r \in Runs, ChecksDone(r) \/ StopRun(r) \/ Stall(r) PROVE WorkerInv'
  BY <1>10 DEF ChecksDone, StopRun, Stall
<1>11. ASSUME NEW r \in Runs, SweepSave(r) PROVE WorkerInv'
  BY <1>11 DEF SweepSave
<1>12. ASSUME NEW r \in Runs, SweepForce(r) PROVE WorkerInv'
  BY <1>12 DEF SweepForce
<1>13. ASSUME NEW r \in Runs, PersistSpawn(r) \/ PersistSettle(r) PROVE WorkerInv'
  BY <1>13 DEF PersistSpawn, PersistSettle, Unwritten, SettleInv, AgentInv, Awaiting,
               Settled, Resumable
<1>14. ASSUME NEW r \in Runs, AgentExit(r) \/ AgentEdit(r) \/ ReusePid(r) PROVE WorkerInv'
  BY <1>14 DEF AgentExit, AgentEdit, ReusePid
<1>15. ASSUME NEW r \in Runs, ScanRow(r) PROVE WorkerInv'
  BY <1>15 DEF ScanRow, OwnAgentAlive, SettleInv, AgentInv
<1>16. ASSUME NEW r \in Runs, TailEnd(r) PROVE WorkerInv'
  BY <1>16 DEF TailEnd
<1>17. CASE Crash
  BY <1>17 DEF Crash, Over
<1>18. CASE Restart
  BY <1>18 DEF Restart
<1>19. CASE UNCHANGED vars
  BY <1>19 DEF vars
<1>20. ASSUME NEW t \in Tickets, Patch(t) PROVE WorkerInv'
  BY <1>20 DEF Patch
<1>21. QED
  BY <1>1, <1>2, <1>3, <1>4, <1>5, <1>6, <1>7, <1>8, <1>9, <1>10, <1>11, <1>12, <1>13,
     <1>14, <1>15, <1>16, <1>17, <1>18, <1>19, <1>20
     DEF Next, Start, Continue

\* Every step keeps SavedInv under the same conditions.
LEMMA SavedNext ==
  ASSUME TypeOK, Control, SettleInv, PipelineInv, AgentInv, WorkerInv, SavedInv,
         [Next]_vars, AgentsDie
  PROVE  SavedInv'
<1> USE DEF SavedInv, AgentsDie, Live, Gone, Spawn, Commit, TypeOK, memory, database, disk,
            server, Goto, Settle, SetStatus, Kill, Dead
<1>1. ASSUME NEW r \in Runs,
             Request(r) \/ CheckBusy(r) \/ CheckCap(r) \/ ReadTicket(r)
      PROVE  SavedInv'
  BY <1>1 DEF Request, CheckBusy, CheckCap, ReadTicket, SettleInv, Asking
<1>2. ASSUME NEW r \in Runs, Register(r) PROVE SavedInv'
  BY <1>2 DEF Register, WorkerInv, Asking
<1>3. ASSUME NEW r \in Runs, Begin(r) \/ AfterPlan(r) PROVE SavedInv'
  BY <1>3 DEF Begin, AfterPlan, WorkerInv
<1>4. ASSUME NEW r \in Runs, Claim(r) \/ Prep(r) PROVE SavedInv'
  BY <1>4 DEF Claim, Prep, WorkerInv
<1>5. ASSUME NEW r \in Runs, AfterWork(r) \/ Save(r) PROVE SavedInv'
  BY <1>5 DEF AfterWork, Save
<1>6. ASSUME NEW r \in Runs, BounceAndSettle(r) \/ Report(r) PROVE SavedInv'
  BY <1>6 DEF BounceAndSettle, Report, WorkerInv
<1>7. ASSUME NEW r \in Runs, EnterReview(r) PROVE SavedInv'
  BY <1>7 DEF EnterReview
<1>8. ASSUME NEW r \in Runs, Gate(r) \/ AfterReview(r) PROVE SavedInv'
  BY <1>8 DEF Gate, AfterReview, WorkerInv
<1>9. ASSUME NEW r \in Runs, AfterChecks(r) \/ Verdict(r) PROVE SavedInv'
  BY <1>9 DEF AfterChecks, Verdict
<1>10. ASSUME NEW r \in Runs, ChecksDone(r) \/ StopRun(r) \/ Stall(r) PROVE SavedInv'
  BY <1>10 DEF ChecksDone, StopRun, Stall, AgentInv, Awaiting, WorkerInv, SettleInv
<1>11. ASSUME NEW r \in Runs, SweepSave(r) PROVE SavedInv'
  BY <1>11 DEF SweepSave, WorkerInv, PipelineInv
<1>12. ASSUME NEW r \in Runs, SweepForce(r) PROVE SavedInv'
  BY <1>12 DEF SweepForce
<1>13. ASSUME NEW r \in Runs, PersistSpawn(r) \/ PersistSettle(r) PROVE SavedInv'
  BY <1>13 DEF PersistSpawn, PersistSettle, Unwritten
<1>14. ASSUME NEW r \in Runs, AgentExit(r) \/ AgentEdit(r) \/ ReusePid(r) PROVE SavedInv'
  BY <1>14 DEF AgentExit, AgentEdit, ReusePid, AgentInv, Awaiting, PipelineInv, WorkerInv,
               SettleInv
<1>15. ASSUME NEW r \in Runs, ScanRow(r) PROVE SavedInv'
  BY <1>15 DEF ScanRow, OwnAgentAlive, AgentInv, SettleInv, WorkerInv
<1>16. ASSUME NEW r \in Runs, TailEnd(r) PROVE SavedInv'
  BY <1>16 DEF TailEnd, WorkerInv
<1>17. CASE Crash
  BY <1>17 DEF Crash
<1>18. CASE Restart
  BY <1>18 DEF Restart
<1>19. CASE UNCHANGED vars
  BY <1>19 DEF vars
<1>20. ASSUME NEW t \in Tickets, Patch(t) PROVE SavedInv'
  BY <1>20 DEF Patch
<1>21. QED
  BY <1>1, <1>2, <1>3, <1>4, <1>5, <1>6, <1>7, <1>8, <1>9, <1>10, <1>11, <1>12, <1>13,
     <1>14, <1>15, <1>16, <1>17, <1>18, <1>19, <1>20
     DEF Next, Start, Continue

\* No edit of the operator races a status the pipeline sets, and none claims a ticket.
NoRacingEdit == "edit" \notin Hazards /\ "in_progress" \notin Patches

\* Every step keeps BounceInv under the same conditions.
LEMMA BounceNext ==
  ASSUME TypeOK, Control, SettleInv, PipelineInv, BounceInv, [Next]_vars, AgentsDie,
         NoRacingEdit
  PROVE  BounceInv'
<1> USE DEF BounceInv, AgentsDie, NoRacingEdit, Bounce, TypeOK, memory, database, disk,
            server, Goto, Settle, SetStatus, Kill, Dead
<1>1. ASSUME NEW r \in Runs,
             Request(r) \/ CheckBusy(r) \/ CheckCap(r) \/ ReadTicket(r)
      PROVE  BounceInv'
  BY <1>1 DEF Request, CheckBusy, CheckCap, ReadTicket
<1>2. ASSUME NEW r \in Runs, Register(r) PROVE BounceInv'
  BY <1>2 DEF Register
<1>3. ASSUME NEW r \in Runs, Begin(r) \/ AfterPlan(r) PROVE BounceInv'
  BY <1>3 DEF Begin, AfterPlan
<1>4. ASSUME NEW r \in Runs, Claim(r) \/ Prep(r) PROVE BounceInv'
  BY <1>4 DEF Claim, Prep, PipelineInv, Pipeline, Control, OpenRowKnown
<1>5. ASSUME NEW r \in Runs, AfterWork(r) \/ Save(r) PROVE BounceInv'
  BY <1>5 DEF AfterWork, Save
<1>6. ASSUME NEW r \in Runs, BounceAndSettle(r) \/ Report(r) PROVE BounceInv'
  BY <1>6 DEF BounceAndSettle, Report, FateKnown, PipelineInv
<1>7. ASSUME NEW r \in Runs, EnterReview(r) PROVE BounceInv'
  BY <1>7 DEF EnterReview
<1>8. ASSUME NEW r \in Runs, Gate(r) \/ AfterReview(r) PROVE BounceInv'
  BY <1>8 DEF Gate, AfterReview
<1>9. ASSUME NEW r \in Runs, AfterChecks(r) \/ Verdict(r) PROVE BounceInv'
  BY <1>9 DEF AfterChecks, Verdict
<1>10. ASSUME NEW r \in Runs, ChecksDone(r) \/ StopRun(r) \/ Stall(r) PROVE BounceInv'
  BY <1>10 DEF ChecksDone, StopRun, Stall
<1>11. ASSUME NEW r \in Runs, SweepSave(r) PROVE BounceInv'
  BY <1>11 DEF SweepSave
<1>12. ASSUME NEW r \in Runs, SweepForce(r) PROVE BounceInv'
  BY <1>12 DEF SweepForce
<1>13. ASSUME NEW r \in Runs, PersistSpawn(r) \/ PersistSettle(r) PROVE BounceInv'
  BY <1>13 DEF PersistSpawn, PersistSettle, Unwritten
<1>14. ASSUME NEW r \in Runs, AgentExit(r) \/ AgentEdit(r) \/ ReusePid(r) PROVE BounceInv'
  BY <1>14 DEF AgentExit, AgentEdit, ReusePid
<1>15. ASSUME NEW r \in Runs, ScanRow(r) PROVE BounceInv'
  BY <1>15 DEF ScanRow, OwnAgentAlive
<1>16. ASSUME NEW r \in Runs, TailEnd(r) PROVE BounceInv'
  BY <1>16 DEF TailEnd
<1>17. CASE Crash
  BY <1>17 DEF Crash
<1>18. CASE Restart
  BY <1>18 DEF Restart
<1>19. CASE UNCHANGED vars
  BY <1>19 DEF vars
<1>20. ASSUME NEW t \in Tickets, Patch(t) PROVE BounceInv'
  BY <1>20 DEF Patch
<1>21. QED
  BY <1>1, <1>2, <1>3, <1>4, <1>5, <1>6, <1>7, <1>8, <1>9, <1>10, <1>11, <1>12, <1>13,
     <1>14, <1>15, <1>16, <1>17, <1>18, <1>19, <1>20
     DEF Next, Start, Continue

\* The invariants about pipelines, agents and edits hold together in every state.
LEMMA WorkInvariant ==
  ASSUME AgentsDie
  PROVE  Spec => [](RunInv /\ SettleInv /\ PipelineInv /\ AgentInv /\ WorkerInv /\ SavedInv)
<1>1. Init => PipelineInv /\ AgentInv /\ WorkerInv /\ SavedInv
  BY DEF Init, PipelineInv, AgentInv, WorkerInv, SavedInv, Pipeline, Awaiting, Live
<1>2. "overlap" \notin Hazards
  BY DEF AgentsDie
<1>3. /\ RunInv /\ SettleInv /\ PipelineInv /\ AgentInv /\ WorkerInv /\ SavedInv
      /\ [Next]_vars
      => (PipelineInv /\ AgentInv /\ WorkerInv /\ SavedInv)'
  BY PipelineNext, AgentNext, WorkerNext, SavedNext DEF RunInv, Control
<1>4. QED
  BY <1>1, <1>2, <1>3, RunInvariant, SettlesRight, PTL DEF Spec

\* A pid that went to another program belongs to a run with a row, which this server does
\* not watch: it was lost with the server before, and the boot gives it up.
ReusedInv ==
  \A r \in Runs : agent[r] = "reused" =>
    row[r] # "none" /\ (up /\ r \notin scan => rs[r] # "running")

\* Every step keeps ReusedInv.
LEMMA ReusedNext ==
  ASSUME TypeOK, Control, ReusedInv, [Next]_vars
  PROVE  ReusedInv'
<1> USE DEF ReusedInv, TypeOK, memory, database, disk, server, Live, Gone, Settled,
            Resumable
<1>1. ASSUME NEW r \in Runs,
             \/ Request(r) \/ CheckBusy(r) \/ CheckCap(r) \/ ReadTicket(r)
             \/ Register(r)
      PROVE  ReusedInv'
  BY <1>1 DEF Request, CheckBusy, CheckCap, ReadTicket, Register, Control, NotYetRun, Asking
<1>2. ASSUME NEW r \in Runs, Begin(r) \/ Prep(r) \/ Gate(r) PROVE ReusedInv'
  BY <1>2 DEF Begin, Prep, Gate, Spawn, Dead, Settle
<1>3. ASSUME NEW r \in Runs,
             \/ AfterPlan(r) \/ Claim(r) \/ AfterWork(r) \/ Save(r) \/ BounceAndSettle(r)
             \/ Report(r) \/ EnterReview(r) \/ AfterReview(r) \/ AfterChecks(r)
             \/ Verdict(r) \/ TailEnd(r)
      PROVE  ReusedInv'
  BY <1>3 DEF AfterPlan, Claim, AfterWork, Save, BounceAndSettle, Report, EnterReview,
              AfterReview, AfterChecks, Verdict, TailEnd, Settle
<1>4. ASSUME NEW r \in Runs,
             \/ ChecksDone(r) \/ SweepSave(r) \/ SweepForce(r) \/ PersistSpawn(r)
             \/ AgentEdit(r)
      PROVE  ReusedInv'
  BY <1>4 DEF ChecksDone, SweepSave, SweepForce, PersistSpawn, AgentEdit, Settle
<1>5. ASSUME NEW r \in Runs, StopRun(r) \/ Stall(r) \/ AgentExit(r) PROVE ReusedInv'
  BY <1>5 DEF StopRun, Stall, AgentExit, Kill, Dead
<1>6. ASSUME NEW r \in Runs, PersistSettle(r) PROVE ReusedInv'
  BY <1>6 DEF PersistSettle, Unwritten
<1>7. ASSUME NEW r \in Runs, ReusePid(r) PROVE ReusedInv'
  BY <1>7 DEF ReusePid
<1>8. ASSUME NEW r \in Runs, ScanRow(r) PROVE ReusedInv'
  BY <1>8 DEF ScanRow, OwnAgentAlive, Control, OpenRowKnown
<1>9. ASSUME NEW t \in Tickets, Patch(t) PROVE ReusedInv'
  BY <1>9 DEF Patch
<1>10. CASE Crash
  BY <1>10 DEF Crash, Dead
<1>11. CASE Restart \/ UNCHANGED vars
  BY <1>11 DEF Restart, Control, OpenRowKnown, vars
<1>12. QED
  BY <1>1, <1>2, <1>3, <1>4, <1>5, <1>6, <1>7, <1>8, <1>9, <1>10, <1>11
     DEF Next, Start, Continue

\* No agent works for nobody, and no run watches a program that is not its own, through
\* crashes, recycled pids and boots, where killed agents die and no pid is lost.
THEOREM AgentsAreWatched == ASSUME AgentsDie PROVE Spec => []AgentsWatched
<1>1. Init => ReusedInv
  BY DEF Init, ReusedInv
<1>2. RunInv /\ ReusedInv /\ [Next]_vars => ReusedInv'
  BY ReusedNext DEF RunInv, Control
<1>3. AgentInv /\ ReusedInv => AgentsWatched
  BY DEF AgentInv, ReusedInv, AgentsWatched, Live
<1>4. QED
  BY <1>1, <1>2, <1>3, WorkInvariant, RunInvariant, PTL DEF Spec, AgentsDie

\* Two workers never edit one sandbox at a time, through crashes, boots and reattached
\* runs, where killed agents die and no pid is lost.
THEOREM SoleWorkers == ASSUME AgentsDie PROVE Spec => []SoleWorker
<1>1. RunInv /\ AgentInv => SoleWorker
  BY DEF RunInv, OneOpenRow, AgentInv, SoleWorker, Live
<1>2. QED
  BY <1>1, WorkInvariant, PTL

\* A failed or stopped run has left no edit uncommitted (forgeCommit on every path out of
\* the work stage, and in the stall sweep), under the same conditions.
THEOREM EditsAreSaved == ASSUME AgentsDie PROVE Spec => []EditsSaved
<1>1. SavedInv => EditsSaved
  BY DEF SavedInv, EditsSaved
<1>2. QED
  BY <1>1, WorkInvariant, PTL

\* A failed run whose pipeline is over has sent its ticket back, where no edit of the
\* operator races the status (the never-stuck-in_progress invariant of startPipeline).
THEOREM NeverStuckInProgress ==
  ASSUME AgentsDie, NoRacingEdit PROVE Spec => []NeverStuck
<1>1. Init => BounceInv
  BY DEF Init, BounceInv
<1>2. RunInv /\ SettleInv /\ PipelineInv /\ BounceInv /\ [Next]_vars => BounceInv'
  BY BounceNext DEF RunInv, Control
<1>3. BounceInv => NeverStuck
  BY DEF BounceInv, NeverStuck
<1>4. QED
  BY <1>1, <1>2, <1>3, WorkInvariant, PTL DEF Spec

-----------------------------------------------------------------------------
(* Tickets in progress can be worked on again *)

\* The stage of a run goes with where its pipeline is, and what its request asked for
\* with what the ticket offers.
StageInv ==
  \A r \in Runs :
    /\ pc[r] \in Asking \cup {"idle", "refused", "begin", "plan", "claim"}
         => rowStage[r] = "plan" /\ stage[r] = "plan"
    /\ pc[r] \in {"gate", "review", "checks", "verdict"} => stage[r] = "review"
    /\ pc[r] \in {"register", "begin"} /\ mode[r] = "fresh"
         => status[TicketOf[r]] # "in_progress"
    /\ pc[r] \in {"register", "begin"} /\ mode[r] = "review" => TicketOf[r] \in commits
    /\ pc[r] = "plan" => status[TicketOf[r]] # "in_progress"
    /\ row[r] \in Settled /\ rs[r] # "none" => rs[r] = row[r]

\* What is known of the newest run of a ticket that is in progress.
ProgressInv ==
  /\ \A t \in Tickets :
       /\ status[t] = "in_progress" => latest[t] # None
       /\ latest[t] # None => TicketOf[latest[t]] = t /\ row[latest[t]] # "none"
  /\ \A r \in Runs :
       status[TicketOf[r]] = "in_progress" /\ latest[TicketOf[r]] = r =>
         /\ rs[r] \notin {"failed", "rejected"} /\ row[r] \notin {"failed", "rejected"}
         /\ rs[r] # "none" /\ (stage[r] = "review" \/ pc[r] = "review0")
              => TicketOf[r] \in commits
         /\ rowStage[r] = "review" => TicketOf[r] \in commits
         /\ rs[r] = "stopped" \/ mode[r] = "reattached" => stage[r] # "plan"
         /\ row[r] = "stopped" \/ (agent[r] \in Live /\ r \notin unsaved)
              => rowStage[r] # "plan"

\* Every step keeps StageInv under the same conditions.
LEMMA StageNext ==
  ASSUME TypeOK, Control, SettleInv, PipelineInv, WorkerInv, StageInv, [Next]_vars,
         AgentsDie, NoRacingEdit
  PROVE  StageInv'
<1> USE DEF StageInv, AgentsDie, NoRacingEdit, Asking, Bounce, TypeOK, memory, database,
            disk, server, Goto, Settle, SetStatus, Kill, Dead
<1>1. ASSUME NEW r \in Runs,
             Request(r) \/ CheckBusy(r) \/ CheckCap(r) \/ ReadTicket(r)
      PROVE  StageInv'
  BY <1>1 DEF Request, CheckBusy, CheckCap, ReadTicket
<1>2. ASSUME NEW r \in Runs, Register(r) PROVE StageInv'
  BY <1>2 DEF Register, Control, NotYetRun
<1>3. ASSUME NEW r \in Runs, Begin(r) \/ AfterPlan(r) PROVE StageInv'
  BY <1>3 DEF Begin, AfterPlan, Settled, Resumable, Control, OpenRowKnown
<1>4. ASSUME NEW r \in Runs, Claim(r) \/ Prep(r) PROVE StageInv'
  <2>1. CASE Claim(r)
    <3>1. row[r] = "running"
      BY <2>1 DEF Claim, PipelineInv, Pipeline, Control, OpenRowKnown
    <3>2. ASSUME NEW q \in Runs, TicketOf[q] = TicketOf[r], q # r
          PROVE  pc[q] \notin {"register", "begin", "plan"}
      BY <3>1, <3>2 DEF PipelineInv, Pipeline, Awaiting, Control, OpenRowKnown, OneOpenRow,
                        TicketFree
    <3>3. QED
      BY <2>1, <3>2 DEF Claim
  <2>2. CASE Prep(r)
    BY <2>2 DEF Prep
  <2>3. QED
    BY <1>4, <2>1, <2>2
<1>5. ASSUME NEW r \in Runs, AfterWork(r) \/ Save(r) PROVE StageInv'
  BY <1>5 DEF AfterWork, Save, Commit
<1>6. ASSUME NEW r \in Runs, BounceAndSettle(r) \/ Report(r) PROVE StageInv'
  BY <1>6 DEF BounceAndSettle, Report, Settled, Resumable, Control, OpenRowKnown
<1>7. ASSUME NEW r \in Runs, EnterReview(r) PROVE StageInv'
  BY <1>7 DEF EnterReview, Settled, Resumable, SettleInv, Control, OpenRowKnown
<1>8. ASSUME NEW r \in Runs, Gate(r) \/ AfterReview(r) PROVE StageInv'
  BY <1>8 DEF Gate, AfterReview, Settled, Resumable, Control, OpenRowKnown
<1>9. ASSUME NEW r \in Runs, AfterChecks(r) \/ Verdict(r) PROVE StageInv'
  BY <1>9 DEF AfterChecks, Verdict, Settled, Resumable, Control, OpenRowKnown
<1>10. ASSUME NEW r \in Runs, ChecksDone(r) \/ StopRun(r) \/ Stall(r) PROVE StageInv'
  BY <1>10 DEF ChecksDone, StopRun, Stall
<1>11. ASSUME NEW r \in Runs, SweepSave(r) PROVE StageInv'
  BY <1>11 DEF SweepSave, Commit, Settled, Resumable, PipelineInv
<1>12. ASSUME NEW r \in Runs, SweepForce(r) PROVE StageInv'
  BY <1>12 DEF SweepForce
<1>13. ASSUME NEW r \in Runs, PersistSpawn(r) \/ PersistSettle(r) PROVE StageInv'
  BY <1>13 DEF PersistSpawn, PersistSettle, Unwritten, Settled, Resumable, SettleInv
<1>14. ASSUME NEW r \in Runs, AgentExit(r) \/ AgentEdit(r) \/ ReusePid(r) PROVE StageInv'
  BY <1>14 DEF AgentExit, AgentEdit, ReusePid
<1>15. ASSUME NEW r \in Runs, ScanRow(r) PROVE StageInv'
  BY <1>15 DEF ScanRow, OwnAgentAlive, SettleInv
<1>16. ASSUME NEW r \in Runs, TailEnd(r) PROVE StageInv'
  BY <1>16 DEF TailEnd, Settled, Resumable, Control, OpenRowKnown
<1>17. CASE Crash
  BY <1>17 DEF Crash, Over
<1>18. CASE Restart
  BY <1>18 DEF Restart
<1>19. CASE UNCHANGED vars
  BY <1>19 DEF vars
<1>20. ASSUME NEW t \in Tickets, Patch(t) PROVE StageInv'
  BY <1>20 DEF Patch
<1>21. QED
  BY <1>1, <1>2, <1>3, <1>4, <1>5, <1>6, <1>7, <1>8, <1>9, <1>10, <1>11, <1>12, <1>13,
     <1>14, <1>15, <1>16, <1>17, <1>18, <1>19, <1>20
     DEF Next, Start, Continue

\* Every step keeps ProgressInv under the same conditions.
LEMMA ProgressNext ==
  ASSUME TypeOK, FateKnown, Control, SettleInv, PipelineInv, AgentInv, WorkerInv, StageInv,
         ProgressInv, [Next]_vars, AgentsDie, NoRacingEdit
  PROVE  ProgressInv'
<1> USE DEF ProgressInv, AgentsDie, NoRacingEdit, Bounce, TypeOK, memory, database, disk,
            server, Goto, Settle, SetStatus, Kill, Dead
<1>1. ASSUME NEW r \in Runs,
             Request(r) \/ CheckBusy(r) \/ CheckCap(r) \/ ReadTicket(r)
      PROVE  ProgressInv'
  BY <1>1 DEF Request, CheckBusy, CheckCap, ReadTicket, SettleInv, ResumeModes, ReworkModes
<1>2. ASSUME NEW r \in Runs, Register(r) PROVE ProgressInv'
  BY <1>2 DEF Register, Control, NotYetRun, StageInv, Asking, AgentInv, WorkerInv, SettleInv
<1>3. ASSUME NEW r \in Runs, Begin(r) \/ AfterPlan(r) PROVE ProgressInv'
  BY <1>3 DEF Begin, AfterPlan, StageInv, Spawn
<1>4. ASSUME NEW r \in Runs, Claim(r) \/ Prep(r) PROVE ProgressInv'
  BY <1>4 DEF Claim, Prep, PipelineInv, Pipeline, Control, OpenRowKnown, StageInv, Asking,
              AgentInv, Awaiting, SettleInv, Spawn, WorkerInv
<1>5. ASSUME NEW r \in Runs, AfterWork(r) \/ Save(r) PROVE ProgressInv'
  BY <1>5 DEF AfterWork, Save, Commit, StageInv
<1>6. ASSUME NEW r \in Runs, BounceAndSettle(r) \/ Report(r) PROVE ProgressInv'
  BY <1>6 DEF BounceAndSettle, Report, FateKnown, StageInv, WorkerInv
<1>7. ASSUME NEW r \in Runs, EnterReview(r) PROVE ProgressInv'
  BY <1>7 DEF EnterReview, SettleInv, StageInv, Asking
<1>8. ASSUME NEW r \in Runs, Gate(r) \/ AfterReview(r) PROVE ProgressInv'
  BY <1>8 DEF Gate, AfterReview, StageInv, Spawn
<1>9. ASSUME NEW r \in Runs, AfterChecks(r) \/ Verdict(r) PROVE ProgressInv'
  BY <1>9 DEF AfterChecks, Verdict, StageInv
<1>10. ASSUME NEW r \in Runs, ChecksDone(r) \/ StopRun(r) \/ Stall(r) PROVE ProgressInv'
  BY <1>10 DEF ChecksDone, StopRun, Stall
<1>11. ASSUME NEW r \in Runs, SweepSave(r) PROVE ProgressInv'
  BY <1>11 DEF SweepSave, Commit, PipelineInv
<1>12. ASSUME NEW r \in Runs, SweepForce(r) PROVE ProgressInv'
  BY <1>12 DEF SweepForce
<1>13. ASSUME NEW r \in Runs, PersistSpawn(r) \/ PersistSettle(r) PROVE ProgressInv'
  BY <1>13 DEF PersistSpawn, PersistSettle, Unwritten, Settled, Resumable, SettleInv,
               StageInv, AgentInv, Awaiting, WorkerInv
<1>14. ASSUME NEW r \in Runs, AgentExit(r) \/ AgentEdit(r) \/ ReusePid(r) PROVE ProgressInv'
  BY <1>14 DEF AgentExit, AgentEdit, ReusePid, Live
<1>15. ASSUME NEW r \in Runs, ScanRow(r) PROVE ProgressInv'
  BY <1>15 DEF ScanRow, OwnAgentAlive, SettleInv, AgentInv
<1>16. ASSUME NEW r \in Runs, TailEnd(r) PROVE ProgressInv'
  BY <1>16 DEF TailEnd, WorkerInv
<1>17. CASE Crash
  BY <1>17 DEF Crash, Over
<1>18. CASE Restart
  BY <1>18 DEF Restart
<1>19. CASE UNCHANGED vars
  BY <1>19 DEF vars
<1>20. ASSUME NEW t \in Tickets, Patch(t) PROVE ProgressInv'
  BY <1>20 DEF Patch
<1>21. QED
  BY <1>1, <1>2, <1>3, <1>4, <1>5, <1>6, <1>7, <1>8, <1>9, <1>10, <1>11, <1>12, <1>13,
     <1>14, <1>15, <1>16, <1>17, <1>18, <1>19, <1>20
     DEF Next, Start, Continue

\* Whatever state a ticket in progress was left in, its newest run tells how to go on.
LEMMA ProgressRecovers ==
  ASSUME RunInv, StageInv, ProgressInv, NEW t \in Tickets, status[t] = "in_progress"
  PROVE  HasActiveRun(t) \/ ResumeModes(t) # {} \/ LatestRunStatus(t) = "passed"
<1> DEFINE r == latest[t]
<1>1. r \in Runs /\ r # None /\ TicketOf[r] = t
  BY ForgeAssumption DEF RunInv, TypeOK, ProgressInv
<1>2. row[r] \in {"running", "interrupted", "stopped", "passed"}
  BY <1>1 DEF RunInv, TypeOK, ProgressInv, Settled, Resumable
<1>3. CASE row[r] = "running"
  BY <1>1, <1>3 DEF HasActiveRun
<1>4. row[r] # "running" => rs[r] \in {"none", row[r]}
  BY <1>1, <1>2 DEF RunInv, TypeOK, OpenRowKnown, StageInv, Settled, Resumable
<1>5. CASE row[r] = "passed"
  BY <1>1, <1>4, <1>5 DEF LatestRunStatus
<1>6. ResumeMode(t) # "none"
  BY <1>1 DEF ResumeMode, RunInv, TypeOK, Stages, ProgressInv
<1>7. CASE row[r] = "interrupted"
  <2>1. LatestRunStatus(t) = "interrupted"
    BY <1>1, <1>4, <1>7 DEF LatestRunStatus
  <2>2. ResumeModes(t) = {"work"}
    BY <1>6, <2>1 DEF ResumeModes
  <2>3. QED
    BY <2>2
<1>8. CASE row[r] = "stopped"
  <2>1. LatestRunStatus(t) = "stopped"
    BY <1>1, <1>4, <1>8 DEF LatestRunStatus
  <2>2. ResumeMode(t) \in {"work", "review"}
    BY <1>1, <1>8 DEF ResumeMode, RunInv, TypeOK, Stages, ProgressInv
  <2>3. ResumeModes(t) = {ResumeMode(t)} \cap {"work", "review"}
    BY <1>1, <1>8, <2>1, <2>2 DEF ResumeModes, Resumable
  <2>4. QED
    BY <2>2, <2>3
<1>9. QED
  BY <1>2, <1>3, <1>5, <1>7, <1>8

\* No ticket is left in progress with nothing to be done about it: whatever crashed, was
\* stopped, stalled or failed, it has a run, can be resumed or can be promoted, where
\* killed agents die, no pid is lost and no edit races the status.
THEOREM TicketsRecover ==
  ASSUME AgentsDie, NoRacingEdit PROVE Spec => []Recoverable
<1>1. Init => StageInv /\ ProgressInv
  BY DEF Init, StageInv, ProgressInv, Settled, Resumable, Live, Asking
<1>2. /\ RunInv /\ SettleInv /\ PipelineInv /\ AgentInv /\ WorkerInv /\ StageInv /\ ProgressInv
      /\ [Next]_vars
      => (StageInv /\ ProgressInv)'
  BY StageNext, ProgressNext DEF RunInv, Control
<1>3. RunInv /\ StageInv /\ ProgressInv => Recoverable
  BY ProgressRecovers DEF Recoverable
<1>4. QED
  BY <1>1, <1>2, <1>3, WorkInvariant, PTL DEF Spec

-----------------------------------------------------------------------------
(* The limit on simultaneous runs *)

\* Runs in memory have open rows, so they are finitely many where those are.
LEMMA ActiveFinite ==
  ASSUME Control, IsFiniteSet(OpenRows)
  PROVE  /\ IsFiniteSet(ActiveRuns) /\ ActiveRuns \subseteq OpenRows
         /\ Cardinality(ActiveRuns) \in Nat /\ Cardinality(OpenRows) \in Nat
         /\ Cardinality(ActiveRuns) <= Cardinality(OpenRows)
<1>1. ActiveRuns \subseteq OpenRows
  BY DEF Control, OpenRowKnown, ActiveRuns, OpenRows
<1>2. QED
  BY <1>1, FS_Subset, FS_CardinalityType

\* A step that opens no row, adds no active run while a request has passed the limit,
\* and moves no request past a check keeps CapInv.
LEMMA CapKept ==
  ASSUME TypeOK, Control, CapInv, OpenRows' \subseteq OpenRows,
         \A r \in Runs : pc'[r] \in {"read", "register"} => pc'[r] = pc[r],
         ActiveRuns' \subseteq ActiveRuns \/ \A r \in Runs : pc'[r] # "read"
  PROVE  CapInv'
<1>1. IsFiniteSet(OpenRows') /\ Cardinality(OpenRows') <= Cardinality(OpenRows)
  BY FS_Subset DEF CapInv
<1>2. Cardinality(OpenRows) \in Nat /\ Cardinality(OpenRows') \in Nat
  BY <1>1, FS_CardinalityType DEF CapInv
<1>3. IsFiniteSet(ActiveRuns) /\ Cardinality(ActiveRuns) \in Nat
  BY ActiveFinite DEF CapInv
<1>4. ASSUME ActiveRuns' \subseteq ActiveRuns
      PROVE  /\ Cardinality(ActiveRuns') \in Nat
             /\ Cardinality(ActiveRuns') <= Cardinality(ActiveRuns)
  BY <1>3, <1>4, FS_Subset, FS_CardinalityType
<1>5. QED
  BY <1>1, <1>2, <1>3, <1>4 DEF CapInv

\* Every step keeps CapInv when starts do not overlap.
LEMMA CapNext ==
  ASSUME TypeOK, FateKnown, Control, CapInv, [Next]_vars, "overlap" \notin Hazards
  PROVE  CapInv'
<1> USE DEF TypeOK, memory, database, disk, server, Goto, ActiveRuns, OpenRows
<1>0. Cardinality(OpenRows) \in Nat /\ IsFiniteSet(OpenRows)
  BY ActiveFinite DEF CapInv
<1>1. ASSUME NEW r \in Runs,
             \/ Continue(r) \/ ChecksDone(r) \/ StopRun(r) \/ Stall(r) \/ SweepSave(r)
             \/ SweepForce(r) \/ PersistSpawn(r) \/ AgentExit(r) \/ AgentEdit(r)
             \/ ReusePid(r)
      PROVE  CapInv'
  <2>1. Quiet
    BY <1>1, QuietStep
  <2>2. QED
    BY <2>1, CapKept DEF Quiet, Settled, Resumable, Asking
<1>2. ASSUME NEW r \in Runs, Request(r) \/ CheckBusy(r) PROVE CapInv'
  BY <1>2, CapKept DEF Request, CheckBusy
<1>3. ASSUME NEW r \in Runs, CheckCap(r) PROVE CapInv'
  <2>1. OpenRows' = OpenRows /\ ActiveRuns' = ActiveRuns
    BY <1>3 DEF CheckCap
  <2>2. pc'[r] = "read" => Cardinality(ActiveRuns) < MaxActive
    BY <1>3 DEF CheckCap
  <2>3. \A q \in Runs : q # r => pc'[q] = pc[q]
    BY <1>3 DEF CheckCap
  <2>4. pc'[r] # "register"
    BY <1>3 DEF CheckCap
  <2>5. QED
    BY <2>1, <2>2, <2>3, <2>4 DEF CapInv
<1>4. ASSUME NEW r \in Runs, ReadTicket(r) PROVE CapInv'
  <2>1. ActiveRuns = OpenRows
    BY <1>4 DEF ReadTicket, Unwritten, Control, StartsAlone, OpenRowKnown, Asking
  <2>2. Cardinality(OpenRows) < MaxActive
    BY <1>4, <2>1 DEF ReadTicket, CapInv
  <2>3. OpenRows' = OpenRows /\ ActiveRuns' = ActiveRuns
    BY <1>4 DEF ReadTicket
  <2>4. \A q \in Runs : pc'[q] # pc[q] => pc'[q] # "read"
    BY <1>4 DEF ReadTicket
  <2>5. QED
    BY <2>2, <2>3, <2>4 DEF CapInv
<1>5. ASSUME NEW r \in Runs, Register(r) PROVE CapInv'
  <2>1. OpenRows' = OpenRows \cup {r}
    BY <1>5 DEF Register
  <2>2. IsFiniteSet(OpenRows') /\ Cardinality(OpenRows') <= Cardinality(OpenRows) + 1
    <3> HIDE DEF OpenRows
    <3>1. /\ IsFiniteSet(OpenRows \cup {r})
          /\ Cardinality(OpenRows \cup {r})
               = IF r \in OpenRows THEN Cardinality(OpenRows) ELSE Cardinality(OpenRows) + 1
      BY <1>0, FS_AddElement
    <3>2. QED
      BY <1>0, <2>1, <3>1
  <2>3. Cardinality(OpenRows) < MaxActive
    BY <1>5 DEF Register, CapInv
  <2>4. Cardinality(OpenRows') \in Nat
    BY <2>2, FS_CardinalityType
  <2>5. \A q \in Runs : pc'[q] \notin {"read", "register"}
    BY <1>5 DEF Register, Control, StartsAlone, Asking
  <2>6. Cardinality(OpenRows') <= MaxActive
    BY <1>0, <2>2, <2>3, <2>4, ForgeAssumption
  <2>7. QED
    BY <2>2, <2>5, <2>6 DEF CapInv
<1>6. ASSUME NEW r \in Runs, PersistSettle(r) PROVE CapInv'
  BY <1>6, CapKept DEF PersistSettle, Unwritten, Settled, Resumable
<1>7. ASSUME NEW r \in Runs, ScanRow(r) PROVE CapInv'
  <2>1. \A q \in Runs : pc[q] \notin Asking
    BY <1>7 DEF ScanRow, Control, StartsAlone
  <2>2. \A q \in Runs : pc'[q] \notin {"read", "register"}
    BY <1>7, <2>1 DEF ScanRow, Asking
  <2>3. OpenRows' \subseteq OpenRows
    BY <1>7 DEF ScanRow
  <2>4. QED
    BY <2>2, <2>3, CapKept
<1>8. ASSUME NEW t \in Tickets, Patch(t) PROVE CapInv'
  BY <1>8, CapKept DEF Patch
<1>9. CASE Crash
  BY <1>9, CapKept DEF Crash, Over
<1>10. CASE Restart
  BY <1>10, CapKept DEF Restart
<1>11. CASE UNCHANGED vars
  BY <1>11, CapKept DEF vars
<1>12. QED
  BY <1>1, <1>2, <1>3, <1>4, <1>5, <1>6, <1>7, <1>8, <1>9, <1>10, <1>11 DEF Next, Start

\* Never more runs than the limit, when starts do not overlap: the check of the limit and
\* the registration are apart, but nobody registers in between, and the rows of an earlier
\* life of the server count until the boot scan has handled them.
THEOREM CapIsRespected == ASSUME "overlap" \notin Hazards PROVE Spec => []CapRespected
<1>1. Init => CapInv
  <2>1. ASSUME Init PROVE OpenRows = {} /\ \A r \in Runs : pc[r] = "idle"
    BY <2>1 DEF Init, OpenRows
  <2>2. QED
    BY <2>1, FS_EmptySet, ForgeAssumption DEF CapInv
<1>2. RunInv /\ CapInv /\ [Next]_vars => CapInv'
  BY CapNext DEF RunInv, Control
<1>3. RunInv /\ CapInv => CapRespected
  BY ActiveFinite, ForgeAssumption DEF RunInv, Control, CapInv, CapRespected, ActiveRuns
<1>4. QED
  BY <1>1, <1>2, <1>3, RunInvariant, PTL DEF Spec
=============================================================================

----------------------------- MODULE ServiceProofs ----------------------------
(*****************************************************************************)
(* Proofs about Council, for every number of sessions, rounds, saves under   *)
(* way, attempts at a ticket and crashes; about what is asked of processes   *)
(* outside: the stand-alone runner (Runner), Laya (Laya), and the queue to   *)
(* Voyage (Voyage); about the files that others write too: relay.json and    *)
(* the shared packages (RelayFile), and the files of clients (Wiring); and   *)
(* about the chat: turns and their sessions (Chat), the tools of a turn and  *)
(* their grants (ChatTools), and a turn with a model over HTTP (HttpLane).   *)
(*****************************************************************************)
EXTENDS Council, Runner, Laya, Voyage, RelayFile, Wiring, Chat, ChatTools, HttpLane,
        FiniteSetTheorems, SequenceTheorems, TLAPS

CouncilSpec == CouncilInit /\ [][CouncilNext]_councilVars

\* A session, in memory or stored.
SessionSound(y) ==
  /\ y.status \notin {"none", "dropped"} => y.round >= 1
  /\ y.answered # 0 => \A r \in Roles : y.said[r] # 0
  /\ y.status = "awaiting-answers" => y.round < CouncilRounds
  /\ y.status \in {"decided", "awaiting-answers"} => y.verdict
  /\ y.status = "none" => ~y.verdict

\* All sessions at one time; f are those a ticket was forced of.
Snapshot(c, f) ==
  /\ c \in [Councils -> Sessions]
  /\ \A s \in Councils : SessionSound(c[s])
  /\ Cardinality(Active(c) \ f) <= CouncilMax

SnapshotsSound ==
  /\ forced \subseteq Councils
  /\ Snapshot(council, forced) /\ Snapshot(saved, forced)
  /\ unsaved \in Seq([Councils -> Sessions]) /\ Len(unsaved) <= UnsavedMax
  /\ \A i \in 1..Len(unsaved) : Snapshot(unsaved[i], forced)

CouncilTyped ==
  /\ pipeline \in [Councils -> {"none", "brief", "personas", "chairman"}]
  /\ asked \in [Councils -> SUBSET Roles]
  /\ lateCalls \in [Councils -> SUBSET (Roles \X (1..CouncilRounds))]
  /\ requests \in [Councils -> 0..TicketTries]
  /\ councilCrashes \in 0..CouncilCrashes

PipelineSound(s) ==
  /\ council[s].status = "running" => pipeline[s] # "none"
  /\ pipeline[s] # "none" =>
       council[s].status = "running" \/ (council[s].status = "consumed" /\ s \in forced)
  /\ pipeline[s] = "personas" => \A r \in Roles : r \in asked[s] \/ council[s].said[r] # 0
  /\ pipeline[s] = "chairman" => \A r \in Roles : council[s].said[r] # 0

TicketSound(s) ==
  requests[s] > 0 =>
    /\ s \in forced \/ council[s].status \in {"decided", "consumed", "dropped"}
    /\ council[s].status = "dropped" \/ council[s].verdict

CouncilSound ==
  /\ SnapshotsSound /\ CouncilTyped /\ doubled = FALSE
  /\ \A s \in Councils : PipelineSound(s) /\ TicketSound(s)

LEMMA CouncilNumbers ==
  /\ CouncilMax \in Nat /\ CouncilRounds \in Nat /\ CouncilRounds > 0 /\ UnsavedMax \in Nat
  /\ UnsavedMax > 0
  /\ TicketTries \in Nat /\ CouncilCrashes \in Nat
  /\ IsFiniteSet(Councils)
BY CouncilAssumption DEF CouncilAssumption

\* Sessions that are forced in the meantime do not count.
LEMMA SnapshotLater ==
  ASSUME NEW c, NEW f, NEW g, f \subseteq g, Snapshot(c, f)
  PROVE  Snapshot(c, g)
PROOF
  <1>1. Active(c) \ f \subseteq Councils /\ Active(c) \ g \subseteq Active(c) \ f
    BY DEF Active
  <1>2. IsFiniteSet(Active(c) \ f)
    BY <1>1, CouncilNumbers, FS_Subset
  <1>3. /\ Cardinality(Active(c) \ g) <= Cardinality(Active(c) \ f)
        /\ Cardinality(Active(c) \ f) \in Nat /\ Cardinality(Active(c) \ g) \in Nat
    BY <1>1, <1>2, FS_Subset, FS_CardinalityType
  <1> QED BY <1>3, CouncilNumbers DEF Snapshot

\* One session changes; if it becomes active there was room for it.
LEMMA SnapshotUpdate ==
  ASSUME NEW c, NEW f, Snapshot(c, f), NEW s \in Councils, NEW y \in Sessions, SessionSound(y),
         y.status \in {"running", "awaiting-answers"} =>
           c[s].status \in {"running", "awaiting-answers"} \/ s \in f \/ Cardinality(Active(c)) < CouncilMax
  PROVE  Snapshot([c EXCEPT ![s] = y], f)
PROOF
  <1> DEFINE d == [c EXCEPT ![s] = y]
  <1>1. d \in [Councils -> Sessions] /\ \A t \in Councils : SessionSound(d[t])
    BY DEF Snapshot
  <1>2. Active(c) \subseteq Councils /\ IsFiniteSet(Active(c)) /\ IsFiniteSet(Active(c) \ f)
    BY CouncilNumbers, FS_Subset DEF Active
  <1>3. Cardinality(Active(c)) \in Nat /\ Cardinality(Active(c) \ f) \in Nat
    BY <1>2, FS_CardinalityType
  <1>4. Cardinality(Active(d) \ f) <= CouncilMax
    <2>1. CASE Active(d) \ f \subseteq Active(c) \ f
      <3>1. /\ Cardinality(Active(d) \ f) \in Nat
            /\ Cardinality(Active(d) \ f) <= Cardinality(Active(c) \ f)
        BY <1>2, <2>1, FS_Subset, FS_CardinalityType
      <3> QED BY <1>3, <3>1, CouncilNumbers DEF Snapshot
    <2>2. CASE ~(Active(d) \ f \subseteq Active(c) \ f)
      <3>1. Active(d) \subseteq Active(c) \cup {s}
        BY DEF Active, Snapshot
      <3>2. s \in Active(d) /\ s \notin f /\ s \notin Active(c)
        BY <2>2, <3>1
      <3>3. /\ y.status \in {"running", "awaiting-answers"}
            /\ c[s].status \notin {"running", "awaiting-answers"}
        BY <3>2 DEF Active, Snapshot
      <3>4. Cardinality(Active(c)) < CouncilMax
        BY <3>2, <3>3
      <3>5. /\ IsFiniteSet(Active(c) \cup {s})
            /\ Cardinality(Active(c) \cup {s}) = Cardinality(Active(c)) + 1
        BY <1>2, <3>2, FS_AddElement
      <3>6. Active(d) \ f \subseteq Active(c) \cup {s}
        BY <3>1
      <3>7. /\ Cardinality(Active(d) \ f) \in Nat
            /\ Cardinality(Active(d) \ f) <= Cardinality(Active(c) \cup {s})
        BY <3>5, <3>6, FS_Subset, FS_CardinalityType
      <3> HIDE DEF d
      <3> QED BY <1>3, <3>4, <3>5, <3>7, CouncilNumbers
    <2> QED BY <2>1, <2>2
  <1> QED BY <1>1, <1>4 DEF Snapshot

\* A snapshot that is sound may be persisted.
LEMMA PersistKeeps ==
  ASSUME SnapshotsSound, NEW next, persist(next), Snapshot(next, forced), UNCHANGED forced
  PROVE  SnapshotsSound'
PROOF
  <1>1. /\ council' = next /\ unsaved' = Append(unsaved, next) /\ saved' = saved
        /\ Len(unsaved) < UnsavedMax
    BY DEF persist
  <1>2. next \in [Councils -> Sessions] /\ unsaved \in Seq([Councils -> Sessions])
    BY DEF Snapshot, SnapshotsSound
  <1>3. /\ unsaved' \in Seq([Councils -> Sessions]) /\ Len(unsaved') = Len(unsaved) + 1
        /\ \A i \in 1..Len(unsaved') : unsaved'[i] = IF i <= Len(unsaved) THEN unsaved[i] ELSE next
    BY <1>1, <1>2
  <1>4. \A i \in 1..Len(unsaved') : Snapshot(unsaved'[i], forced)
    <2> TAKE i \in 1..Len(unsaved')
    <2>1. CASE i <= Len(unsaved)
      <3>1. i \in 1..Len(unsaved) /\ unsaved'[i] = unsaved[i]
        BY <1>2, <1>3, <2>1
      <3> QED BY <3>1 DEF SnapshotsSound
    <2>2. CASE ~(i <= Len(unsaved))
      BY <1>3, <2>2
    <2> QED BY <2>1, <2>2
  <1>5. Len(unsaved') <= UnsavedMax
    BY <1>1, <1>2, <1>3, CouncilNumbers
  <1> QED BY <1>1, <1>3, <1>4, <1>5 DEF SnapshotsSound

\* Nothing is persisted, and one session changes or none.
LEMMA TouchKeeps ==
  ASSUME SnapshotsSound, Snapshot(council', forced), UNCHANGED <<forced, unsaved, saved>>
  PROVE  SnapshotsSound'
BY DEF SnapshotsSound

\* The session of a step is the only one it touches.
OtherSessions(s) ==
  \A t \in Councils \ {s} :
    /\ council'[t] = council[t] /\ pipeline'[t] = pipeline[t] /\ asked'[t] = asked[t]
    /\ requests'[t] = requests[t]
    /\ t \in forced <=> t \in forced'

LEMMA OneSessionMoves ==
  ASSUME CouncilSound, NEW s \in Councils, OtherSessions(s), SnapshotsSound', CouncilTyped',
         doubled' = FALSE,
         PipelineSound(s)', TicketSound(s)'
  PROVE  CouncilSound'
PROOF
  <1>1. ASSUME NEW t \in Councils PROVE PipelineSound(t)' /\ TicketSound(t)'
    <2>1. CASE t = s
      BY <2>1
    <2>2. CASE t # s
      BY <2>2 DEF OtherSessions, CouncilSound, PipelineSound, TicketSound
    <2> QED BY <2>1, <2>2
  <1> QED BY <1>1 DEF CouncilSound

\* The state of one session.
LEMMA SessionFacts ==
  ASSUME CouncilSound, NEW s \in Councils
  PROVE  /\ council[s] \in Sessions /\ SessionSound(council[s]) /\ PipelineSound(s)
         /\ TicketSound(s)
         /\ council \in [Councils -> Sessions] /\ Snapshot(council, forced)
         /\ forced \subseteq Councils
BY DEF CouncilSound, SnapshotsSound, Snapshot

\* A stage that fails ends its pipeline and its session.
LEMMA FailureIsSound ==
  ASSUME CouncilSound, NEW s \in Councils, Failed(s), pipeline[s] # "none",
         lateCalls' \in [Councils -> SUBSET (Roles \X (1..CouncilRounds))]
  PROVE  CouncilSound'
PROOF
  <1> DEFINE y == [council[s] EXCEPT !.status = "failed"]
  <1>0. /\ council[s] \in Sessions /\ SessionSound(council[s]) /\ PipelineSound(s)
        /\ TicketSound(s)
        /\ council \in [Councils -> Sessions] /\ Snapshot(council, forced)
    BY SessionFacts
  <1>1. council[s].status \in {"running", "consumed"}
    BY <1>0 DEF PipelineSound
  <1>2. y \in Sessions /\ SessionSound(y) /\ y.status = "failed" /\ y.verdict = council[s].verdict
    BY <1>0, <1>1 DEF Sessions, Statuses, SessionSound
  <1>3. persist([council EXCEPT ![s] = y]) /\ UNCHANGED <<requests, forced, doubled>>
    BY <1>0 DEF Failed, theTickets
  <1> HIDE DEF y
  <1>4. SnapshotsSound'
    <2>1. Snapshot([council EXCEPT ![s] = y], forced)
      BY <1>0, <1>2, SnapshotUpdate
    <2> QED BY <1>3, <2>1, PersistKeeps DEF CouncilSound
  <1>5. /\ council' = [council EXCEPT ![s] = y] /\ pipeline' = [pipeline EXCEPT ![s] = "none"]
        /\ asked' = [asked EXCEPT ![s] = {}]
        /\ UNCHANGED <<requests, forced, doubled, councilCrashes>>
    BY <1>3 DEF Failed, persist
  <1>6. CouncilTyped' /\ doubled' = FALSE
    BY <1>5 DEF CouncilSound, CouncilTyped
  <1>7. OtherSessions(s)
    BY <1>0, <1>5 DEF OtherSessions, CouncilSound, CouncilTyped
  <1>8. council'[s] = y /\ pipeline'[s] = "none" /\ requests'[s] = requests[s] /\ (s \in forced' <=> s \in forced)
    BY <1>0, <1>5 DEF CouncilSound, CouncilTyped
  <1>9. PipelineSound(s)' /\ TicketSound(s)'
    BY <1>0, <1>1, <1>2, <1>8 DEF PipelineSound, TicketSound
  <1> QED BY <1>4, <1>6, <1>7, <1>9, OneSessionMoves
\* The owner answers, and a further round begins.
LEMMA AnswersAreSound ==
  ASSUME CouncilSound, NEW s \in Councils, submitAnswers(s)
  PROVE  CouncilSound'
PROOF
  <1>0. /\ council[s] \in Sessions /\ SessionSound(council[s]) /\ PipelineSound(s)
        /\ TicketSound(s)
        /\ council \in [Councils -> Sessions] /\ Snapshot(council, forced)
        /\ forced \subseteq Councils
    BY SessionFacts
  <1>1. /\ council[s].status = "awaiting-answers" /\ pipeline[s] = "none"
        /\ council[s].round < CouncilRounds
    BY <1>0 DEF submitAnswers, PipelineSound, SessionSound
  <1> DEFINE y == [council[s] EXCEPT !.status = "running", !.round = council[s].round + 1]
  <1>2. /\ y \in Sessions /\ SessionSound(y) /\ y.status = "running"
        /\ y.verdict = council[s].verdict
    <2>1. council[s].round + 1 \in 0..CouncilRounds /\ council[s].round + 1 >= 1
      BY <1>0, <1>1, CouncilNumbers DEF Sessions
    <2>2. y \in Sessions
      BY <1>0, <2>1 DEF Sessions, Statuses
    <2> QED BY <1>0, <2>1, <2>2 DEF Sessions, SessionSound
  <1>3. /\ persist([council EXCEPT ![s] = y]) /\ pipeline' = [pipeline EXCEPT ![s] = "brief"]
        /\ asked' = [asked EXCEPT ![s] = {}]
        /\ doubled' = FALSE /\ UNCHANGED <<lateCalls, requests, forced>>
    BY <1>0, <1>1 DEF submitAnswers, Launched, theTickets, CouncilSound
  <1> HIDE DEF y
  <1>4. Snapshot([council EXCEPT ![s] = y], forced)
    BY <1>0, <1>1, <1>2, SnapshotUpdate
  <1>5. SnapshotsSound'
    BY <1>3, <1>4, PersistKeeps DEF CouncilSound
  <1>6. council' = [council EXCEPT ![s] = y] /\ councilCrashes' = councilCrashes
    BY <1>3 DEF persist
  <1>7. CouncilTyped' /\ doubled' = FALSE
    BY <1>1, <1>3, <1>6, CouncilNumbers DEF CouncilSound, CouncilTyped
  <1>8. OtherSessions(s)
    BY <1>0, <1>3, <1>6 DEF OtherSessions, CouncilSound, CouncilTyped
  <1>9. /\ council'[s] = y /\ pipeline'[s] = "brief" /\ requests'[s] = requests[s]
        /\ forced' = forced
    BY <1>0, <1>1, <1>3, <1>6 DEF CouncilSound, CouncilTyped
  <1>10. PipelineSound(s)' /\ TicketSound(s)'
    BY <1>0, <1>1, <1>2, <1>9 DEF PipelineSound, TicketSound
  <1> QED BY <1>5, <1>7, <1>8, <1>10, OneSessionMoves

\* A failed session goes on at the stage that failed.
LEMMA ResumptionIsSound ==
  ASSUME CouncilSound, NEW s \in Councils, resumeCouncil(s)
  PROVE  CouncilSound'
PROOF
  <1>0. /\ council[s] \in Sessions /\ SessionSound(council[s]) /\ PipelineSound(s)
        /\ TicketSound(s)
        /\ council \in [Councils -> Sessions] /\ Snapshot(council, forced)
        /\ forced \subseteq Councils
    BY SessionFacts
  <1>1. /\ council[s].status = "failed" /\ pipeline[s] = "none"
        /\ Cardinality(Active(council)) < CouncilMax /\ council[s].round >= 1
    BY <1>0 DEF resumeCouncil, PipelineSound, SessionSound
  <1> DEFINE y == [council[s] EXCEPT !.status = "running"]
  <1>2. /\ y \in Sessions /\ SessionSound(y) /\ y.status = "running"
        /\ y.verdict = council[s].verdict /\ y.said = council[s].said
    BY <1>0, <1>1, CouncilNumbers DEF Sessions, Statuses, SessionSound
  <1>3. /\ persist([council EXCEPT ![s] = y])
        /\ pipeline' = [pipeline EXCEPT ![s] = IF council[s].answered = council[s].round THEN "chairman" ELSE "brief"]
        /\ asked' = [asked EXCEPT ![s] = {}] /\ doubled' = FALSE
        /\ UNCHANGED <<lateCalls, requests, forced>>
    BY <1>0, <1>1 DEF resumeCouncil, Launched, theTickets, CouncilSound
  <1> HIDE DEF y
  <1>4. Snapshot([council EXCEPT ![s] = y], forced)
    BY <1>0, <1>1, <1>2, SnapshotUpdate
  <1>5. SnapshotsSound'
    BY <1>3, <1>4, PersistKeeps DEF CouncilSound
  <1>6. council' = [council EXCEPT ![s] = y] /\ councilCrashes' = councilCrashes
    BY <1>3 DEF persist
  <1>7. CouncilTyped' /\ doubled' = FALSE
    BY <1>1, <1>3, <1>6, CouncilNumbers DEF CouncilSound, CouncilTyped
  <1>8. OtherSessions(s)
    BY <1>0, <1>3, <1>6 DEF OtherSessions, CouncilSound, CouncilTyped
  <1>9. council'[s] = y /\ pipeline'[s] = (IF council[s].answered = council[s].round THEN "chairman" ELSE "brief") /\ requests'[s] = requests[s] /\ forced' = forced
    BY <1>0, <1>1, <1>3, <1>6 DEF CouncilSound, CouncilTyped
  <1>11. council[s].answered = council[s].round => \A r \in Roles : council[s].said[r] # 0
    BY <1>0, <1>1 DEF Sessions, SessionSound
  <1>10. PipelineSound(s)' /\ TicketSound(s)'
    BY <1>0, <1>1, <1>2, <1>9, <1>11 DEF PipelineSound, TicketSound
  <1> QED BY <1>5, <1>7, <1>8, <1>10, OneSessionMoves

\* The chairman decides, or asks; the last round's verdict is final.
LEMMA VerdictIsSound ==
  ASSUME CouncilSound, NEW s \in Councils, NEW status \in {"decided", "awaiting-answers"},
         pipeline[s] = "chairman",
         council[s].round >= CouncilRounds => status = "decided",
         persist([council EXCEPT ![s].status = status, ![s].verdict = TRUE]), pipeline' = [pipeline EXCEPT ![s] = "none"],
         UNCHANGED <<asked, lateCalls, requests, forced, doubled>>
  PROVE  CouncilSound'
PROOF
  <1>0. /\ council[s] \in Sessions /\ SessionSound(council[s]) /\ PipelineSound(s)
        /\ TicketSound(s)
        /\ council \in [Councils -> Sessions] /\ Snapshot(council, forced)
        /\ forced \subseteq Councils
    BY SessionFacts
  <1>1. council[s].status = "running" \/ (council[s].status = "consumed" /\ s \in forced)
    BY <1>0 DEF PipelineSound
  <1> DEFINE y == [council[s] EXCEPT !.status = status, !.verdict = TRUE]
  <1>2. y \in Sessions /\ SessionSound(y) /\ y.status = status /\ y.verdict = TRUE
    BY <1>0, <1>1, CouncilNumbers DEF Sessions, Statuses, SessionSound
  <1>3. /\ persist([council EXCEPT ![s] = y]) /\ pipeline' = [pipeline EXCEPT ![s] = "none"]
        /\ doubled' = FALSE /\ UNCHANGED <<asked, lateCalls, requests, forced>>
    BY <1>0 DEF CouncilSound
  <1> HIDE DEF y
  <1>4. Snapshot([council EXCEPT ![s] = y], forced)
    BY <1>0, <1>1, <1>2, SnapshotUpdate
  <1>5. SnapshotsSound'
    BY <1>3, <1>4, PersistKeeps DEF CouncilSound
  <1>6. council' = [council EXCEPT ![s] = y] /\ councilCrashes' = councilCrashes
    BY <1>3 DEF persist
  <1>7. CouncilTyped' /\ doubled' = FALSE
    BY <1>1, <1>3, <1>6, CouncilNumbers DEF CouncilSound, CouncilTyped
  <1>8. OtherSessions(s)
    BY <1>0, <1>3, <1>6 DEF OtherSessions, CouncilSound, CouncilTyped
  <1>9. council'[s] = y /\ pipeline'[s] = "none" /\ requests'[s] = requests[s] /\ forced' = forced
    BY <1>0, <1>1, <1>3, <1>6 DEF CouncilSound, CouncilTyped
  <1>10. PipelineSound(s)' /\ TicketSound(s)'
    BY <1>0, <1>1, <1>2, <1>9 DEF PipelineSound, TicketSound
  <1> QED BY <1>5, <1>7, <1>8, <1>10, OneSessionMoves

\* A ticket is made of a session.
LEMMA ConsumptionIsSound ==
  ASSUME CouncilSound, NEW s \in Councils, requests[s] > 0,
         requests' = [requests EXCEPT ![s] = @ - 1],
         council[s].status # "dropped", persist([council EXCEPT ![s].status = "consumed"]),
         UNCHANGED <<pipeline, asked, lateCalls, forced, doubled>>
  PROVE  CouncilSound'
PROOF
  <1>0. /\ council[s] \in Sessions /\ SessionSound(council[s]) /\ PipelineSound(s)
        /\ TicketSound(s)
        /\ council \in [Councils -> Sessions] /\ Snapshot(council, forced)
        /\ forced \subseteq Councils
    BY SessionFacts
  <1>1. /\ requests[s] \in 0..TicketTries /\ requests[s] > 0
        /\ council[s].status \notin {"none", "dropped"}
    <2>1. requests[s] \in 0..TicketTries
      BY DEF CouncilSound, CouncilTyped
    <2>2. council[s].verdict
      BY <1>0 DEF TicketSound
    <2> QED BY <1>0, <2>1, <2>2 DEF SessionSound
  <1> DEFINE y == [council[s] EXCEPT !.status = "consumed"]
  <1>2. /\ y \in Sessions /\ SessionSound(y) /\ y.status = "consumed"
        /\ y.verdict = council[s].verdict /\ y.said = council[s].said
    BY <1>0, <1>1, CouncilNumbers DEF Sessions, Statuses, SessionSound
  <1>3. /\ persist([council EXCEPT ![s] = y])
        /\ requests' = [requests EXCEPT ![s] = requests[s] - 1]
        /\ doubled' = FALSE /\ UNCHANGED <<pipeline, asked, lateCalls, forced>>
    BY <1>0 DEF CouncilSound, CouncilTyped
  <1> HIDE DEF y
  <1>4. Snapshot([council EXCEPT ![s] = y], forced)
    BY <1>0, <1>1, <1>2, SnapshotUpdate
  <1>5. SnapshotsSound'
    BY <1>3, <1>4, PersistKeeps DEF CouncilSound
  <1>6. council' = [council EXCEPT ![s] = y] /\ councilCrashes' = councilCrashes
    BY <1>3 DEF persist
  <1>7. CouncilTyped' /\ doubled' = FALSE
    BY <1>1, <1>3, <1>6, CouncilNumbers DEF CouncilSound, CouncilTyped
  <1>8. OtherSessions(s)
    BY <1>0, <1>3, <1>6 DEF OtherSessions, CouncilSound, CouncilTyped
  <1>9. /\ council'[s] = y /\ pipeline'[s] = pipeline[s] /\ asked'[s] = asked[s]
        /\ requests'[s] = requests[s] - 1 /\ forced' = forced
    BY <1>0, <1>1, <1>3, <1>6 DEF CouncilSound, CouncilTyped
  <1>10. PipelineSound(s)' /\ TicketSound(s)'
    BY <1>0, <1>1, <1>2, <1>9 DEF PipelineSound, TicketSound
  <1> QED BY <1>5, <1>7, <1>8, <1>10, OneSessionMoves

\* A pipeline that runs has a round, and no request for a ticket that was not forced.
LEMMA RunningFacts ==
  ASSUME CouncilSound, NEW s \in Councils, pipeline[s] # "none"
  PROVE  /\ council[s].status = "running" \/ (council[s].status = "consumed" /\ s \in forced)
         /\ council[s].round \in 1..CouncilRounds
PROOF
  <1>0. /\ council[s] \in Sessions /\ SessionSound(council[s]) /\ PipelineSound(s)
        /\ TicketSound(s)
        /\ council \in [Councils -> Sessions] /\ Snapshot(council, forced)
        /\ forced \subseteq Councils
    BY SessionFacts
  <1>1. council[s].status = "running" \/ (council[s].status = "consumed" /\ s \in forced)
    BY <1>0 DEF PipelineSound
  <1>2. council[s].round >= 1 /\ council[s].round \in 0..CouncilRounds
    BY <1>0, <1>1 DEF SessionSound, Sessions
  <1> QED BY <1>1, <1>2, CouncilNumbers

\* The personas are asked, or none can be.
LEMMA AskingIsSound ==
  ASSUME CouncilSound, NEW s \in Councils, AskPersonas(s)
  PROVE  CouncilSound'
PROOF
  <1>0. /\ council[s] \in Sessions /\ SessionSound(council[s]) /\ PipelineSound(s)
        /\ TicketSound(s)
        /\ council \in [Councils -> Sessions] /\ Snapshot(council, forced)
        /\ forced \subseteq Councils
    BY SessionFacts
  <1>1. CASE Failed(s) /\ UNCHANGED lateCalls
    BY <1>1, FailureIsSound DEF AskPersonas, CouncilSound, CouncilTyped
  <1>2. CASE ~(Failed(s) /\ UNCHANGED lateCalls)
    <2>1. /\ pipeline[s] = "brief" /\ pipeline' = [pipeline EXCEPT ![s] = "personas"]
          /\ asked' = [asked EXCEPT ![s] = Roles]
          /\ UNCHANGED <<council, lateCalls, requests, forced, doubled, unsaved, saved,
                         councilCrashes>>
      BY <1>2 DEF AskPersonas, theTickets
    <2>2. SnapshotsSound'
      BY <1>0, <2>1, TouchKeeps DEF CouncilSound
    <2>3. CouncilTyped' /\ doubled' = FALSE
      BY <2>1 DEF CouncilSound, CouncilTyped
    <2>4. OtherSessions(s) /\ pipeline'[s] = "personas" /\ asked'[s] = Roles
      BY <2>1 DEF OtherSessions, CouncilSound, CouncilTyped
    <2>5. PipelineSound(s)' /\ TicketSound(s)'
      BY <1>0, <2>1, <2>4 DEF PipelineSound, TicketSound
    <2> QED BY <2>2, <2>3, <2>4, <2>5, OneSessionMoves
  <1> QED BY <1>1, <1>2

\* A persona fails: the round is over, and nobody waits for the others any more.
LEMMA PersonaFailureIsSound ==
  ASSUME CouncilSound, NEW s \in Councils, NEW r \in Roles, PersonaFails(s, r)
  PROVE  CouncilSound'
PROOF
  <1>1. pipeline[s] = "personas" /\ Failed(s)
    BY DEF PersonaFails
  <1>2. council[s].round \in 1..CouncilRounds
    BY <1>1, RunningFacts
  <1>3. asked[s] \subseteq Roles
    BY DEF CouncilSound, CouncilTyped
  <1>4. {<<q, council[s].round>> : q \in asked[s] \ {r}} \subseteq Roles \X (1..CouncilRounds)
    BY <1>2, <1>3
  <1>5. lateCalls' \in [Councils -> SUBSET (Roles \X (1..CouncilRounds))]
    BY <1>4 DEF PersonaFails, CouncilSound, CouncilTyped
  <1> QED BY <1>1, <1>5, FailureIsSound

\* A persona has spoken; after the last one the chairman is asked.
LEMMA PersonaAnswerIsSound ==
  ASSUME CouncilSound, NEW s \in Councils, NEW r \in Roles, PersonaAnswers(s, r)
  PROVE  CouncilSound'
PROOF
  <1>0. /\ council[s] \in Sessions /\ SessionSound(council[s]) /\ PipelineSound(s)
        /\ TicketSound(s)
        /\ council \in [Councils -> Sessions] /\ Snapshot(council, forced)
        /\ forced \subseteq Councils
    BY SessionFacts
  <1>1. /\ pipeline[s] = "personas" /\ r \in asked[s]
        /\ council[s].status = "running" \/ (council[s].status = "consumed" /\ s \in forced)
        /\ council[s].round \in 1..CouncilRounds
    BY RunningFacts DEF PersonaAnswers
  <1>2. \A q \in Roles : q \in asked[s] \/ council[s].said[q] # 0
    BY <1>0, <1>1 DEF PipelineSound
  <1> DEFINE said == [council[s].said EXCEPT ![r] = council[s].round]
             y == [council[s] EXCEPT !.said = said]
             z == [y EXCEPT !.answered = council[s].round]
  <1>3. /\ council[s].said \in [Roles -> 0..CouncilRounds] /\ said \in [Roles -> 0..CouncilRounds]
        /\ said[r] # 0 /\ \A q \in Roles : q # r => said[q] = council[s].said[q]
    BY <1>0, <1>1, CouncilNumbers DEF Sessions
  <1> HIDE DEF said
  <1>4. /\ y \in Sessions /\ SessionSound(y) /\ y.status = council[s].status
        /\ y.verdict = council[s].verdict
        /\ y.said = said
    BY <1>0, <1>3 DEF Sessions, SessionSound
  <1>5. asked' = [asked EXCEPT ![s] = @ \ {r}] /\ UNCHANGED <<lateCalls, requests, forced,
                                                              doubled>>
    BY DEF PersonaAnswers, theTickets
  <1>6. [council EXCEPT ![s].said[r] = council[s].round] = [council EXCEPT ![s] = y]
    BY <1>0 DEF said
  <1>7. CASE asked[s] = {r}
    <2>1. /\ persist([[council EXCEPT ![s] = y] EXCEPT ![s].answered = council[s].round])
          /\ pipeline' = [pipeline EXCEPT ![s] = "chairman"]
      BY <1>6, <1>7 DEF PersonaAnswers
    <2>2. [[council EXCEPT ![s] = y] EXCEPT ![s].answered = council[s].round] = [council EXCEPT ![s] = z]
      BY <1>0
    <2>3. \A q \in Roles : said[q] # 0
      BY <1>2, <1>3, <1>7
    <2>4. /\ z \in Sessions /\ SessionSound(z) /\ z.status = council[s].status
          /\ z.verdict = council[s].verdict
          /\ z.said = said
      BY <1>0, <1>1, <1>4, <2>3, CouncilNumbers DEF Sessions, SessionSound
    <2> HIDE DEF y, z
    <2>5. Snapshot([council EXCEPT ![s] = z], forced)
      BY <1>0, <1>1, <2>4, SnapshotUpdate
    <2>6. persist([council EXCEPT ![s] = z])
      BY <2>1, <2>2
    <2>7. SnapshotsSound'
      BY <1>5, <2>5, <2>6, PersistKeeps DEF CouncilSound
    <2>8. council' = [council EXCEPT ![s] = z] /\ councilCrashes' = councilCrashes
      BY <2>6 DEF persist
    <2>9. CouncilTyped' /\ doubled' = FALSE
      BY <1>5, <2>1, <2>8 DEF CouncilSound, CouncilTyped
    <2>10. OtherSessions(s) /\ council'[s] = z /\ pipeline'[s] = "chairman"
      BY <1>0, <1>5, <2>1, <2>8 DEF OtherSessions, CouncilSound, CouncilTyped
    <2>11. PipelineSound(s)' /\ TicketSound(s)'
      BY <1>0, <1>1, <1>5, <2>3, <2>4, <2>10 DEF PipelineSound, TicketSound
    <2> QED BY <2>7, <2>9, <2>10, <2>11, OneSessionMoves
  <1>8. CASE asked[s] # {r}
    <2> HIDE DEF y
    <2>1. council' = [council EXCEPT ![s] = y] /\ UNCHANGED <<pipeline, unsaved, saved,
                                                              councilCrashes>>
      BY <1>6, <1>8 DEF PersonaAnswers
    <2>2. Snapshot([council EXCEPT ![s] = y], forced)
      BY <1>0, <1>1, <1>4, SnapshotUpdate
    <2>3. SnapshotsSound'
      BY <1>5, <2>1, <2>2, TouchKeeps DEF CouncilSound
    <2>4. CouncilTyped' /\ doubled' = FALSE
      BY <1>5, <2>1 DEF CouncilSound, CouncilTyped
    <2>5. OtherSessions(s) /\ council'[s] = y /\ asked'[s] = asked[s] \ {r}
      BY <1>0, <1>5, <2>1 DEF OtherSessions, CouncilSound, CouncilTyped
    <2>6. PipelineSound(s)' /\ TicketSound(s)'
      BY <1>0, <1>1, <1>2, <1>3, <1>4, <1>5, <2>1, <2>5 DEF PipelineSound, TicketSound
    <2> QED BY <2>3, <2>4, <2>5, <2>6, OneSessionMoves
  <1> QED BY <1>7, <1>8

\* A persona nobody waits for says something after all, or fails.
LEMMA LateAnswerIsSound ==
  ASSUME CouncilSound, NEW s \in Councils, LateAnswer(s)
  PROVE  CouncilSound'
PROOF
  <1>0. /\ council[s] \in Sessions /\ SessionSound(council[s]) /\ PipelineSound(s)
        /\ TicketSound(s)
        /\ council \in [Councils -> Sessions] /\ Snapshot(council, forced)
        /\ forced \subseteq Councils
    BY SessionFacts
  <1>1. PICK call \in lateCalls[s] :
          /\ lateCalls' = [lateCalls EXCEPT ![s] = @ \ {call}]
          /\ council' = [council EXCEPT ![s].said[call[1]] = call[2]] \/ UNCHANGED council
    BY DEF LateAnswer
  <1>2. UNCHANGED <<pipeline, asked, requests, forced, doubled, unsaved, saved, councilCrashes>>
    BY DEF LateAnswer, theTickets
  <1>3. lateCalls[s] \subseteq Roles \X (1..CouncilRounds)
    BY DEF CouncilSound, CouncilTyped
  <1>4. call[1] \in Roles /\ call[2] \in 1..CouncilRounds
    BY <1>3
  <1> DEFINE said == [council[s].said EXCEPT ![call[1]] = call[2]]
             y == [council[s] EXCEPT !.said = said]
  <1>5. /\ said \in [Roles -> 0..CouncilRounds]
        /\ \A q \in Roles : council[s].said[q] # 0 => said[q] # 0
    BY <1>0, <1>4, CouncilNumbers DEF Sessions
  <1>6. [council EXCEPT ![s].said[call[1]] = call[2]] = [council EXCEPT ![s] = y]
    BY <1>0
  <1> HIDE DEF said
  <1>7. /\ y \in Sessions /\ SessionSound(y) /\ y.status = council[s].status
        /\ y.verdict = council[s].verdict
        /\ \A q \in Roles : council[s].said[q] # 0 => y.said[q] # 0
    BY <1>0, <1>5 DEF Sessions, SessionSound
  <1> HIDE DEF y
  <1>8. Snapshot([council EXCEPT ![s] = y], forced)
    BY <1>0, <1>7, SnapshotUpdate
  <1>9. SnapshotsSound'
    BY <1>0, <1>1, <1>2, <1>6, <1>8, TouchKeeps DEF CouncilSound
  <1>10. CouncilTyped' /\ doubled' = FALSE
    BY <1>1, <1>2 DEF CouncilSound, CouncilTyped
  <1>11. OtherSessions(s) /\ (council'[s] = y \/ council'[s] = council[s])
    BY <1>0, <1>1, <1>2, <1>6 DEF OtherSessions
  <1>12. PipelineSound(s)' /\ TicketSound(s)'
    BY <1>0, <1>2, <1>7, <1>11 DEF PipelineSound, TicketSound
  <1> QED BY <1>9, <1>10, <1>11, <1>12, OneSessionMoves

\* A ticket is asked for.
LEMMA AskTicketIsSound ==
  ASSUME CouncilSound, NEW s \in Councils, AskTicket(s)
  PROVE  CouncilSound'
PROOF
  <1>0. /\ council[s] \in Sessions /\ SessionSound(council[s]) /\ PipelineSound(s)
        /\ TicketSound(s)
        /\ council \in [Councils -> Sessions] /\ Snapshot(council, forced)
        /\ forced \subseteq Councils
    BY SessionFacts
  <1>1. /\ requests[s] < TicketTries /\ council[s].status \in {"decided", "awaiting-answers"}
        /\ forced' = IF council[s].status = "decided" THEN forced ELSE forced \cup {s}
        /\ requests' = [requests EXCEPT ![s] = @ + 1]
        /\ UNCHANGED <<council, pipeline, asked, lateCalls, doubled, unsaved, saved,
                       councilCrashes>>
    BY DEF AskTicket
  <1>2. /\ forced \subseteq forced' /\ forced' \subseteq forced \cup {s}
        /\ forced' \subseteq Councils
    BY <1>0, <1>1
  <1>3. SnapshotsSound'
    <2>1. Snapshot(council, forced') /\ Snapshot(saved, forced')
      BY <1>0, <1>2, SnapshotLater DEF CouncilSound, SnapshotsSound
    <2>2. \A i \in 1..Len(unsaved) : Snapshot(unsaved[i], forced')
      BY <1>2, SnapshotLater DEF CouncilSound, SnapshotsSound
    <2> QED BY <1>1, <1>2, <2>1, <2>2 DEF CouncilSound, SnapshotsSound
  <1>4. requests[s] \in 0..TicketTries
    BY DEF CouncilSound, CouncilTyped
  <1>5. CouncilTyped' /\ doubled' = FALSE
    BY <1>1, <1>4, CouncilNumbers DEF CouncilSound, CouncilTyped
  <1>6. OtherSessions(s)
    BY <1>1, <1>2 DEF OtherSessions, CouncilSound, CouncilTyped
  <1>7. PipelineSound(s)' /\ TicketSound(s)'
    BY <1>0, <1>1, <1>2 DEF PipelineSound, TicketSound, SessionSound
  <1> QED BY <1>3, <1>5, <1>6, <1>7, OneSessionMoves

\* The request ends, with a ticket or without.
LEMMA TicketIsSound ==
  ASSUME CouncilSound, NEW s \in Councils, createTicketFromCouncil(s)
  PROVE  CouncilSound'
PROOF
  <1>0. /\ council[s] \in Sessions /\ SessionSound(council[s]) /\ PipelineSound(s)
        /\ TicketSound(s)
        /\ council \in [Councils -> Sessions] /\ Snapshot(council, forced)
        /\ forced \subseteq Councils
    BY SessionFacts
  <1>1. /\ requests[s] > 0 /\ requests' = [requests EXCEPT ![s] = @ - 1]
        /\ UNCHANGED <<pipeline, asked, lateCalls, forced, doubled>>
    BY DEF createTicketFromCouncil
  <1>2. CASE council[s].status # "dropped" /\ persist([council EXCEPT ![s].status = "consumed"])
    BY <1>1, <1>2, ConsumptionIsSound
  <1>3. CASE ~(council[s].status # "dropped" /\ persist([council EXCEPT ![s].status = "consumed"]))
    <2>1. (persist(council) \/ UNCHANGED <<council, unsaved, saved, councilCrashes>>)
      BY <1>3 DEF createTicketFromCouncil
    <2>2. council' = council /\ councilCrashes' = councilCrashes
      BY <2>1 DEF persist
    <2>3. SnapshotsSound'
      BY <1>0, <1>1, <2>1, PersistKeeps, TouchKeeps DEF CouncilSound
    <2>4. requests[s] \in 0..TicketTries
      BY DEF CouncilSound, CouncilTyped
    <2>5. CouncilTyped' /\ doubled' = FALSE
      BY <1>1, <2>2, <2>4, CouncilNumbers DEF CouncilSound, CouncilTyped
    <2>6. OtherSessions(s) /\ requests'[s] = requests[s] - 1
      BY <1>1, <2>2 DEF OtherSessions, CouncilSound, CouncilTyped
    <2>7. PipelineSound(s)' /\ TicketSound(s)'
      BY <1>0, <1>1, <2>2, <2>4, <2>6 DEF PipelineSound, TicketSound
    <2> QED BY <2>3, <2>5, <2>6, <2>7, OneSessionMoves
  <1> QED BY <1>2, <1>3

\* A session starts, and the oldest that are over are dropped.
LEMMA StartIsSound ==
  ASSUME CouncilSound, NEW s \in Councils, startCouncil(s)
  PROVE  CouncilSound'
PROOF
  <1>0. /\ council[s] \in Sessions /\ SessionSound(council[s]) /\ PipelineSound(s)
        /\ TicketSound(s)
        /\ council \in [Councils -> Sessions] /\ Snapshot(council, forced)
        /\ forced \subseteq Councils
    BY SessionFacts
  <1> DEFINE new == [NoSession EXCEPT !.status = "running", !.round = 1]
  <1>1. PICK dropped \in SUBSET {t \in Councils \ Active(council) : council[t].status \notin {"none", "dropped"}} :
          /\ persist([t \in Councils |-> IF t = s THEN new ELSE IF t \in dropped THEN Dropped ELSE council[t]])
          /\ pipeline' = [t \in Councils |-> IF t = s THEN "brief" ELSE IF t \in dropped THEN "none" ELSE pipeline[t]]
          /\ asked' = [t \in Councils |-> IF t \in dropped THEN {} ELSE asked[t]]
          /\ lateCalls' = [t \in Councils |-> IF t \in dropped THEN {} ELSE lateCalls[t]]
    BY DEF startCouncil
  <1>2. /\ council[s].status = "none" /\ Cardinality(Active(council)) < CouncilMax
        /\ UNCHANGED <<requests, forced, doubled>>
    BY DEF startCouncil, theTickets
  <1> DEFINE next == [t \in Councils |-> IF t = s THEN new ELSE IF t \in dropped THEN Dropped ELSE council[t]]
  <1>3. /\ new \in Sessions /\ SessionSound(new) /\ new.status = "running" /\ Dropped \in Sessions
        /\ SessionSound(Dropped)
        /\ Dropped.status = "dropped"
    <2>1. /\ NoSession \in Sessions /\ NoSession.status = "none" /\ NoSession.round = 0
          /\ NoSession.answered = 0
          /\ ~NoSession.verdict
      BY CouncilNumbers DEF NoSession, Sessions, Statuses
    <2>2. new \in Sessions /\ SessionSound(new) /\ new.status = "running"
      <3>1. 1 \in 0..CouncilRounds
        BY CouncilNumbers
      <3>2. new \in Sessions
        BY <2>1, <3>1 DEF Sessions, Statuses
      <3>3. new.status = "running" /\ new.round = 1 /\ new.answered = 0
        BY <2>1 DEF Sessions
      <3> HIDE DEF new
      <3> QED BY <3>2, <3>3 DEF SessionSound
    <2>3. Dropped \in Sessions /\ SessionSound(Dropped) /\ Dropped.status = "dropped"
      BY <2>1, CouncilNumbers DEF Dropped, Sessions, Statuses, SessionSound
    <2> QED BY <2>2, <2>3
  <1> HIDE DEF new
  <1>4. next \in [Councils -> Sessions] /\ \A t \in Councils : SessionSound(next[t])
    BY <1>0, <1>3 DEF Snapshot
  <1>5. Cardinality(Active(next) \ forced) <= CouncilMax
    <2>1. Active(next) \ forced \subseteq Active(council) \cup {s}
      BY <1>3 DEF Active
    <2>2. /\ IsFiniteSet(Active(council)) /\ s \notin Active(council)
          /\ Cardinality(Active(council)) \in Nat
      BY <1>2, CouncilNumbers, FS_Subset, FS_CardinalityType DEF Active
    <2>3. /\ IsFiniteSet(Active(council) \cup {s})
          /\ Cardinality(Active(council) \cup {s}) = Cardinality(Active(council)) + 1
      BY <2>2, FS_AddElement
    <2>4. /\ Cardinality(Active(next) \ forced) \in Nat
          /\ Cardinality(Active(next) \ forced) <= Cardinality(Active(council) \cup {s})
      BY <2>1, <2>3, FS_Subset, FS_CardinalityType
    <2> HIDE DEF next
    <2> QED BY <1>2, <2>2, <2>3, <2>4, CouncilNumbers
  <1>6. Snapshot(next, forced)
    BY <1>4, <1>5 DEF Snapshot
  <1>7. SnapshotsSound'
    BY <1>1, <1>2, <1>6, PersistKeeps DEF CouncilSound
  <1>8. council' = next /\ councilCrashes' = councilCrashes
    BY <1>1 DEF persist
  <1>9. CouncilTyped' /\ doubled' = FALSE
    BY <1>1, <1>2, <1>8 DEF CouncilSound, CouncilTyped
  <1>10. requests[s] = 0
    <2>1. requests[s] \in 0..TicketTries
      BY DEF CouncilSound, CouncilTyped
    <2> QED BY <1>0, <1>2, <2>1 DEF TicketSound, SessionSound
  <1>11. ASSUME NEW t \in Councils PROVE PipelineSound(t)' /\ TicketSound(t)'
    <2>1. PipelineSound(t) /\ TicketSound(t)
      BY DEF CouncilSound
    <2>2. CASE t = s
      <3>1. council'[t] = new /\ pipeline'[t] = "brief" /\ requests'[t] = 0
        BY <1>1, <1>2, <1>8, <1>10, <2>2
      <3> QED BY <1>3, <3>1 DEF PipelineSound, TicketSound
    <2>3. CASE t # s /\ t \in dropped
      <3>1. council'[t] = Dropped /\ pipeline'[t] = "none"
        BY <1>1, <1>8, <2>3
      <3> QED BY <1>3, <3>1 DEF PipelineSound, TicketSound
    <2>4. CASE t # s /\ t \notin dropped
      <3>1. /\ council'[t] = council[t] /\ pipeline'[t] = pipeline[t] /\ asked'[t] = asked[t]
            /\ requests' = requests /\ forced' = forced
        BY <1>1, <1>2, <1>8, <2>4
      <3> QED BY <2>1, <3>1 DEF PipelineSound, TicketSound
    <2> QED BY <2>2, <2>3, <2>4
  <1> QED BY <1>7, <1>9, <1>11 DEF CouncilSound

\* A write lands.
LEMMA SaveIsSound ==
  ASSUME CouncilSound, SaveLands
  PROVE  CouncilSound'
PROOF
  <1>1. /\ unsaved # <<>> /\ saved' = Head(unsaved) /\ unsaved' = Tail(unsaved)
        /\ UNCHANGED <<council, pipeline, asked, lateCalls, requests, forced, doubled,
                       councilCrashes>>
    BY DEF SaveLands, theTickets
  <1>2. unsaved \in Seq([Councils -> Sessions]) /\ Len(unsaved) <= UnsavedMax /\ \A i \in 1..Len(unsaved) : Snapshot(unsaved[i], forced)
    BY DEF CouncilSound, SnapshotsSound
  <1>3. /\ Len(unsaved) \in Nat /\ Len(unsaved) >= 1 /\ saved' = unsaved[1]
        /\ Tail(unsaved) \in Seq([Councils -> Sessions])
        /\ Len(Tail(unsaved)) = Len(unsaved) - 1 /\ \A i \in 1..Len(Tail(unsaved)) : Tail(unsaved)[i] = unsaved[i + 1]
    BY <1>1, <1>2
  <1>4. Snapshot(saved', forced) /\ \A i \in 1..Len(unsaved') : Snapshot(unsaved'[i], forced)
    <2>1. Snapshot(saved', forced)
      BY <1>2, <1>3
    <2>2. \A i \in 1..Len(unsaved') : i + 1 \in 1..Len(unsaved) /\ unsaved'[i] = unsaved[i + 1]
      BY <1>1, <1>3
    <2> QED BY <1>2, <2>1, <2>2
  <1>5. Len(unsaved') <= UnsavedMax
    BY <1>1, <1>2, <1>3, CouncilNumbers
  <1>6. SnapshotsSound'
    BY <1>1, <1>3, <1>4, <1>5 DEF CouncilSound, SnapshotsSound
  <1> QED BY <1>1, <1>6 DEF CouncilSound, CouncilTyped, PipelineSound, TicketSound

\* After a crash, what cannot go on is reported as failed.
LEMMA RestartIsSound ==
  ASSUME CouncilSound, Restart
  PROVE  CouncilSound'
PROOF
  <1>1. /\ councilCrashes < CouncilCrashes /\ councilCrashes' = councilCrashes + 1
        /\ council' = Recovered(saved) /\ unsaved' = <<Recovered(saved)>> /\ saved' = saved
        /\ pipeline' = [s \in Councils |-> "none"] /\ asked' = [s \in Councils |-> {}]
        /\ lateCalls' = [s \in Councils |-> {}] /\ requests' = [s \in Councils |-> 0]
        /\ forced' = forced /\ doubled' = doubled
    BY DEF Restart
  <1>2. Snapshot(saved, forced) /\ saved \in [Councils -> Sessions]
    BY DEF CouncilSound, SnapshotsSound, Snapshot
  <1> DEFINE c == Recovered(saved)
  <1>3. ASSUME NEW s \in Councils
        PROVE  /\ c[s] \in Sessions /\ SessionSound(c[s]) /\ c[s].status # "running"
               /\ c[s].status = "awaiting-answers" => saved[s].status = "awaiting-answers"
    <2>1. saved[s] \in Sessions /\ SessionSound(saved[s])
      BY <1>2 DEF Snapshot
    <2>2. c[s] = IF saved[s].status = "running" THEN [saved[s] EXCEPT !.status = "failed"] ELSE saved[s]
      BY DEF Recovered
    <2> HIDE DEF c
    <2> QED BY <2>1, <2>2 DEF Sessions, Statuses, SessionSound
  <1>4. c \in [Councils -> Sessions]
    BY <1>3 DEF Recovered
  <1> HIDE DEF c
  <1>5. Active(c) \ forced \subseteq Active(saved) \ forced
    BY <1>3 DEF Active
  <1>6. Cardinality(Active(c) \ forced) <= CouncilMax
    <2>1. IsFiniteSet(Active(saved) \ forced)
      BY CouncilNumbers, FS_Subset DEF Active
    <2>2. /\ Cardinality(Active(c) \ forced) <= Cardinality(Active(saved) \ forced)
          /\ Cardinality(Active(c) \ forced) \in Nat
          /\ Cardinality(Active(saved) \ forced) \in Nat
      BY <1>5, <2>1, FS_Subset, FS_CardinalityType
    <2> QED BY <1>2, <2>2, CouncilNumbers DEF Snapshot
  <1>7. Snapshot(c, forced)
    BY <1>3, <1>4, <1>6 DEF Snapshot
  <1>8. unsaved' = <<c>> /\ council' = c
    BY <1>1 DEF c
  <1>9. unsaved' \in Seq([Councils -> Sessions]) /\ Len(unsaved') = 1 /\ unsaved'[1] = c
    BY <1>4, <1>8
  <1>10. SnapshotsSound'
    <2>1. \A i \in 1..Len(unsaved') : Snapshot(unsaved'[i], forced)
      BY <1>7, <1>9
    <2>2. Len(unsaved') <= UnsavedMax
      BY <1>9, CouncilNumbers
    <2> QED BY <1>1, <1>2, <1>7, <1>8, <1>9, <2>1, <2>2 DEF CouncilSound, SnapshotsSound
  <1>11. CouncilTyped' /\ doubled' = FALSE
    BY <1>1, CouncilNumbers DEF CouncilSound, CouncilTyped
  <1>12. ASSUME NEW s \in Councils PROVE PipelineSound(s)' /\ TicketSound(s)'
    BY <1>1, <1>3, <1>8 DEF PipelineSound, TicketSound
  <1> QED BY <1>10, <1>11, <1>12 DEF CouncilSound

\* What the properties say is part of it.
LEMMA SoundIsEnough ==
  ASSUME CouncilSound
  PROVE  CouncilInv
PROOF
  <1>1. CouncilTypeOK
    <2>1. DOMAIN unsaved = 1..Len(unsaved)
      BY DEF CouncilSound, SnapshotsSound
    <2>2. \A i \in DOMAIN unsaved : unsaved[i] \in [Councils -> Sessions]
      BY <2>1 DEF CouncilSound, SnapshotsSound, Snapshot
    <2>3. /\ council \in [Councils -> Sessions] /\ saved \in [Councils -> Sessions]
          /\ forced \subseteq Councils
          /\ Len(unsaved) <= UnsavedMax /\ doubled \in BOOLEAN
      BY DEF CouncilSound, SnapshotsSound, Snapshot
    <2>4. \A s \in Councils : asked[s] \subseteq Roles /\ lateCalls[s] \subseteq Roles \X (1..CouncilRounds)
      BY DEF CouncilSound, CouncilTyped
    <2> QED BY <2>2, <2>3, <2>4 DEF CouncilSound, CouncilTyped, CouncilTypeOK
  <1>2. PipelinesMatch
    BY DEF CouncilSound, PipelineSound, PipelinesMatch
  <1>3. CapHeld
    BY DEF CouncilSound, SnapshotsSound, Snapshot, CapHeld
  <1>4. ChairmanInformed
    BY DEF CouncilSound, PipelineSound, TicketSound, ChairmanInformed
  <1> QED BY <1>1, <1>2, <1>3, <1>4 DEF CouncilInv

\* No session is shown as running with nothing behind it, also after a crash; at most MAX_ACTIVE are
\* active; the chairman is asked when each persona has spoken, and a ticket is made of a verdict.
THEOREM CouncilHolds == CouncilSpec => []CouncilInv
PROOF
  <1>1. CouncilInit => CouncilSound
    <2> SUFFICES ASSUME CouncilInit PROVE CouncilSound
      OBVIOUS
    <2>1. NoSession \in Sessions /\ SessionSound(NoSession) /\ NoSession.status = "none"
      BY CouncilNumbers DEF NoSession, Sessions, Statuses, SessionSound
    <2>2. /\ council = [s \in Councils |-> NoSession] /\ saved = council /\ forced = {}
          /\ unsaved = <<>> /\ doubled = FALSE
      BY DEF CouncilInit
    <2>3. Active(council) \ forced = {}
      BY <2>1, <2>2 DEF Active
    <2>4. Cardinality(Active(council) \ forced) <= CouncilMax
      BY <2>3, FS_EmptySet, CouncilNumbers
    <2>5. Snapshot(council, forced) /\ Snapshot(saved, forced)
      BY <2>1, <2>2, <2>4 DEF Snapshot
    <2>6. unsaved \in Seq([Councils -> Sessions]) /\ Len(unsaved) = 0
      BY <2>2
    <2>7. SnapshotsSound
      BY <2>2, <2>5, <2>6, CouncilNumbers DEF SnapshotsSound
    <2>8. CouncilTyped
      BY CouncilNumbers DEF CouncilInit, CouncilTyped
    <2>9. \A s \in Councils : PipelineSound(s) /\ TicketSound(s)
      BY <2>1, <2>2 DEF CouncilInit, PipelineSound, TicketSound
    <2> QED BY <2>2, <2>7, <2>8, <2>9 DEF CouncilSound
  <1>2. CouncilSound /\ [CouncilNext]_councilVars => CouncilSound'
    <2> SUFFICES ASSUME CouncilSound, [CouncilNext]_councilVars PROVE CouncilSound'
      OBVIOUS
    <2>1. ASSUME NEW s \in Councils, startCouncil(s) \/ AskPersonas(s) PROVE CouncilSound'
      BY <2>1, StartIsSound, AskingIsSound
    <2>2. ASSUME NEW s \in Councils, PersonaEnds(s) PROVE CouncilSound'
      BY <2>2, PersonaAnswerIsSound, PersonaFailureIsSound DEF PersonaEnds
    <2>3. ASSUME NEW s \in Councils, LateAnswer(s) PROVE CouncilSound'
      BY <2>3, LateAnswerIsSound
    <2>4. ASSUME NEW s \in Councils, ChairmanEnds(s) PROVE CouncilSound'
      <3>1. CASE ChairmanFails(s)
        <4>1. pipeline[s] # "none" /\ Failed(s)
          BY <3>1 DEF ChairmanFails
        <4>2. lateCalls' \in [Councils -> SUBSET (Roles \X (1..CouncilRounds))]
          BY <3>1 DEF ChairmanFails, CouncilSound, CouncilTyped
        <4> QED BY <4>1, <4>2, FailureIsSound
      <3>2. CASE ChairmanDecides(s)
        <4>1. PICK status \in {"decided", "awaiting-answers"} :
                /\ council[s].round >= CouncilRounds => status = "decided"
                /\ persist([council EXCEPT ![s].status = status, ![s].verdict = TRUE])
          BY <3>2 DEF ChairmanDecides
        <4>2. /\ pipeline[s] = "chairman" /\ pipeline' = [pipeline EXCEPT ![s] = "none"]
              /\ UNCHANGED <<asked, lateCalls, requests, forced, doubled>>
          BY <3>2 DEF ChairmanDecides, theTickets
        <4> QED BY <4>1, <4>2, VerdictIsSound
      <3> QED BY <2>4, <3>1, <3>2 DEF ChairmanEnds
    <2>5. ASSUME NEW s \in Councils, submitAnswers(s) \/ resumeCouncil(s) PROVE CouncilSound'
      BY <2>5, AnswersAreSound, ResumptionIsSound
    <2>6. ASSUME NEW s \in Councils, AskTicket(s) \/ createTicketFromCouncil(s)
          PROVE  CouncilSound'
      BY <2>6, AskTicketIsSound, TicketIsSound
    <2>7. CASE SaveLands \/ Restart
      BY <2>7, SaveIsSound, RestartIsSound
    <2>8. CASE UNCHANGED councilVars
      <3>1. UNCHANGED <<council, pipeline, asked, lateCalls, requests, forced, doubled, unsaved,
                        saved, councilCrashes>>
        BY <2>8 DEF councilVars
      <3>2. SnapshotsSound' /\ CouncilTyped' /\ doubled' = FALSE
        BY <3>1 DEF CouncilSound, SnapshotsSound, CouncilTyped
      <3>3. \A s \in Councils : PipelineSound(s)' /\ TicketSound(s)'
        BY <3>1 DEF CouncilSound, PipelineSound, TicketSound
      <3> QED BY <3>2, <3>3 DEF CouncilSound
    <2> QED BY <2>1, <2>2, <2>3, <2>4, <2>5, <2>6, <2>7, <2>8 DEF CouncilNext
  <1>3. CouncilSound => CouncilInv
    BY SoundIsEnough
  <1> QED BY <1>1, <1>2, <1>3, PTL DEF CouncilSpec

-------------------------------------------------------------------------------
(* The runner.  What a turn has read is no newer than the ticket, and at    *)
(* the same version it is the ticket; while nobody acts out of turn a       *)
(* worker that holds a claim is alone on a ticket in progress, so that the  *)
(* report of a ticket in review is of the claim it came from.               *)

Items == [status : {"open", "planned", "in_progress", "review", "closed"}, version : Nat,
          body : Nat, must : BOOLEAN, verified : BOOLEAN]
PostRecords == [good : BOOLEAN, turnOf : Nat]
TurnSteps == {"idle", "picked", "claimed", "agent", "answered", "posted"}
Turns == [at : TurnSteps, seen : Items \cup {[version |-> 0]}, read : PostRecords, good : BOOLEAN]

RunnerStates ==
  /\ item \in Items /\ item.version \in 1..TicketVersions
  /\ posts \in [{"plan", "report", "review"} -> PostRecords]
  /\ turn \in [Runners -> Turns]
  /\ editing \in Nat /\ outOfTurn \in BOOLEAN

SeenOf(t) ==
  t.at # "idle" =>
    /\ t.seen \in Items /\ t.seen.version <= item.version
    /\ t.seen.version = item.version =>
         t.seen.status = item.status /\ t.seen.body = item.body /\ t.seen.must = item.must
SeenSound == \A r \in Runners : SeenOf(turn[r])

ClaimsSound ==
  /\ \A r \in Runners : Holding(r) => turn[r].seen.status = "in_progress"
  /\ \A r \in Runners, other \in Runners : Holding(r) /\ Holding(other) /\ r # other =>
       turn[r].seen.version # turn[other].seen.version
  /\ \A r \in Runners : turn[r].at = "claimed" => RunnerRole[r] = "work"
  /\ \A r \in Runners : turn[r].at = "picked" => RunnerRole[r] # "plan"

InTurn(r) ==
  /\ turn[r].at # "idle" /\ ~Holding(r) => turn[r].seen.status = Taken(r)
  /\ Holding(r) => item.status = "in_progress" /\ \A other \in Runners : Holding(other) => other = r
  /\ Holding(r) /\ turn[r].at = "posted" => posts["report"] = [good |-> turn[r].good, turnOf |-> turn[r].seen.version]
ReportOf(post) == post.good /\ (editing = 0 => post.turnOf = item.version - 1)
TurnsInOrder ==
  ~outOfTurn =>
    /\ \A r \in Runners : InTurn(r)
    /\ item.status = "review" => ReportOf(posts["report"])

RunnerInductive ==
  RunnerStates /\ SeenSound /\ ClaimsSound /\ ClosedAsReviewed /\ TurnsInOrder /\ ReportOfTheClaim

LEMMA RunnerConstants ==
  /\ RunnerRole \in [Runners -> {"plan", "work", "review"}] /\ TicketVersions \in Nat /\ 1 \in 1..TicketVersions
  /\ \A r \in Runners : Taken(r) # "in_progress" /\ RunnerRole[r] \in {"plan", "work", "review"}
<1>1. RunnerRole \in [Runners -> {"plan", "work", "review"}] /\ TicketVersions \in Nat /\ 1 \in 1..TicketVersions
  BY RunnerAssumption DEF RunnerAssumption
<1>2. \A r \in Runners : RunnerRole[r] \in {"plan", "work", "review"}
  BY <1>1
<1>3. \A r \in Runners : Taken(r) # "in_progress"
  BY <1>2 DEF Taken
<1>4. QED
  BY <1>1, <1>2, <1>3

LEMMA NoTurnTyped == NoTurn \in Turns /\ NoTurn.at = "idle"
  BY DEF NoTurn, NoPost, Turns, TurnSteps, PostRecords

LEMMA PatchedSound ==
  ASSUME item \in Items, item.version \in 1..TicketVersions, item.version < TicketVersions, NEW to \in Items
  PROVE  /\ Patched(to) \in Items /\ Patched(to).version \in 1..TicketVersions
         /\ Patched(to).version = item.version + 1 /\ Patched(to).status = to.status
         /\ Patched(to).body = to.body /\ Patched(to).must = to.must /\ Patched(to).verified = to.verified
<1>1. TicketVersions \in Nat /\ item.version \in Nat
  BY RunnerConstants
<1>2. QED
  BY <1>1 DEF Patched, Items

LEMMA MovedTyped ==
  ASSUME item \in Items, NEW s \in {"open", "planned", "in_progress", "review", "closed"}
  PROVE  /\ Moved(s) \in Items /\ Moved(s).status = s /\ Moved(s).body = item.body
         /\ Moved(s).must = item.must /\ Moved(s).verified = item.verified
  BY DEF Moved, Items

\* A turn that does not move has read no more after a step that raises the version, or keeps what it read.
LEMMA SeenKept ==
  ASSUME RunnerStates, RunnerStates', NEW r \in Runners, SeenOf(turn[r]), turn'[r] = turn[r],
         \/ item'.version = item.version + 1
         \/ /\ item'.version = item.version /\ item'.status = item.status
            /\ item'.body = item.body /\ item'.must = item.must
  PROVE  SeenOf(turn[r])'
<1> USE DEF SeenOf
<1>1. /\ item.version \in Nat /\ item'.version \in Nat
      /\ turn[r].at # "idle" => turn[r].seen.version \in Nat
  BY DEF RunnerStates, Items
<1>2. QED
  BY <1>1

\* A turn ends, and nothing else changes.
LEMMA RunnerTurnEnds ==
  ASSUME RunnerInductive, NEW r \in Runners, turn' = [turn EXCEPT ![r] = NoTurn],
         UNCHANGED <<item, posts, closes, editing, outOfTurn>>
  PROVE  RunnerInductive'
<1>1. /\ RunnerStates /\ SeenSound /\ ClaimsSound /\ ClosedAsReviewed /\ TurnsInOrder /\ ReportOfTheClaim
      /\ turn \in [Runners -> Turns]
  BY DEF RunnerInductive, RunnerStates
<1>2. /\ turn' \in [Runners -> Turns] /\ turn'[r].at = "idle"
      /\ \A x \in Runners \ {r} : turn'[x] = turn[x]
  BY <1>1, NoTurnTyped
<1>3. RunnerStates' /\ ClosedAsReviewed'
  BY <1>1, <1>2 DEF RunnerStates, ClosedAsReviewed
<1>4. SeenSound'
  BY <1>1, <1>2 DEF SeenSound, SeenOf
<1>5. ClaimsSound'
  BY <1>1, <1>2 DEF ClaimsSound, Holding
<1>6. TurnsInOrder'
  BY <1>1, <1>2 DEF TurnsInOrder, InTurn, Holding, Taken, ReportOf
<1>7. ReportOfTheClaim'
  BY <1>1, <1>2 DEF ReportOfTheClaim
<1>8. QED
  BY <1>3, <1>4, <1>5, <1>6, <1>7 DEF RunnerInductive

LEMMA RunnerStarts == RunnerInit => RunnerInductive
<1> SUFFICES ASSUME RunnerInit PROVE RunnerInductive
  OBVIOUS
<1>1. /\ item = [status |-> "open", version |-> 1, body |-> 1, must |-> FALSE, verified |-> FALSE]
      /\ posts = [k \in {"plan", "report", "review"} |-> NoPost] /\ turn = [r \in Runners |-> NoTurn]
      /\ closes = {} /\ editing = 0 /\ outOfTurn = FALSE
  BY DEF RunnerInit
<1>2. NoPost \in PostRecords
  BY DEF NoPost, PostRecords
<1>3. item \in Items /\ item.version \in 1..TicketVersions
  BY <1>1, RunnerConstants DEF Items
<1>4. RunnerStates
  BY <1>1, <1>2, <1>3, NoTurnTyped DEF RunnerStates
<1>5. \A r \in Runners : turn[r].at = "idle"
  BY <1>1, NoTurnTyped
<1>6. SeenSound /\ ClaimsSound /\ ClosedAsReviewed /\ ReportOfTheClaim
  BY <1>1, <1>5 DEF SeenSound, SeenOf, ClaimsSound, Holding, ClosedAsReviewed, ReportOfTheClaim
<1>7. TurnsInOrder
  BY <1>1, <1>5 DEF TurnsInOrder, InTurn, Holding
<1>8. QED
  BY <1>4, <1>6, <1>7 DEF RunnerInductive

LEMMA PickUpSound ==
  ASSUME RunnerInductive, NEW r \in Runners, PickUp(r)
  PROVE  RunnerInductive'
<1>1. /\ RunnerStates /\ SeenSound /\ ClaimsSound /\ ClosedAsReviewed /\ TurnsInOrder /\ ReportOfTheClaim
      /\ turn \in [Runners -> Turns] /\ item \in Items /\ item.version \in Nat
  BY DEF RunnerInductive, RunnerStates, Items
<1>2. /\ turn[r].at = "idle"
      /\ turn' = [turn EXCEPT ![r] = [NoTurn EXCEPT !.at = IF RunnerRole[r] = "plan" THEN "agent" ELSE "picked", !.seen = item]]
      /\ outOfTurn' = (outOfTurn \/ item.status # Taken(r))
      /\ UNCHANGED <<item, posts, closes, editing>>
  BY DEF PickUp
<1> DEFINE new == [NoTurn EXCEPT !.at = IF RunnerRole[r] = "plan" THEN "agent" ELSE "picked", !.seen = item]
<1>3. /\ new \in Turns /\ new.seen = item
      /\ new.at = IF RunnerRole[r] = "plan" THEN "agent" ELSE "picked"
  BY <1>1 DEF NoTurn, NoPost, Turns, TurnSteps, PostRecords
<1> HIDE DEF new
<1>4. /\ turn' \in [Runners -> Turns] /\ turn'[r] = new
      /\ \A x \in Runners \ {r} : turn'[x] = turn[x]
  BY <1>1, <1>2, <1>3 DEF new
<1>5. RunnerStates' /\ ClosedAsReviewed'
  BY <1>1, <1>2, <1>4 DEF RunnerStates, ClosedAsReviewed
<1>6. SeenSound'
  BY <1>1, <1>2, <1>3, <1>4 DEF SeenSound, SeenOf
<1>7. \A x \in Runners : Holding(x)' => x # r /\ Holding(x)
  BY <1>3, <1>4 DEF Holding
<1>8. ClaimsSound'
  BY <1>1, <1>3, <1>4, <1>7 DEF ClaimsSound
<1>9. TurnsInOrder'
  <2> SUFFICES ASSUME ~outOfTurn' PROVE (\A x \in Runners : InTurn(x)') /\ (item'.status = "review" => ReportOf(posts["report"])')
    BY DEF TurnsInOrder
  <2>1. ~outOfTurn /\ item.status = Taken(r)
    BY <1>1, <1>2 DEF RunnerStates
  <2>2. InTurn(r)'
    BY <1>2, <1>3, <1>4, <1>7, <2>1 DEF InTurn, Taken
  <2>3. ASSUME NEW x \in Runners \ {r} PROVE InTurn(x)'
    BY <1>1, <1>2, <1>4, <1>7, <2>1, <2>3 DEF TurnsInOrder, InTurn, Taken, Holding
  <2>4. item'.status = "review" => ReportOf(posts["report"])'
    BY <1>1, <1>2, <2>1 DEF TurnsInOrder, ReportOf
  <2>5. QED
    BY <2>2, <2>3, <2>4
<1>10. ReportOfTheClaim'
  BY <1>1, <1>2, <1>3, <1>4 DEF ReportOfTheClaim, RunnerStates
<1>11. QED
  BY <1>5, <1>6, <1>8, <1>9, <1>10 DEF RunnerInductive

LEMMA ClaimSound ==
  ASSUME RunnerInductive, NEW r \in Runners, Claim(r)
  PROVE  RunnerInductive'
<1>1. /\ RunnerStates /\ SeenSound /\ ClaimsSound /\ ClosedAsReviewed /\ TurnsInOrder /\ ReportOfTheClaim
      /\ turn \in [Runners -> Turns] /\ item \in Items /\ item.version \in 1..TicketVersions /\ item.version \in Nat
  BY DEF RunnerInductive, RunnerStates, Items
<1>2. /\ turn[r].at = "picked" /\ RunnerRole[r] = "work"
      /\ UNCHANGED <<posts, closes, editing, outOfTurn>>
  BY DEF Claim
<1>3. CASE ~Accepts(turn[r].seen.version, Moved("in_progress"))
  BY <1>2, <1>3, RunnerTurnEnds DEF Claim
<1>4. CASE Accepts(turn[r].seen.version, Moved("in_progress"))
  <2>1. /\ item.version < TicketVersions /\ item' = Patched(Moved("in_progress"))
        /\ turn' = [turn EXCEPT ![r].at = "claimed", ![r].seen = item']
        /\ item.version = turn[r].seen.version
    BY <1>4 DEF Claim, Accepts
  <2>2. /\ item' \in Items /\ item'.version \in 1..TicketVersions
        /\ item'.version = item.version + 1 /\ item'.status = "in_progress"
    BY <1>1, <2>1, MovedTyped, PatchedSound
  <2>3. /\ turn' \in [Runners -> Turns] /\ turn'[r].at = "claimed" /\ turn'[r].seen = item'
        /\ \A x \in Runners \ {r} : turn'[x] = turn[x]
    BY <1>1, <2>1, <2>2 DEF Turns, TurnSteps
  <2>4. RunnerStates' /\ ClosedAsReviewed'
    BY <1>1, <1>2, <2>2, <2>3 DEF RunnerStates, ClosedAsReviewed
  <2>5. SeenSound'
    <3>1. SeenOf(turn[r])'
      BY <2>2, <2>3 DEF SeenOf, Items
    <3>2. ASSUME NEW x \in Runners \ {r} PROVE SeenOf(turn[x])'
      BY <1>1, <2>2, <2>3, <2>4, SeenKept DEF SeenSound
    <3>3. QED
      BY <3>1, <3>2 DEF SeenSound
  <2>6. /\ \A x \in Runners \ {r} : Holding(x)' <=> Holding(x)
        /\ ~Holding(r) /\ Holding(r)'
    BY <1>2, <2>3 DEF Holding
  <2>7. \A x \in Runners \ {r} : Holding(x)' => turn'[x].seen.version # turn'[r].seen.version
    <3> SUFFICES ASSUME NEW x \in Runners \ {r}, Holding(x)' PROVE turn'[x].seen.version # turn'[r].seen.version
      OBVIOUS
    <3>1. Holding(x) /\ turn[x].at # "idle" /\ turn'[x] = turn[x]
      BY <2>3, <2>6 DEF Holding
    <3>2. turn[x].seen.version \in Nat /\ turn[x].seen.version <= item.version
      BY <1>1, <3>1 DEF SeenSound, SeenOf, Items
    <3>3. QED
      BY <1>1, <2>2, <2>3, <3>1, <3>2
  <2>8. ClaimsSound'
    BY <1>1, <1>2, <2>2, <2>3, <2>6, <2>7 DEF ClaimsSound
  <2>9. ASSUME ~outOfTurn PROVE (\A x \in Runners : InTurn(x)')
    <3>1. item.status = "planned"
      BY <1>1, <1>2, <2>1, <2>6, <2>9 DEF TurnsInOrder, InTurn, SeenSound, SeenOf, Taken
    <3>2. \A x \in Runners : ~Holding(x)
      BY <1>1, <2>9, <3>1 DEF TurnsInOrder, InTurn
    <3>3. InTurn(r)'
      BY <2>2, <2>3, <2>6, <3>2 DEF InTurn
    <3>4. ASSUME NEW x \in Runners \ {r} PROVE InTurn(x)'
      BY <1>1, <2>3, <2>6, <2>9, <3>2 DEF TurnsInOrder, InTurn, Taken
    <3>5. QED
      BY <3>3, <3>4
  <2>10. TurnsInOrder'
    BY <1>2, <2>2, <2>9 DEF TurnsInOrder
  <2>11. ReportOfTheClaim'
    <3> SUFFICES ASSUME NEW x \in Runners, RunnerRole[x] = "review", turn'[x].at \in {"agent", "answered", "posted"},
                        turn'[x].seen.version = item'.version
                 PROVE  FALSE
      BY DEF ReportOfTheClaim
    <3>1. x # r /\ turn'[x] = turn[x] /\ turn[x].at # "idle"
      BY <1>2, <2>3
    <3>2. turn[x].seen.version \in Nat /\ turn[x].seen.version <= item.version
      BY <1>1, <3>1 DEF SeenSound, SeenOf, Items
    <3>3. QED
      BY <1>1, <2>2, <3>1, <3>2
  <2>12. QED
    BY <2>4, <2>5, <2>8, <2>10, <2>11 DEF RunnerInductive
<1>5. QED
  BY <1>3, <1>4

\* A step of a turn that keeps what it has read of the ticket, and its claim.
LEMMA RunnerTurnGoesOn ==
  ASSUME RunnerInductive, NEW r \in Runners, NEW t \in Turns, turn' = [turn EXCEPT ![r] = t],
         t.seen = turn[r].seen, turn[r].at # "idle", t.at \in {"agent", "answered"},
         (turn[r].at = "picked" => RunnerRole[r] = "review"),
         UNCHANGED <<item, posts, closes, editing, outOfTurn>>,
         ~outOfTurn /\ RunnerRole[r] = "review" /\ t.seen.version = item.version => ReportOf(t.read)
  PROVE  RunnerInductive'
<1>1. /\ RunnerStates /\ SeenSound /\ ClaimsSound /\ ClosedAsReviewed /\ TurnsInOrder /\ ReportOfTheClaim
      /\ turn \in [Runners -> Turns]
  BY DEF RunnerInductive, RunnerStates
<1>2. /\ turn' \in [Runners -> Turns] /\ turn'[r] = t
      /\ \A x \in Runners \ {r} : turn'[x] = turn[x]
  BY <1>1
<1>3. RunnerStates' /\ ClosedAsReviewed'
  BY <1>1, <1>2 DEF RunnerStates, ClosedAsReviewed
<1>4. SeenSound'
  BY <1>1, <1>2 DEF SeenSound, SeenOf
<1>5. turn[r].at \in TurnSteps
  BY <1>1 DEF Turns
<1>6. /\ \A x \in Runners : Holding(x)' <=> Holding(x)
      /\ \A x \in Runners : turn'[x].seen = turn[x].seen
  BY <1>1, <1>2, <1>5 DEF Holding, ClaimsSound, TurnSteps
<1>7. ClaimsSound'
  BY <1>1, <1>2, <1>6 DEF ClaimsSound
<1>8. ASSUME ~outOfTurn, NEW x \in Runners PROVE InTurn(x)'
  <2>1. InTurn(x)
    BY <1>1, <1>8 DEF TurnsInOrder
  <2>2. turn'[x].at = "posted" => turn[x].at = "posted" /\ turn'[x] = turn[x]
    BY <1>2
  <2>3. turn'[x].at # "idle" => turn[x].at # "idle"
    BY <1>2
  <2>4. QED
    BY <1>6, <2>1, <2>2, <2>3 DEF InTurn, Taken
<1>9. TurnsInOrder'
  BY <1>1, <1>8 DEF TurnsInOrder, ReportOf
<1>10. ReportOfTheClaim'
  BY <1>1, <1>2 DEF ReportOfTheClaim, ReportOf
<1>11. QED
  BY <1>3, <1>4, <1>7, <1>9, <1>10 DEF RunnerInductive

LEMMA ReadPostsSound ==
  ASSUME RunnerInductive, NEW r \in Runners, ReadPosts(r)
  PROVE  RunnerInductive'
<1>1. /\ RunnerStates /\ SeenSound /\ ClaimsSound /\ TurnsInOrder
      /\ turn \in [Runners -> Turns] /\ posts \in [{"plan", "report", "review"} -> PostRecords]
  BY DEF RunnerInductive, RunnerStates
<1> DEFINE t == [turn[r] EXCEPT !.at = "agent", !.read = latestByKind(IF RunnerRole[r] = "work" THEN "plan" ELSE "report")]
<1>2. /\ turn[r].at = (IF RunnerRole[r] = "work" THEN "claimed" ELSE "picked") /\ RunnerRole[r] # "plan"
      /\ turn' = [turn EXCEPT ![r] = t]
      /\ UNCHANGED <<item, posts, closes, editing, outOfTurn>>
  BY <1>1 DEF ReadPosts
<1>3. /\ t \in Turns /\ t.at = "agent" /\ t.seen = turn[r].seen
      /\ RunnerRole[r] = "review" => t.read = posts["report"]
  BY <1>1 DEF Turns, TurnSteps, latestByKind
<1> HIDE DEF t
<1>4. turn[r].at # "idle" /\ (turn[r].at = "picked" => RunnerRole[r] = "review")
  BY <1>2, RunnerConstants
<1>5. ASSUME ~outOfTurn, RunnerRole[r] = "review", t.seen.version = item.version PROVE ReportOf(t.read)
  <2>1. turn[r].seen.status = "review" /\ item.status = turn[r].seen.status
    BY <1>1, <1>3, <1>4, <1>5 DEF TurnsInOrder, InTurn, Holding, Taken, SeenSound, SeenOf
  <2>2. QED
    BY <1>1, <1>3, <1>5, <2>1 DEF TurnsInOrder
<1>6. QED
  BY <1>2, <1>3, <1>4, <1>5, RunnerTurnGoesOn

LEMMA AgentAnswersSound ==
  ASSUME RunnerInductive, NEW r \in Runners, NEW good \in BOOLEAN, AgentAnswers(r, good)
  PROVE  RunnerInductive'
<1>1. /\ RunnerStates /\ ReportOfTheClaim /\ turn \in [Runners -> Turns]
  BY DEF RunnerInductive, RunnerStates
<1>2. turn[r].at = "agent" /\ UNCHANGED <<item, posts, closes, editing, outOfTurn>>
  BY DEF AgentAnswers
<1>3. CASE RunnerRole[r] = "plan" /\ ~good
  BY <1>2, <1>3, RunnerTurnEnds DEF AgentAnswers
<1>4. CASE ~(RunnerRole[r] = "plan" /\ ~good)
  <2> DEFINE t == [turn[r] EXCEPT !.at = "answered", !.good = good]
  <2>1. turn' = [turn EXCEPT ![r] = t]
    BY <1>4 DEF AgentAnswers
  <2>2. t \in Turns /\ t.at = "answered" /\ t.seen = turn[r].seen /\ t.read = turn[r].read
    BY <1>1 DEF Turns, TurnSteps
  <2> HIDE DEF t
  <2>3. ~outOfTurn /\ RunnerRole[r] = "review" /\ t.seen.version = item.version => ReportOf(t.read)
    BY <1>1, <1>2, <2>2 DEF ReportOfTheClaim, ReportOf
  <2>4. QED
    BY <1>2, <2>1, <2>2, <2>3, RunnerTurnGoesOn
<1>5. QED
  BY <1>3, <1>4

LEMMA PostSound ==
  ASSUME RunnerInductive, NEW r \in Runners, Post(r)
  PROVE  RunnerInductive'
<1>1. /\ RunnerStates /\ SeenSound /\ ClaimsSound /\ ClosedAsReviewed /\ TurnsInOrder /\ ReportOfTheClaim
      /\ turn \in [Runners -> Turns] /\ posts \in [{"plan", "report", "review"} -> PostRecords]
      /\ RunnerRole[r] \in {"plan", "work", "review"}
  BY RunnerConstants DEF RunnerInductive, RunnerStates
<1> DEFINE post == [good |-> turn[r].good, turnOf |-> turn[r].seen.version]
<1>2. /\ turn[r].at = "answered" /\ posts' = [posts EXCEPT ![KindOf[RunnerRole[r]]] = post]
      /\ turn' = [turn EXCEPT ![r].at = "posted"] /\ UNCHANGED <<item, closes, editing, outOfTurn>>
  BY DEF Post
<1>3. post \in PostRecords
  BY <1>1, <1>2 DEF SeenSound, SeenOf, Items, PostRecords, Turns
<1>4. /\ KindOf[RunnerRole[r]] \in {"plan", "report", "review"}
      /\ KindOf[RunnerRole[r]] = "report" <=> RunnerRole[r] = "work"
  BY <1>1 DEF KindOf
<1> HIDE DEF post
<1>5. /\ turn' \in [Runners -> Turns] /\ turn'[r].at = "posted"
      /\ turn'[r].seen = turn[r].seen /\ turn'[r].good = turn[r].good /\ turn'[r].read = turn[r].read
      /\ \A x \in Runners \ {r} : turn'[x] = turn[x]
  BY <1>1, <1>2 DEF Turns, TurnSteps
<1>6. /\ posts' \in [{"plan", "report", "review"} -> PostRecords]
      /\ RunnerRole[r] = "work" => posts'["report"] = post
      /\ RunnerRole[r] # "work" => posts'["report"] = posts["report"]
  BY <1>1, <1>2, <1>3, <1>4
<1>7. RunnerStates' /\ ClosedAsReviewed'
  BY <1>1, <1>2, <1>5, <1>6 DEF RunnerStates, ClosedAsReviewed
<1>8. SeenSound'
  BY <1>1, <1>2, <1>5 DEF SeenSound, SeenOf
<1>9. /\ \A x \in Runners : Holding(x)' <=> Holding(x)
      /\ \A x \in Runners : turn'[x].seen = turn[x].seen
  BY <1>2, <1>5 DEF Holding
<1>10. ClaimsSound'
  BY <1>1, <1>5, <1>9 DEF ClaimsSound
<1>11. ASSUME ~outOfTurn PROVE (\A x \in Runners : InTurn(x)') /\ (item'.status = "review" => ReportOf(posts["report"])')
  <2>1. \A x \in Runners : InTurn(x)
    BY <1>1, <1>11 DEF TurnsInOrder
  <2>2. InTurn(r)'
    <3>1. Holding(r)' => posts'["report"] = [good |-> turn'[r].good, turnOf |-> turn'[r].seen.version]
      BY <1>5, <1>6 DEF Holding, post
    <3>2. QED
      BY <1>2, <1>5, <1>9, <2>1, <3>1 DEF InTurn, Taken
  <2>3. ASSUME NEW x \in Runners \ {r} PROVE InTurn(x)'
    <3>1. Holding(x) => RunnerRole[r] # "work"
      BY <1>2, <2>1, <2>3 DEF InTurn, Holding
    <3>2. QED
      BY <1>2, <1>5, <1>6, <1>9, <2>1, <3>1 DEF InTurn, Taken
  <2>4. item'.status = "review" => ReportOf(posts["report"])'
    <3> SUFFICES ASSUME item.status = "review" PROVE ReportOf(posts["report"])'
      BY <1>2
    <3>1. RunnerRole[r] # "work"
      BY <1>2, <2>1 DEF InTurn, Holding
    <3>2. QED
      BY <1>1, <1>2, <1>6, <1>11, <3>1 DEF TurnsInOrder, ReportOf
  <2>5. QED
    BY <2>2, <2>3, <2>4
<1>12. TurnsInOrder'
  BY <1>2, <1>11 DEF TurnsInOrder
<1>13. ReportOfTheClaim'
  BY <1>1, <1>2, <1>5 DEF ReportOfTheClaim
<1>14. QED
  BY <1>7, <1>8, <1>10, <1>12, <1>13 DEF RunnerInductive

\* What no turn does with the report of a ticket whose version goes up: a reviewer that has read it is behind.
LEMMA ReviewersBehind ==
  ASSUME RunnerStates, SeenSound, NEW r \in Runners, turn[r].at # "idle", item'.version = item.version + 1
  PROVE  turn[r].seen.version # item'.version
<1>1. /\ turn[r].seen.version \in Nat /\ turn[r].seen.version <= item.version /\ item.version \in Nat
  BY DEF SeenSound, SeenOf, RunnerStates, Items
<1>2. QED
  BY <1>1

LEMMA FinishTurnSound ==
  ASSUME RunnerInductive, NEW r \in Runners, FinishTurn(r)
  PROVE  RunnerInductive'
<1>1. /\ RunnerStates /\ SeenSound /\ ClaimsSound /\ ClosedAsReviewed /\ TurnsInOrder /\ ReportOfTheClaim
      /\ turn \in [Runners -> Turns] /\ item \in Items /\ item.version \in 1..TicketVersions /\ item.version \in Nat
      /\ RunnerRole[r] \in {"plan", "work", "review"} /\ Taken(r) # "in_progress"
  BY RunnerConstants DEF RunnerInductive, RunnerStates, Items
<1>2. /\ turn[r].at = "posted" /\ turn' = [turn EXCEPT ![r] = NoTurn]
      /\ UNCHANGED <<posts, editing, outOfTurn>>
  BY DEF FinishTurn
<1>3. CASE ~Accepts(turn[r].seen.version, Moved(Outcome(r)))
  BY <1>2, <1>3, RunnerTurnEnds DEF FinishTurn
<1>4. CASE Accepts(turn[r].seen.version, Moved(Outcome(r)))
  <2>1. /\ item.version < TicketVersions /\ item' = Patched(Moved(Outcome(r)))
        /\ closes' = IF Outcome(r) = "closed" THEN closes \cup {[by |-> turn[r], was |-> item]} ELSE closes
        /\ item.version = turn[r].seen.version
        /\ ~(Moved(Outcome(r)).status = "closed" /\ item.must /\ ~item.verified)
    BY <1>4 DEF FinishTurn, Accepts
  <2>2. /\ Outcome(r) \in {"open", "planned", "in_progress", "review", "closed"}
        /\ Outcome(r) = "closed" => RunnerRole[r] = "review" /\ turn[r].good
        /\ Outcome(r) = "review" => RunnerRole[r] = "work" /\ turn[r].good
    BY <1>1 DEF Outcome
  <2>3. /\ item' \in Items /\ item'.version \in 1..TicketVersions
        /\ item'.version = item.version + 1 /\ item'.status = Outcome(r)
        /\ Moved(Outcome(r)).status = Outcome(r)
    BY <1>1, <2>1, <2>2, MovedTyped, PatchedSound
  <2>4. /\ turn' \in [Runners -> Turns] /\ turn'[r].at = "idle"
        /\ \A x \in Runners \ {r} : turn'[x] = turn[x]
    BY <1>1, <1>2, NoTurnTyped
  <2>5. RunnerStates'
    BY <1>1, <1>2, <2>3, <2>4 DEF RunnerStates
  <2>6. SeenSound'
    <3>1. SeenOf(turn[r])'
      BY <2>4 DEF SeenOf
    <3>2. ASSUME NEW x \in Runners \ {r} PROVE SeenOf(turn[x])'
      BY <1>1, <2>3, <2>4, <2>5, SeenKept DEF SeenSound
    <3>3. QED
      BY <3>1, <3>2 DEF SeenSound
  <2>7. \A x \in Runners : Holding(x)' => x # r /\ Holding(x)
    BY <2>4 DEF Holding
  <2>8. ClaimsSound'
    BY <1>1, <2>4, <2>7 DEF ClaimsSound
  <2>9. turn[r].seen.status = item.status /\ turn[r].seen.body = item.body
    BY <1>1, <1>2, <2>1 DEF SeenSound, SeenOf
  <2>10. ClosedAsReviewed'
    <3>1. CASE Outcome(r) = "closed"
      <4>1. turn[r].good /\ (item.must => item.verified)
        BY <2>1, <2>2, <2>3, <3>1 DEF Items
      <4>2. closes' = closes \cup {[by |-> turn[r], was |-> item]}
        BY <2>1, <3>1
      <4>3. QED
        BY <1>1, <2>9, <4>1, <4>2 DEF ClosedAsReviewed
    <3>2. CASE Outcome(r) # "closed"
      BY <1>1, <2>1, <3>2 DEF ClosedAsReviewed
    <3>3. QED
      BY <3>1, <3>2
  <2>11. ASSUME ~outOfTurn PROVE (\A x \in Runners : InTurn(x)') /\ (item'.status = "review" => ReportOf(posts["report"])')
    <3>1. \A x \in Runners : InTurn(x)
      BY <1>1, <2>11 DEF TurnsInOrder
    <3>2. \A x \in Runners : ~Holding(x)'
      <4> SUFFICES ASSUME NEW x \in Runners, Holding(x)' PROVE FALSE
        OBVIOUS
      <4>1. Holding(x) /\ x # r /\ item.status = "in_progress" /\ ~Holding(r)
        BY <2>7, <3>1 DEF InTurn
      <4>2. turn[r].seen.status = Taken(r)
        BY <1>2, <3>1, <4>1 DEF InTurn
      <4>3. QED
        BY <1>1, <2>9, <4>1, <4>2
    <3>3. ASSUME NEW x \in Runners PROVE InTurn(x)'
      <4>1. ASSUME turn'[x].at # "idle" PROVE turn'[x].seen.status = Taken(x)
        <5>1. x # r /\ turn'[x] = turn[x]
          BY <2>4, <4>1
        <5>2. ~Holding(x)
          BY <3>2, <5>1 DEF Holding
        <5>3. QED
          BY <3>1, <4>1, <5>1, <5>2 DEF InTurn
      <4>2. QED
        BY <3>2, <4>1 DEF InTurn, Taken
    <3>4. ASSUME item'.status = "review" PROVE ReportOf(posts["report"])'
      <4>1. RunnerRole[r] = "work" /\ turn[r].good
        BY <2>2, <2>3, <3>4
      <4>2. posts["report"] = [good |-> turn[r].good, turnOf |-> turn[r].seen.version]
        BY <1>2, <3>1, <4>1 DEF InTurn, Holding
      <4>3. QED
        BY <1>1, <1>2, <2>1, <2>3, <4>1, <4>2 DEF ReportOf
    <3>5. QED
      BY <3>3, <3>4
  <2>12. TurnsInOrder'
    BY <1>2, <2>11 DEF TurnsInOrder
  <2>13. ReportOfTheClaim'
    <3> SUFFICES ASSUME NEW x \in Runners, turn'[x].at # "idle", turn'[x].seen.version = item'.version PROVE FALSE
      BY DEF ReportOfTheClaim
    <3>1. turn'[x] = turn[x]
      BY <2>4
    <3>2. QED
      BY <1>1, <2>3, <3>1, ReviewersBehind
  <2>14. QED
    BY <2>5, <2>6, <2>8, <2>10, <2>12, <2>13 DEF RunnerInductive
<1>5. QED
  BY <1>3, <1>4

LEMMA OperatorSound ==
  ASSUME RunnerInductive, NEW to \in Items, Operator(to)
  PROVE  RunnerInductive'
<1>1. /\ RunnerStates /\ SeenSound /\ ClaimsSound /\ ClosedAsReviewed /\ TurnsInOrder /\ ReportOfTheClaim
      /\ item \in Items /\ item.version \in 1..TicketVersions /\ editing \in Nat
  BY DEF RunnerInductive, RunnerStates
<1>2. /\ editing' = editing + 1 /\ item.version < TicketVersions /\ item' = Patched(to)
      /\ outOfTurn' = (outOfTurn \/ to.status # item.status) /\ UNCHANGED <<posts, turn, closes>>
  BY DEF Operator
<1>3. /\ item' \in Items /\ item'.version \in 1..TicketVersions
      /\ item'.version = item.version + 1 /\ item'.status = to.status
  BY <1>1, <1>2, PatchedSound
<1>4. RunnerStates' /\ ClosedAsReviewed' /\ ClaimsSound'
  BY <1>1, <1>2, <1>3 DEF RunnerStates, ClosedAsReviewed, ClaimsSound, Holding
<1>5. SeenSound'
  BY <1>1, <1>2, <1>3, <1>4, SeenKept DEF SeenSound
<1>6. TurnsInOrder'
  <2> SUFFICES ASSUME ~outOfTurn' PROVE (\A x \in Runners : InTurn(x)') /\ (item'.status = "review" => ReportOf(posts["report"])')
    BY DEF TurnsInOrder
  <2>1. ~outOfTurn /\ item'.status = item.status
    BY <1>1, <1>2, <1>3 DEF RunnerStates
  <2>2. editing' # 0
    BY <1>1, <1>2
  <2>3. QED
    BY <1>1, <1>2, <2>1, <2>2 DEF TurnsInOrder, InTurn, Holding, Taken, ReportOf
<1>7. ReportOfTheClaim'
  BY <1>1, <1>2, <1>3, ReviewersBehind DEF ReportOfTheClaim
<1>8. QED
  BY <1>4, <1>5, <1>6, <1>7 DEF RunnerInductive

LEMMA VerifySound ==
  ASSUME RunnerInductive, VerifyTicket
  PROVE  RunnerInductive'
<1>1. /\ RunnerStates /\ SeenSound /\ ClaimsSound /\ ClosedAsReviewed /\ TurnsInOrder /\ ReportOfTheClaim
      /\ item \in Items
  BY DEF RunnerInductive, RunnerStates
<1>2. item' = [item EXCEPT !.verified = TRUE] /\ UNCHANGED <<posts, turn, closes, editing, outOfTurn>>
  BY DEF VerifyTicket
<1>3. /\ item' \in Items /\ item'.version = item.version /\ item'.status = item.status
      /\ item'.body = item.body /\ item'.must = item.must
  BY <1>1, <1>2 DEF Items
<1>4. RunnerStates' /\ ClosedAsReviewed' /\ ClaimsSound'
  BY <1>1, <1>2, <1>3 DEF RunnerStates, ClosedAsReviewed, ClaimsSound, Holding
<1>5. SeenSound'
  BY <1>1, <1>2, <1>3, <1>4, SeenKept DEF SeenSound
<1>6. TurnsInOrder'
  BY <1>1, <1>2, <1>3 DEF TurnsInOrder, InTurn, Holding, Taken, ReportOf
<1>7. ReportOfTheClaim'
  BY <1>1, <1>2, <1>3 DEF ReportOfTheClaim
<1>8. QED
  BY <1>4, <1>5, <1>6, <1>7 DEF RunnerInductive

LEMMA RunnerSteps == RunnerInductive /\ [RunnerNext]_runnerVars => RunnerInductive'
<1> SUFFICES ASSUME RunnerInductive, [RunnerNext]_runnerVars PROVE RunnerInductive'
  OBVIOUS
<1>1. item \in Items
  BY DEF RunnerInductive, RunnerStates
<1>2. ASSUME NEW r \in Runners, Throws(r) PROVE RunnerInductive'
  BY <1>2, RunnerTurnEnds DEF Throws
<1>3. ASSUME NEW status \in {"open", "planned", "in_progress", "review", "closed"}, MoveTicket(status)
      PROVE  RunnerInductive'
  <2>1. Moved(status) \in Items
    BY <1>1, MovedTyped
  <2>2. QED
    BY <1>3, <2>1, OperatorSound DEF MoveTicket
<1>4. CASE EditBody
  <2>1. [item EXCEPT !.body = @ + 1] \in Items
    BY <1>1 DEF Items
  <2>2. QED
    BY <1>4, <2>1, OperatorSound DEF EditBody
<1>5. CASE Require
  <2>1. [item EXCEPT !.must = TRUE] \in Items
    BY <1>1 DEF Items
  <2>2. QED
    BY <1>5, <2>1, OperatorSound DEF Require
<1>6. CASE UNCHANGED runnerVars
  BY <1>6 DEF runnerVars, RunnerInductive, RunnerStates, SeenSound, SeenOf, ClaimsSound, Holding, ClosedAsReviewed,
              TurnsInOrder, InTurn, Taken, ReportOf, ReportOfTheClaim
<1>7. QED
  BY <1>2, <1>3, <1>4, <1>5, <1>6, PickUpSound, ClaimSound, ReadPostsSound, AgentAnswersSound, PostSound,
     FinishTurnSound, VerifySound DEF RunnerNext

RunnerSpec == RunnerInit /\ [][RunnerNext]_runnerVars

\* Workers never share a claim, a runner closes only the body its review passed and only verified where it
\* must be, and while nobody acts out of turn a review reads the report of the very claim the ticket came
\* from (runner.ts, tickets.ts), for every number of runners, versions and edits.
THEOREM RunnersHold == RunnerSpec => []RunnerInv
<1>1. RunnerInductive => RunnerInv
  <2> SUFFICES ASSUME RunnerInductive PROVE RunnerInv
    OBVIOUS
  <2>1. RunnerTypeOK
    BY DEF RunnerInductive, RunnerStates, RunnerTypeOK, Items, Turns, TurnSteps
  <2>2. SoleClaim
    <3> SUFFICES ASSUME NEW r \in Runners, Holding(r)
                 PROVE  /\ item.version = turn[r].seen.version => item.status = "in_progress"
                        /\ \A other \in Runners \ {r} : Holding(other) => turn[other].seen.version # turn[r].seen.version
      BY DEF SoleClaim
    <3>1. turn[r].at # "idle" /\ SeenOf(turn[r]) /\ turn[r].seen.status = "in_progress"
      BY DEF RunnerInductive, SeenSound, ClaimsSound, Holding
    <3>2. QED
      BY <3>1 DEF RunnerInductive, ClaimsSound, SeenOf
  <2>3. QED
    BY <2>1, <2>2 DEF RunnerInductive, RunnerInv
<1>2. QED
  BY RunnerStarts, RunnerSteps, <1>1, PTL DEF RunnerSpec

-------------------------------------------------------------------------------
(* Laya.  A connection that is starting has a call waiting for it, so that  *)
(* the idle timer, which fires only when no call is counted, never meets    *)
(* one; a connection is wanted closed only once the server is on its way    *)
(* out.                                                                     *)

UnderwayCalls == {c \in LayaCalls : Underway(c)}

DecideTyped ==
  decide \in [LayaCalls -> [at : {"unasked", "connect", "asked", "decided", "null"}, on : 0..LayaConnections]]

LayaStates ==
  /\ DecideTyped
  /\ connection \in [ConnectionIds -> {"unused", "starting", "open", "dead", "failed", "closed"}]
  /\ current \in ConnectionIds \cup {0} /\ closeWanted \subseteq ConnectionIds
  /\ idleTimer \in BOOLEAN /\ shutdown \in BOOLEAN

Counted == inflight = Cardinality(UnderwayCalls)

WaitingSound ==
  /\ \A k \in ConnectionIds : connection[k] = "starting" => \E c \in LayaCalls : decide[c].at = "connect" /\ decide[c].on = k
  /\ \A c \in LayaCalls : decide[c].at = "connect" =>
       decide[c].on \in ConnectionIds /\ connection[decide[c].on] = "starting"
  /\ \A c \in LayaCalls : decide[c].at = "asked" => decide[c].on \in ConnectionIds
  /\ \A c \in LayaCalls : decide[c].at = "asked" /\ connection[decide[c].on] = "closed" => shutdown

ConnectionSound ==
  /\ \A k \in ConnectionIds : Alive(k) => k = current \/ shutdown
  /\ current # 0 => connection[current] \in {"starting", "open", "dead"}
  /\ closeWanted # {} => shutdown
  /\ \A k \in closeWanted : k # current /\ connection[k] # "unused"
  /\ current # 0 /\ inflight = 0 => idleTimer

LayaInductive == LayaStates /\ Counted /\ WaitingSound /\ ConnectionSound

LEMMA UnderwaySound ==
  /\ IsFiniteSet(UnderwayCalls) /\ Cardinality(UnderwayCalls) \in Nat
  /\ Cardinality(UnderwayCalls) = 0 => \A c \in LayaCalls : decide[c].at \notin {"connect", "asked"}
<1>1. UnderwayCalls \subseteq LayaCalls /\ IsFiniteSet(LayaCalls)
  BY LayaAssumption DEF LayaAssumption, UnderwayCalls
<1>2. IsFiniteSet(UnderwayCalls)
  BY <1>1, FS_Subset
<1>3. QED
  BY <1>2, FS_CardinalityType, FS_EmptySet DEF UnderwayCalls, Underway

\* What is decided at once is counted off at once, and leaves the timer armed if it was anything.
LEMMA DecidedSound ==
  ASSUME LayaStates, Counted, NEW cs \in SUBSET UnderwayCalls, NEW v \in {"decided", "null"}, Decided(cs, v)
  PROVE  /\ DecideTyped' /\ Counted'
         /\ \A c \in cs : decide'[c].at = v
         /\ \A c \in LayaCalls \ cs : decide'[c] = decide[c]
         /\ idleTimer' \in BOOLEAN /\ (idleTimer => idleTimer')
         /\ inflight' = 0 /\ inflight # 0 => idleTimer'
<1>1. /\ decide' = [c \in LayaCalls |-> IF c \in cs THEN [at |-> v, on |-> 0] ELSE decide[c]]
      /\ inflight' = inflight - Cardinality(cs) /\ idleTimer' = (idleTimer \/ cs # {})
  BY DEF Decided
<1>2. cs \subseteq LayaCalls /\ LayaConnections \in Nat
  BY LayaAssumption DEF LayaAssumption, UnderwayCalls
<1>3. DecideTyped'
  BY <1>1, <1>2 DEF LayaStates, DecideTyped
<1>4. /\ \A c \in cs : decide'[c].at = v
      /\ \A c \in LayaCalls \ cs : decide'[c] = decide[c]
  BY <1>1, <1>2
<1>5. UnderwayCalls' = UnderwayCalls \ cs
  BY <1>4, <1>2 DEF UnderwayCalls, Underway
<1>6. UnderwayCalls \cap cs = cs
  OBVIOUS
<1>7. Counted' /\ IsFiniteSet(cs) /\ Cardinality(cs) \in Nat
  <2>1. IsFiniteSet(UnderwayCalls)
    BY UnderwaySound
  <2>2. Cardinality(UnderwayCalls \ cs) = Cardinality(UnderwayCalls) - Cardinality(cs)
    BY <1>6, <2>1, FS_Difference
  <2>3. Cardinality(UnderwayCalls') = Cardinality(UnderwayCalls) - Cardinality(cs)
    BY <1>5, <2>2
  <2>4. Counted'
    BY <1>1, <2>3 DEF Counted
  <2>5. IsFiniteSet(cs)
    BY <2>1, FS_Subset
  <2>6. QED
    BY <2>4, <2>5, FS_CardinalityType
<1>8. idleTimer' \in BOOLEAN /\ (idleTimer => idleTimer')
  BY <1>1 DEF LayaStates
<1>9. inflight' = 0 /\ inflight # 0 => idleTimer'
  <2> SUFFICES ASSUME inflight' = 0, inflight # 0 PROVE cs # {}
    BY <1>1
  <2>1. inflight \in Nat
    BY UnderwaySound DEF Counted
  <2>2. Cardinality(cs) # 0
    BY <1>1, <1>7, <2>1
  <2>3. QED
    BY <2>2, FS_EmptySet
<1>10. QED
  BY <1>3, <1>4, <1>7, <1>8, <1>9

LEMMA LayaStarts == LayaInit => LayaInductive
<1> SUFFICES ASSUME LayaInit PROVE LayaInductive
  OBVIOUS
<1>1. LayaConnections \in Nat
  BY LayaAssumption DEF LayaAssumption
<1>6. DecideTyped
  BY <1>1 DEF LayaInit, DecideTyped, NotAsked
<1>7. LayaStates
  BY <1>6 DEF LayaInit, LayaStates
<1>2. UnderwayCalls = {}
  BY DEF LayaInit, UnderwayCalls, Underway, NotAsked
<1>3. Counted
  BY <1>2, FS_EmptySet DEF Counted, LayaInit
<1>4. WaitingSound /\ ConnectionSound
  BY DEF LayaInit, WaitingSound, ConnectionSound, NotAsked, Alive, ConnectionIds
<1>5. QED
  BY <1>7, <1>3, <1>4 DEF LayaInductive

LEMMA CloseSound ==
  ASSUME LayaInductive, closeLaya, UNCHANGED decide, UNCHANGED inflight, shutdown' \in BOOLEAN,
         shutdown => shutdown', shutdown' \/ inflight = 0
  PROVE  LayaInductive'
<1> USE DEF ConnectionIds
<1>0. LayaStates /\ Counted /\ WaitingSound /\ ConnectionSound /\ current' = 0 /\ idleTimer' = FALSE
  BY DEF LayaInductive, closeLaya
<1>1. Counted' /\ DecideTyped'
  BY <1>0 DEF Counted, UnderwayCalls, Underway, LayaStates, DecideTyped
<1>2. \/ current = 0
      \/ current # 0 /\ connection[current] = "starting"
      \/ current # 0 /\ connection[current] # "starting"
  OBVIOUS
<1>3. CASE current = 0
  <2>1. UNCHANGED <<connection, closeWanted>>
    BY <1>3 DEF closeLaya
  <2>2. LayaStates' /\ WaitingSound' /\ ConnectionSound'
    BY <1>0, <1>1, <1>3, <2>1 DEF LayaStates, WaitingSound, ConnectionSound, Alive
  <2>3. QED
    BY <1>1, <2>2 DEF LayaInductive
<1>4. CASE current # 0 /\ connection[current] = "starting"
  <2>1. closeWanted' = closeWanted \cup {current} /\ UNCHANGED connection /\ current \in ConnectionIds
    BY <1>0, <1>4 DEF closeLaya, LayaStates
  <2>2. inflight # 0
    BY <1>0, <1>4, <2>1, UnderwaySound DEF WaitingSound, Counted
  <2>3. shutdown'
    BY <2>2
  <2>4. LayaStates'
    BY <1>0, <1>1, <2>1 DEF LayaStates
  <2>5. WaitingSound'
    BY <1>0, <2>1, <2>3 DEF WaitingSound
  <2>6. ConnectionSound'
    BY <1>0, <1>4, <2>1, <2>3 DEF LayaStates, ConnectionSound, Alive
  <2>7. QED
    BY <1>1, <2>4, <2>5, <2>6 DEF LayaInductive
<1>5. CASE current # 0 /\ connection[current] # "starting"
  <2>1. /\ connection' = [connection EXCEPT ![current] = "closed"] /\ UNCHANGED closeWanted
        /\ current \in ConnectionIds
    BY <1>0, <1>5 DEF closeLaya, LayaStates
  <2>2. LayaStates'
    BY <1>0, <1>1, <2>1 DEF LayaStates
  <2>3. \A c \in LayaCalls : decide[c].at = "asked" => shutdown'
    BY <1>0, UnderwaySound DEF Counted
  <2>4. WaitingSound'
    BY <1>0, <1>5, <2>1, <2>3 DEF LayaStates, WaitingSound
  <2>5. ConnectionSound'
    BY <1>0, <1>5, <2>1 DEF LayaStates, ConnectionSound, Alive
  <2>6. QED
    BY <1>1, <2>2, <2>4, <2>5 DEF LayaInductive
<1>6. QED
  BY <1>2, <1>3, <1>4, <1>5

LEMMA LayaSteps == LayaInductive /\ [LayaNext]_layaVars => LayaInductive'
<1> SUFFICES ASSUME LayaInductive, [LayaNext]_layaVars PROVE LayaInductive'
  OBVIOUS
<1> USE DEF ConnectionIds
<1>0. /\ LayaStates /\ Counted /\ WaitingSound /\ ConnectionSound
      /\ DecideTyped /\ LayaConnections \in Nat
      /\ inflight \in Nat
  BY UnderwaySound, LayaAssumption DEF LayaInductive, LayaStates, LayaAssumption, Counted
<1>1. ASSUME NEW c \in LayaCalls, layaDecide(c) PROVE LayaInductive'
  <2>1. /\ decide[c] = NotAsked /\ inflight' = inflight + 1 /\ UNCHANGED <<closeWanted, idleTimer, shutdown>>
    BY <1>1 DEF layaDecide
  <2>2. ASSUME NEW at \in {"connect", "asked"}, NEW k \in ConnectionIds,
               decide' = [decide EXCEPT ![c] = [at |-> at, on |-> k]]
        PROVE  DecideTyped' /\ Counted'
    <3>1. DecideTyped'
      BY <1>0, <2>2 DEF DecideTyped
    <3>2. c \notin UnderwayCalls /\ UnderwayCalls' = UnderwayCalls \cup {c}
      BY <1>0, <2>1, <2>2 DEF UnderwayCalls, Underway, NotAsked, DecideTyped
    <3>3. Cardinality(UnderwayCalls') = Cardinality(UnderwayCalls) + 1
      BY <3>2, UnderwaySound, FS_AddElement
    <3>4. QED
      BY <1>0, <2>1, <3>1, <3>3 DEF Counted
  <2>3. CASE current # 0
    <3>1. /\ decide' = [decide EXCEPT ![c] = [at |-> IF connection[current] = "starting" THEN "connect" ELSE "asked",
                                              on |-> current]]
          /\ UNCHANGED <<connection, current>> /\ current \in ConnectionIds
      BY <1>0, <1>1, <2>3 DEF layaDecide, LayaStates
    <3>2. LayaStates' /\ Counted'
      BY <1>0, <2>1, <2>2, <3>1 DEF LayaStates
    <3>3. WaitingSound'
      BY <1>0, <2>1, <2>3, <3>1 DEF WaitingSound, ConnectionSound, DecideTyped, NotAsked
    <3>4. ConnectionSound'
      BY <1>0, <2>1, <3>1 DEF ConnectionSound, Alive
    <3>5. QED
      BY <3>2, <3>3, <3>4 DEF LayaInductive
  <2>4. CASE current = 0
    <3>1. PICK k \in ConnectionIds :
            /\ connection[k] = "unused"
            /\ connection' = [connection EXCEPT ![k] = "starting"] /\ current' = k
            /\ decide' = [decide EXCEPT ![c] = [at |-> "connect", on |-> k]]
      BY <1>1, <2>4 DEF layaDecide
    <3>2. LayaStates' /\ Counted'
      BY <1>0, <2>1, <2>2, <3>1 DEF LayaStates
    <3>3. WaitingSound'
      BY <1>0, <2>1, <3>1 DEF WaitingSound, DecideTyped, LayaStates, NotAsked
    <3>4. ConnectionSound'
      BY <1>0, <2>1, <2>4, <3>1 DEF ConnectionSound, LayaStates, Alive
    <3>5. QED
      BY <3>2, <3>3, <3>4 DEF LayaInductive
  <2>5. QED
    BY <2>3, <2>4
<1>2. ASSUME NEW k \in ConnectionIds, Connected(k) PROVE LayaInductive'
  <2>1. /\ connection[k] = "starting"
        /\ connection' = [connection EXCEPT ![k] = IF k \in closeWanted THEN "closed" ELSE "open"]
        /\ decide' = [c \in LayaCalls |-> IF c \in UnderwayOn(k) THEN [decide[c] EXCEPT !.at = "asked"] ELSE decide[c]]
        /\ UNCHANGED <<closeWanted, current, inflight, idleTimer, shutdown>>
    BY <1>2 DEF Connected
  <2>2. DecideTyped'
    BY <1>0, <2>1 DEF DecideTyped
  <2>3. \A c \in LayaCalls : /\ decide'[c].on = decide[c].on
                             /\ decide[c].at = "connect" /\ decide[c].on = k => decide'[c].at = "asked"
                             /\ decide[c].on # k \/ decide[c].at # "connect" => decide'[c] = decide[c]
    BY <1>0, <2>1 DEF UnderwayOn, Underway, DecideTyped
  <2>4. UnderwayCalls' = UnderwayCalls
    BY <2>3 DEF UnderwayCalls, Underway
  <2>5. LayaStates' /\ Counted'
    BY <1>0, <2>1, <2>2, <2>4 DEF LayaStates, Counted
  <2>6. WaitingSound'
    <3>1. /\ connection'[k] \in {"open", "closed"} /\ (connection'[k] = "closed" => shutdown)
          /\ \A j \in ConnectionIds : j # k => connection'[j] = connection[j]
      BY <1>0, <2>1 DEF ConnectionSound, LayaStates
    <3>2. \A c \in LayaCalls : decide'[c].at = "connect" =>
            decide[c].at = "connect" /\ decide'[c] = decide[c] /\ decide[c].on # k
      BY <2>3
    <3>3. \A c \in LayaCalls : decide'[c].at = "asked" =>
            (decide[c].at = "asked" /\ decide'[c] = decide[c]) \/ decide'[c].on = k
      BY <2>3
    <3>4. \A j \in ConnectionIds : connection'[j] = "starting" =>
            \E c \in LayaCalls : decide'[c].at = "connect" /\ decide'[c].on = j
      BY <1>0, <2>3, <3>1 DEF WaitingSound
    <3>5. \A c \in LayaCalls : decide'[c].at = "connect" =>
            decide'[c].on \in ConnectionIds /\ connection'[decide'[c].on] = "starting"
      BY <1>0, <3>1, <3>2 DEF WaitingSound
    <3>6. \A c \in LayaCalls : decide'[c].at = "asked" => decide'[c].on \in ConnectionIds
      BY <1>0, <3>3 DEF WaitingSound
    <3>7. \A c \in LayaCalls : decide'[c].at = "asked" /\ connection'[decide'[c].on] = "closed" => shutdown'
      <4> SUFFICES ASSUME NEW c \in LayaCalls, decide'[c].at = "asked", connection'[decide'[c].on] = "closed"
                   PROVE  shutdown
        BY <2>1
      <4>1. CASE decide'[c].on = k
        BY <3>1, <4>1
      <4>2. CASE decide'[c].on # k
        <5>1. decide[c].at = "asked" /\ decide'[c] = decide[c]
          BY <3>3, <4>2
        <5>2. decide[c].on \in ConnectionIds /\ decide[c].on # k
          BY <1>0, <4>2, <5>1 DEF WaitingSound
        <5>3. connection[decide[c].on] = "closed"
          BY <3>1, <5>1, <5>2
        <5>4. QED
          BY <1>0, <5>1, <5>3 DEF WaitingSound
      <4>3. QED
        BY <4>1, <4>2
    <3>8. QED
      BY <3>4, <3>5, <3>6, <3>7 DEF WaitingSound
  <2>7. ConnectionSound'
    BY <1>0, <2>1 DEF ConnectionSound, LayaStates, Alive
  <2>8. QED
    BY <2>5, <2>6, <2>7 DEF LayaInductive
<1>3. ASSUME NEW k \in ConnectionIds, ConnectFails(k) PROVE LayaInductive'
  <2>1. /\ connection[k] = "starting" /\ connection' = [connection EXCEPT ![k] = "failed"] /\ current' = 0
        /\ Decided(UnderwayOn(k), "null") /\ UNCHANGED <<closeWanted, shutdown>>
    BY <1>3 DEF ConnectFails
  <2>2. UnderwayOn(k) \in SUBSET UnderwayCalls
    BY DEF UnderwayOn, UnderwayCalls
  <2>3. /\ DecideTyped' /\ Counted' /\ idleTimer' \in BOOLEAN
        /\ \A c \in UnderwayOn(k) : decide'[c].at = "null"
        /\ \A c \in LayaCalls \ UnderwayOn(k) : decide'[c] = decide[c]
    BY <1>0, <2>1, <2>2, DecidedSound
  <2>4. \A c \in LayaCalls : decide'[c].at \in {"connect", "asked"} => decide'[c] = decide[c] /\ decide[c].on # k
    BY <2>3 DEF UnderwayOn, Underway
  <2>5. \A c \in LayaCalls : decide[c].at = "connect" /\ decide[c].on # k => decide'[c] = decide[c]
    BY <2>3 DEF UnderwayOn
  <2>6. LayaStates'
    BY <1>0, <2>1, <2>3 DEF LayaStates
  <2>7. WaitingSound'
    BY <1>0, <2>1, <2>4, <2>5 DEF WaitingSound, LayaStates
  <2>8. ConnectionSound'
    BY <1>0, <2>1 DEF ConnectionSound, LayaStates, Alive
  <2>9. QED
    BY <2>3, <2>6, <2>7, <2>8 DEF LayaInductive
<1>4. ASSUME NEW c \in LayaCalls, ModelDecides(c) \/ GivesUp(c) PROVE LayaInductive'
  <2>1. PICK v \in {"decided", "null"} :
          decide[c].at = "asked" /\ Decided({c}, v) /\ UNCHANGED <<connection, closeWanted, current, shutdown>>
    BY <1>4 DEF ModelDecides, GivesUp
  <2>2. {c} \in SUBSET UnderwayCalls
    BY <2>1 DEF UnderwayCalls, Underway
  <2>3. /\ DecideTyped' /\ Counted' /\ idleTimer' \in BOOLEAN /\ (idleTimer => idleTimer')
        /\ decide'[c].at = v /\ \A x \in LayaCalls \ {c} : decide'[x] = decide[x]
        /\ (inflight' = 0 /\ inflight # 0 => idleTimer')
    BY <1>0, <2>1, <2>2, DecidedSound
  <2>4. LayaStates'
    BY <1>0, <2>1, <2>3 DEF LayaStates
  <2>5. WaitingSound'
    BY <1>0, <2>1, <2>3 DEF WaitingSound
  <2>6. ConnectionSound'
    BY <1>0, <2>1, <2>3 DEF ConnectionSound, Alive
  <2>7. QED
    BY <2>3, <2>4, <2>5, <2>6 DEF LayaInductive
<1>5. ASSUME NEW k \in ConnectionIds, ModelDies(k) PROVE LayaInductive'
  <2>1. /\ connection[k] = "open" /\ connection' = [connection EXCEPT ![k] = "dead"]
        /\ UNCHANGED <<decide, closeWanted, current, inflight, idleTimer, shutdown>>
    BY <1>5 DEF ModelDies
  <2>2. LayaStates' /\ Counted'
    BY <1>0, <2>1 DEF LayaStates, DecideTyped, Counted, UnderwayCalls, Underway
  <2>3. WaitingSound'
    BY <1>0, <2>1 DEF WaitingSound, LayaStates
  <2>4. ConnectionSound'
    BY <1>0, <2>1 DEF ConnectionSound, LayaStates, Alive
  <2>5. QED
    BY <2>2, <2>3, <2>4 DEF LayaInductive
<1>6. CASE IdleFires
  <2>1. CASE inflight = 0
    BY <1>0, <1>6, <2>1, CloseSound DEF IdleFires, LayaStates
  <2>2. CASE inflight # 0
    <3>1. idleTimer' = FALSE /\ UNCHANGED <<connection, closeWanted, current, decide, inflight, shutdown>>
      BY <1>6, <2>2 DEF IdleFires
    <3>2. LayaStates' /\ Counted' /\ WaitingSound'
      BY <1>0, <3>1 DEF LayaStates, DecideTyped, Counted, UnderwayCalls, Underway, WaitingSound
    <3>3. ConnectionSound'
      BY <1>0, <2>2, <3>1 DEF ConnectionSound, Alive
    <3>4. QED
      BY <3>2, <3>3 DEF LayaInductive
  <2>3. QED
    BY <2>1, <2>2
<1>7. CASE ShutdownCloses
  BY <1>0, <1>7, CloseSound DEF ShutdownCloses
<1>8. CASE UNCHANGED layaVars
  BY <1>0, <1>8 DEF layaVars, LayaInductive, LayaStates, DecideTyped, Counted, UnderwayCalls, Underway,
                    WaitingSound, ConnectionSound, Alive
<1>9. QED
  BY <1>1, <1>2, <1>3, <1>4, <1>5, <1>6, <1>7, <1>8 DEF LayaNext

LayaSpec == LayaInit /\ [][LayaNext]_layaVars

\* A process that nobody asks is given back, none runs that the code has lost sight of before the server
\* shuts down, and the idle timer closes none under a call (client.ts:29-37, 153), for every number of
\* calls and of connections.
THEOREM LayaHolds == LayaSpec => []LayaInv
<1>1. LayaInductive => LayaInv
  <2> SUFFICES ASSUME LayaInductive PROVE LayaInv
    OBVIOUS
  <2>1. UnderwayCalls \subseteq LayaCalls /\ IsFiniteSet(LayaCalls)
    BY LayaAssumption DEF LayaAssumption, UnderwayCalls
  <2>2. /\ Cardinality(UnderwayCalls) <= Cardinality(LayaCalls) /\ Cardinality(LayaCalls) \in Nat
        /\ Cardinality(UnderwayCalls) \in Nat
    BY <2>1, FS_Subset, FS_CardinalityType
  <2>3. inflight \in 0..Cardinality(LayaCalls)
    BY <2>2 DEF LayaInductive, Counted
  <2>4. LayaTypeOK
    BY <2>3 DEF LayaInductive, LayaStates, LayaTypeOK
  <2>5. LayaGivenBack /\ NotClosedUnderCall
    BY DEF LayaInductive, Counted, UnderwayCalls, WaitingSound, ConnectionSound, LayaGivenBack, NotClosedUnderCall
  <2>6. QED
    BY <2>4, <2>5 DEF LayaInv
<1>2. QED
  BY LayaStarts, LayaSteps, <1>1, PTL DEF LayaSpec

-----------------------------------------------------------------------------
(* The queue to Voyage (Voyage) *)

VoyageSpec == VoyageInit /\ [][VoyageNext]_voyageVars

Inqueue == {"queued", "waiting", "asked", "refused"}

\* The batches of the queue, in the order they came; the first is the one being embedded.
QueueSound ==
  /\ voyage \in Seq(EmbedBatches)
  /\ \A i, j \in 1..Len(voyage) : voyage[i] = voyage[j] => i = j
  /\ \A b \in EmbedBatches : batch[b] \in Inqueue <=> \E i \in 1..Len(voyage) : voyage[i] = b
  /\ Len(voyage) > 0 => batch[voyage[1]] # "queued"
  /\ \A i \in 2..Len(voyage) : batch[voyage[i]] = "queued"

\* A batch that was refused is asked again at the throttled interval.
IntervalSound ==
  /\ interval = 0 \/ interval \in IntervalFloor..Throttled
  /\ attempt > 0 => interval = Throttled
  /\ gap = sinceStart /\ ~hasty

VoyageInductive == VoyageTypeOK /\ QueueSound /\ IntervalSound

LEMMA VoyageNumbers ==
  /\ Retries \in Nat /\ HalveAfter \in Nat /\ Throttled \in Nat
  /\ IntervalFloor \in Nat /\ IntervalFloor > 0 /\ IntervalFloor <= Throttled
BY VoyageAssumption DEF VoyageAssumption

LEMMA MaxOfTwo ==
  ASSUME NEW a \in Int, NEW b \in Int
  PROVE  Max({a, b}) = IF a >= b THEN a ELSE b
<1> DEFINE m == IF a >= b THEN a ELSE b
<1>1. m \in {a, b} /\ \A y \in {a, b} : m >= y
  OBVIOUS
<1>2. \A x \in {a, b} : (\A y \in {a, b} : x >= y) => x = m
  OBVIOUS
<1>3. QED
  BY <1>1, <1>2 DEF Max

\* Only the first batch of the queue is past waiting its turn.
LEMMA EmbeddedIsFirst ==
  ASSUME QueueSound, NEW b \in EmbedBatches, batch[b] \in {"waiting", "asked", "refused"}
  PROVE  Len(voyage) \in Nat /\ Len(voyage) > 0 /\ voyage[1] = b
<1>1. Len(voyage) \in Nat
  BY DEF QueueSound
<1>2. PICK i \in 1..Len(voyage) : voyage[i] = b
  BY DEF QueueSound, Inqueue
<1>3. i = 1
  <2>1. i \in 2..Len(voyage) => batch[b] = "queued"
    BY <1>2 DEF QueueSound
  <2>2. QED
    BY <2>1, <1>1, <1>2
<1>4. QED
  BY <1>1, <1>2, <1>3

\* It may wait, ask and be refused where it is.
LEMMA FirstMoves ==
  ASSUME VoyageTypeOK, QueueSound, NEW b \in EmbedBatches,
         batch[b] \in {"waiting", "asked", "refused"},
         NEW w \in {"waiting", "asked", "refused"}, batch' = [batch EXCEPT ![b] = w],
         UNCHANGED voyage
  PROVE  QueueSound'
<1>1. voyage[1] = b /\ Len(voyage) \in Nat /\ Len(voyage) > 0
  BY EmbeddedIsFirst
<1>2. /\ \A x \in EmbedBatches : x # b => batch'[x] = batch[x]
      /\ batch'[b] = w
  BY DEF VoyageTypeOK
<1>3. \A x \in EmbedBatches : batch'[x] \in Inqueue <=> batch[x] \in Inqueue
  BY <1>2 DEF Inqueue
<1>4. \A i \in 2..Len(voyage) : voyage[i] # b /\ voyage[i] \in EmbedBatches
  BY <1>1 DEF QueueSound
<1>5. \A i \in 2..Len(voyage') : batch'[voyage'[i]] = "queued"
  BY <1>2, <1>4 DEF QueueSound
<1>6. QED
  BY <1>1, <1>2, <1>3, <1>5 DEF QueueSound

LEMMA EmbedSound ==
  ASSUME VoyageTypeOK, QueueSound, NEW b \in EmbedBatches, embed(b)
  PROVE  QueueSound'
<1> DEFINE n == Len(voyage)
<1>1. /\ batch[b] = "unasked" /\ voyage' = Append(voyage, b)
      /\ batch' = [batch EXCEPT ![b] = IF voyage = <<>> THEN "waiting" ELSE "queued"]
  BY DEF embed
<1>2. voyage \in Seq(EmbedBatches) /\ n \in Nat /\ (voyage = <<>> <=> n = 0)
  BY DEF QueueSound
<1>3. /\ voyage' \in Seq(EmbedBatches) /\ Len(voyage') = n + 1 /\ voyage'[n + 1] = b
      /\ \A i \in 1..n : voyage'[i] = voyage[i]
  BY <1>1, <1>2
<1>4. /\ \A x \in EmbedBatches : x # b => batch'[x] = batch[x]
      /\ batch'[b] = IF n = 0 THEN "waiting" ELSE "queued"
  BY <1>1, <1>2 DEF VoyageTypeOK
<1>5. \A i \in 1..n : voyage[i] # b /\ voyage[i] \in EmbedBatches
  BY <1>1, <1>2 DEF QueueSound, Inqueue
<1>6. \A i \in 1..(n + 1) : i \in 1..n \/ i = n + 1
  BY <1>2
<1>7. \A i, j \in 1..Len(voyage') : voyage'[i] = voyage'[j] => i = j
  BY <1>2, <1>3, <1>5, <1>6 DEF QueueSound
<1>8. ASSUME NEW x \in EmbedBatches
      PROVE  batch'[x] \in Inqueue <=> \E i \in 1..Len(voyage') : voyage'[i] = x
  <2>1. CASE x = b
    BY <2>1, <1>2, <1>3, <1>4 DEF Inqueue
  <2>2. CASE x # b
    BY <2>2, <1>2, <1>3, <1>4, <1>6 DEF QueueSound
  <2>3. QED
    BY <2>1, <2>2
<1>9. batch'[voyage'[1]] # "queued"
  <2>1. CASE n = 0
    BY <2>1, <1>3, <1>4
  <2>2. CASE n # 0
    <3>1. 1 \in 1..n
      BY <2>2, <1>2
    <3>2. QED
      BY <3>1, <2>2, <1>2, <1>3, <1>4, <1>5 DEF QueueSound
  <2>3. QED
    BY <2>1, <2>2
<1>10. ASSUME NEW i \in 2..Len(voyage') PROVE batch'[voyage'[i]] = "queued"
  <2>1. CASE i \in 1..n
    BY <2>1, <1>2, <1>3, <1>4, <1>5 DEF QueueSound
  <2>2. CASE i = n + 1
    <3>1. n # 0
      BY <2>2, <1>2
    <3>2. QED
      BY <2>2, <3>1, <1>3, <1>4
  <2>3. QED
    BY <2>1, <2>2, <1>3, <1>6, <1>2
<1>11. QED
  BY <1>3, <1>7, <1>8, <1>9, <1>10 DEF QueueSound

LEMMA NextSound ==
  ASSUME VoyageTypeOK, QueueSound, NEW b \in EmbedBatches, batch[b] = "asked",
         NEW w \in {"done", "failed"}, NextInQueue(b, w)
  PROVE  QueueSound' /\ batch' \in [EmbedBatches ->
           {"unasked", "queued", "waiting", "asked", "refused", "done", "failed"}]
<1> DEFINE n == Len(voyage)
<1>1. voyage[1] = b /\ n \in Nat /\ n > 0 /\ voyage \in Seq(EmbedBatches) /\ voyage # <<>>
  BY EmbeddedIsFirst DEF QueueSound
<1>2. /\ voyage' = Tail(voyage)
      /\ batch' = [x \in EmbedBatches |-> IF x = b THEN w
                     ELSE IF n > 1 /\ x = voyage[2] THEN "waiting" ELSE batch[x]]
  BY DEF NextInQueue
<1>3. /\ voyage' \in Seq(EmbedBatches) /\ Len(voyage') = n - 1
      /\ \A i \in 1..(n - 1) : voyage'[i] = voyage[i + 1]
  BY <1>1, <1>2
<1>4. \A i \in 1..n : voyage[i] \in EmbedBatches /\ (voyage[i] = b => i = 1)
  BY <1>1 DEF QueueSound
<1>5. \A i \in 1..(n - 1) : i + 1 \in 2..n /\ i + 1 \in 1..n /\ batch[voyage[i + 1]] = "queued"
  BY <1>1 DEF QueueSound
<1>6. batch' \in [EmbedBatches ->
                    {"unasked", "queued", "waiting", "asked", "refused", "done", "failed"}]
  BY <1>2 DEF VoyageTypeOK
<1>7. \A i, j \in 1..Len(voyage') : voyage'[i] = voyage'[j] => i = j
  BY <1>1, <1>3, <1>5 DEF QueueSound
<1>8. ASSUME NEW x \in EmbedBatches
      PROVE  batch'[x] \in Inqueue <=> \E i \in 1..Len(voyage') : voyage'[i] = x
  <2>1. CASE x = b
    <3>1. \A i \in 1..(n - 1) : voyage'[i] # x
      BY <2>1, <1>1, <1>3, <1>4, <1>5
    <3>2. QED
      BY <2>1, <3>1, <1>2, <1>3 DEF Inqueue
  <2>2. CASE x # b /\ n > 1 /\ x = voyage[2]
    <3>1. 1 \in 1..(n - 1) /\ voyage'[1] = x
      BY <2>2, <1>1, <1>3
    <3>2. QED
      BY <2>2, <3>1, <1>2, <1>3 DEF Inqueue
  <2>3. CASE x # b /\ ~(n > 1 /\ x = voyage[2])
    <3>1. batch'[x] = batch[x]
      BY <2>3, <1>2
    <3>2. ASSUME NEW i \in 1..n, voyage[i] = x
          PROVE  i - 1 \in 1..(n - 1) /\ voyage'[i - 1] = x
      BY <2>3, <3>2, <1>1, <1>3
    <3>3. ASSUME NEW i \in 1..(n - 1), voyage'[i] = x PROVE i + 1 \in 1..n /\ voyage[i + 1] = x
      BY <3>3, <1>1, <1>3
    <3>4. QED
      BY <3>1, <3>2, <3>3, <1>3 DEF QueueSound
  <2>4. QED
    BY <2>1, <2>2, <2>3
<1>9. Len(voyage') > 0 => batch'[voyage'[1]] # "queued"
  <2>1. ASSUME n > 1 PROVE batch'[voyage'[1]] = "waiting"
    <3>1. 1 \in 1..(n - 1) /\ voyage'[1] = voyage[2]
      BY <2>1, <1>1, <1>3
    <3>2. 2 \in 1..n /\ voyage[2] # b
      BY <2>1, <1>1, <1>4
    <3>3. QED
      BY <2>1, <3>1, <3>2, <1>2, <1>4
  <2>2. QED
    BY <2>1, <1>1, <1>3
<1>10. ASSUME NEW i \in 2..Len(voyage') PROVE batch'[voyage'[i]] = "queued"
  <2>1. i \in 1..(n - 1) /\ i + 1 \in 1..n /\ voyage'[i] = voyage[i + 1]
    BY <1>1, <1>3
  <2>2. voyage[i + 1] # b /\ (n > 1 => voyage[i + 1] # voyage[2])
    <3>1. n > 1 => 2 \in 1..n
      BY <1>1
    <3>2. i + 1 # 1 /\ i + 1 # 2
      BY <2>1, <1>1
    <3>3. QED
      BY <2>1, <3>1, <3>2, <1>4 DEF QueueSound
  <2>3. QED
    BY <2>1, <2>2, <1>2, <1>4, <1>5
<1>11. QED
  BY <1>3, <1>6, <1>7, <1>8, <1>9, <1>10 DEF QueueSound

LEMMA VoyageSteps == VoyageInductive /\ [VoyageNext]_voyageVars => VoyageInductive'
<1> SUFFICES ASSUME VoyageInductive, [VoyageNext]_voyageVars PROVE VoyageInductive'
  OBVIOUS
<1>0. /\ VoyageTypeOK /\ QueueSound /\ IntervalSound
      /\ interval \in Nat /\ interval <= Throttled /\ attempt \in Nat /\ sinceStart \in Nat
      /\ sinceStart <= Throttled
  BY VoyageNumbers DEF VoyageInductive, VoyageTypeOK, IntervalSound
<1>1. ASSUME NEW b \in EmbedBatches, embed(b) PROVE VoyageInductive'
  <2>1. VoyageTypeOK' /\ IntervalSound'
    BY <1>0, <1>1 DEF embed, VoyageTypeOK, IntervalSound
  <2>2. QED
    BY <1>0, <1>1, <2>1, EmbedSound DEF VoyageInductive
<1>2. ASSUME NEW b \in EmbedBatches, embedWithRetry(b) PROVE VoyageInductive'
  <2>1. /\ batch[b] = "waiting" /\ sinceStart >= interval
        /\ batch' = [batch EXCEPT ![b] = "asked"] /\ sinceStart' = 0 /\ gap' = 0
        /\ hasty' = (hasty \/ (attempt > 0 /\ gap < Throttled))
        /\ UNCHANGED <<voyage, interval, successes, attempt>>
    BY <1>2 DEF embedWithRetry
  <2>2. QueueSound'
    BY <1>0, <2>1, FirstMoves
  <2>3. ~(attempt > 0 /\ gap < Throttled)
    BY <1>0, <2>1, VoyageNumbers DEF IntervalSound
  <2>4. 0 \in 0..Throttled /\ Throttled \in Nat
    BY VoyageNumbers
  <2>5. batch' \in [EmbedBatches -> {"unasked", "queued", "waiting", "asked", "refused", "done", "failed"}]
    BY <1>0, <2>1 DEF VoyageTypeOK
  <2>6. VoyageTypeOK'
    BY <1>0, <2>1, <2>4, <2>5 DEF VoyageTypeOK
  <2>7. IntervalSound'
    BY <1>0, <2>1, <2>3, VoyageNumbers DEF IntervalSound
  <2>8. QED
    BY <2>2, <2>6, <2>7 DEF VoyageInductive
<1>3. ASSUME NEW b \in EmbedBatches, EmbedOk(b) PROVE VoyageInductive'
  <2>1. /\ batch[b] = "asked" /\ NextInQueue(b, "done")
        /\ UNCHANGED <<sinceStart, gap, hasty>>
        /\ \/ interval' = interval
           \/ interval > IntervalFloor /\ interval' = Max({IntervalFloor, interval \div 2})
    BY <1>3 DEF EmbedOk
  <2>2. QueueSound' /\ VoyageTypeOK'
    BY <1>0, <2>1, NextSound, VoyageNumbers DEF VoyageTypeOK, NextInQueue
  <2>3. interval' = 0 \/ interval' \in IntervalFloor..Throttled
    <3>1. CASE interval' = interval
      BY <3>1, <1>0 DEF IntervalSound
    <3>2. CASE interval > IntervalFloor /\ interval' = Max({IntervalFloor, interval \div 2})
      <4>1. interval \div 2 \in Nat /\ interval \div 2 <= interval
        BY <1>0
      <4>2. interval' = IF IntervalFloor >= interval \div 2 THEN IntervalFloor ELSE interval \div 2
        BY <3>2, <4>1, MaxOfTwo, VoyageNumbers
      <4> DEFINE half == interval \div 2
      <4> HIDE DEF half
      <4>3. half \in Nat /\ half <= interval /\ interval' = IF IntervalFloor >= half THEN IntervalFloor ELSE half
        BY <4>1, <4>2 DEF half
      <4>4. QED
        BY <4>3, <1>0, VoyageNumbers
    <3>3. QED
      BY <2>1, <3>1, <3>2
  <2>4. IntervalSound'
    BY <1>0, <2>1, <2>3 DEF IntervalSound, NextInQueue
  <2>5. QED
    BY <2>2, <2>4 DEF VoyageInductive
<1>4. ASSUME NEW b \in EmbedBatches, EmbedFails(b) PROVE VoyageInductive'
  <2>1. /\ batch[b] = "asked" /\ NextInQueue(b, "failed")
        /\ UNCHANGED <<interval, successes, sinceStart, gap, hasty>>
    BY <1>4 DEF EmbedFails
  <2>2. QueueSound' /\ VoyageTypeOK'
    BY <1>0, <2>1, NextSound, VoyageNumbers DEF VoyageTypeOK, NextInQueue
  <2>3. IntervalSound'
    BY <1>0, <2>1 DEF IntervalSound, NextInQueue
  <2>4. QED
    BY <2>2, <2>3 DEF VoyageInductive
<1>5. ASSUME NEW b \in EmbedBatches, Embed429(b) PROVE VoyageInductive'
  <2>1. /\ batch[b] = "asked" /\ attempt < Retries
        /\ batch' = [batch EXCEPT ![b] = "refused"] /\ attempt' = attempt + 1
        /\ interval' = Max({interval, Throttled})
        /\ UNCHANGED <<voyage, sinceStart, gap, hasty>>
    BY <1>5 DEF Embed429
  <2>2. interval' = Throttled
    BY <1>0, <2>1, MaxOfTwo, VoyageNumbers
  <2>3. QueueSound'
    BY <1>0, <2>1, FirstMoves
  <2>4. VoyageTypeOK' /\ IntervalSound'
    BY <1>0, <2>1, <2>2, VoyageNumbers DEF VoyageTypeOK, IntervalSound
  <2>5. QED
    BY <2>3, <2>4 DEF VoyageInductive
<1>6. ASSUME NEW b \in EmbedBatches, BackoffEnds(b) PROVE VoyageInductive'
  <2>1. /\ batch[b] = "refused" /\ batch' = [batch EXCEPT ![b] = "waiting"]
        /\ UNCHANGED <<voyage, interval, successes, sinceStart, attempt, gap, hasty>>
    BY <1>6 DEF BackoffEnds
  <2>2. QueueSound'
    BY <1>0, <2>1, FirstMoves
  <2>3. VoyageTypeOK' /\ IntervalSound'
    BY <1>0, <2>1 DEF VoyageTypeOK, IntervalSound
  <2>4. QED
    BY <2>2, <2>3 DEF VoyageInductive
<1>7. CASE VoyageTick
  <2>1. /\ gap < Throttled /\ gap' = gap + 1
        /\ sinceStart' = IF sinceStart < Throttled THEN sinceStart + 1 ELSE sinceStart
        /\ UNCHANGED <<voyage, batch, interval, successes, attempt, hasty>>
    BY <1>7 DEF VoyageTick
  <2>2. VoyageTypeOK' /\ IntervalSound'
    BY <1>0, <2>1, VoyageNumbers DEF VoyageTypeOK, IntervalSound
  <2>3. QueueSound'
    BY <1>0, <2>1 DEF QueueSound
  <2>4. QED
    BY <2>2, <2>3 DEF VoyageInductive
<1>8. CASE UNCHANGED voyageVars
  BY <1>0, <1>8 DEF voyageVars, VoyageInductive, VoyageTypeOK, QueueSound, IntervalSound
<1>9. QED
  BY <1>1, <1>2, <1>3, <1>4, <1>5, <1>6, <1>7, <1>8 DEF VoyageNext

LEMMA VoyageStarts == VoyageInit => VoyageInductive
<1> SUFFICES ASSUME VoyageInit PROVE VoyageInductive
  OBVIOUS
<1>1. voyage = <<>> /\ Len(voyage) = 0 /\ voyage \in Seq(EmbedBatches)
  BY DEF VoyageInit
<1>2. VoyageTypeOK /\ IntervalSound
  BY VoyageNumbers DEF VoyageInit, VoyageTypeOK, IntervalSound
<1>3. QueueSound
  BY <1>1 DEF VoyageInit, QueueSound, Inqueue
<1>4. QED
  BY <1>2, <1>3 DEF VoyageInductive

LEMMA VoyageEnough == VoyageInductive => VoyageInv
<1> SUFFICES ASSUME VoyageInductive PROVE VoyageInv
  OBVIOUS
<1>1. QueueSound /\ voyage \in Seq(EmbedBatches) /\ Len(voyage) \in Nat
  BY DEF VoyageInductive, QueueSound
<1>2. voyage # <<>> => Len(voyage) > 0 /\ Head(voyage) = voyage[1]
  BY <1>1
<1>3. VoyagePatient
  BY <1>1, <1>2 DEF VoyagePatient, VoyageInductive, QueueSound, IntervalSound, Inqueue, Contains
<1>4. QED
  BY <1>3 DEF VoyageInv, VoyageInductive

\* A refused batch is not asked again before the throttled interval is over, and the queue goes on after
\* whatever becomes of a batch.
THEOREM VoyageHolds == VoyageSpec => []VoyageInv
BY VoyageStarts, VoyageSteps, VoyageEnough, PTL DEF VoyageSpec

-----------------------------------------------------------------------------
\* relay.json and the shared packages (RelayFile).

RelayFileSpec == RelayFileInit /\ [][RelayFileNext]_relayFileVars

Stages == Over \cup {"off", "plan", "based", "work", "review"}
Hands == FileRuns \cup {Nobody}
FileTyped(f) ==
  /\ f \in [json : {"none", "broken", "good"}, agents : {f.agents}, foreign : Hands]
  /\ DOMAIN f.agents \subseteq RelayAgents

\* Every copy of the file is a file of known agents.
CopiesTyped ==
  /\ FileTyped(relayJson) /\ FileTyped(relayBak) /\ spread \in BOOLEAN
  /\ bootstrap \in [pc : {"off", "known", "own"}, agents : {bootstrap.agents}, answered : SUBSET RelayAgents,
                    foreign : Hands]
  /\ DOMAIN bootstrap.agents \subseteq RelayAgents
  /\ stage = [r \in FileRuns |-> stage[r]]
  /\ \A r \in FileRuns :
       /\ stage[r] \in [pc : Stages, snap : {stage[r].snap}, base : SUBSET Packages]
       /\ FileTyped(stage[r].snap)

\* What an agent wrote is spread where it is copied, and else in the file itself until its stage ends.
BytesKnown ==
  /\ relayBak.foreign # Nobody => spread
  /\ \A r \in FileRuns : stage[r].snap.foreign # Nobody => spread
  /\ relayJson.foreign # Nobody =>
       spread \/ bootstrap.foreign # Nobody \/ \E r \in FileRuns : stage[r].pc \in {"work", "crashed"}

\* There are bytes of an agent only since it worked, so its own are never in its snapshot.
BytesLate ==
  \A r \in FileRuns :
    /\ relayJson.foreign = r \/ relayBak.foreign = r \/ bootstrap.foreign = r
         \/ (\E q \in FileRuns : stage[q].snap.foreign = r) => stage[r].pc \notin {"off", "plan", "based"}
    /\ stage[r].snap.foreign # r

\* Until some run fails, the one whose bytes are in the file is at work and will find them.
SomeoneFinds ==
  Failures = {} /\ tampered # {} =>
    relayJson.json # "broken" /\ \E r \in FileRuns : relayJson.foreign = r /\ stage[r].pc = "work"

\* What an agent left in the shared folder is among what was touched since its snapshot, and what an operator
\* installed after a snapshot that is still in use is known to be.
PackagesKnown ==
  /\ wroteBy \in [Packages -> Hands] /\ touched \in [FileRuns -> SUBSET Packages]
  /\ \A p \in Packages : wroteBy[p] # Nobody =>
       /\ stage[wroteBy[p]].pc \notin {"off", "plan", "based"}
       /\ stage[wroteBy[p]].pc = "work" /\ p \in shared => p \in touched[wroteBy[p]]
  /\ \A r \in AtWork, p \in shared : wroteBy[p] = Nobody => p \in stage[r].base \cup disturbed

RelayFileInductive ==
  RelayFileInv /\ CopiesTyped /\ BytesKnown /\ BytesLate /\ SomeoneFinds /\ PackagesKnown

\* A route writes the file it has just read.
RouteWrites ==
  /\ \E agents : DOMAIN agents \subseteq RelayAgents /\ writeRelayConfig(agents, relayJson.foreign)
  /\ UNCHANGED <<tampered, bootstrap, stage, depsVars>>

\* Steps that leave the files, the runs and the packages alone.
FilesAlone == UNCHANGED <<jsonVars, tampered, bootstrap, stage, depsVars>>

\* What writes the file on behalf of a client keeps its agents.
LEMMA RoutesWrite ==
  ASSUME RelayFileInductive,
         \/ ListAgents
         \/ \E a \in RelayAgents : DeleteAccount(a)
         \/ \E a \in RelayAgents, roles \in {{}, {"plan"}, {"work"}}, models \in {"absent", "some"} :
              PatchAgent(a, roles, models)
         \/ \E w \in FileWriters, a \in RelayAgents : AddAccount(w, a) \/ OrderAccounts(w, a) \/ PatchAccount(w, a)
  PROVE  RouteWrites
<1>1. DOMAIN relayJson.agents \subseteq RelayAgents
  BY DEF RelayFileInductive, CopiesTyped, FileTyped
<1>2. DOMAIN HealedAll(relayJson.agents) = DOMAIN relayJson.agents
  BY DEF HealedAll
<1>3. \A a, e : DOMAIN [relayJson.agents EXCEPT ![a] = e] = DOMAIN relayJson.agents
  OBVIOUS
<1>4. CASE ListAgents
  BY <1>1, <1>2, <1>4 DEF ListAgents, RouteWrites
<1>5. CASE \E a \in RelayAgents : DeleteAccount(a)
  <2>1. PICK a \in RelayAgents : DeleteAccount(a)
    BY <1>5
  <2>2. PICK s : writeRelayConfig([relayJson.agents EXCEPT ![a].accounts = s], relayJson.foreign)
    BY <2>1 DEF DeleteAccount
  <2>3. DOMAIN [relayJson.agents EXCEPT ![a].accounts = s] = DOMAIN relayJson.agents
    OBVIOUS
  <2>4. QED
    BY <1>1, <2>1, <2>2, <2>3 DEF DeleteAccount, RouteWrites
<1>6. CASE \E a \in RelayAgents, roles \in {{}, {"plan"}, {"work"}}, models \in {"absent", "some"} :
             PatchAgent(a, roles, models)
  <2>1. PICK a \in RelayAgents, roles \in {{}, {"plan"}, {"work"}}, models \in {"absent", "some"} :
               PatchAgent(a, roles, models)
    BY <1>6
  <2> DEFINE next == [HealedAll(relayJson.agents) EXCEPT ![a] =
                        [relayJson.agents[a] EXCEPT !.roles = roles, !.models = models]]
  <2>2. DOMAIN next = DOMAIN relayJson.agents
    BY <1>2
  <2>3. writeRelayConfig(next, relayJson.foreign) /\ UNCHANGED <<tampered, bootstrap, stage, depsVars>>
    BY <2>1 DEF PatchAgent
  <2>4. QED
    BY <1>1, <2>2, <2>3 DEF RouteWrites
<1>7. CASE \E w \in FileWriters, a \in RelayAgents : AddAccount(w, a) \/ OrderAccounts(w, a) \/ PatchAccount(w, a)
  <2>1. PICK w \in FileWriters, a \in RelayAgents : AddAccount(w, a) \/ OrderAccounts(w, a) \/ PatchAccount(w, a)
    BY <1>7
  <2>2. PICK s : AccountsTo(a, s)
    BY <2>1, Zenon DEF AddAccount, OrderAccounts, PatchAccount
  <2>3. DOMAIN [relayJson.agents EXCEPT ![a].accounts = s] = DOMAIN relayJson.agents
    OBVIOUS
  <2>4. QED
    BY <1>1, <2>2, <2>3 DEF AccountsTo, RouteWrites
<1>8. QED
  BY <1>4, <1>5, <1>6, <1>7

\* The steps that matter to the files, the runs and the packages, and those that do not.
LEMMA FileSteps ==
  ASSUME RelayFileInductive, [RelayFileNext]_relayFileVars
  PROVE  \/ RouteWrites \/ ReadFile \/ BootstrapReads \/ BootstrapProbesKnown \/ BootstrapWrites \/ ServerDies
         \/ FilesAlone
         \/ \E f \in HandEdits : HandEdit(f)
         \/ \E p \in Packages : OperatorInstalls(p)
         \/ \E r \in FileRuns :
              \/ StartRun(r) \/ snapshotDeps(r) \/ snapshotSensitive(r) \/ AgentWritesFile(r)
              \/ \E p \in Packages : AgentWritesDeps(r, p)
              \/ detectAndRestore(r) \/ detectDepsLeak(r) \/ StageClean(r) \/ SettleRun(r)
<1>1. ASSUME runDoctor PROVE FilesAlone
  BY <1>1 DEF runDoctor, FilesAlone
<1>2. ASSUME NEW a \in RelayAgents, MachineChanges(a) PROVE FilesAlone
  BY <1>2 DEF MachineChanges, FilesAlone
<1>3. ASSUME NEW w \in FileWriters, NEW what, AskAccounts(w, what) PROVE FilesAlone
  BY <1>3 DEF AskAccounts, FilesAlone
<1>4. ASSUME NEW w \in FileWriters, ConfigFails(w) PROVE FilesAlone
  BY <1>4 DEF ConfigFails, FilesAlone
<1>5. ASSUME UNCHANGED relayFileVars PROVE FilesAlone
  BY <1>5 DEF relayFileVars, FilesAlone, jsonVars, depsVars
<1>6. QED
  BY <1>1, <1>2, <1>3, <1>4, <1>5, RoutesWrite DEF RelayFileNext

\* A write is refused, or makes of the file what loads and of the old file the copy.
LEMMA WriteLoads ==
  ASSUME RelayFileInductive, NEW agents, DOMAIN agents \subseteq RelayAgents, NEW foreign \in Hands,
         writeRelayConfig(agents, foreign)
  PROVE  /\ FileTyped(relayJson)' /\ FileTyped(relayBak)' /\ spread' \in BOOLEAN
         /\ \/ UNCHANGED jsonVars
            \/ relayJson'.foreign = foreign /\ relayJson'.json = "good" /\ Loads(relayJson') /\ lastWriter' = "code"
         /\ spread => spread'
         /\ relayBak'.foreign # Nobody => spread'
         /\ relayBak'.foreign \in {relayBak.foreign, relayJson.foreign}
<1> USE DEF RelayFileInductive, CopiesTyped, BytesKnown, FileTyped
<1>1. CASE validateRelayConfig(agents)
  <2>1. relayJson' = [json |-> "good", agents |-> agents, foreign |-> foreign] /\ lastWriter' = "code"
    BY <1>1 DEF writeRelayConfig, Json
  <2>2. relayBak' \in {relayJson, relayBak} /\ (spread' <=> (spread \/ relayJson.foreign # Nobody))
    BY <1>1 DEF writeRelayConfig
  <2>3. spread' \in BOOLEAN
    BY <1>1 DEF writeRelayConfig
  <2>4. FileTyped(relayJson)' /\ Loads(relayJson')
    BY <1>1, <2>1 DEF Loads
  <2>5. FileTyped(relayBak)'
    BY <2>2
  <2>6. QED
    BY <2>1, <2>2, <2>3, <2>4, <2>5
<1>2. CASE ~validateRelayConfig(agents)
  BY <1>2 DEF writeRelayConfig, jsonVars
<1>3. QED
  BY <1>1, <1>2

\* Every step keeps the copies of the file, and what the program wrote last loads.
LEMMA CopiesStep == RelayFileInductive /\ [RelayFileNext]_relayFileVars => CopiesTyped' /\ FileLoads'
<1> SUFFICES ASSUME RelayFileInductive, [RelayFileNext]_relayFileVars
             PROVE  CopiesTyped' /\ FileLoads'
  OBVIOUS
<1> USE RelayFileAssumption DEF RelayFileAssumption, RelayFileInductive, RelayFileInv, CopiesTyped, FileLoads
<1> DEFINE StagesTyped(s) ==
      /\ s = [r \in FileRuns |-> s[r]]
      /\ \A r \in FileRuns : /\ s[r] \in [pc : Stages, snap : {s[r].snap}, base : SUBSET Packages]
                             /\ FileTyped(s[r].snap)
<1> DEFINE BootTyped(b) ==
      /\ b \in [pc : {"off", "known", "own"}, agents : {b.agents}, answered : SUBSET RelayAgents, foreign : Hands]
      /\ DOMAIN b.agents \subseteq RelayAgents
<1> DEFINE FilesTyped == FileTyped(relayJson) /\ FileTyped(relayBak) /\ spread \in BOOLEAN /\ FileLoads
<1>0. StagesTyped(stage) /\ BootTyped(bootstrap) /\ FilesTyped
  OBVIOUS
<1>1. \A r \in FileRuns : \A e : e \in [pc : Stages, snap : {e.snap}, base : SUBSET Packages] /\ FileTyped(e.snap)
        => StagesTyped([stage EXCEPT ![r] = e])
  BY <1>0
<1>2. \A r \in FileRuns, pc \in Stages : StagesTyped([stage EXCEPT ![r].pc = pc])
  <2> TAKE r \in FileRuns, pc \in Stages
  <2>1. [stage[r] EXCEPT !.pc = pc].snap = stage[r].snap
        /\ [stage[r] EXCEPT !.pc = pc] \in [pc : Stages, snap : {stage[r].snap}, base : SUBSET Packages]
    BY <1>0
  <2>2. StagesTyped([stage EXCEPT ![r] = [stage[r] EXCEPT !.pc = pc]])
    BY <1>0, <1>1, <2>1
  <2>3. QED
    BY <2>2
<1>3. \A pc \in {"off", "known", "own"} : BootTyped([bootstrap EXCEPT !.pc = pc])
  BY <1>0
<1> HIDE DEF StagesTyped, BootTyped
<1>4. ASSUME loadRelayConfig PROVE FilesTyped'
  BY <1>0, <1>4 DEF loadRelayConfig, jsonVars, Loads
<1>5. CASE RouteWrites
  <2>1. PICK agents : DOMAIN agents \subseteq RelayAgents /\ writeRelayConfig(agents, relayJson.foreign)
    BY <1>5 DEF RouteWrites
  <2>2. relayJson.foreign \in Hands
    BY DEF FileTyped
  <2>3. FilesTyped'
    BY <2>1, <2>2, WriteLoads DEF jsonVars
  <2>4. QED
    BY <1>0, <1>5, <2>3 DEF RouteWrites, StagesTyped, BootTyped
<1>6. CASE ReadFile
  BY <1>0, <1>4, <1>6 DEF ReadFile, StagesTyped, BootTyped
<1>7. CASE BootstrapReads
  <2>1. BootTyped([pc |-> "known", agents |-> relayJson.agents, answered |-> {}, foreign |-> relayJson.foreign])
    BY DEF BootTyped, FileTyped
  <2>2. QED
    BY <1>0, <1>7, <2>1 DEF BootstrapReads, jsonVars, StagesTyped, BootTyped
<1>8. CASE BootstrapProbesKnown
  <2>1. \A answered \in SUBSET RelayAgents : BootTyped([bootstrap EXCEPT !.pc = "own", !.answered = answered])
    BY <1>0 DEF BootTyped
  <2>2. BootTyped(bootstrap')
    BY <1>8, <2>1 DEF BootstrapProbesKnown
  <2>3. QED
    BY <1>0, <1>8, <2>2 DEF BootstrapProbesKnown, jsonVars, StagesTyped, BootTyped
<1>9. CASE BootstrapWrites
  <2>1. PICK next : /\ DOMAIN next \subseteq RelayAgents
                    /\ writeRelayConfig(next, bootstrap.foreign) \/ UNCHANGED jsonVars
    <3> DEFINE mine == bootstrap.agents
               removed == {a \in DOMAIN mine : LaneTypes[a] = "cli" /\ a \notin onMachine}
               added == bootstrap.answered \ DOMAIN mine
               next == [a \in (DOMAIN mine \ removed) \cup added |->
                          IF a \in added THEN FromTemplate(a) ELSE Enriched(a, mine[a])]
    <3>1. DOMAIN next \subseteq RelayAgents
      OBVIOUS
    <3>2. writeRelayConfig(next, bootstrap.foreign) \/ UNCHANGED jsonVars
      BY <1>9 DEF BootstrapWrites
    <3>3. QED
      BY <3>1, <3>2
  <2>2. FilesTyped'
    BY <1>0, <2>1, WriteLoads DEF jsonVars
  <2>3. BootTyped(bootstrap')
    BY <1>3, <1>9 DEF BootstrapWrites
  <2>4. QED
    BY <1>0, <1>9, <2>2, <2>3 DEF BootstrapWrites, StagesTyped, BootTyped
<1>10. CASE ServerDies
  <2>1. StagesTyped(stage')
    <3>1. stage' = [r \in FileRuns |-> stage'[r]]
      BY <1>10 DEF ServerDies
    <3>2. \A r \in FileRuns : stage'[r] = stage[r] \/ stage'[r] = [stage[r] EXCEPT !.pc = "crashed"]
      BY <1>10 DEF ServerDies
    <3>3. \A r \in FileRuns : /\ [stage[r] EXCEPT !.pc = "crashed"].snap = stage[r].snap
                              /\ [stage[r] EXCEPT !.pc = "crashed"]
                                   \in [pc : Stages, snap : {stage[r].snap}, base : SUBSET Packages]
      BY DEF Stages, Over
    <3>4. \A r \in FileRuns : /\ stage'[r] \in [pc : Stages, snap : {stage'[r].snap}, base : SUBSET Packages]
                              /\ FileTyped(stage'[r].snap)
      BY <3>2, <3>3
    <3>5. QED
      BY <3>1, <3>4 DEF StagesTyped
  <2>2. BootTyped(bootstrap')
    BY <1>3, <1>10 DEF ServerDies
  <2>3. QED
    BY <1>0, <1>10, <2>1, <2>2 DEF ServerDies, jsonVars, StagesTyped, BootTyped
<1>11. CASE FilesAlone \/ \E p \in Packages : OperatorInstalls(p)
  BY <1>0, <1>11 DEF FilesAlone, OperatorInstalls, jsonVars, StagesTyped, BootTyped
<1>12. ASSUME NEW f \in HandEdits, HandEdit(f) PROVE CopiesTyped' /\ FileLoads'
  <2>1. FileTyped(f)
    BY DEF FileTyped, Hands
  <2>2. QED
    BY <1>0, <1>12, <2>1 DEF HandEdit, StagesTyped, BootTyped
<1>13. ASSUME NEW r \in FileRuns, StartRun(r) PROVE CopiesTyped' /\ FileLoads'
  <2>1. StagesTyped(stage')
    <3>1. stage' = [stage EXCEPT ![r].pc = "plan"]
      BY <1>13 DEF StartRun
    <3>2. QED
      BY <1>2, <3>1 DEF Stages
  <2>2. QED
    BY <1>0, <1>4, <1>13, <2>1 DEF StartRun, StagesTyped, BootTyped
<1>14. ASSUME NEW r \in FileRuns, snapshotDeps(r) PROVE CopiesTyped' /\ FileLoads'
  <2> DEFINE e == [stage[r] EXCEPT !.pc = "based", !.base = shared]
  <2>1. e.snap = stage[r].snap /\ e \in [pc : Stages, snap : {stage[r].snap}, base : SUBSET Packages]
    BY DEF Stages, RelayFileTypeOK
  <2>2. stage' = [stage EXCEPT ![r] = e]
    BY <1>14 DEF snapshotDeps
  <2>3. FileTyped(e.snap)
    BY <2>1
  <2> HIDE DEF e
  <2>4. StagesTyped(stage')
    BY <1>1, <2>1, <2>2, <2>3
  <2>5. QED
    BY <1>0, <1>14, <2>4 DEF snapshotDeps, jsonVars, StagesTyped, BootTyped
<1>15. ASSUME NEW r \in FileRuns, snapshotSensitive(r) PROVE CopiesTyped' /\ FileLoads'
  <2> DEFINE e == [stage[r] EXCEPT !.pc = "work", !.snap = relayJson]
  <2>1. e.snap = relayJson /\ e \in [pc : Stages, snap : {relayJson}, base : SUBSET Packages]
    BY DEF Stages
  <2>2. stage' = [stage EXCEPT ![r] = e]
    BY <1>15 DEF snapshotSensitive
  <2>3. FileTyped(e.snap)
    BY <2>1
  <2> HIDE DEF e
  <2>4. StagesTyped(stage')
    BY <1>1, <2>1, <2>2, <2>3
  <2>5. spread' \in BOOLEAN
    BY <1>15 DEF snapshotSensitive
  <2>6. UNCHANGED <<relayJson, relayBak, lastWriter, bootstrap>>
    BY <1>15 DEF snapshotSensitive
  <2>7. QED
    BY <1>0, <2>4, <2>5, <2>6 DEF StagesTyped, BootTyped
<1>16. ASSUME NEW r \in FileRuns, AgentWritesFile(r) PROVE CopiesTyped' /\ FileLoads'
  <2>1. FileTyped([relayJson EXCEPT !.foreign = r])
    BY DEF FileTyped, Hands
  <2>2. QED
    BY <1>0, <1>16, <2>1 DEF AgentWritesFile, StagesTyped, BootTyped
<1>17. ASSUME NEW r \in FileRuns, NEW p \in Packages, AgentWritesDeps(r, p) PROVE CopiesTyped' /\ FileLoads'
  BY <1>0, <1>17 DEF AgentWritesDeps, jsonVars, StagesTyped, BootTyped
<1>18. ASSUME NEW r \in FileRuns, detectAndRestore(r) PROVE CopiesTyped' /\ FileLoads'
  <2>1. StagesTyped(stage')
    BY <1>2, <1>18 DEF detectAndRestore, Stages, Over
  <2>2. QED
    BY <1>0, <1>18, <2>1 DEF detectAndRestore, StagesTyped, BootTyped
<1>19. ASSUME NEW r \in FileRuns, detectDepsLeak(r) \/ StageClean(r) \/ SettleRun(r) PROVE CopiesTyped' /\ FileLoads'
  <2>1. stage' = [stage EXCEPT ![r].pc = stage'[r].pc] /\ stage'[r].pc \in Stages
    BY <1>0, <1>19 DEF detectDepsLeak, StageClean, SettleRun, Stages, Over, StagesTyped
  <2>2. StagesTyped(stage')
    BY <1>2, <2>1
  <2>3. QED
    BY <1>0, <1>19, <2>2 DEF detectDepsLeak, StageClean, SettleRun, jsonVars, StagesTyped, BootTyped
<1>20. QED
  BY <1>5, <1>6, <1>7, <1>8, <1>9, <1>10, <1>11, <1>12, <1>13, <1>14, <1>15, <1>16, <1>17, <1>18, <1>19, FileSteps

\* The types hold: only an account request and the doctor write what no copy of the file shows.
LEMMA FileTypesStep == RelayFileInductive /\ [RelayFileNext]_relayFileVars => RelayFileTypeOK'
<1> SUFFICES ASSUME RelayFileInductive, [RelayFileNext]_relayFileVars
             PROVE  RelayFileTypeOK'
  OBVIOUS
<1> USE DEF RelayFileInductive, RelayFileInv, RelayFileTypeOK
<1>1. relayJson'.json \in {"none", "broken", "good"} /\ DOMAIN relayJson'.agents \subseteq RelayAgents
  BY CopiesStep DEF CopiesTyped, FileTyped
<1>2. bootstrap'.pc \in {"off", "known", "own"}
  BY CopiesStep DEF CopiesTyped
<1>3. \A r \in FileRuns : stage'[r].pc \in Over \cup {"off", "plan", "based", "work", "review"}
                          /\ stage'[r].base \subseteq Packages
  BY CopiesStep DEF CopiesTyped, Stages
<1>4. request' \in [FileWriters -> {"none", "add", "order", "patch"}]
  <2>1. ASSUME NEW w \in FileWriters, NEW a \in RelayAgents, AddAccount(w, a) \/ OrderAccounts(w, a) \/ PatchAccount(w, a)
        PROVE  request' = [request EXCEPT ![w] = "none"]
    BY <2>1 DEF AddAccount, OrderAccounts, PatchAccount, ConfigAnswered
  <2>2. ASSUME NEW w \in FileWriters, ConfigFails(w) PROVE request' = [request EXCEPT ![w] = "none"]
    BY <2>2 DEF ConfigFails
  <2>3. ASSUME NEW w \in FileWriters, NEW what \in {"add", "order", "patch"}, AskAccounts(w, what)
        PROVE  request' = [request EXCEPT ![w] = what]
    BY <2>3 DEF AskAccounts
  <2>4. ASSUME ServerDies PROVE request' = [w \in FileWriters |-> "none"]
    BY <2>4 DEF ServerDies
  <2>5. ASSUME \/ ReadFile \/ ListAgents \/ runDoctor \/ BootstrapReads \/ BootstrapProbesKnown \/ BootstrapWrites
               \/ \E f \in HandEdits : HandEdit(f)
               \/ \E p \in Packages : OperatorInstalls(p)
               \/ \E a \in RelayAgents : DeleteAccount(a) \/ MachineChanges(a)
               \/ \E a \in RelayAgents, roles \in {{}, {"plan"}, {"work"}}, models \in {"absent", "some"} :
                    PatchAgent(a, roles, models)
        PROVE  UNCHANGED request
    BY <2>5 DEF ReadFile, ListAgents, runDoctor, BootstrapReads, BootstrapProbesKnown, BootstrapWrites, HandEdit,
                OperatorInstalls, DeleteAccount, MachineChanges, PatchAgent
  <2>6. ASSUME NEW r \in FileRuns,
               \/ StartRun(r) \/ snapshotDeps(r) \/ snapshotSensitive(r) \/ AgentWritesFile(r)
               \/ \E p \in Packages : AgentWritesDeps(r, p)
               \/ detectAndRestore(r) \/ detectDepsLeak(r) \/ StageClean(r) \/ SettleRun(r)
        PROVE  UNCHANGED request
    BY <2>6 DEF StartRun, snapshotDeps, snapshotSensitive, AgentWritesFile, AgentWritesDeps, detectAndRestore,
                detectDepsLeak, StageClean, SettleRun
  <2>7. ASSUME UNCHANGED relayFileVars PROVE UNCHANGED request
    BY <2>7 DEF relayFileVars
  <2>8. QED
    BY <2>1, <2>2, <2>3, <2>4, <2>5, <2>6, <2>7 DEF RelayFileNext
<1>5. onMachine' \subseteq RelayAgents /\ doctor' \in [RelayAgents -> {"none", "ok", "spawnFailed"}]
  <2>1. \A a \in RelayAgents : ProbedNow(a) \in {"none", "ok", "spawnFailed"}
    BY DEF ProbedNow
  <2>2. ASSUME runDoctor \/ BootstrapProbesKnown \/ ServerDies
        PROVE  onMachine' = onMachine /\ doctor' \in [RelayAgents -> {"none", "ok", "spawnFailed"}]
    BY <2>1, <2>2 DEF runDoctor, BootstrapProbesKnown, ServerDies
  <2>3. ASSUME NEW a \in RelayAgents, MachineChanges(a) PROVE onMachine' \subseteq RelayAgents /\ doctor' = doctor
    BY <2>3 DEF MachineChanges
  <2>4. ASSUME \/ ReadFile \/ ListAgents \/ BootstrapReads \/ BootstrapWrites
               \/ \E f \in HandEdits : HandEdit(f)
               \/ \E p \in Packages : OperatorInstalls(p)
               \/ \E a \in RelayAgents : DeleteAccount(a)
               \/ \E a \in RelayAgents, roles \in {{}, {"plan"}, {"work"}}, models \in {"absent", "some"} :
                    PatchAgent(a, roles, models)
        PROVE  UNCHANGED <<onMachine, doctor>>
    BY <2>4 DEF ReadFile, ListAgents, BootstrapReads, BootstrapWrites, HandEdit, OperatorInstalls, DeleteAccount, PatchAgent
  <2>5. ASSUME NEW w \in FileWriters,
               \/ ConfigFails(w) \/ \E what \in {"add", "order", "patch"} : AskAccounts(w, what)
               \/ \E a \in RelayAgents : AddAccount(w, a) \/ OrderAccounts(w, a) \/ PatchAccount(w, a)
        PROVE  UNCHANGED <<onMachine, doctor>>
    BY <2>5 DEF ConfigFails, AskAccounts, AddAccount, OrderAccounts, PatchAccount, AccountsTo
  <2>6. ASSUME NEW r \in FileRuns,
               \/ StartRun(r) \/ snapshotDeps(r) \/ snapshotSensitive(r) \/ AgentWritesFile(r)
               \/ \E p \in Packages : AgentWritesDeps(r, p)
               \/ detectAndRestore(r) \/ detectDepsLeak(r) \/ StageClean(r) \/ SettleRun(r)
        PROVE  UNCHANGED <<onMachine, doctor>>
    BY <2>6 DEF StartRun, snapshotDeps, snapshotSensitive, AgentWritesFile, AgentWritesDeps, detectAndRestore,
                detectDepsLeak, StageClean, SettleRun
  <2>7. ASSUME UNCHANGED relayFileVars PROVE UNCHANGED <<onMachine, doctor>>
    BY <2>7 DEF relayFileVars
  <2>8. QED
    BY <2>2, <2>3, <2>4, <2>5, <2>6, <2>7 DEF RelayFileNext
<1>6. shared' \subseteq Packages /\ tampered' \subseteq FileRuns
  <2>1. CASE RouteWrites \/ BootstrapReads \/ BootstrapProbesKnown \/ FilesAlone
    BY <2>1 DEF RouteWrites, BootstrapReads, BootstrapProbesKnown, FilesAlone, depsVars
  <2>2. CASE ReadFile \/ ServerDies
    BY <2>2 DEF ReadFile, ServerDies, depsVars
  <2>3. CASE BootstrapWrites
    BY <2>3 DEF BootstrapWrites, depsVars
  <2>4. ASSUME NEW f \in HandEdits, HandEdit(f) PROVE shared' \subseteq Packages /\ tampered' \subseteq FileRuns
    BY <2>4 DEF HandEdit, depsVars
  <2>5. ASSUME NEW p \in Packages, OperatorInstalls(p) \/ \E r \in FileRuns : AgentWritesDeps(r, p)
        PROVE  shared' \subseteq Packages /\ tampered' \subseteq FileRuns
    BY <2>5 DEF OperatorInstalls, AgentWritesDeps, Writes
  <2>6. ASSUME NEW r \in FileRuns,
               \/ StartRun(r) \/ snapshotDeps(r) \/ snapshotSensitive(r) \/ AgentWritesFile(r)
               \/ detectAndRestore(r) \/ detectDepsLeak(r) \/ StageClean(r) \/ SettleRun(r)
        PROVE  shared' \subseteq Packages /\ tampered' \subseteq FileRuns
    BY <2>6 DEF StartRun, snapshotDeps, snapshotSensitive, AgentWritesFile, detectAndRestore,
                detectDepsLeak, StageClean, SettleRun, depsVars
  <2>7. QED
    BY <2>1, <2>2, <2>3, <2>4, <2>5, <2>6, FileSteps
<1>7. QED
  BY <1>1, <1>2, <1>3, <1>4, <1>5, <1>6

\* What each step does to the bytes: who wrote what is in the file, its copy, the snapshots and bootstrap's hands.
LEMMA BytesStep ==
  RelayFileInductive /\ [RelayFileNext]_relayFileVars => BytesKnown' /\ BytesLate' /\ TamperUndone'
<1> SUFFICES ASSUME RelayFileInductive, [RelayFileNext]_relayFileVars
             PROVE  BytesKnown' /\ BytesLate' /\ TamperUndone'
  OBVIOUS
<1> USE RelayFileAssumption DEF RelayFileAssumption, RelayFileInductive
<1>0. BytesKnown' => TamperUndone'
  BY DEF BytesKnown, TamperUndone, AtWork
<1>1. ASSUME UNCHANGED <<stage, bootstrap>>, spread => spread', relayBak'.foreign # Nobody => spread',
             relayBak'.foreign \in {relayBak.foreign, relayJson.foreign},
             relayJson'.foreign \in {relayJson.foreign, relayBak.foreign, bootstrap.foreign}
      PROVE  BytesKnown' /\ BytesLate'
  BY <1>1 DEF BytesKnown, BytesLate
<1>2. ASSUME loadRelayConfig
      PROVE  /\ spread' = spread /\ relayBak' = relayBak /\ relayJson' \in {relayJson, relayBak}
  BY <1>2 DEF loadRelayConfig, jsonVars
<1>3. CASE RouteWrites
  <2>1. PICK agents : DOMAIN agents \subseteq RelayAgents /\ writeRelayConfig(agents, relayJson.foreign)
    BY <1>3 DEF RouteWrites
  <2>2. relayJson.foreign \in Hands
    BY DEF FileTyped, CopiesTyped
  <2>3. /\ spread => spread'
        /\ relayBak'.foreign # Nobody => spread'
        /\ relayBak'.foreign \in {relayBak.foreign, relayJson.foreign} /\ relayJson'.foreign = relayJson.foreign
    BY <2>1, <2>2, WriteLoads DEF jsonVars
  <2>4. QED
    BY <1>0, <1>1, <1>3, <2>3 DEF RouteWrites
<1>4. CASE ReadFile
  <2>1. spread' = spread /\ relayBak' = relayBak /\ relayJson' \in {relayJson, relayBak}
    BY <1>2, <1>4 DEF ReadFile
  <2>2. UNCHANGED <<stage, bootstrap>>
    BY <1>4 DEF ReadFile
  <2>3. QED
    BY <1>0, <1>1, <2>1, <2>2 DEF BytesKnown
<1>5. CASE BootstrapReads
  <2>1. bootstrap'.foreign = relayJson.foreign /\ UNCHANGED <<relayJson, relayBak, spread, stage>>
    BY <1>5 DEF BootstrapReads, jsonVars
  <2>2. QED
    BY <1>0, <2>1 DEF BytesKnown, BytesLate
<1>6. CASE BootstrapProbesKnown
  <2>1. bootstrap'.foreign = bootstrap.foreign /\ UNCHANGED <<relayJson, relayBak, spread, stage>>
    BY <1>6 DEF BootstrapProbesKnown, jsonVars, CopiesTyped
  <2>2. QED
    BY <1>0, <2>1 DEF BytesKnown, BytesLate
<1>7. CASE BootstrapWrites
  <2>1. bootstrap'.foreign = bootstrap.foreign /\ UNCHANGED stage
    BY <1>7 DEF BootstrapWrites, CopiesTyped
  <2>2. /\ spread => spread'
        /\ relayBak'.foreign # Nobody => spread'
        /\ relayBak'.foreign \in {relayBak.foreign, relayJson.foreign}
        /\ relayJson'.foreign \in {relayJson.foreign, bootstrap.foreign}
    <3> DEFINE mine == bootstrap.agents
               removed == {a \in DOMAIN mine : LaneTypes[a] = "cli" /\ a \notin onMachine}
               added == bootstrap.answered \ DOMAIN mine
               next == [a \in (DOMAIN mine \ removed) \cup added |->
                          IF a \in added THEN FromTemplate(a) ELSE Enriched(a, mine[a])]
    <3>1. DOMAIN next \subseteq RelayAgents /\ bootstrap.foreign \in Hands
      BY DEF CopiesTyped
    <3>2. writeRelayConfig(next, bootstrap.foreign) \/ UNCHANGED jsonVars
      BY <1>7 DEF BootstrapWrites
    <3> HIDE DEF next
    <3>3. CASE writeRelayConfig(next, bootstrap.foreign)
      BY <3>1, <3>3, WriteLoads DEF jsonVars
    <3>4. CASE UNCHANGED jsonVars
      BY <3>4 DEF jsonVars, BytesKnown
    <3>5. QED
      BY <3>2, <3>3, <3>4
  <2>3. QED
    BY <1>0, <2>1, <2>2 DEF BytesKnown, BytesLate
<1>8. CASE ServerDies
  <2>1. \A r \in FileRuns : /\ stage'[r].snap = stage[r].snap
                            /\ stage'[r].pc = stage[r].pc \/ (stage[r].pc # "off" /\ stage'[r].pc = "crashed")
                            /\ stage[r].pc = "work" => stage'[r].pc = "crashed"
    BY <1>8 DEF ServerDies, CopiesTyped, Over
  <2>2. bootstrap'.foreign = bootstrap.foreign /\ UNCHANGED <<relayJson, relayBak, spread>>
    BY <1>8 DEF ServerDies, jsonVars, CopiesTyped
  <2>3. QED
    BY <1>0, <2>1, <2>2 DEF BytesKnown, BytesLate
<1>9. CASE FilesAlone \/ (\E p \in Packages : OperatorInstalls(p))
            \/ \E r \in FileRuns, p \in Packages : AgentWritesDeps(r, p)
  <2>1. UNCHANGED <<relayJson, relayBak, spread, stage, bootstrap>>
    BY <1>9 DEF FilesAlone, OperatorInstalls, AgentWritesDeps, jsonVars
  <2>2. QED
    BY <1>0, <2>1 DEF BytesKnown, BytesLate
<1>10. ASSUME NEW f \in HandEdits, HandEdit(f) PROVE BytesKnown' /\ BytesLate' /\ TamperUndone'
  <2>1. relayJson'.foreign = Nobody /\ UNCHANGED <<relayBak, spread, stage, bootstrap>>
    BY <1>10 DEF HandEdit
  <2>2. QED
    BY <1>0, <2>1 DEF BytesKnown, BytesLate
<1>11. ASSUME NEW r \in FileRuns, StartRun(r) PROVE BytesKnown' /\ BytesLate' /\ TamperUndone'
  <2>1. spread' = spread /\ relayBak' = relayBak /\ relayJson' \in {relayJson, relayBak} /\ bootstrap' = bootstrap
    BY <1>2, <1>11 DEF StartRun
  <2>2. /\ stage[r].pc = "off" /\ stage'[r].pc = "plan" /\ stage'[r].snap = stage[r].snap
        /\ \A q \in FileRuns \ {r} : stage'[q] = stage[q]
    BY <1>11 DEF StartRun, CopiesTyped
  <2>3. QED
    BY <1>0, <2>1, <2>2 DEF BytesKnown, BytesLate
<1>12. ASSUME NEW r \in FileRuns, snapshotDeps(r) PROVE BytesKnown' /\ BytesLate' /\ TamperUndone'
  <2>1. UNCHANGED <<relayJson, relayBak, spread, bootstrap>>
    BY <1>12 DEF snapshotDeps, jsonVars
  <2>2. /\ stage[r].pc = "plan" /\ stage'[r].pc = "based" /\ stage'[r].snap = stage[r].snap
        /\ \A q \in FileRuns \ {r} : stage'[q] = stage[q]
    BY <1>12 DEF snapshotDeps, CopiesTyped
  <2>3. QED
    BY <1>0, <2>1, <2>2 DEF BytesKnown, BytesLate
<1>13. ASSUME NEW r \in FileRuns, snapshotSensitive(r) PROVE BytesKnown' /\ BytesLate' /\ TamperUndone'
  <2>1. UNCHANGED <<relayJson, relayBak, bootstrap>> /\ (spread' <=> (spread \/ relayJson.foreign # Nobody))
    BY <1>13 DEF snapshotSensitive
  <2>2. /\ stage[r].pc = "based" /\ stage'[r].pc = "work" /\ stage'[r].snap = relayJson
        /\ \A q \in FileRuns \ {r} : stage'[q] = stage[q]
    BY <1>13 DEF snapshotSensitive, CopiesTyped
  <2>3. QED
    BY <1>0, <2>1, <2>2 DEF BytesKnown, BytesLate
<1>14. ASSUME NEW r \in FileRuns, AgentWritesFile(r) PROVE BytesKnown' /\ BytesLate' /\ TamperUndone'
  <2>1. relayJson'.foreign = r /\ stage[r].pc = "work" /\ UNCHANGED <<relayBak, spread, bootstrap, stage>>
    BY <1>14 DEF AgentWritesFile, CopiesTyped, FileTyped
  <2>2. QED
    BY <1>0, <2>1 DEF BytesKnown, BytesLate
<1>15. ASSUME NEW r \in FileRuns, detectAndRestore(r) PROVE BytesKnown' /\ BytesLate' /\ TamperUndone'
  <2>1. relayJson' = stage[r].snap /\ UNCHANGED <<relayBak, spread, bootstrap>>
    BY <1>15 DEF detectAndRestore
  <2>2. /\ stage[r].pc = "work" /\ stage'[r].pc = "failing" /\ stage'[r].snap = stage[r].snap
        /\ \A q \in FileRuns \ {r} : stage'[q] = stage[q]
    BY <1>15 DEF detectAndRestore, CopiesTyped
  <2>3. QED
    BY <1>0, <2>1, <2>2 DEF BytesKnown, BytesLate
<1>16. ASSUME NEW r \in FileRuns, detectDepsLeak(r) \/ StageClean(r) \/ SettleRun(r)
       PROVE  BytesKnown' /\ BytesLate' /\ TamperUndone'
  <2>1. UNCHANGED <<relayJson, relayBak, spread, bootstrap>>
    BY <1>16 DEF detectDepsLeak, StageClean, SettleRun, jsonVars
  <2>2. stage' = [stage EXCEPT ![r].pc = stage'[r].pc] /\ stage'[r].pc \in {"failing", "failed", "review", "passed"}
    BY <1>16 DEF detectDepsLeak, StageClean, SettleRun, CopiesTyped
  <2>3. stage'[r].snap = stage[r].snap /\ \A q \in FileRuns \ {r} : stage'[q] = stage[q]
    BY <2>2 DEF CopiesTyped
  <2>4. stage[r].pc \in {"failing", "review"} \/ (stage[r].pc = "work" /\ relayJson = stage[r].snap)
    BY <1>16 DEF detectDepsLeak, StageClean, SettleRun
  <2>5. BytesLate'
    BY <2>1, <2>2, <2>3, <2>4 DEF BytesLate
  <2>6. BytesKnown'
    BY <2>1, <2>2, <2>3, <2>4 DEF BytesKnown
  <2>7. QED
    BY <1>0, <2>5, <2>6
<1>17. QED
  BY <1>3, <1>4, <1>5, <1>6, <1>7, <1>8, <1>9, <1>10, <1>11, <1>12, <1>13, <1>14, <1>15, <1>16, FileSteps

\* Until some run fails, the last agent that wrote the file is at work.
LEMMA FindsStep == RelayFileInductive /\ [RelayFileNext]_relayFileVars => SomeoneFinds' /\ TamperSeen'
<1> SUFFICES ASSUME RelayFileInductive, [RelayFileNext]_relayFileVars
             PROVE  SomeoneFinds' /\ TamperSeen'
  OBVIOUS
<1> USE RelayFileAssumption DEF RelayFileAssumption, RelayFileInductive
<1>0. SomeoneFinds' => TamperSeen'
  BY DEF SomeoneFinds, TamperSeen, AtWork
<1>1. ASSUME UNCHANGED stage, tampered' \subseteq tampered, relayJson'.foreign = relayJson.foreign,
             relayJson'.json # "broken" \/ relayJson'.json = relayJson.json
      PROVE  SomeoneFinds'
  BY <1>1 DEF SomeoneFinds, Failures
<1>2. ASSUME loadRelayConfig, UNCHANGED tampered, Failures \subseteq Failures',
             \A r \in FileRuns : stage[r].pc = "work" => stage'[r].pc = "work"
      PROVE  SomeoneFinds'
  <2>1. relayJson.json = "broken" \/ relayJson' = relayJson
    BY <1>2 DEF loadRelayConfig, jsonVars
  <2>2. QED
    BY <1>2, <2>1 DEF SomeoneFinds
<1>3. CASE RouteWrites
  <2>1. PICK agents : DOMAIN agents \subseteq RelayAgents /\ writeRelayConfig(agents, relayJson.foreign)
    BY <1>3 DEF RouteWrites
  <2>2. relayJson.foreign \in Hands
    BY DEF FileTyped, CopiesTyped
  <2>3. relayJson'.foreign = relayJson.foreign /\ (relayJson'.json = "good" \/ relayJson' = relayJson)
    BY <2>1, <2>2, WriteLoads DEF jsonVars
  <2>4. QED
    BY <1>0, <1>1, <1>3, <2>3 DEF RouteWrites
<1>4. CASE ReadFile
  BY <1>0, <1>2, <1>4 DEF ReadFile, Failures
<1>5. CASE FilesAlone \/ BootstrapReads \/ BootstrapProbesKnown \/ \E p \in Packages : OperatorInstalls(p)
  <2>1. UNCHANGED <<relayJson, tampered, stage>>
    BY <1>5 DEF FilesAlone, BootstrapReads, BootstrapProbesKnown, OperatorInstalls, jsonVars
  <2>2. QED
    BY <1>0, <1>1, <2>1
<1>6. CASE BootstrapWrites
  <2>1. UNCHANGED stage /\ ((relayJson' = relayJson /\ tampered' = tampered) \/ tampered' = {})
    BY <1>6 DEF BootstrapWrites
  <2>2. QED
    BY <1>0, <1>1, <2>1 DEF SomeoneFinds
<1>7. CASE ServerDies
  <2>1. PICK r \in FileRuns : stage[r].pc \in {"plan", "based", "work", "review", "failing"}
    BY <1>7 DEF ServerDies, hasAnyActiveRun
  <2>2. stage[r].pc # "failing" => stage'[r].pc = "crashed"
    BY <1>7, <2>1 DEF ServerDies, CopiesTyped, Over
  <2>3. stage[r].pc = "failing" => stage'[r].pc = "failing"
    BY <1>7 DEF ServerDies, Over
  <2>4. Failures' # {}
    BY <2>2, <2>3 DEF Failures
  <2>5. QED
    BY <1>0, <2>4 DEF SomeoneFinds
<1>8. ASSUME NEW f \in HandEdits, HandEdit(f) PROVE SomeoneFinds' /\ TamperSeen'
  BY <1>0, <1>8 DEF HandEdit, SomeoneFinds
<1>9. ASSUME NEW r \in FileRuns, StartRun(r) PROVE SomeoneFinds' /\ TamperSeen'
  <2>1. /\ stage[r].pc = "off" /\ stage'[r].pc = "plan" /\ loadRelayConfig /\ UNCHANGED tampered
        /\ \A q \in FileRuns \ {r} : stage'[q] = stage[q]
    BY <1>9 DEF StartRun, CopiesTyped
  <2>2. QED
    BY <1>0, <1>2, <2>1 DEF Failures
<1>10. ASSUME NEW r \in FileRuns, snapshotDeps(r) \/ snapshotSensitive(r) PROVE SomeoneFinds' /\ TamperSeen'
  <2>1. /\ stage[r].pc \in {"plan", "based"} /\ stage'[r].pc \in {"based", "work"}
        /\ \A q \in FileRuns \ {r} : stage'[q] = stage[q]
    BY <1>10 DEF snapshotDeps, snapshotSensitive, CopiesTyped
  <2>2. UNCHANGED <<relayJson, tampered>>
    BY <1>10 DEF snapshotDeps, snapshotSensitive, jsonVars
  <2>3. QED
    BY <1>0, <2>1, <2>2 DEF SomeoneFinds, Failures
<1>11. ASSUME NEW r \in FileRuns, AgentWritesFile(r) PROVE SomeoneFinds' /\ TamperSeen'
  <2>1. relayJson'.foreign = r /\ relayJson'.json = "good" /\ stage[r].pc = "work" /\ UNCHANGED stage
    BY <1>11 DEF AgentWritesFile, CopiesTyped, FileTyped
  <2>2. QED
    BY <1>0, <2>1 DEF SomeoneFinds
<1>12. ASSUME NEW r \in FileRuns, NEW p \in Packages, AgentWritesDeps(r, p) PROVE SomeoneFinds' /\ TamperSeen'
  <2>1. UNCHANGED <<relayJson, tampered, stage>>
    BY <1>12 DEF AgentWritesDeps, jsonVars
  <2>2. QED
    BY <1>0, <1>1, <2>1
<1>13. ASSUME NEW r \in FileRuns, detectAndRestore(r) \/ detectDepsLeak(r) PROVE SomeoneFinds' /\ TamperSeen'
  <2>1. stage'[r].pc = "failing"
    BY <1>13 DEF detectAndRestore, detectDepsLeak, CopiesTyped
  <2>2. QED
    BY <1>0, <2>1 DEF SomeoneFinds, Failures
<1>14. ASSUME NEW r \in FileRuns, StageClean(r) \/ SettleRun(r) PROVE SomeoneFinds' /\ TamperSeen'
  <2>1. UNCHANGED <<relayJson, tampered>>
    BY <1>14 DEF StageClean, SettleRun, jsonVars
  <2>2. \A q \in FileRuns \ {r} : stage'[q] = stage[q]
    BY <1>14 DEF StageClean, SettleRun, CopiesTyped
  <2>3. stage[r].pc = "work" => relayJson.foreign # r
    BY <1>14 DEF StageClean, SettleRun, BytesLate
  <2>4. stage[r].pc = "failing" => stage'[r].pc = "failed"
    BY <1>14 DEF StageClean, SettleRun, CopiesTyped
  <2>5. stage[r].pc \in {"work", "failing", "review"}
    BY <1>14 DEF StageClean, SettleRun
  <2>6. Failures \subseteq Failures'
    BY <2>2, <2>4, <2>5 DEF Failures
  <2>7. QED
    BY <1>0, <2>1, <2>2, <2>3, <2>6 DEF SomeoneFinds
<1>15. QED
  BY <1>3, <1>4, <1>5, <1>6, <1>7, <1>8, <1>9, <1>10, <1>11, <1>12, <1>13, <1>14, FileSteps

\* What is left or taken back in the shared folder.
LEMMA PackagesStep ==
  RelayFileInductive /\ [RelayFileNext]_relayFileVars => PackagesKnown' /\ LeakSeen' /\ InstallsKept'
<1> SUFFICES ASSUME RelayFileInductive, [RelayFileNext]_relayFileVars
             PROVE  PackagesKnown' /\ LeakSeen' /\ InstallsKept'
  OBVIOUS
<1> USE RelayFileAssumption
    DEF RelayFileAssumption, RelayFileInductive, RelayFileInv, PackagesKnown, LeakSeen, InstallsKept, AtWork, Failures,
        Over, Hands
<1>1. ASSUME UNCHANGED depsVars,
             \A r \in FileRuns : \/ stage'[r] = stage[r]
                                 \/ stage[r].pc = "off" /\ stage'[r].pc = "plan"
                                 \/ stage[r].pc = "based" /\ stage'[r].pc = "work" /\ stage'[r].base = stage[r].base
                                 \/ stage[r].pc \in {"work", "plan", "based", "review"} /\ stage'[r].pc = "crashed"
                                 \/ stage[r].pc = "work" /\ stage'[r].pc = "failing"
                                 \/ stage[r].pc = "failing" /\ stage'[r].pc = "failed"
                                 \/ stage[r].pc = "review" /\ stage'[r].pc = "passed"
                                 \/ stage[r].pc = "work" /\ stage'[r].pc = "review" /\ LeakFound(r) = {}
      PROVE  PackagesKnown' /\ LeakSeen' /\ InstallsKept'
  <2>1. UNCHANGED <<shared, touched, wroteBy, disturbed>>
    BY <1>1 DEF depsVars
  <2>2. PackagesKnown'
    BY <1>1, <2>1
  <2>3. LeakSeen'
    <3> SUFFICES ASSUME NEW p \in shared, wroteBy[p] # Nobody,
                        stage'[wroteBy[p]].pc \in {"failing", "failed", "passed", "crashed", "review"}
                 PROVE  stage'[wroteBy[p]].pc \in {"failing", "failed", "crashed"}
      BY <2>1 DEF RelayFileTypeOK
    <3>1. p \in Packages /\ wroteBy[p] \in FileRuns
      BY DEF RelayFileTypeOK
    <3>2. stage[wroteBy[p]].pc = "work" => p \in LeakFound(wroteBy[p])
      BY <3>1 DEF LeakFound
    <3>3. stage[wroteBy[p]].pc # "review"
      BY <3>1
    <3>4. QED
      BY <1>1, <3>1, <3>2, <3>3
  <2>4. QED
    BY <2>1, <2>2, <2>3
<1>2. CASE RouteWrites \/ ReadFile \/ BootstrapReads \/ BootstrapProbesKnown \/ BootstrapWrites \/ FilesAlone
             \/ \E f \in HandEdits : HandEdit(f)
  <2>1. UNCHANGED <<depsVars, stage>>
    BY <1>2 DEF RouteWrites, ReadFile, BootstrapReads, BootstrapProbesKnown, BootstrapWrites, FilesAlone, HandEdit
  <2>2. QED
    BY <1>1, <2>1
<1>3. CASE ServerDies
  <2>1. UNCHANGED depsVars
    BY <1>3 DEF ServerDies
  <2>2. \A r \in FileRuns : stage'[r] = stage[r] \/ (/\ stage[r].pc \in {"work", "plan", "based", "review"}
                                                     /\ stage'[r].pc = "crashed")
    BY <1>3 DEF ServerDies, CopiesTyped, Stages
  <2>3. QED
    BY <1>1, <2>1, <2>2
<1>4. ASSUME NEW p \in Packages, OperatorInstalls(p) PROVE PackagesKnown' /\ LeakSeen' /\ InstallsKept'
  <2>1. /\ shared' = shared \cup {p} /\ touched' = [r \in FileRuns |-> touched[r] \cup {p}]
        /\ wroteBy' = [wroteBy EXCEPT ![p] = Nobody] /\ UNCHANGED stage
        /\ disturbed' = IF AtWork = {} THEN disturbed \ {p} ELSE disturbed \cup {p}
    BY <1>4 DEF OperatorInstalls, Writes
  <2>2. PackagesKnown'
    BY <2>1 DEF RelayFileTypeOK
  <2>3. LeakSeen'
    BY <2>1 DEF RelayFileTypeOK
  <2>4. InstallsKept'
    BY <2>1
  <2>5. QED
    BY <2>2, <2>3, <2>4
<1>5. ASSUME NEW r \in FileRuns, NEW p \in Packages, AgentWritesDeps(r, p)
      PROVE  PackagesKnown' /\ LeakSeen' /\ InstallsKept'
  <2>1. /\ shared' = shared \cup {p} /\ touched' = [q \in FileRuns |-> touched[q] \cup {p}]
        /\ wroteBy' = [wroteBy EXCEPT ![p] = r] /\ stage[r].pc = "work" /\ UNCHANGED <<stage, disturbed>>
    BY <1>5 DEF AgentWritesDeps, Writes
  <2>2. PackagesKnown'
    BY <2>1 DEF RelayFileTypeOK
  <2>3. LeakSeen'
    BY <2>1 DEF RelayFileTypeOK
  <2>4. InstallsKept'
    BY <2>1
  <2>5. QED
    BY <2>2, <2>3, <2>4
<1>6. ASSUME NEW r \in FileRuns, snapshotDeps(r) PROVE PackagesKnown' /\ LeakSeen' /\ InstallsKept'
  <2>1. /\ stage[r].pc = "plan" /\ stage'[r].pc = "based" /\ stage'[r].base = shared
        /\ \A q \in FileRuns \ {r} : stage'[q] = stage[q]
        /\ touched' = [touched EXCEPT ![r] = {}] /\ UNCHANGED <<shared, wroteBy, disturbed>>
    BY <1>6 DEF snapshotDeps, CopiesTyped
  <2>2. PackagesKnown'
    BY <2>1 DEF RelayFileTypeOK
  <2>3. LeakSeen'
    BY <2>1 DEF RelayFileTypeOK
  <2>4. InstallsKept'
    BY <2>1 DEF RelayFileTypeOK
  <2>5. QED
    BY <2>2, <2>3, <2>4
<1>7. ASSUME NEW r \in FileRuns, detectDepsLeak(r) PROVE PackagesKnown' /\ LeakSeen' /\ InstallsKept'
  <2>1. /\ stage[r].pc = "work" /\ stage'[r].pc = "failing" /\ \A q \in FileRuns \ {r} : stage'[q] = stage[q]
        /\ shared' = shared \cap stage[r].base /\ UNCHANGED <<touched, wroteBy, disturbed>>
    BY <1>7 DEF detectDepsLeak, CopiesTyped
  <2>2. PackagesKnown'
    BY <2>1 DEF RelayFileTypeOK
  <2>3. LeakSeen'
    BY <2>1 DEF RelayFileTypeOK
  <2>4. InstallsKept'
    BY <2>1 DEF RelayFileTypeOK
  <2>5. QED
    BY <2>2, <2>3, <2>4
<1>8. ASSUME NEW r \in FileRuns,
             StartRun(r) \/ snapshotSensitive(r) \/ AgentWritesFile(r) \/ detectAndRestore(r) \/ StageClean(r) \/ SettleRun(r)
      PROVE  PackagesKnown' /\ LeakSeen' /\ InstallsKept'
  <2>1. UNCHANGED depsVars
    BY <1>8 DEF StartRun, snapshotSensitive, AgentWritesFile, detectAndRestore, StageClean, SettleRun
  <2>2. \A q \in FileRuns \ {r} : stage'[q] = stage[q]
    BY <1>8 DEF StartRun, snapshotSensitive, AgentWritesFile, detectAndRestore, StageClean, SettleRun, CopiesTyped
  <2>3. \/ stage'[r] = stage[r]
        \/ stage[r].pc = "off" /\ stage'[r].pc = "plan"
        \/ stage[r].pc = "based" /\ stage'[r].pc = "work" /\ stage'[r].base = stage[r].base
        \/ stage[r].pc = "work" /\ stage'[r].pc = "failing"
        \/ stage[r].pc = "failing" /\ stage'[r].pc = "failed"
        \/ stage[r].pc = "review" /\ stage'[r].pc = "passed"
        \/ stage[r].pc = "work" /\ stage'[r].pc = "review" /\ LeakFound(r) = {}
    BY <1>8 DEF StartRun, snapshotSensitive, AgentWritesFile, detectAndRestore, StageClean, SettleRun, CopiesTyped
  <2>4. QED
    BY <1>1, <2>1, <2>2, <2>3
<1>9. QED
  BY <1>2, <1>3, <1>4, <1>5, <1>6, <1>7, <1>8, FileSteps

\* The file is as the program left it and no run has begun.
LEMMA RelayFileStarts == RelayFileInit => RelayFileInductive
<1> SUFFICES ASSUME RelayFileInit PROVE RelayFileInductive
  OBVIOUS
<1> USE RelayFileAssumption DEF RelayFileAssumption, RelayFileInit, Json, Outside
<1>1. CopiesTyped
  BY DEF CopiesTyped, FileTyped, Stages, Over, Hands
<1>2. RelayFileTypeOK /\ TamperUndone /\ TamperSeen /\ LeakSeen /\ InstallsKept
  BY DEF RelayFileTypeOK, TamperUndone, TamperSeen, LeakSeen, InstallsKept
<1>3. BytesKnown /\ BytesLate /\ SomeoneFinds
  BY DEF BytesKnown, BytesLate, SomeoneFinds
<1>4. PackagesKnown
  BY DEF PackagesKnown, Hands
<1>5. QED
  BY <1>1, <1>2, <1>3, <1>4 DEF RelayFileInductive, RelayFileInv, FileLoads

\* What agents do to relay.json and to the shared packages is undone or known, and what the program wrote loads,
\* for every number of runs, agents and requests (config.ts, sentinel.ts).
THEOREM RelayFileHolds == RelayFileSpec => []RelayFileInv
<1>1. RelayFileInit => RelayFileInductive
  BY RelayFileStarts
<1>2. RelayFileInductive /\ [RelayFileNext]_relayFileVars => RelayFileInductive'
  BY CopiesStep, FileTypesStep, BytesStep, FindsStep, PackagesStep DEF RelayFileInductive, RelayFileInv
<1>3. RelayFileInductive => RelayFileInv
  BY DEF RelayFileInductive
<1>4. QED
  BY <1>1, <1>2, <1>3, PTL DEF RelayFileSpec

-----------------------------------------------------------------------------
\* The entry of the server in the files of clients (Wiring).

WiringSpec == WiringInit /\ [][WiringNext]_wiringVars

Places == DOMAIN WireLanes
Keys == 0..LaneKeys
Entries == {None, Hand, Broken} \cup 1..LaneKeys
PassTypes == [at : {"off", "lane", "known", "install", "make", "store", "write", "again", "done"},
              todo : SUBSET Places, on : Places \cup {0}, optedIn : SUBSET Lanes, key : Keys, flagged : SUBSET Lanes,
              why : {"", "unanswered", "absent", "stored"}]

PassesTyped ==
  /\ pass \in [WirePasses -> PassTypes] /\ keyCount \in Keys /\ twoKeys \in BOOLEAN /\ wireEdits \in Nat
  /\ copied \in [Clients -> Entries] /\ optOut \in [Lanes -> {"none", "crossed", "quiet"}]
  /\ \A w \in WirePasses : pass[w].at \in {"known", "install", "make", "store", "write", "again"} => pass[w].on \in Places

\* While no two passes have made a key each, there is one: whoever makes it has found none, and is alone.
KeysKnown ==
  /\ \A w \in WirePasses : /\ pass[w].at = "make" => pass[w].key = None
                           /\ pass[w].at \in {"store", "write"} => pass[w].key # None
  /\ ~twoKeys => \A w \in WirePasses : /\ pass[w].at \in {"make", "store"} => laneKey = None
                                       /\ pass[w].key # None /\ pass[w].at # "store" => pass[w].key = laneKey

\* A lane that opted out in quiet is not in the hands of any pass.
OptOutsSeen ==
  \A l \in Lanes, w \in WirePasses : optOut[l] = "quiet" /\ pass[w].at \notin {"off", "done"} =>
    /\ l \notin pass[w].flagged /\ \A i \in pass[w].todo : WireLanes[i] # l
    /\ pass[w].at \in {"known", "install", "make", "store", "write", "again"} => WireLanes[pass[w].on] # l

\* Why a pass replaces what it meets.
ReasonsGood ==
  \A w \in WirePasses : pass[w].at \in {"install", "make", "store", "write"} =>
    LET c == ClientOf[WireLanes[pass[w].on]] IN
      /\ pass[w].why = "unanswered" => ClientKind[c] \in {"asked", "named"}
      /\ pass[w].why = "absent" /\ entry[c] = Hand => wireEdits > 0

WiringInductive == WiringInv /\ PassesTyped /\ KeysKnown /\ OptOutsSeen /\ ReasonsGood

\* Every lane has a client.
LEMMA LanesPlaced ==
  ASSUME NEW i \in Places
  PROVE  WireLanes[i] \in Lanes /\ ClientOf[WireLanes[i]] \in Clients
BY WiringAssumption DEF WiringAssumption, Places, Lanes, Clients, ToSet

\* No key is one of the numbers, and a next one is while there are fewer than the bound.
LEMMA KeysCounted == None \in Keys /\ \A n \in Keys : n < LaneKeys => n + 1 \in Keys
<1>1. LaneKeys \in Nat
  BY WiringAssumption DEF WiringAssumption
<1>2. QED
  BY <1>1 DEF Keys, None

\* A step of a pass is one of these, in what it does to its own record and to the rest.
LEMMA PassSteps ==
  ASSUME WiringInductive, NEW w \in WirePasses,
         \/ ensureMcpWiring(w) \/ CheckLane(w) \/ clientEntryCurrent(w) \/ ReadKey(w) \/ createActor(w)
         \/ StoreKey(w) \/ InstallClient(w) \/ CheckAgain(w) \/ FlagLanes(w)
  PROVE  /\ pass' = [pass EXCEPT ![w] = pass'[w]] /\ pass'[w] \in PassTypes
         /\ pass'[w].at \in {"known", "install", "make", "store", "write", "again"} => pass'[w].on \in Places
         /\ UNCHANGED <<optOut, wireEdits>>
<1> USE DEF WiringInductive, WiringInv, WiringTypeOK, PassesTyped, PassTypes
<1>0. pass[w] \in PassTypes
  BY DEF PassTypes
<1>1. CASE ensureMcpWiring(w)
  <2> DEFINE wanted(l) == flag[l] # "no" /\ WireKind(l) # "other"
             new == [NoPass EXCEPT !.at = "lane", !.todo = {i \in DOMAIN WireLanes : wanted(WireLanes[i])},
                                   !.optedIn = {l \in Lanes : flag[l] = "yes"}]
  <2>1. pass' = [pass EXCEPT ![w] = new] /\ UNCHANGED <<optOut, wireEdits>>
    BY <1>1 DEF ensureMcpWiring
  <2>2. new \in PassTypes /\ new.at = "lane"
    <3>1. NoPass \in PassTypes
      BY KeysCounted DEF NoPass
    <3>2. {i \in DOMAIN WireLanes : wanted(WireLanes[i])} \subseteq Places /\ {l \in Lanes : flag[l] = "yes"} \subseteq Lanes
      BY DEF Places
    <3> HIDE DEF wanted
    <3>3. QED
      BY <3>1, <3>2
  <2> HIDE DEF new
  <2>3. QED
    BY <2>1, <2>2
<1>2. CASE CheckLane(w)
  <2>1. PICK i \in pass[w].todo : \E known \in Answers(WireLanes[i]) :
            pass' = [pass EXCEPT
                       ![w].at = IF known THEN "known" ELSE "install", ![w].on = i, ![w].todo = @ \ {i},
                       ![w].why = IF known THEN "" ELSE IF Registered(WireLanes[i]) THEN "unanswered" ELSE "absent"]
    BY <1>2 DEF CheckLane
  <2>2. PICK known \in Answers(WireLanes[i]) :
            pass' = [pass EXCEPT
                       ![w].at = IF known THEN "known" ELSE "install", ![w].on = i, ![w].todo = @ \ {i},
                       ![w].why = IF known THEN "" ELSE IF Registered(WireLanes[i]) THEN "unanswered" ELSE "absent"]
    BY <2>1
  <2> DEFINE at == IF known THEN "known" ELSE "install"
             why == IF known THEN "" ELSE IF Registered(WireLanes[i]) THEN "unanswered" ELSE "absent"
             new == [pass[w] EXCEPT !.at = at, !.on = i, !.todo = @ \ {i}, !.why = why]
  <2>3. at \in {"known", "install"} /\ why \in {"", "unanswered", "absent"} /\ i \in Places
    BY <1>0
  <2> HIDE DEF at, why
  <2>4. new \in PassTypes /\ new.on = i
    BY <1>0, <2>3
  <2>5. pass' = [pass EXCEPT ![w] = new]
    BY <2>2 DEF at, why
  <2> HIDE DEF new
  <2>6. UNCHANGED <<optOut, wireEdits>>
    BY <1>2 DEF CheckLane
  <2>7. QED
    BY <2>3, <2>4, <2>5, <2>6
<1>3. ASSUME NEW flagged \in SUBSET Lanes, NextLane(w, flagged)
      PROVE  /\ pass' = [pass EXCEPT ![w] = pass'[w]] /\ pass'[w] \in PassTypes
             /\ pass'[w].at = "lane"
  <2> DEFINE new == [pass[w] EXCEPT !.on = 0, !.flagged = @ \cup flagged, !.at = "lane", !.why = ""]
  <2>1. new \in PassTypes /\ new.at = "lane"
    BY <1>0
  <2>2. pass' = [pass EXCEPT ![w] = new]
    BY <1>3 DEF NextLane
  <2> HIDE DEF new
  <2>3. QED
    BY <2>1, <2>2
<1>4. CASE clientEntryCurrent(w)
  <2>1. UNCHANGED <<optOut, wireEdits>> /\ pass[w].on \in Places
    BY <1>4 DEF clientEntryCurrent
  <2>2. CASE NextLane(w, {Lane(w)} \ pass[w].optedIn)
    <3>1. {Lane(w)} \ pass[w].optedIn \in SUBSET Lanes
      BY <2>1, LanesPlaced DEF Lane
    <3>2. QED
      BY <1>3, <2>1, <2>2, <3>1
  <2>3. CASE pass' = [pass EXCEPT ![w].at = "install", ![w].why = IF laneKey # None THEN "stored" ELSE "none"]
             /\ laneKey # None
    <3> DEFINE new == [pass[w] EXCEPT !.at = "install", !.why = "stored"]
    <3>1. new \in PassTypes /\ new.on = pass[w].on
      BY <1>0
    <3>2. pass' = [pass EXCEPT ![w] = new]
      BY <2>3
    <3> HIDE DEF new
    <3>3. QED
      BY <2>1, <3>1, <3>2
  <2>4. QED
    BY <1>4, <2>2, <2>3 DEF clientEntryCurrent
<1>5. CASE ReadKey(w) \/ createActor(w) \/ StoreKey(w)
  <2>1. UNCHANGED <<optOut, wireEdits>> /\ pass[w].on \in Places
    BY <1>5 DEF ReadKey, createActor, StoreKey
  <2>2. PICK at \in {"write", "make", "store"}, key \in Keys : pass' = [pass EXCEPT ![w].at = at, ![w].key = key]
    <3>1. CASE ReadKey(w)
      BY <3>1 DEF ReadKey, Keys
    <3>2. CASE createActor(w)
      <4>1. keyCount + 1 \in Keys
        BY <3>2, KeysCounted DEF createActor
      <4>2. pass' = [pass EXCEPT ![w].at = "store", ![w].key = keyCount + 1]
        BY <3>2 DEF createActor
      <4>3. QED
        BY <4>1, <4>2
    <3>3. CASE StoreKey(w)
      <4>1. pass' = [pass EXCEPT ![w].at = "write", ![w].key = pass[w].key]
        BY <1>0, <3>3 DEF StoreKey
      <4>2. QED
        BY <1>0, <4>1
    <3>4. QED
      BY <1>5, <3>1, <3>2, <3>3
  <2> DEFINE new == [pass[w] EXCEPT !.at = at, !.key = key]
  <2>3. new \in PassTypes /\ new.on = pass[w].on
    BY <1>0
  <2>4. pass' = [pass EXCEPT ![w] = new]
    BY <2>2
  <2> HIDE DEF new
  <2>5. QED
    BY <2>1, <2>3, <2>4
<1>6. CASE InstallClient(w) \/ CheckAgain(w)
  <2>1. UNCHANGED <<optOut, wireEdits>> /\ pass[w].on \in Places
    BY <1>6 DEF InstallClient, CheckAgain
  <2>2. Lane(w) \in Lanes
    BY <2>1, LanesPlaced DEF Lane
  <2>3. NextLane(w, {}) \/ NextLane(w, {Lane(w)}) \/ pass' = [pass EXCEPT ![w].at = "again"]
    BY <1>6, Zenon DEF InstallClient, CheckAgain
  <2>4. CASE pass' = [pass EXCEPT ![w].at = "again"]
    <3> DEFINE new == [pass[w] EXCEPT !.at = "again"]
    <3>1. new \in PassTypes /\ new.on = pass[w].on
      BY <1>0
    <3>2. pass' = [pass EXCEPT ![w] = new]
      BY <2>4
    <3> HIDE DEF new
    <3>3. QED
      BY <2>1, <3>1, <3>2
  <2>5. CASE NextLane(w, {}) \/ NextLane(w, {Lane(w)})
    BY <1>3, <2>1, <2>2, <2>5
  <2>6. QED
    BY <2>3, <2>4, <2>5
<1>7. CASE FlagLanes(w)
  <2> DEFINE new == [pass[w] EXCEPT !.at = "done"]
  <2>1. new \in PassTypes /\ new.at = "done"
    BY <1>0
  <2>2. pass' = [pass EXCEPT ![w] = new] /\ UNCHANGED <<optOut, wireEdits>>
    BY <1>7 DEF FlagLanes
  <2> HIDE DEF new
  <2>3. QED
    BY <2>1, <2>2
<1>8. QED
  BY <1>1, <1>2, <1>4, <1>5, <1>6, <1>7

\* What is not a step of a pass is the operator's, or none.
LEMMA WiringTypesStep == WiringInductive /\ [WiringNext]_wiringVars => WiringTypeOK' /\ PassesTyped'
<1> SUFFICES ASSUME WiringInductive, [WiringNext]_wiringVars
             PROVE  WiringTypeOK' /\ PassesTyped'
  OBVIOUS
<1> USE DEF WiringInductive, WiringInv
<1> DEFINE RestTyped == /\ entry \in [Clients -> Entries] /\ laneKey \in Keys /\ keyCount \in Keys /\ twoKeys \in BOOLEAN
                        /\ flag \in [Lanes -> {"unset", "yes", "no"}] /\ copied \in [Clients -> Entries]
           PassTyped == /\ pass \in [WirePasses -> PassTypes]
                        /\ \A w \in WirePasses : pass[w].at \in {"known", "install", "make", "store", "write", "again"}
                                                   => pass[w].on \in Places
<1>0. RestTyped /\ PassTyped /\ wireEdits \in Nat /\ optOut \in [Lanes -> {"none", "crossed", "quiet"}]
  BY DEF WiringTypeOK, PassesTyped, Entries, Keys
<1>1. RestTyped' /\ PassTyped' /\ wireEdits' \in Nat /\ optOut' \in [Lanes -> {"none", "crossed", "quiet"}]
      => WiringTypeOK' /\ PassesTyped'
  <2>1. \A k : k \in PassTypes => k.key \in 0..LaneKeys
    BY DEF PassTypes, Keys
  <2>2. QED
    BY <2>1 DEF WiringTypeOK, PassesTyped, Entries, Keys
<1>2. ASSUME NEW w \in WirePasses,
             \/ ensureMcpWiring(w) \/ CheckLane(w) \/ clientEntryCurrent(w) \/ ReadKey(w) \/ createActor(w)
             \/ StoreKey(w) \/ InstallClient(w) \/ CheckAgain(w) \/ FlagLanes(w)
      PROVE  WiringTypeOK' /\ PassesTyped'
  <2>1. /\ pass' = [pass EXCEPT ![w] = pass'[w]] /\ pass'[w] \in PassTypes
        /\ pass'[w].at \in {"known", "install", "make", "store", "write", "again"} => pass'[w].on \in Places
        /\ UNCHANGED <<optOut, wireEdits>>
    BY <1>2, PassSteps
  <2>2. PassTyped'
    BY <1>0, <2>1
  <2>3. pass[w].key \in Keys
    BY <1>0 DEF PassTypes
  <2>4. RestTyped'
    <3>1. CASE ensureMcpWiring(w) \/ CheckLane(w) \/ clientEntryCurrent(w) \/ ReadKey(w) \/ CheckAgain(w)
      BY <1>0, <3>1 DEF ensureMcpWiring, CheckLane, clientEntryCurrent, ReadKey, CheckAgain, filesVars, keyVars
    <3>2. CASE createActor(w)
      BY <1>0, <3>2, KeysCounted DEF createActor, filesVars
    <3>3. CASE StoreKey(w)
      <4>1. twoKeys' \in BOOLEAN
        BY <3>3 DEF StoreKey
      <4>2. QED
        BY <1>0, <2>3, <3>3, <4>1 DEF StoreKey, filesVars
    <3>4. CASE FlagLanes(w)
      BY <1>0, <3>4 DEF FlagLanes, filesVars, keyVars
    <3>5. CASE InstallClient(w)
      <4>1. UNCHANGED <<keyVars, flag>>
        BY <3>5 DEF InstallClient
      <4>2. UNCHANGED filesVars \/ Install(ClientOf[Lane(w)], pass[w].key, pass[w].why)
        BY <3>5 DEF InstallClient
      <4>3. ASSUME NEW c, NEW why, Install(c, pass[w].key, why)
            PROVE  entry' \in [Clients -> Entries] /\ copied' \in [Clients -> Entries]
        <5>1. pass[w].key \in Entries
          BY <2>3 DEF Keys, Entries, None
        <5>2. QED
          BY <1>0, <4>3, <5>1 DEF Install
      <4>4. QED
        BY <1>0, <4>1, <4>2, <4>3 DEF filesVars, keyVars
    <3>6. QED
      BY <1>2, <3>1, <3>2, <3>3, <3>4, <3>5
  <2>5. QED
    BY <1>0, <1>1, <2>1, <2>2, <2>4
<1>3. ASSUME NEW l \in Lanes, OptOut(l) PROVE WiringTypeOK' /\ PassesTyped'
  BY <1>0, <1>1, <1>3 DEF OptOut, Edit, filesVars, keyVars
<1>4. ASSUME NEW c \in Clients, RegisterByHand(c) PROVE WiringTypeOK' /\ PassesTyped'
  <2>1. Hand \in Entries
    BY DEF Entries
  <2>2. QED
    BY <1>0, <1>1, <1>4, <2>1 DEF RegisterByHand, Edit, keyVars
<1>5. CASE UNCHANGED wiringVars
  BY <1>0, <1>1, <1>5 DEF wiringVars
<1>6. QED
  BY <1>2, <1>3, <1>4, <1>5 DEF WiringNext

\* What a pass remembers when it goes on to the next lane.
LEMMA NextLaneDoes ==
  ASSUME WiringInductive, NEW w \in WirePasses, NEW flagged, NextLane(w, flagged)
  PROVE  /\ pass'[w].at = "lane" /\ pass'[w].todo = pass[w].todo /\ pass'[w].key = pass[w].key
         /\ pass'[w].flagged = pass[w].flagged \cup flagged /\ \A v \in WirePasses \ {w} : pass'[v] = pass[v]
<1>1. pass \in [WirePasses -> PassTypes]
  BY DEF WiringInductive, PassesTyped
<1> DEFINE new == [pass[w] EXCEPT !.on = 0, !.flagged = @ \cup flagged, !.at = "lane", !.why = ""]
<1>2. /\ new.at = "lane" /\ new.todo = pass[w].todo /\ new.key = pass[w].key
      /\ new.flagged = pass[w].flagged \cup flagged
  BY <1>1 DEF PassTypes
<1>3. pass' = [pass EXCEPT ![w] = new]
  BY DEF NextLane
<1> HIDE DEF new
<1>4. QED
  BY <1>1, <1>2, <1>3

\* What a pass remembers when it looks at a lane.
LEMMA CheckLaneDoes ==
  ASSUME WiringInductive, NEW w \in WirePasses, CheckLane(w)
  PROVE  \E i \in pass[w].todo :
           /\ pass[w].at = "lane" /\ pass'[w].at \in {"known", "install"} /\ pass'[w].on = i
           /\ pass'[w].todo = pass[w].todo \ {i} /\ pass'[w].key = pass[w].key
           /\ pass'[w].flagged = pass[w].flagged /\ \A v \in WirePasses \ {w} : pass'[v] = pass[v]
           /\ pass'[w].at = "install" =>
                pass'[w].why = IF Registered(WireLanes[i]) THEN "unanswered" ELSE "absent"
           /\ (pass'[w].at = "known") \in Answers(WireLanes[i])
<1>1. pass \in [WirePasses -> PassTypes]
  BY DEF WiringInductive, PassesTyped
<1>2. PICK i \in pass[w].todo : \E known \in Answers(WireLanes[i]) :
          pass' = [pass EXCEPT
                     ![w].at = IF known THEN "known" ELSE "install", ![w].on = i, ![w].todo = @ \ {i},
                     ![w].why = IF known THEN "" ELSE IF Registered(WireLanes[i]) THEN "unanswered" ELSE "absent"]
  BY DEF CheckLane
<1>3. PICK known \in Answers(WireLanes[i]) :
          pass' = [pass EXCEPT
                     ![w].at = IF known THEN "known" ELSE "install", ![w].on = i, ![w].todo = @ \ {i},
                     ![w].why = IF known THEN "" ELSE IF Registered(WireLanes[i]) THEN "unanswered" ELSE "absent"]
  BY <1>2
<1> DEFINE at == IF known THEN "known" ELSE "install"
           why == IF known THEN "" ELSE IF Registered(WireLanes[i]) THEN "unanswered" ELSE "absent"
           new == [pass[w] EXCEPT !.at = at, !.on = i, !.todo = @ \ {i}, !.why = why]
<1>4. /\ new.at = at /\ new.on = i /\ new.todo = pass[w].todo \ {i} /\ new.key = pass[w].key
      /\ new.flagged = pass[w].flagged /\ new.why = why
  <2> HIDE DEF at, why
  <2>1. QED
    BY <1>1 DEF PassTypes
<1>5. pass' = [pass EXCEPT ![w] = new]
  BY <1>3
<1>6. known \in BOOLEAN
  <2>1. Registered(WireLanes[i]) \in BOOLEAN
    BY DEF Registered
  <2>2. Answers(WireLanes[i]) \subseteq {Registered(WireLanes[i]), FALSE}
    BY Zenon DEF Answers
  <2>3. QED
    BY <2>1, <2>2, Zenon
<1>7. (at = "known") = known /\ (at = "install" => why = IF Registered(WireLanes[i]) THEN "unanswered" ELSE "absent")
  BY <1>6
<1>8. at \in {"known", "install"}
  OBVIOUS
<1> HIDE DEF at, why, new
<1>9. pass'[w] = new /\ \A v \in WirePasses \ {w} : pass'[v] = pass[v]
  BY <1>1, <1>5
<1>10. pass[w].at = "lane"
  BY DEF CheckLane
<1>11. (pass'[w].at = "known") \in Answers(WireLanes[i])
  BY <1>3, <1>4, <1>7, <1>9
<1>12. QED
  BY <1>4, <1>7, <1>8, <1>9, <1>10, <1>11

\* A key is made only where there is none, and used only as it is stored.
LEMMA KeysStep == WiringInductive /\ [WiringNext]_wiringVars => KeysKnown' /\ OneLaneKey'
<1> SUFFICES ASSUME WiringInductive, [WiringNext]_wiringVars
             PROVE  KeysKnown' /\ OneLaneKey'
  OBVIOUS
<1> USE DEF WiringInductive, WiringInv, None
<1> DEFINE PassOK(p) == (p.at = "make" => p.key = None) /\ (p.at \in {"store", "write"} => p.key # None)
           PassKey(p) == /\ p.at \in {"make", "store"} => laneKey = None
                         /\ p.key # None /\ p.at # "store" => p.key = laneKey
<1>0. /\ pass \in [WirePasses -> PassTypes] /\ laneKey \in Nat /\ \A w \in WirePasses : pass[w].key \in Nat
      /\ entry \in [Clients -> Entries] /\ keyCount \in Nat /\ twoKeys \in BOOLEAN
  <2>1. Keys \subseteq Nat
    BY DEF Keys
  <2>2. pass \in [WirePasses -> PassTypes] /\ laneKey \in Keys /\ keyCount \in Keys /\ entry \in [Clients -> Entries]
    BY DEF PassesTyped, WiringTypeOK, Keys, Entries
  <2>3. QED
    BY <2>1, <2>2 DEF PassTypes, PassesTyped
<1>1. (\A c \in Clients : entry[c] > 0 /\ ~twoKeys => entry[c] = laneKey)
  BY DEF OneLaneKey
<1>2. ASSUME UNCHANGED <<laneKey, twoKeys>>,
             \A w \in WirePasses : pass'[w] = pass[w] \/ (PassOK(pass'[w]) /\ (~twoKeys => PassKey(pass'[w]))),
             \A c \in Clients : \/ entry'[c] = entry[c] \/ ~(entry'[c] > 0)
                                \/ entry'[c] # None /\ (~twoKeys => entry'[c] = laneKey)
      PROVE  KeysKnown' /\ OneLaneKey'
  BY <1>0, <1>2 DEF KeysKnown, OneLaneKey
<1>3. ASSUME NEW w \in WirePasses,
             ensureMcpWiring(w) \/ CheckLane(w) \/ clientEntryCurrent(w) \/ CheckAgain(w) \/ FlagLanes(w) \/ ReadKey(w)
      PROVE  KeysKnown' /\ OneLaneKey'
  <2>1. UNCHANGED <<laneKey, twoKeys, entry>>
    BY <1>3 DEF ensureMcpWiring, CheckLane, clientEntryCurrent, CheckAgain, FlagLanes, ReadKey, filesVars, keyVars
  <2>2. pass' = [pass EXCEPT ![w] = pass'[w]]
    BY <1>3, PassSteps
  <2>3. PassOK(pass'[w]) /\ (~twoKeys => PassKey(pass'[w]))
    <3>1. CASE ensureMcpWiring(w)
      BY <1>0, <3>1 DEF ensureMcpWiring, NoPass
    <3>2. CASE CheckLane(w)
      <4>2. pass'[w].at \in {"known", "install"} /\ pass'[w].key = pass[w].key /\ pass[w].at = "lane"
        BY <3>2, CheckLaneDoes
      <4>3. QED
        BY <4>2 DEF KeysKnown
    <3>3. CASE clientEntryCurrent(w)
      <4>1. pass'[w].at \in {"install", "lane"} /\ pass'[w].key = pass[w].key /\ pass[w].at = "known"
        <5>1. CASE NextLane(w, {Lane(w)} \ pass[w].optedIn)
          BY <3>3, <5>1, NextLaneDoes DEF clientEntryCurrent
        <5>2. CASE pass' = [pass EXCEPT ![w].at = "install", ![w].why = IF laneKey # None THEN "stored" ELSE "none"]
          BY <1>0, <3>3, <5>2 DEF clientEntryCurrent, PassTypes
        <5>3. QED
          BY <3>3, <5>1, <5>2 DEF clientEntryCurrent
      <4>2. QED
        BY <4>1 DEF KeysKnown
    <3>4. CASE CheckAgain(w)
      <4>1. pass'[w].at = "lane" /\ pass'[w].key = pass[w].key /\ pass[w].at = "again"
        BY <3>4, NextLaneDoes DEF CheckAgain
      <4>2. QED
        BY <4>1 DEF KeysKnown
    <3>5. CASE FlagLanes(w)
      <4>1. pass'[w].at = "done" /\ pass'[w].key = pass[w].key /\ pass[w].at = "lane"
        BY <1>0, <3>5 DEF FlagLanes, PassTypes
      <4>2. QED
        BY <4>1 DEF KeysKnown
    <3>6. CASE ReadKey(w)
      <4>1. /\ pass'[w].at = IF pass[w].key # None \/ laneKey # None THEN "write" ELSE "make"
            /\ pass'[w].key = IF pass[w].key # None THEN pass[w].key ELSE laneKey
            /\ pass[w].at = "install"
        BY <1>0, <3>6 DEF ReadKey, PassTypes
      <4>2. QED
        BY <4>1 DEF KeysKnown
    <3>7. QED
      BY <1>3, <3>1, <3>2, <3>3, <3>4, <3>5, <3>6
  <2>4. QED
    BY <1>0, <1>2, <2>1, <2>2, <2>3
<1>4. ASSUME NEW w \in WirePasses, createActor(w) PROVE KeysKnown' /\ OneLaneKey'
  <2>1. /\ pass[w].at = "make" /\ pass'[w].at = "store" /\ pass'[w].key = keyCount + 1
        /\ \A v \in WirePasses \ {w} : pass'[v] = pass[v]
    BY <1>0, <1>4 DEF createActor, PassTypes
  <2>2. UNCHANGED <<laneKey, twoKeys, entry>>
    BY <1>4 DEF createActor, filesVars
  <2>3. PassOK(pass'[w]) /\ (~twoKeys => PassKey(pass'[w]))
    BY <1>0, <2>1 DEF KeysKnown
  <2>4. QED
    BY <1>2, <2>1, <2>2, <2>3
<1>5. ASSUME NEW w \in WirePasses, StoreKey(w) PROVE KeysKnown' /\ OneLaneKey'
  <2>1. /\ pass[w].at = "store" /\ pass'[w].at = "write" /\ pass'[w].key = pass[w].key /\ laneKey' = pass[w].key
        /\ \A v \in WirePasses \ {w} : pass'[v] = pass[v]
        /\ entry' = entry /\ (twoKeys' <=> (twoKeys \/ \E v \in WirePasses \ {w} : pass[v].at \in {"make", "store"}))
    BY <1>0, <1>5 DEF StoreKey, filesVars, PassTypes
  <2>2. pass[w].key # None
    BY <2>1 DEF KeysKnown
  <2>3. ASSUME ~twoKeys'
        PROVE  /\ laneKey = None /\ \A c \in Clients : ~(entry[c] > 0)
               /\ \A v \in WirePasses \ {w} : pass[v].at \notin {"make", "store"} /\ pass[v].key = None
    BY <1>0, <1>1, <2>1, <2>3 DEF KeysKnown
  <2>4. KeysKnown'
    BY <2>1, <2>2, <2>3 DEF KeysKnown
  <2>5. OneLaneKey'
    BY <2>1, <2>3, <2>4 DEF OneLaneKey, KeysKnown
  <2>6. QED
    BY <2>4, <2>5
<1>6. ASSUME NEW w \in WirePasses, InstallClient(w) PROVE KeysKnown' /\ OneLaneKey'
  <2>1. pass[w].at = "write" /\ UNCHANGED <<laneKey, twoKeys>>
    BY <1>6 DEF InstallClient, keyVars
  <2>2. pass'[w].at \in {"lane", "again"} /\ pass'[w].key = pass[w].key /\ \A v \in WirePasses \ {w} : pass'[v] = pass[v]
    <3>1. CASE NextLane(w, {})
      BY <3>1, NextLaneDoes
    <3>2. CASE pass' = [pass EXCEPT ![w].at = "again"]
      BY <1>0, <3>2 DEF PassTypes
    <3>3. QED
      BY <1>6, <3>1, <3>2, Zenon DEF InstallClient
  <2>3. entry' = entry \/ entry' = [entry EXCEPT ![ClientOf[Lane(w)]] = pass[w].key]
    BY <1>6 DEF InstallClient, filesVars, Install
  <2>4. PassOK(pass'[w]) /\ (~twoKeys => PassKey(pass'[w]))
    BY <2>1, <2>2 DEF KeysKnown
  <2>5. pass[w].key # None /\ (~twoKeys => pass[w].key = laneKey)
    BY <2>1 DEF KeysKnown
  <2>6. \A c \in Clients : \/ entry'[c] = entry[c] \/ ~(entry'[c] > 0)
                           \/ entry'[c] # None /\ (~twoKeys => entry'[c] = laneKey)
    BY <1>0, <2>3, <2>5
  <2>7. QED
    BY <1>2, <2>1, <2>2, <2>4, <2>6
<1>7. ASSUME NEW l \in Lanes, OptOut(l) PROVE KeysKnown' /\ OneLaneKey'
  <2>1. UNCHANGED <<pass, laneKey, twoKeys, entry>>
    BY <1>7 DEF OptOut, filesVars, keyVars
  <2>2. QED
    BY <1>2, <2>1
<1>8. ASSUME NEW c \in Clients, RegisterByHand(c) PROVE KeysKnown' /\ OneLaneKey'
  <2>1. UNCHANGED <<pass, laneKey, twoKeys>> /\ entry' = [entry EXCEPT ![c] = Hand]
    BY <1>8 DEF RegisterByHand, keyVars
  <2>2. \A d \in Clients : entry'[d] = entry[d] \/ ~(entry'[d] > 0)
    BY <1>0, <2>1 DEF Hand
  <2>3. QED
    BY <1>2, <2>1, <2>2
<1>9. CASE UNCHANGED wiringVars
  <2>1. UNCHANGED <<pass, laneKey, twoKeys, entry>>
    BY <1>9 DEF wiringVars
  <2>2. QED
    BY <1>2, <2>1
<1>10. QED
  BY <1>3, <1>4, <1>5, <1>6, <1>7, <1>8, <1>9 DEF WiringNext

\* A pass that begins leaves out the lanes that have opted out, and takes up no other later.
LEMMA OptOutStep == WiringInductive /\ [WiringNext]_wiringVars => OptOutsSeen' /\ OptOutKept'
<1> SUFFICES ASSUME WiringInductive, [WiringNext]_wiringVars
             PROVE  OptOutsSeen' /\ OptOutKept'
  OBVIOUS
<1> USE DEF WiringInductive, WiringInv
<1> DEFINE Mid == {"known", "install", "make", "store", "write", "again"}
           Held(p, l) == /\ p.at \notin {"off", "done"}
                         /\ l \in p.flagged \/ (\E i \in p.todo : WireLanes[i] = l)
                              \/ (p.at \in Mid /\ WireLanes[p.on] = l)
<1>0. pass \in [WirePasses -> PassTypes] /\ flag \in [Lanes -> {"unset", "yes", "no"}]
      /\ optOut \in [Lanes -> {"none", "crossed", "quiet"}]
  BY DEF PassesTyped, WiringTypeOK
<1>1. \A l \in Lanes, w \in WirePasses : optOut[l] = "quiet" => ~Held(pass[w], l)
  BY DEF OptOutsSeen
<1>2. ASSUME UNCHANGED <<flag, optOut>>,
             \A l \in Lanes, w \in WirePasses : Held(pass'[w], l) => Held(pass[w], l) \/ flag[l] # "no"
      PROVE  OptOutsSeen' /\ OptOutKept'
  <2>1. OptOutKept'
    BY <1>2 DEF OptOutKept
  <2>2. \A l \in Lanes, w \in WirePasses : optOut'[l] = "quiet" => ~Held(pass'[w], l)
    BY <1>1, <1>2 DEF OptOutKept
  <2>3. QED
    BY <2>1, <2>2 DEF OptOutsSeen
<1>3. ASSUME NEW w \in WirePasses, ensureMcpWiring(w) PROVE OptOutsSeen' /\ OptOutKept'
  <2>1. UNCHANGED <<flag, optOut>> /\ pass' = [pass EXCEPT ![w] = pass'[w]]
    BY <1>3, PassSteps DEF ensureMcpWiring
  <2>2. pass'[w].at = "lane" /\ pass'[w].flagged = {} /\ \A i \in pass'[w].todo : flag[WireLanes[i]] # "no"
    BY <1>0, <1>3 DEF ensureMcpWiring, NoPass
  <2>3. QED
    BY <1>0, <1>2, <2>1, <2>2
<1>4. ASSUME NEW w \in WirePasses, CheckLane(w) PROVE OptOutsSeen' /\ OptOutKept'
  <2>1. UNCHANGED <<flag, optOut>> /\ pass' = [pass EXCEPT ![w] = pass'[w]]
    BY <1>4, PassSteps DEF CheckLane
  <2>2. PICK i \in pass[w].todo :
          /\ pass[w].at = "lane" /\ pass'[w].on = i /\ pass'[w].todo = pass[w].todo \ {i}
          /\ pass'[w].flagged = pass[w].flagged
    BY <1>4, CheckLaneDoes
  <2>4. QED
    BY <1>0, <1>2, <2>1, <2>2
<1>5. ASSUME NEW w \in WirePasses, NEW flagged, flagged \subseteq {Lane(w)}, pass[w].at \in Mid, NextLane(w, flagged),
             UNCHANGED <<flag, optOut>>
      PROVE  OptOutsSeen' /\ OptOutKept'
  <2>1. /\ pass'[w].at = "lane" /\ pass'[w].todo = pass[w].todo
        /\ pass'[w].flagged = pass[w].flagged \cup flagged /\ \A v \in WirePasses \ {w} : pass'[v] = pass[v]
    BY <1>5, NextLaneDoes
  <2>2. QED
    BY <1>0, <1>2, <1>5, <2>1 DEF Lane
<1>6. ASSUME NEW w \in WirePasses, pass[w].at \in Mid,
             \/ pass' = [pass EXCEPT ![w].at = pass'[w].at, ![w].key = pass'[w].key]
             \/ pass' = [pass EXCEPT ![w].at = pass'[w].at, ![w].why = pass'[w].why],
             pass'[w].at \in Mid, UNCHANGED <<flag, optOut>>
      PROVE  OptOutsSeen' /\ OptOutKept'
  <2>1. /\ pass'[w].todo = pass[w].todo /\ pass'[w].on = pass[w].on
        /\ pass'[w].flagged = pass[w].flagged /\ \A v \in WirePasses \ {w} : pass'[v] = pass[v]
    BY <1>0, <1>6 DEF PassTypes
  <2>2. QED
    BY <1>0, <1>2, <1>6, <2>1
<1>7. ASSUME NEW w \in WirePasses, clientEntryCurrent(w) \/ CheckAgain(w) \/ InstallClient(w)
      PROVE  OptOutsSeen' /\ OptOutKept'
  <2>1. pass[w].at \in Mid /\ UNCHANGED <<flag, optOut>>
    BY <1>7 DEF clientEntryCurrent, CheckAgain, InstallClient
  <2>2. \/ \E flagged \in SUBSET {Lane(w)} : NextLane(w, flagged)
        \/ pass' = [pass EXCEPT ![w].at = "install", ![w].why = IF laneKey # None THEN "stored" ELSE "none"]
        \/ pass' = [pass EXCEPT ![w].at = "again"]
    <3>1. CASE clientEntryCurrent(w)
      <4>1. {Lane(w)} \ pass[w].optedIn \in SUBSET {Lane(w)}
        OBVIOUS
      <4>2. QED
        BY <3>1, <4>1 DEF clientEntryCurrent
    <3>2. CASE CheckAgain(w) \/ InstallClient(w)
      <4>1. NextLane(w, {}) \/ NextLane(w, {Lane(w)}) \/ pass' = [pass EXCEPT ![w].at = "again"]
        BY <3>2, Zenon DEF InstallClient, CheckAgain
      <4>2. {} \in SUBSET {Lane(w)} /\ {Lane(w)} \in SUBSET {Lane(w)}
        OBVIOUS
      <4>3. QED
        BY <4>1, <4>2
    <3>3. QED
      BY <1>7, <3>1, <3>2
  <2>3. CASE \E flagged \in SUBSET {Lane(w)} : NextLane(w, flagged)
    BY <1>5, <2>1, <2>3
  <2>4. CASE pass' = [pass EXCEPT ![w].at = "install", ![w].why = IF laneKey # None THEN "stored" ELSE "none"]
    <3>1. pass'[w].at = "install" /\ pass' = [pass EXCEPT ![w].at = pass'[w].at, ![w].why = pass'[w].why]
      BY <1>0, <2>4 DEF PassTypes
    <3>2. QED
      BY <1>6, <2>1, <3>1
  <2>5. CASE pass' = [pass EXCEPT ![w].at = "again"]
    <3>1. pass'[w].at = "again" /\ pass' = [pass EXCEPT ![w].at = pass'[w].at, ![w].key = pass'[w].key]
      BY <1>0, <2>5 DEF PassTypes
    <3>2. QED
      BY <1>6, <2>1, <3>1
  <2>6. QED
    BY <2>2, <2>3, <2>4, <2>5
<1>8. ASSUME NEW w \in WirePasses, ReadKey(w) \/ createActor(w) \/ StoreKey(w) PROVE OptOutsSeen' /\ OptOutKept'
  <2>1. pass[w].at \in Mid /\ UNCHANGED <<flag, optOut>>
    BY <1>8 DEF ReadKey, createActor, StoreKey
  <2>2. pass'[w].at \in Mid /\ pass' = [pass EXCEPT ![w].at = pass'[w].at, ![w].key = pass'[w].key]
    <3>1. CASE ReadKey(w)
      BY <1>0, <3>1 DEF ReadKey, PassTypes
    <3>2. CASE createActor(w)
      BY <1>0, <3>2 DEF createActor, PassTypes
    <3>3. CASE StoreKey(w)
      <4>1. pass' = [pass EXCEPT ![w].at = "write"]
        BY <3>3 DEF StoreKey
      <4>2. pass'[w].at = "write" /\ pass'[w].key = pass[w].key
        BY <1>0, <4>1 DEF PassTypes
      <4>3. [pass[w] EXCEPT !.at = "write"] = [pass[w] EXCEPT !.at = "write", !.key = pass[w].key]
        BY <1>0 DEF PassTypes
      <4>4. QED
        BY <4>1, <4>2, <4>3
    <3>4. QED
      BY <1>8, <3>1, <3>2, <3>3
  <2>3. QED
    BY <1>6, <2>1, <2>2
<1>9. ASSUME NEW w \in WirePasses, FlagLanes(w) PROVE OptOutsSeen' /\ OptOutKept'
  <2>1. /\ pass[w].at = "lane" /\ pass'[w].at = "done" /\ \A v \in WirePasses \ {w} : pass'[v] = pass[v]
        /\ optOut' = optOut /\ flag' = [l \in Lanes |-> IF l \in pass[w].flagged THEN "yes" ELSE flag[l]]
    BY <1>0, <1>9, PassSteps DEF FlagLanes, PassTypes
  <2>2. \A l \in Lanes : optOut[l] = "quiet" => l \notin pass[w].flagged
    BY <1>1, <2>1
  <2>3. OptOutKept'
    BY <1>0, <2>1, <2>2 DEF OptOutKept
  <2>4. \A l \in Lanes, v \in WirePasses : optOut'[l] = "quiet" => ~Held(pass'[v], l)
    BY <1>1, <2>1
  <2>5. QED
    BY <2>3, <2>4 DEF OptOutsSeen
<1>10. ASSUME NEW k \in Lanes, OptOut(k) PROVE OptOutsSeen' /\ OptOutKept'
  <2> DEFINE met == \E w \in WirePasses : pass[w].at \notin {"off", "done"}
  <2>1. /\ flag' = [flag EXCEPT ![k] = "no"] /\ UNCHANGED pass
        /\ optOut' = [optOut EXCEPT ![k] = IF met THEN "crossed" ELSE "quiet"]
    BY <1>10 DEF OptOut
  <2>2. OptOutKept'
    BY <1>0, <2>1 DEF OptOutKept
  <2>3. \A l \in Lanes, w \in WirePasses : optOut'[l] = "quiet" => ~Held(pass'[w], l)
    BY <1>0, <1>1, <2>1
  <2>4. QED
    BY <2>2, <2>3 DEF OptOutsSeen
<1>11. CASE UNCHANGED wiringVars \/ \E c \in Clients : RegisterByHand(c)
  <2>1. UNCHANGED <<pass, flag, optOut>>
    BY <1>11 DEF RegisterByHand, wiringVars
  <2>2. QED
    BY <1>2, <2>1
<1>12. QED
  BY <1>3, <1>4, <1>7, <1>8, <1>9, <1>10, <1>11 DEF WiringNext

\* A pass replaces an entry of others for the reasons it found, and keeps what it replaces.
LEMMA ReasonsStep == WiringInductive /\ [WiringNext]_wiringVars => ReasonsGood' /\ HandKept'
<1> SUFFICES ASSUME WiringInductive, [WiringNext]_wiringVars
             PROVE  ReasonsGood' /\ HandKept'
  OBVIOUS
<1> USE DEF WiringInductive, WiringInv
<1> DEFINE Sought == {"install", "make", "store", "write"}
           Why(p) == p.at \in Sought =>
                       LET c == ClientOf[WireLanes[p.on]] IN
                         /\ p.why = "unanswered" => ClientKind[c] \in {"asked", "named"}
                         /\ p.why = "absent" /\ entry[c] = Hand => wireEdits > 0
<1>0. /\ pass \in [WirePasses -> PassTypes] /\ entry \in [Clients -> Entries] /\ copied \in [Clients -> Entries]
      /\ wireEdits \in Nat
      /\ \A w \in WirePasses : pass[w].at \in Sought => ClientOf[WireLanes[pass[w].on]] \in Clients
  BY LanesPlaced DEF PassesTyped, WiringTypeOK, Entries
<1>1. \A w \in WirePasses : Why(pass[w])
  BY DEF ReasonsGood
<1>2. ASSUME UNCHANGED <<entry, replaced, copied, wireEdits>>,
             \A w \in WirePasses : pass'[w] = pass[w] \/ Why(pass'[w])
      PROVE  ReasonsGood' /\ HandKept'
  <2>1. \A w \in WirePasses : Why(pass'[w])
    BY <1>1, <1>2
  <2>2. ReasonsGood'
    BY <1>2, <2>1 DEF ReasonsGood
  <2>3. HandKept'
    BY <1>2 DEF HandKept
  <2>4. QED
    BY <2>2, <2>3
<1>3. ASSUME NEW w \in WirePasses,
             \/ ensureMcpWiring(w) \/ CheckLane(w) \/ clientEntryCurrent(w) \/ ReadKey(w) \/ createActor(w)
             \/ StoreKey(w) \/ CheckAgain(w) \/ FlagLanes(w)
      PROVE  ReasonsGood' /\ HandKept'
  <2>1. UNCHANGED <<entry, copied, replaced, wireEdits>>
    BY <1>3 DEF ensureMcpWiring, CheckLane, clientEntryCurrent, ReadKey, createActor, StoreKey, CheckAgain, FlagLanes,
                filesVars
  <2>2. \A v \in WirePasses \ {w} : pass'[v] = pass[v]
    <3>1. pass' = [pass EXCEPT ![w] = pass'[w]]
      BY <1>3, PassSteps
    <3>2. QED
      BY <1>0, <3>1
  <2>3. Why(pass'[w])
    <3>1. CASE ensureMcpWiring(w)
      BY <1>0, <3>1 DEF ensureMcpWiring, NoPass
    <3>2. CASE CheckLane(w)
      <4>1. PICK i \in pass[w].todo :
               /\ pass'[w].at \in {"known", "install"} /\ pass'[w].on = i
               /\ pass'[w].at = "install" =>
                    pass'[w].why = IF Registered(WireLanes[i]) THEN "unanswered" ELSE "absent"
               /\ (pass'[w].at = "known") \in Answers(WireLanes[i])
        BY <3>2, CheckLaneDoes
      <4>2. CASE pass'[w].at = "known"
        BY <4>2
      <4>3. CASE pass'[w].at = "install" /\ Registered(WireLanes[i])
        <5>1. FALSE \in Answers(WireLanes[i])
          BY <4>1, <4>3
        <5>2. WireKind(WireLanes[i]) \in {"asked", "named"}
          BY <4>3, <5>1 DEF Answers
        <5>3. QED
          BY <4>1, <4>3, <5>2 DEF WireKind
      <4>4. CASE pass'[w].at = "install" /\ ~Registered(WireLanes[i])
        BY <4>1, <4>4 DEF Registered
      <4>5. QED
        BY <4>1, <4>2, <4>3, <4>4
    <3>3. CASE clientEntryCurrent(w)
      <4>1. CASE NextLane(w, {Lane(w)} \ pass[w].optedIn)
        BY <4>1, NextLaneDoes
      <4>2. CASE /\ pass' = [pass EXCEPT ![w].at = "install", ![w].why = IF laneKey # None THEN "stored" ELSE "none"]
                 /\ laneKey # None
        <5>1. pass'[w].why = "stored"
          BY <1>0, <4>2 DEF PassTypes
        <5>2. QED
          BY <5>1
      <4>3. QED
        BY <3>3, <4>1, <4>2 DEF clientEntryCurrent
    <3>4. CASE ReadKey(w) \/ createActor(w) \/ StoreKey(w)
      <4>1. pass[w].at \in Sought /\ pass'[w].on = pass[w].on /\ pass'[w].why = pass[w].why
        <5>1. CASE ReadKey(w)
          <6> DEFINE at == IF pass[w].key # None \/ laneKey # None THEN "write" ELSE "make"
                     key == IF pass[w].key # None THEN pass[w].key ELSE laneKey
          <6>1. pass' = [pass EXCEPT ![w].at = at, ![w].key = key]
            BY <5>1 DEF ReadKey
          <6>2. pass[w].at = "install"
            BY <5>1 DEF ReadKey
          <6> HIDE DEF at, key
          <6>3. QED
            BY <1>0, <6>1, <6>2 DEF PassTypes
        <5>2. CASE createActor(w)
          <6>1. pass[w].at = "make" /\ pass' = [pass EXCEPT ![w].at = "store", ![w].key = keyCount + 1]
            BY <5>2 DEF createActor
          <6>2. QED
            BY <1>0, <6>1 DEF PassTypes
        <5>3. CASE StoreKey(w)
          <6>1. pass[w].at = "store" /\ pass' = [pass EXCEPT ![w].at = "write"]
            BY <5>3 DEF StoreKey
          <6>2. QED
            BY <1>0, <6>1 DEF PassTypes
        <5>4. QED
          BY <3>4, <5>1, <5>2, <5>3
      <4>2. QED
        BY <1>1, <4>1
    <3>5. CASE CheckAgain(w)
      BY <3>5, NextLaneDoes DEF CheckAgain
    <3>6. CASE FlagLanes(w)
      <4>1. pass'[w].at = "done"
        BY <1>0, <3>6 DEF FlagLanes, PassTypes
      <4>2. QED
        BY <4>1
    <3>7. QED
      BY <1>3, <3>1, <3>2, <3>3, <3>4, <3>5, <3>6
  <2>4. QED
    BY <1>2, <2>1, <2>2, <2>3
<1>4. ASSUME NEW w \in WirePasses, InstallClient(w) PROVE ReasonsGood' /\ HandKept'
  <2> DEFINE c == ClientOf[Lane(w)]
  <2>1. /\ pass[w].at = "write" /\ wireEdits' = wireEdits /\ c \in Clients /\ pass[w].key \in Nat /\ pass[w].key # None
    <3>1. pass[w].key \in Nat
      <4>1. Keys \subseteq Nat
        BY DEF Keys
      <4>2. QED
        BY <1>0, <4>1 DEF PassTypes
    <3>2. QED
      BY <1>0, <1>4, <3>1 DEF InstallClient, KeysKnown, Lane
  <2>2. pass'[w].at \notin Sought /\ \A v \in WirePasses \ {w} : pass'[v] = pass[v]
    <3>1. CASE NextLane(w, {})
      BY <3>1, NextLaneDoes
    <3>2. CASE pass' = [pass EXCEPT ![w].at = "again"]
      BY <1>0, <3>2 DEF PassTypes
    <3>3. QED
      BY <1>4, <3>1, <3>2, Zenon DEF InstallClient
  <2>3. CASE UNCHANGED filesVars
    <3>1. UNCHANGED <<entry, copied, replaced>>
      BY <2>3 DEF filesVars
    <3>2. \A v \in WirePasses : pass'[v] = pass[v] \/ Why(pass'[v])
      BY <2>2
    <3>3. QED
      BY <1>2, <2>1, <3>1, <3>2
  <2>4. CASE entry[c] # Broken /\ Install(c, pass[w].key, pass[w].why)
    <3>1. /\ entry' = [entry EXCEPT ![c] = pass[w].key]
          /\ copied' = [copied EXCEPT ![c] = IF @ = None /\ ClientKind[c] # "named" /\ entry[c] # None THEN entry[c] ELSE @]
          /\ replaced' = IF entry[c] < None THEN replaced \cup {[client |-> c, was |-> entry[c], why |-> pass[w].why]}
                         ELSE replaced
      BY <2>4 DEF Install
    <3>2. ReasonsGood'
      <4> SUFFICES ASSUME NEW v \in WirePasses PROVE Why(pass[v])'
        BY DEF ReasonsGood
      <4>1. CASE v = w
        BY <2>2, <4>1
      <4>2. CASE v # w
        <5>1. \A d \in Clients : entry'[d] = Hand => entry[d] = Hand
          BY <1>0, <2>1, <3>1 DEF Hand
        <5>2. pass'[v] = pass[v]
          BY <2>2, <4>2
        <5>3. QED
          BY <1>0, <1>1, <2>1, <5>1, <5>2
      <4>3. QED
        BY <4>1, <4>2
    <3>3. \A d \in Clients : copied[d] # None => copied'[d] # None
      BY <1>0, <3>1
    <3>4. \A r \in replaced : ClientKind[r.client] # "named" => copied'[r.client] # None
      BY <1>0, <3>1 DEF HandKept
    <3>5. CASE ~(entry[c] < None)
      <4>1. replaced' = replaced
        BY <3>1, <3>5
      <4>2. HandKept'
        BY <2>1, <3>4, <4>1 DEF HandKept
      <4>3. QED
        BY <3>2, <4>2
    <3>6. CASE entry[c] < None
      <4>1. entry[c] = Hand
        <5>1. entry[c] \in Entries
          BY <1>0, <2>1
        <5>2. QED
          BY <2>4, <3>6, <5>1 DEF Entries, None, Hand, Broken
      <4> DEFINE new == [client |-> c, was |-> entry[c], why |-> pass[w].why]
      <4>2. pass[w].why # "none"
        BY <1>0 DEF PassTypes
      <4>3. pass[w].why = "unanswered" => ClientKind[c] \in {"asked", "named"}
        BY <1>1, <2>1 DEF Lane
      <4>4. pass[w].why = "absent" => wireEdits > 0
        BY <1>1, <2>1, <4>1 DEF Lane
      <4>5. ClientKind[c] # "named" => copied'[c] # None
        BY <1>0, <2>1, <3>1, <4>1 DEF Hand, None
      <4>6. \A r \in replaced' : r \in replaced \/ (r.client = c /\ r.was = Hand /\ r.why = pass[w].why)
        BY <3>1, <3>6, <4>1
      <4>7. HandKept'
        BY <2>1, <3>4, <4>2, <4>3, <4>4, <4>5, <4>6 DEF HandKept
      <4>8. QED
        BY <3>2, <4>7
    <3>7. QED
      BY <3>5, <3>6
  <2>5. QED
    BY <1>4, <2>3, <2>4, Zenon DEF InstallClient
<1>5. ASSUME NEW l \in Lanes, OptOut(l) PROVE ReasonsGood' /\ HandKept'
  <2>1. UNCHANGED <<pass, entry, copied, replaced>> /\ wireEdits' = wireEdits + 1
    BY <1>5 DEF OptOut, Edit, filesVars
  <2>2. QED
    BY <1>0, <2>1 DEF ReasonsGood, HandKept
<1>6. ASSUME NEW c \in Clients, RegisterByHand(c) PROVE ReasonsGood' /\ HandKept'
  <2>1. UNCHANGED <<pass, copied, replaced>> /\ wireEdits' = wireEdits + 1
    BY <1>6 DEF RegisterByHand, Edit
  <2>2. QED
    BY <1>0, <2>1 DEF ReasonsGood, HandKept
<1>7. CASE UNCHANGED wiringVars
  <2>1. UNCHANGED <<pass, entry, copied, replaced, wireEdits>>
    BY <1>7 DEF wiringVars
  <2>2. QED
    BY <1>2, <2>1
<1>8. QED
  BY <1>3, <1>4, <1>5, <1>6, <1>7 DEF WiringNext

\* No pass has begun, and the files are as they are.
LEMMA WiringStarts == WiringInit => WiringInductive
<1> SUFFICES ASSUME WiringInit PROVE WiringInductive
  OBVIOUS
<1> USE DEF WiringInit
<1>0. \A w \in WirePasses : pass[w] = NoPass
  OBVIOUS
<1>1. NoPass \in PassTypes /\ None \in Keys /\ None \in Entries
  BY KeysCounted DEF NoPass, PassTypes, Entries
<1>2. PassesTyped
  BY <1>1 DEF PassesTyped, NoPass, None
<1>3. WiringTypeOK
  BY <1>0, KeysCounted DEF WiringTypeOK, NoPass, Keys
<1>4. KeysKnown /\ OptOutsSeen /\ ReasonsGood
  BY <1>0 DEF KeysKnown, OptOutsSeen, ReasonsGood, NoPass
<1>5. \A c \in Clients : ~(entry[c] > 0)
  BY DEF None, Hand, Broken
<1>6. OneLaneKey /\ OptOutKept /\ HandKept
  BY <1>0, <1>5 DEF OneLaneKey, OptOutKept, HandKept, NoPass
<1>7. QED
  BY <1>2, <1>3, <1>4, <1>6 DEF WiringInductive, WiringInv

\* One key is about, quiet opt-outs are kept, and what somebody wrote by hand is replaced for a reason and copied
\* first, for every number of lanes, clients, passes and edits (autowire.ts, clients.ts).
THEOREM WiringHolds == WiringSpec => []WiringInv
<1>1. WiringInit => WiringInductive
  BY WiringStarts
<1>2. WiringInductive /\ [WiringNext]_wiringVars => WiringInductive'
  BY WiringTypesStep, KeysStep, OptOutStep, ReasonsStep DEF WiringInductive, WiringInv
<1>3. WiringInductive => WiringInv
  BY DEF WiringInductive
<1>4. QED
  BY <1>1, <1>2, <1>3, PTL DEF WiringSpec

-------------------------------------------------------------------------------
(* What a chat says and does: its turns and their sessions *)

ChatSpec == ChatInit /\ [][ChatNext]_chatVars

ChatRequests == ChatPosts \cup ChatDeletes
OnS(r) == ChatSessionOf[r]
PostPlaces == ChatTurn \cup {"new", "find", "body", "gone", "busy", "done"}
DeletePlaces == {"new", "findDel", "chunks", "rows", "gone", "busy", "done"}

\* Who has a statement in the queue, and whose comes before whose.
Queued(r) == \E i \in 1..Len(chatQueue) : chatQueue[i] = r
Ahead(r, x) == \E i, j \in 1..Len(chatQueue) : i < j /\ chatQueue[i] = r /\ chatQueue[j] = x

\* A turn whose message is stored and not answered, and one that has answered.
Answering == {"handoff", "prepare", "lane", "retry", "runtime", "reply"}
Answering2 == {"transcript", "embed", "index"}

\* Who waits for the database has one statement in the queue, and nobody else has.
ChatPlaced ==
  /\ chatAt \in [ChatRequests -> PostPlaces \cup DeletePlaces]
  /\ \A p \in ChatPosts : chatAt[p] \in PostPlaces
  /\ \A d \in ChatDeletes : chatAt[d] \in DeletePlaces
  /\ chatQueue \in Seq(ChatRequests)
  /\ \A i, j \in 1..Len(chatQueue) : chatQueue[i] = chatQueue[j] => i = j
  /\ \A r \in ChatRequests : chatAt[r] \in ChatWaits <=> Queued(r)

ChatKept ==
  /\ chatLane \in [ChatPosts -> ChatLanes]
  /\ chatRunning \subseteq ChatSessions /\ chatRows \subseteq ChatSessions
  /\ chatIndexed \subseteq ChatSessions /\ chatResume \subseteq ChatSessions
  /\ chatLog \in [ChatSessions -> Seq({"user", "assistant"} \X ChatPosts)]

\* A session that is shown as running has a turn, and only one.
OneTurn ==
  /\ \A s \in chatRunning : \E p \in ChatPosts : OnS(p) = s /\ chatAt[p] \in ChatTurn
  /\ \A p \in ChatPosts : chatAt[p] \in ChatTurn => OnS(p) \in chatRunning
  /\ \A p, q \in ChatPosts :
       chatAt[p] \in ChatTurn /\ chatAt[q] \in ChatTurn /\ OnS(p) = OnS(q) => p = q

\* A turn that slipped in after the check of a deletion has read nothing when the chunks go, and has
\* stored nothing when the rows go.
DeletionAhead ==
  \A d \in ChatDeletes, p \in ChatPosts : OnS(d) = OnS(p) /\ chatAt[p] \in ChatTurn =>
    /\ chatAt[d] = "chunks" => chatAt[p] = "load" /\ Ahead(d, p)
    /\ chatAt[d] = "rows" =>
         \/ chatAt[p] \in {"load", "failure"}
         \/ chatAt[p] = "user" /\ Ahead(d, p)

\* So the index has nothing of a session whose rows go, and a turn that stored its message has a row.
RowsBehind ==
  /\ chatIndexed \subseteq chatRows
  /\ \A d \in ChatDeletes : chatAt[d] = "rows" => OnS(d) \notin chatIndexed
  /\ \A p \in ChatPosts : chatAt[p] \in Answering \cup Answering2 => OnS(p) \in chatRows

\* The message of p is the last one of its session.
Asked(p) == Len(chatLog[OnS(p)]) > 0 /\ chatLog[OnS(p)][Len(chatLog[OnS(p)])] = <<"user", p>>

\* Each message of a log with its answer; an unanswered one is the last and its turn goes on.
Follows(s, log) ==
  \A i \in 1..Len(log) : \A p \in ChatPosts :
    /\ log[i] = <<"user", p>> =>
         /\ i < Len(log) => log[i + 1] = <<"assistant", p>>
         /\ i = Len(log) => OnS(p) = s /\ chatAt[p] \in Answering \cup {"failure"}
    /\ log[i] = <<"assistant", p>> => (i > 1 => log[i - 1][2] = p)

LogFollows ==
  /\ \A s \in ChatSessions \ chatRows : chatLog[s] = <<>>
  /\ \A p \in ChatPosts :
       /\ chatAt[p] \in Answering => Asked(p)
       /\ chatAt[p] = "failure" => OnS(p) \notin chatRows \/ Asked(p)
  /\ \A s \in ChatSessions : Follows(s, chatLog[s])

ChatInductive == ChatPlaced /\ ChatKept /\ OneTurn /\ DeletionAhead /\ RowsBehind /\ LogFollows


\* r has moved on to w, and everybody else waits where he waited.
MovedOn(r, w) ==
  /\ chatAt'[r] = w /\ \A x \in ChatRequests \ {r} : chatAt'[x] = chatAt[x]
  /\ \A a, x \in ChatRequests : a # r /\ x # r /\ Ahead(a, x) => Ahead(a, x)'
  /\ w \in ChatWaits => \A a \in ChatRequests : a # r /\ Queued(a) => Ahead(a, r)'
MayBeAt(r, w) ==
  /\ r \in ChatRequests /\ w \in PostPlaces \cup DeletePlaces
  /\ r \in ChatPosts => w \in PostPlaces
  /\ r \in ChatDeletes => w \in DeletePlaces

\* A request goes to one place, and the places of posts and deletions are different ones.
LEMMA Placing ==
  ASSUME ChatPlaced, NEW r, NEW w, MayBeAt(r, w), chatAt' = [chatAt EXCEPT ![r] = w]
  PROVE  /\ chatAt' \in [ChatRequests -> PostPlaces \cup DeletePlaces]
         /\ chatAt'[r] = w /\ \A x \in ChatRequests \ {r} : chatAt'[x] = chatAt[x]
         /\ \A p \in ChatPosts : chatAt'[p] \in PostPlaces
         /\ \A d \in ChatDeletes : chatAt'[d] \in DeletePlaces
<1>1. /\ chatAt \in [ChatRequests -> PostPlaces \cup DeletePlaces]
      /\ r \in ChatRequests /\ w \in PostPlaces \cup DeletePlaces
  BY DEF ChatPlaced, MayBeAt
<1>2. /\ chatAt' \in [ChatRequests -> PostPlaces \cup DeletePlaces]
      /\ chatAt'[r] = w /\ \A x \in ChatRequests \ {r} : chatAt'[x] = chatAt[x]
  BY <1>1
<1>3. \A p \in ChatPosts : chatAt'[p] \in PostPlaces
  BY <1>2 DEF ChatPlaced, MayBeAt, ChatRequests
<1>4. \A d \in ChatDeletes : chatAt'[d] \in DeletePlaces
  BY <1>2 DEF ChatPlaced, MayBeAt, ChatRequests
<1>5. QED
  BY <1>2, <1>3, <1>4

\* A statement that is issued comes after all others.
LEMMA Issued ==
  ASSUME ChatPlaced, NEW r, NEW w, MayBeAt(r, w), Issue(r, w), chatAt[r] \notin ChatWaits,
         w \in ChatWaits
  PROVE  ChatPlaced' /\ MovedOn(r, w)
<1> DEFINE q == chatQueue
           n == Len(chatQueue)
<1>1. /\ q \in Seq(ChatRequests) /\ n \in Nat /\ r \in ChatRequests
      /\ \A i \in 1..n : q[i] \in ChatRequests
  BY DEF ChatPlaced, MayBeAt
<1>2. chatQueue' = Append(q, r) /\ chatAt' = [chatAt EXCEPT ![r] = w]
  BY DEF Issue
<1>3. /\ chatQueue' \in Seq(ChatRequests) /\ Len(chatQueue') = n + 1
      /\ chatQueue'[n + 1] = r /\ \A i \in 1..n : chatQueue'[i] = q[i]
  BY <1>1, <1>2
<1>4. ~Queued(r)
  BY <1>1 DEF ChatPlaced
<1>5. \A i, j \in 1..Len(chatQueue') : chatQueue'[i] = chatQueue'[j] => i = j
  <2>1. \A i, j \in 1..n : chatQueue'[i] = chatQueue'[j] => i = j
    BY <1>3 DEF ChatPlaced
  <2>2. \A i \in 1..n : chatQueue'[i] # r
    BY <1>3, <1>4 DEF Queued
  <2>3. QED
    BY <2>1, <2>2, <1>1, <1>3
<1>6. /\ Queued(r)' /\ \A x \in ChatRequests : x # r => (Queued(x)' <=> Queued(x))
  <2>1. Queued(r)'
    BY <1>1, <1>3 DEF Queued
  <2>2. ASSUME NEW x \in ChatRequests, x # r PROVE Queued(x)' <=> Queued(x)
    BY <2>2, <1>1, <1>3 DEF Queued
  <2>3. QED
    BY <2>1, <2>2
<1>7. /\ \A p \in ChatPosts : chatAt'[p] \in PostPlaces
      /\ \A d \in ChatDeletes : chatAt'[d] \in DeletePlaces
      /\ chatAt' \in [ChatRequests -> PostPlaces \cup DeletePlaces]
      /\ chatAt'[r] = w /\ \A x \in ChatRequests \ {r} : chatAt'[x] = chatAt[x]
  BY <1>2, Placing
<1>8. ChatPlaced'
  <2>1. \A x \in ChatRequests : chatAt'[x] \in ChatWaits <=> Queued(x)'
    BY <1>6, <1>7 DEF ChatPlaced
  <2>2. QED
    BY <2>1, <1>3, <1>5, <1>7 DEF ChatPlaced
<1>9. ASSUME NEW a \in ChatRequests, NEW x \in ChatRequests, Ahead(a, x) PROVE Ahead(a, x)'
  BY <1>9, <1>1, <1>3 DEF Ahead
<1>10. ASSUME NEW a \in ChatRequests, Queued(a) PROVE Ahead(a, r)'
  BY <1>10, <1>1, <1>3 DEF Ahead, Queued
<1>11. QED
  BY <1>7, <1>8, <1>9, <1>10 DEF MovedOn

\* What the oldest statement leaves behind.
LEMMA AnswersFirst ==
  ASSUME ChatPlaced, NEW r \in ChatRequests, chatQueue # <<>>, Head(chatQueue) = r
  PROVE  /\ Tail(chatQueue) \in Seq(ChatRequests) /\ Len(chatQueue) \in Nat /\ Len(chatQueue) > 0
         /\ Len(Tail(chatQueue)) = Len(chatQueue) - 1 /\ chatQueue[1] = r
         /\ \A i \in 1..Len(chatQueue) - 1 : Tail(chatQueue)[i] = chatQueue[i + 1]
         /\ \A i \in 1..Len(chatQueue) : chatQueue[i] \in ChatRequests
         /\ \A i \in 1..Len(chatQueue) : chatQueue[i] = r => i = 1
         /\ \A a \in ChatRequests : ~Ahead(a, r)
<1>1. /\ chatQueue \in Seq(ChatRequests) /\ Len(chatQueue) \in Nat /\ Len(chatQueue) > 0
      /\ chatQueue[1] = r /\ \A i \in 1..Len(chatQueue) : chatQueue[i] \in ChatRequests
  BY DEF ChatPlaced
<1>2. /\ Tail(chatQueue) \in Seq(ChatRequests) /\ Len(Tail(chatQueue)) = Len(chatQueue) - 1
      /\ \A i \in 1..Len(chatQueue) - 1 : Tail(chatQueue)[i] = chatQueue[i + 1]
  BY <1>1
<1>3. \A i \in 1..Len(chatQueue) : chatQueue[i] = r => i = 1
  BY <1>1 DEF ChatPlaced
<1>4. \A a \in ChatRequests : ~Ahead(a, r)
  BY <1>1, <1>3 DEF Ahead
<1>5. QED
  BY <1>1, <1>2, <1>3, <1>4

\* Whoever is answered may issue a statement at once: it comes after all others.
LEMMA Reissued ==
  ASSUME ChatPlaced, NEW r, NEW w, MayBeAt(r, w), chatQueue # <<>>, Head(chatQueue) = r,
         Reissue(r, w), w \in ChatWaits
  PROVE  ChatPlaced' /\ MovedOn(r, w)
<1> DEFINE q == chatQueue
           n == Len(chatQueue)
<1>1. /\ Tail(q) \in Seq(ChatRequests) /\ n \in Nat /\ n > 0 /\ Len(Tail(q)) = n - 1 /\ q[1] = r
      /\ \A i \in 1..n - 1 : Tail(q)[i] = q[i + 1]
      /\ \A i \in 1..n : q[i] \in ChatRequests
      /\ \A i \in 1..n : q[i] = r => i = 1
      /\ r \in ChatRequests
  BY AnswersFirst DEF MayBeAt
<1>2. chatQueue' = Append(Tail(q), r) /\ chatAt' = [chatAt EXCEPT ![r] = w]
  BY DEF Reissue
<1>3. /\ chatQueue' \in Seq(ChatRequests) /\ Len(chatQueue') = n
      /\ chatQueue'[n] = r /\ \A i \in 1..n - 1 : chatQueue'[i] = q[i + 1]
  BY <1>1, <1>2
<1>5. \A i, j \in 1..Len(chatQueue') : chatQueue'[i] = chatQueue'[j] => i = j
  <2>1. \A i, j \in 1..n - 1 : chatQueue'[i] = chatQueue'[j] => i = j
    BY <1>1, <1>3 DEF ChatPlaced
  <2>2. \A i \in 1..n - 1 : chatQueue'[i] # r
    BY <1>1, <1>3
  <2>3. QED
    BY <2>1, <2>2, <1>1, <1>3
<1>6. /\ Queued(r)' /\ \A x \in ChatRequests : x # r => (Queued(x)' <=> Queued(x))
  <2>1. Queued(r)'
    BY <1>1, <1>3 DEF Queued
  <2>2. ASSUME NEW x \in ChatRequests, x # r PROVE Queued(x)' <=> Queued(x)
    <3>1. ASSUME NEW i \in 1..n, q[i] = x PROVE i - 1 \in 1..n - 1 /\ chatQueue'[i - 1] = x
      BY <2>2, <3>1, <1>1, <1>3
    <3>2. ASSUME NEW i \in 1..n, chatQueue'[i] = x PROVE i + 1 \in 1..n /\ q[i + 1] = x
      BY <2>2, <3>2, <1>1, <1>3
    <3>3. QED
      BY <3>1, <3>2, <1>1, <1>3 DEF Queued
  <2>3. QED
    BY <2>1, <2>2
<1>7. /\ \A p \in ChatPosts : chatAt'[p] \in PostPlaces
      /\ \A d \in ChatDeletes : chatAt'[d] \in DeletePlaces
      /\ chatAt' \in [ChatRequests -> PostPlaces \cup DeletePlaces]
      /\ chatAt'[r] = w /\ \A x \in ChatRequests \ {r} : chatAt'[x] = chatAt[x]
  BY <1>2, Placing
<1>8. ChatPlaced'
  <2>1. \A x \in ChatRequests : chatAt'[x] \in ChatWaits <=> Queued(x)'
    BY <1>6, <1>7 DEF ChatPlaced
  <2>2. QED
    BY <2>1, <1>3, <1>5, <1>7 DEF ChatPlaced
<1>9. ASSUME NEW a \in ChatRequests, NEW x \in ChatRequests, a # r, x # r, Ahead(a, x)
      PROVE  Ahead(a, x)'
  <2>1. PICK i, j \in 1..n : i < j /\ q[i] = a /\ q[j] = x
    BY <1>9 DEF Ahead
  <2>2. /\ i - 1 \in 1..n - 1 /\ j - 1 \in 1..n - 1 /\ i - 1 < j - 1
        /\ chatQueue'[i - 1] = a /\ chatQueue'[j - 1] = x
    BY <2>1, <1>9, <1>1, <1>3
  <2>3. Len(chatQueue') = n /\ i - 1 \in 1..Len(chatQueue') /\ j - 1 \in 1..Len(chatQueue')
    BY <2>2, <1>1, <1>3
  <2>4. QED
    BY <2>2, <2>3 DEF Ahead
<1>10. ASSUME NEW a \in ChatRequests, a # r, Queued(a) PROVE Ahead(a, r)'
  <2>1. PICK i \in 1..n : q[i] = a
    BY <1>10 DEF Queued
  <2>2. i - 1 \in 1..n - 1 /\ chatQueue'[i - 1] = a
    BY <2>1, <1>10, <1>1, <1>3
  <2>3. QED
    BY <2>2, <1>1, <1>3 DEF Ahead
<1>11. QED
  BY <1>7, <1>8, <1>9, <1>10 DEF MovedOn

\* Or he goes on without one.
LEMMA Awaited ==
  ASSUME ChatPlaced, NEW r, NEW w, MayBeAt(r, w), chatQueue # <<>>, Head(chatQueue) = r,
         Await(r, w), w \notin ChatWaits
  PROVE  ChatPlaced' /\ MovedOn(r, w)
<1> DEFINE q == chatQueue
           n == Len(chatQueue)
<1>1. /\ Tail(q) \in Seq(ChatRequests) /\ n \in Nat /\ n > 0 /\ Len(Tail(q)) = n - 1 /\ q[1] = r
      /\ \A i \in 1..n - 1 : Tail(q)[i] = q[i + 1]
      /\ \A i \in 1..n : q[i] \in ChatRequests
      /\ \A i \in 1..n : q[i] = r => i = 1
      /\ r \in ChatRequests
  BY AnswersFirst DEF MayBeAt
<1>2. chatQueue' = Tail(q) /\ chatAt' = [chatAt EXCEPT ![r] = w]
  BY DEF Await
<1>3. /\ chatQueue' \in Seq(ChatRequests) /\ Len(chatQueue') = n - 1
      /\ \A i \in 1..n - 1 : chatQueue'[i] = q[i + 1]
  BY <1>1, <1>2
<1>5. \A i, j \in 1..Len(chatQueue') : chatQueue'[i] = chatQueue'[j] => i = j
  BY <1>1, <1>3 DEF ChatPlaced
<1>6. /\ ~Queued(r)' /\ \A x \in ChatRequests : x # r => (Queued(x)' <=> Queued(x))
  <2>1. ~Queued(r)'
    BY <1>1, <1>3 DEF Queued
  <2>2. ASSUME NEW x \in ChatRequests, x # r PROVE Queued(x)' <=> Queued(x)
    <3>1. ASSUME NEW i \in 1..n, q[i] = x PROVE i - 1 \in 1..n - 1 /\ chatQueue'[i - 1] = x
      BY <2>2, <3>1, <1>1, <1>3
    <3>2. ASSUME NEW i \in 1..n - 1, chatQueue'[i] = x PROVE i + 1 \in 1..n /\ q[i + 1] = x
      BY <2>2, <3>2, <1>1, <1>3
    <3>3. QED
      BY <3>1, <3>2, <1>1, <1>3 DEF Queued
  <2>3. QED
    BY <2>1, <2>2
<1>7. /\ \A p \in ChatPosts : chatAt'[p] \in PostPlaces
      /\ \A d \in ChatDeletes : chatAt'[d] \in DeletePlaces
      /\ chatAt' \in [ChatRequests -> PostPlaces \cup DeletePlaces]
      /\ chatAt'[r] = w /\ \A x \in ChatRequests \ {r} : chatAt'[x] = chatAt[x]
  BY <1>2, Placing
<1>8. ChatPlaced'
  <2>1. \A x \in ChatRequests : chatAt'[x] \in ChatWaits <=> Queued(x)'
    BY <1>6, <1>7 DEF ChatPlaced
  <2>2. QED
    BY <2>1, <1>3, <1>5, <1>7 DEF ChatPlaced
<1>9. ASSUME NEW a \in ChatRequests, NEW x \in ChatRequests, a # r, x # r, Ahead(a, x)
      PROVE  Ahead(a, x)'
  <2>1. PICK i, j \in 1..n : i < j /\ q[i] = a /\ q[j] = x
    BY <1>9 DEF Ahead
  <2>2. /\ i - 1 \in 1..n - 1 /\ j - 1 \in 1..n - 1 /\ i - 1 < j - 1
        /\ chatQueue'[i - 1] = a /\ chatQueue'[j - 1] = x
    BY <2>1, <1>9, <1>1, <1>3
  <2>3. QED
    BY <2>2, <1>1, <1>3 DEF Ahead
<1>10. QED
  BY <1>7, <1>8, <1>9 DEF MovedOn

\* Or he moves between two awaits on something else.
LEMMA WentOn ==
  ASSUME ChatPlaced, NEW r, NEW w, MayBeAt(r, w), chatAt' = [chatAt EXCEPT ![r] = w],
         UNCHANGED chatQueue, chatAt[r] \notin ChatWaits, w \notin ChatWaits
  PROVE  ChatPlaced' /\ MovedOn(r, w)
<1>1. /\ \A p \in ChatPosts : chatAt'[p] \in PostPlaces
      /\ \A d \in ChatDeletes : chatAt'[d] \in DeletePlaces
      /\ chatAt' \in [ChatRequests -> PostPlaces \cup DeletePlaces]
      /\ chatAt'[r] = w /\ \A x \in ChatRequests \ {r} : chatAt'[x] = chatAt[x]
  BY Placing
<1>2. \A x \in ChatRequests : Queued(x)' <=> Queued(x)
  BY DEF Queued
<1>3. ChatPlaced'
  <2>1. \A x \in ChatRequests : chatAt'[x] \in ChatWaits <=> Queued(x)'
    BY <1>1, <1>2 DEF ChatPlaced, MayBeAt
  <2>2. QED
    BY <2>1, <1>1 DEF ChatPlaced
<1>4. \A a, x \in ChatRequests : Ahead(a, x) => Ahead(a, x)'
  BY DEF Ahead
<1>5. QED
  BY <1>1, <1>3, <1>4 DEF MovedOn


\* Requests are posts or deletions, and each is about a session.
LEMMA RequestKinds ==
  /\ \A p \in ChatPosts : p \in ChatRequests /\ p \notin ChatDeletes /\ OnS(p) \in ChatSessions
  /\ \A d \in ChatDeletes : d \in ChatRequests /\ d \notin ChatPosts /\ OnS(d) \in ChatSessions
BY ChatAssumption DEF ChatAssumption, ChatRequests, ChatSessions, OnS

\* The turns stay who they are while one goes on, or somebody who has none moves.
LEMMA TurnGoesOn ==
  ASSUME OneTurn, NEW r \in ChatRequests, NEW w, MovedOn(r, w), UNCHANGED chatRunning,
         r \in ChatPosts => (chatAt[r] \in ChatTurn <=> w \in ChatTurn)
  PROVE  OneTurn'
<1>1. \A p \in ChatPosts : chatAt'[p] \in ChatTurn <=> chatAt[p] \in ChatTurn
  BY RequestKinds DEF MovedOn
<1>2. QED
  BY <1>1 DEF OneTurn, OnS

LEMMA TurnStarts ==
  ASSUME OneTurn, NEW r \in ChatPosts, MovedOn(r, "load"), OnS(r) \notin chatRunning,
         chatRunning' = chatRunning \cup {OnS(r)}
  PROVE  OneTurn'
<1>1. \A p \in ChatPosts : p # r => chatAt'[p] = chatAt[p]
  BY RequestKinds DEF MovedOn
<1>2. chatAt'[r] = "load" /\ "load" \in ChatTurn
  BY DEF MovedOn, ChatTurn
<1>3. QED
  BY <1>1, <1>2 DEF OneTurn, OnS

LEMMA TurnEnds ==
  ASSUME OneTurn, NEW r \in ChatPosts, MovedOn(r, "done"), chatAt[r] \in ChatTurn,
         chatRunning' = chatRunning \ {OnS(r)}
  PROVE  OneTurn'
<1>1. \A p \in ChatPosts : p # r => chatAt'[p] = chatAt[p]
  BY RequestKinds DEF MovedOn
<1>2. chatAt'[r] = "done" /\ "done" \notin ChatTurn
  BY DEF MovedOn, ChatTurn
<1>3. QED
  BY <1>1, <1>2 DEF OneTurn, OnS

\* A turn stays behind a deletion that it slipped in after: it loads, then stores its message, and only
\* when it is answered.
LEMMA TurnStaysBehind ==
  ASSUME ChatPlaced, DeletionAhead, NEW r \in ChatPosts, NEW w, MovedOn(r, w),
         \/ w \notin ChatTurn
         \/ chatAt[r] \notin ChatTurn /\ w = "load"
         \/ /\ chatAt[r] \in ChatTurn \ {"failure"} /\ w # "load"
            /\ chatAt[r] \in {"load", "user"} => \A a \in ChatRequests : ~Ahead(a, r)
            /\ chatAt[r] = "load" => w \in {"user", "failure"}
  PROVE  DeletionAhead'
<1> SUFFICES ASSUME NEW d \in ChatDeletes, NEW p \in ChatPosts,
                    OnS(d) = OnS(p), chatAt'[p] \in ChatTurn
             PROVE  /\ chatAt'[d] = "chunks" => chatAt'[p] = "load" /\ Ahead(d, p)'
                    /\ chatAt'[d] = "rows" =>
                         \/ chatAt'[p] \in {"load", "failure"}
                         \/ chatAt'[p] = "user" /\ Ahead(d, p)'
  BY DEF DeletionAhead, OnS
<1>1. d \in ChatRequests /\ p \in ChatRequests /\ d # r /\ r \in ChatRequests
  BY RequestKinds
<1>2. chatAt'[d] = chatAt[d]
  BY <1>1 DEF MovedOn
<1>3. CASE p # r
  <2>1. chatAt'[p] = chatAt[p] /\ (Ahead(d, p) => Ahead(d, p)')
    BY <1>1, <1>3 DEF MovedOn
  <2>2. QED
    BY <1>2, <2>1 DEF DeletionAhead
<1>4. CASE p = r
  <2>1. chatAt'[r] = w /\ w \in ChatTurn
    BY <1>4 DEF MovedOn
  <2>2. chatAt[d] \in {"chunks", "rows"} => Queued(d)
    BY <1>1 DEF ChatPlaced, ChatWaits
  <2>3. w \in {"load", "user"} /\ Queued(d) => Ahead(d, r)'
    BY <1>1 DEF MovedOn, ChatWaits
  <2>4. CASE chatAt[r] \notin ChatTurn /\ w = "load"
    BY <2>1, <2>2, <2>3, <2>4, <1>2, <1>4
  <2>5. CASE /\ chatAt[r] \in ChatTurn \ {"failure"} /\ w # "load"
             /\ chatAt[r] \in {"load", "user"} => \A a \in ChatRequests : ~Ahead(a, r)
             /\ chatAt[r] = "load" => w \in {"user", "failure"}
    <3>1. chatAt[d] # "chunks"
      BY <2>5, <1>1, <1>4 DEF DeletionAhead
    <3>2. chatAt[d] = "rows" => chatAt[r] = "load"
      BY <2>5, <1>1, <1>4 DEF DeletionAhead
    <3>3. QED
      BY <3>1, <3>2, <2>1, <2>2, <2>3, <2>5, <1>2, <1>4
  <2>6. QED
    BY <2>1, <2>4, <2>5
<1>5. QED
  BY <1>3, <1>4

\* A deletion goes past its check only with no turn running, and to the rows from the chunks.
LEMMA DeletionGoesOn ==
  ASSUME ChatPlaced, DeletionAhead, OneTurn, NEW r \in ChatDeletes, NEW w, MovedOn(r, w),
         w = "chunks" => OnS(r) \notin chatRunning,
         w = "rows" => chatAt[r] = "chunks"
  PROVE  DeletionAhead'
<1> SUFFICES ASSUME NEW d \in ChatDeletes, NEW p \in ChatPosts,
                    OnS(d) = OnS(p), chatAt'[p] \in ChatTurn
             PROVE  /\ chatAt'[d] = "chunks" => chatAt'[p] = "load" /\ Ahead(d, p)'
                    /\ chatAt'[d] = "rows" =>
                         \/ chatAt'[p] \in {"load", "failure"}
                         \/ chatAt'[p] = "user" /\ Ahead(d, p)'
  BY DEF DeletionAhead, OnS
<1>1. d \in ChatRequests /\ p \in ChatRequests /\ p # r /\ r \in ChatRequests
  BY RequestKinds
<1>2. chatAt'[p] = chatAt[p]
  BY <1>1 DEF MovedOn
<1>3. CASE d # r
  <2>1. chatAt'[d] = chatAt[d] /\ (Ahead(d, p) => Ahead(d, p)')
    BY <1>1, <1>3 DEF MovedOn
  <2>2. QED
    BY <1>2, <2>1 DEF DeletionAhead
<1>4. CASE d = r
  <2>1. chatAt'[d] = w
    BY <1>4 DEF MovedOn
  <2>2. OnS(p) \in chatRunning
    BY <1>2 DEF OneTurn
  <2>3. w = "rows" => chatAt[p] = "load"
    BY <1>2, <1>4 DEF DeletionAhead
  <2>4. QED
    BY <2>1, <2>2, <2>3, <1>2, <1>4
<1>5. QED
  BY <1>3, <1>4

\* What a turn does to rows and index.
LEMMA TurnHasRow ==
  ASSUME RowsBehind, DeletionAhead, NEW r \in ChatPosts, NEW w, MovedOn(r, w), UNCHANGED chatRows,
         \/ UNCHANGED chatIndexed
         \/ chatAt[r] = "index" /\ chatIndexed' = chatIndexed \cup {OnS(r)},
         w \in Answering \cup Answering2 =>
           OnS(r) \in chatRows \/ chatAt[r] \in Answering \cup Answering2
  PROVE  RowsBehind'
<1>1. \A p \in ChatPosts : chatAt'[p] \in Answering \cup Answering2 => OnS(p) \in chatRows
  BY RequestKinds DEF MovedOn, RowsBehind
<1>2. \A d \in ChatDeletes : chatAt'[d] = chatAt[d]
  BY RequestKinds DEF MovedOn
<1>3. CASE UNCHANGED chatIndexed
  BY <1>1, <1>2, <1>3 DEF RowsBehind, OnS
<1>4. CASE chatAt[r] = "index" /\ chatIndexed' = chatIndexed \cup {OnS(r)}
  <2>1. OnS(r) \in chatRows
    BY <1>4 DEF RowsBehind, Answering2
  <2>2. \A d \in ChatDeletes : chatAt[d] = "rows" => OnS(d) # OnS(r)
    BY <1>4 DEF DeletionAhead, ChatTurn
  <2>3. chatIndexed' \subseteq chatRows'
    BY <2>1, <1>4 DEF RowsBehind
  <2>4. \A d \in ChatDeletes : chatAt'[d] = "rows" => OnS(d) \notin chatIndexed'
    BY <2>2, <1>2, <1>4 DEF RowsBehind
  <2>5. QED
    BY <2>3, <2>4, <1>1 DEF RowsBehind, OnS
<1>5. QED
  BY <1>3, <1>4


\* What a deletion does to rows and index.
LEMMA DeletionLeavesRows ==
  ASSUME RowsBehind, NEW r \in ChatDeletes, NEW w, MovedOn(r, w), w # "rows",
         UNCHANGED <<chatRows, chatIndexed>>
  PROVE  RowsBehind'
<1>1. /\ \A p \in ChatPosts : chatAt'[p] = chatAt[p]
      /\ \A d \in ChatDeletes : chatAt'[d] = "rows" => chatAt[d] = "rows"
  BY RequestKinds DEF MovedOn
<1>2. QED
  BY <1>1 DEF RowsBehind, OnS

LEMMA DeletionTakesChunks ==
  ASSUME RowsBehind, NEW r \in ChatDeletes, MovedOn(r, "rows"), UNCHANGED chatRows,
         chatIndexed' = chatIndexed \ {OnS(r)}
  PROVE  RowsBehind'
<1>1. /\ \A p \in ChatPosts : chatAt'[p] = chatAt[p]
      /\ \A d \in ChatDeletes : d # r => chatAt'[d] = chatAt[d]
  BY RequestKinds DEF MovedOn
<1>2. QED
  BY <1>1 DEF RowsBehind, OnS

LEMMA DeletionTakesRows ==
  ASSUME RowsBehind, DeletionAhead, NEW r \in ChatDeletes, MovedOn(r, "done"), chatAt[r] = "rows",
         UNCHANGED chatIndexed, chatRows' = chatRows \ {OnS(r)}
  PROVE  RowsBehind'
<1>1. /\ \A p \in ChatPosts : chatAt'[p] = chatAt[p]
      /\ \A d \in ChatDeletes : chatAt'[d] = "rows" => chatAt[d] = "rows"
  BY RequestKinds DEF MovedOn
<1>2. \A p \in ChatPosts : chatAt[p] \in Answering \cup Answering2 => OnS(p) # OnS(r)
  BY DEF DeletionAhead, ChatTurn, Answering, Answering2
<1>3. QED
  BY <1>1, <1>2 DEF RowsBehind, OnS

\* A message that is stored is the last of its session, and the others are as they were.
LEMMA Storing ==
  ASSUME ChatKept, NEW p \in ChatPosts, NEW role \in {"user", "assistant"}, Stored(p, role)
  PROVE  LET s == OnS(p)
             n == Len(chatLog[s])
         IN /\ chatLog' \in [ChatSessions -> Seq({"user", "assistant"} \X ChatPosts)]
            /\ s \in chatRows /\ s \in ChatSessions /\ n \in Nat /\ Len(chatLog'[s]) = n + 1
            /\ chatLog'[s][n + 1] = <<role, p>>
            /\ \A i \in 1..n : chatLog'[s][i] = chatLog[s][i]
            /\ \A x \in ChatSessions : x # s => chatLog'[x] = chatLog[x]
<1> DEFINE s == OnS(p)
           M == {"user", "assistant"} \X ChatPosts
<1>1. s \in ChatSessions /\ s \in chatRows
  BY RequestKinds DEF Stored, OnS
<1>2. chatLog \in [ChatSessions -> Seq(M)] /\ <<role, p>> \in M
  BY DEF ChatKept
<1>3. chatLog' = [chatLog EXCEPT ![s] = Append(chatLog[s], <<role, p>>)]
  BY DEF Stored, OnS
<1>4. chatLog[s] \in Seq(M) /\ Append(chatLog[s], <<role, p>>) \in Seq(M)
  BY <1>1, <1>2
<1>5. /\ chatLog' \in [ChatSessions -> Seq(M)]
      /\ chatLog'[s] = Append(chatLog[s], <<role, p>>)
      /\ \A x \in ChatSessions : x # s => chatLog'[x] = chatLog[x]
  BY <1>1, <1>2, <1>3, <1>4
<1>6. /\ Len(chatLog[s]) \in Nat /\ Len(chatLog'[s]) = Len(chatLog[s]) + 1
      /\ chatLog'[s][Len(chatLog[s]) + 1] = <<role, p>>
      /\ \A i \in 1..Len(chatLog[s]) : chatLog'[s][i] = chatLog[s][i]
  BY <1>4, <1>5
<1>7. QED
  BY <1>1, <1>5, <1>6

\* A step that stores nothing leaves no message open that was answered.
LEMMA LogStays ==
  ASSUME LogFollows, NEW r \in ChatRequests, NEW w, MovedOn(r, w), UNCHANGED <<chatRows, chatLog>>,
         r \in ChatPosts =>
           /\ w \in Answering => chatAt[r] \in Answering
           /\ w = "failure" => chatAt[r] \in Answering \/ OnS(r) \notin chatRows
           /\ chatAt[r] \in Answering \cup {"failure"} => w \in Answering \cup {"failure"}
  PROVE  LogFollows'
<1>1. \A p \in ChatPosts : (p = r /\ chatAt'[p] = w) \/ chatAt'[p] = chatAt[p]
  BY RequestKinds DEF MovedOn
<1>2. \A s \in ChatSessions \ chatRows' : chatLog'[s] = <<>>
  BY DEF LogFollows
<1>3. \A p \in ChatPosts : Asked(p)' <=> Asked(p)
  BY DEF Asked, OnS
<1>4. \A p \in ChatPosts :
        /\ chatAt'[p] \in Answering => Asked(p)'
        /\ chatAt'[p] = "failure" => OnS(p) \notin chatRows' \/ Asked(p)'
  BY <1>1, <1>3 DEF LogFollows
<1>5. \A p \in ChatPosts :
        chatAt[p] \in Answering \cup {"failure"} => chatAt'[p] \in Answering \cup {"failure"}
  BY <1>1
<1>6. \A s \in ChatSessions : Follows(s, chatLog[s])'
  BY <1>5 DEF LogFollows, Follows, OnS
<1>7. QED
  BY <1>2, <1>4, <1>6 DEF LogFollows, OnS

\* Nobody's message is open when a turn stores its own.
LEMMA LogAsks ==
  ASSUME ChatKept, OneTurn, LogFollows, NEW p \in ChatPosts, NEW w \in Answering, MovedOn(p, w),
         chatAt[p] = "user", Stored(p, "user"), UNCHANGED chatRows
  PROVE  LogFollows'
<1> DEFINE s == OnS(p)
           n == Len(chatLog[s])
<1>1. /\ s \in chatRows /\ s \in ChatSessions /\ n \in Nat /\ Len(chatLog'[s]) = n + 1
      /\ chatLog'[s][n + 1] = <<"user", p>>
      /\ \A i \in 1..n : chatLog'[s][i] = chatLog[s][i]
      /\ \A x \in ChatSessions : x # s => chatLog'[x] = chatLog[x]
  BY Storing
<1>2. chatAt'[p] = w /\ \A q \in ChatPosts : q # p => chatAt'[q] = chatAt[q]
  BY RequestKinds DEF MovedOn
<1>3. \A q \in ChatPosts : chatAt[q] \in Answering \cup {"failure"} => OnS(q) # s
  <2>1. Answering \cup {"failure"} \subseteq ChatTurn /\ "user" \in ChatTurn
        /\ "user" \notin Answering \cup {"failure"}
    BY DEF Answering, ChatTurn
  <2>2. QED
    BY <2>1 DEF OneTurn
<1>4. \A x \in ChatSessions \ chatRows' : chatLog'[x] = <<>>
  BY <1>1 DEF LogFollows
<1>5. ASSUME NEW q \in ChatPosts
      PROVE  /\ chatAt'[q] \in Answering => Asked(q)'
             /\ chatAt'[q] = "failure" => OnS(q) \notin chatRows' \/ Asked(q)'
  <2>1. CASE q = p
    BY <2>1, <1>1, <1>2 DEF Asked, OnS, Answering
  <2>2. CASE q # p
    <3>1. chatAt'[q] \in Answering \cup {"failure"} => (Asked(q)' <=> Asked(q))
      BY <2>2, <1>1, <1>2, <1>3, RequestKinds DEF Asked, OnS
    <3>2. QED
      BY <3>1, <2>2, <1>2 DEF LogFollows, OnS
  <2>3. QED
    BY <2>1, <2>2
<1>6. ASSUME NEW x \in ChatSessions PROVE Follows(x, chatLog[x])'
  <2>1. \A q \in ChatPosts :
          chatAt[q] \in Answering \cup {"failure"} => chatAt'[q] \in Answering \cup {"failure"}
    BY <1>2
  <2>2. CASE x # s
    <3>1. Follows(x, chatLog[x]) /\ chatLog'[x] = chatLog[x]
      BY <2>2, <1>1 DEF LogFollows
    <3>2. QED
      BY <3>1, <2>1 DEF Follows, OnS
  <2>3. CASE x = s
    <3>1. Follows(s, chatLog[s])
      BY <1>1 DEF LogFollows
    <3>2. \A q \in ChatPosts : n > 0 => chatLog[s][n] # <<"user", q>>
      <4>1. n > 0 => n \in 1..n
        BY <1>1
      <4>2. QED
        BY <4>1, <3>1, <1>3 DEF Follows
    <3>3. ASSUME NEW i \in 1..n, NEW q \in ChatPosts
          PROVE  /\ chatLog'[s][i] = <<"user", q>> =>
                      i < n + 1 /\ chatLog'[s][i + 1] = <<"assistant", q>>
                 /\ chatLog'[s][i] = <<"assistant", q>> => (i > 1 => chatLog'[s][i - 1][2] = q)
      <4>1. chatLog'[s][i] = chatLog[s][i]
        BY <1>1
      <4>2. chatLog[s][i] = <<"user", q>> => i < n
        BY <3>2, <1>1
      <4>3. i < n => i + 1 \in 1..n /\ chatLog'[s][i + 1] = chatLog[s][i + 1]
        BY <1>1
      <4>4. i > 1 => i - 1 \in 1..n /\ chatLog'[s][i - 1] = chatLog[s][i - 1]
        BY <1>1
      <4>5. /\ chatLog[s][i] = <<"user", q>> => chatLog[s][i + 1] = <<"assistant", q>>
            /\ chatLog[s][i] = <<"assistant", q>> => (i > 1 => chatLog[s][i - 1][2] = q)
        BY <4>2, <3>1 DEF Follows
      <4>6. i < n + 1
        BY <1>1
      <4>7. QED
        BY <4>1, <4>2, <4>3, <4>4, <4>5, <4>6
    <3>4. \A q \in ChatPosts :
            /\ chatLog'[s][n + 1] # <<"assistant", q>>
            /\ chatLog'[s][n + 1] = <<"user", q>> => q = p
      BY <1>1
    <3>5. OnS(p) = s /\ chatAt'[p] \in Answering \cup {"failure"}
      BY <1>2
    <3>6. \A i \in 1..Len(chatLog'[s]) : i \in 1..n \/ i = n + 1
      BY <1>1
    <3>7. ASSUME NEW i \in 1..Len(chatLog'[s]), NEW q \in ChatPosts
          PROVE  /\ chatLog'[s][i] = <<"user", q>> =>
                      /\ i < n + 1 => chatLog'[s][i + 1] = <<"assistant", q>>
                      /\ i = n + 1 => OnS(q) = s /\ chatAt'[q] \in Answering \cup {"failure"}
                 /\ chatLog'[s][i] = <<"assistant", q>> => (i > 1 => chatLog'[s][i - 1][2] = q)
      <4>1. CASE i \in 1..n
        <5>1. i # n + 1
          BY <4>1, <1>1
        <5>2. QED
          BY <4>1, <5>1, <3>3
      <4>2. CASE i = n + 1
        BY <4>2, <3>4, <3>5, <1>1
      <4>3. QED
        BY <4>1, <4>2, <3>6
    <3>8. QED
      BY <2>3, <3>7, <1>1 DEF Follows, OnS
  <2>4. QED
    BY <2>2, <2>3
<1>7. QED
  BY <1>4, <1>5, <1>6 DEF LogFollows

\* And its answer follows it.
LEMMA LogAnswers ==
  ASSUME ChatKept, OneTurn, LogFollows, NEW p \in ChatPosts, NEW w, MovedOn(p, w),
         w \notin Answering \cup {"failure"}, chatAt[p] \in {"reply", "failure"},
         Stored(p, "assistant"), UNCHANGED chatRows
  PROVE  LogFollows'
<1> DEFINE s == OnS(p)
           n == Len(chatLog[s])
<1>1. /\ s \in chatRows /\ s \in ChatSessions /\ n \in Nat /\ Len(chatLog'[s]) = n + 1
      /\ chatLog'[s][n + 1] = <<"assistant", p>>
      /\ \A i \in 1..n : chatLog'[s][i] = chatLog[s][i]
      /\ \A x \in ChatSessions : x # s => chatLog'[x] = chatLog[x]
  BY Storing
<1>2. chatAt'[p] = w /\ \A q \in ChatPosts : q # p => chatAt'[q] = chatAt[q]
  BY RequestKinds DEF MovedOn
<1>3. \A q \in ChatPosts : chatAt[q] \in Answering \cup {"failure"} /\ OnS(q) = s => q = p
  <2>1. Answering \cup {"failure"} \subseteq ChatTurn /\ chatAt[p] \in ChatTurn
    BY DEF Answering, ChatTurn
  <2>2. QED
    BY <2>1 DEF OneTurn
<1>4. \A x \in ChatSessions \ chatRows' : chatLog'[x] = <<>>
  BY <1>1 DEF LogFollows
<1>5. n > 0 /\ chatLog[s][n] = <<"user", p>>
  BY <1>1 DEF LogFollows, Asked, Answering
<1>6. ASSUME NEW q \in ChatPosts
      PROVE  /\ chatAt'[q] \in Answering => Asked(q)'
             /\ chatAt'[q] = "failure" => OnS(q) \notin chatRows' \/ Asked(q)'
  <2>1. CASE q = p
    BY <2>1, <1>2
  <2>2. CASE q # p
    <3>1. chatAt'[q] \in Answering \cup {"failure"} => (Asked(q)' <=> Asked(q))
      BY <2>2, <1>1, <1>2, <1>3, RequestKinds DEF Asked, OnS
    <3>2. QED
      BY <3>1, <2>2, <1>2 DEF LogFollows, OnS
  <2>3. QED
    BY <2>1, <2>2
<1>7. ASSUME NEW x \in ChatSessions PROVE Follows(x, chatLog[x])'
  <2>1. CASE x # s
    <3>1. Follows(x, chatLog[x]) /\ chatLog'[x] = chatLog[x]
      BY <2>1, <1>1 DEF LogFollows
    <3>2. \A q \in ChatPosts : chatAt[q] \in Answering \cup {"failure"} /\ OnS(q) = x =>
            chatAt'[q] \in Answering \cup {"failure"}
      BY <2>1, <1>2
    <3>3. QED
      BY <3>1, <3>2 DEF Follows, OnS
  <2>2. CASE x = s
    <3>1. Follows(s, chatLog[s])
      BY <1>1 DEF LogFollows
    <3>2. ASSUME NEW i \in 1..n, NEW q \in ChatPosts
          PROVE  /\ chatLog'[s][i] = <<"user", q>> =>
                      i < n + 1 /\ chatLog'[s][i + 1] = <<"assistant", q>>
                 /\ chatLog'[s][i] = <<"assistant", q>> => (i > 1 => chatLog'[s][i - 1][2] = q)
      <4>1. chatLog'[s][i] = chatLog[s][i]
        BY <1>1
      <4>2. i < n => i + 1 \in 1..n /\ chatLog'[s][i + 1] = chatLog[s][i + 1]
        BY <1>1
      <4>3. i = n /\ chatLog[s][i] = <<"user", q>> => chatLog'[s][i + 1] = <<"assistant", q>>
        BY <1>1, <1>5
      <4>4. i > 1 => i - 1 \in 1..n /\ chatLog'[s][i - 1] = chatLog[s][i - 1]
        BY <1>1
      <4>5. i < n \/ i = n
        BY <1>1
      <4>6. QED
        BY <4>1, <4>2, <4>3, <4>4, <4>5, <3>1, <1>1 DEF Follows
    <3>3. \A q \in ChatPosts :
            /\ chatLog'[s][n + 1] # <<"user", q>>
            /\ chatLog'[s][n + 1] = <<"assistant", q>> => q = p
      BY <1>1
    <3>4. (n + 1) - 1 = n /\ chatLog'[s][n] = <<"user", p>>
      BY <1>1, <1>5
    <3>5. \A i \in 1..Len(chatLog'[s]) : i \in 1..n \/ i = n + 1
      BY <1>1
    <3>6. ASSUME NEW i \in 1..Len(chatLog'[s]), NEW q \in ChatPosts
          PROVE  /\ chatLog'[s][i] = <<"user", q>> =>
                      /\ i < Len(chatLog'[s]) => chatLog'[s][i + 1] = <<"assistant", q>>
                      /\ i = Len(chatLog'[s]) => OnS(q) = s /\ chatAt'[q] \in Answering \cup {"failure"}
                 /\ chatLog'[s][i] = <<"assistant", q>> => (i > 1 => chatLog'[s][i - 1][2] = q)
      <4>1. CASE i \in 1..n
        <5>1. i # Len(chatLog'[s])
          BY <1>1, <4>1
        <5>2. QED
          BY <3>2, <4>1, <5>1
      <4>2. CASE i = n + 1
        <5>1. chatLog'[s][i] # <<"user", q>>
          BY <3>3, <4>2
        <5>2. chatLog'[s][i] = <<"assistant", q>> => q = p
          BY <3>3, <4>2
        <5>3. i - 1 = n /\ chatLog'[s][i - 1] = <<"user", p>>
          BY <3>4, <4>2
        <5>4. QED
          BY <5>1, <5>2, <5>3
      <4>3. QED
        BY <3>5, <4>1, <4>2
    <3>7. Follows(s, chatLog[s])'
      BY <3>6 DEF Follows, OnS
    <3>8. QED
      BY <2>2, <3>7
  <2>3. QED
    BY <2>1, <2>2
<1>8. QED
  BY <1>4, <1>6, <1>7 DEF LogFollows

\* A session that is deleted has no messages.
LEMMA LogGoes ==
  ASSUME ChatKept, DeletionAhead, LogFollows, NEW d \in ChatDeletes, MovedOn(d, "done"),
         chatAt[d] = "rows", chatRows' = chatRows \ {OnS(d)},
         chatLog' = [chatLog EXCEPT ![OnS(d)] = <<>>]
  PROVE  LogFollows'
<1>1. \A p \in ChatPosts : chatAt'[p] = chatAt[p]
  BY RequestKinds DEF MovedOn
<1>2. chatLog'[OnS(d)] = <<>> /\ \A x \in ChatSessions : x # OnS(d) => chatLog'[x] = chatLog[x]
  BY RequestKinds DEF ChatKept
<1>3. \A p \in ChatPosts : chatAt[p] \in Answering => OnS(p) # OnS(d)
  BY DEF DeletionAhead, Answering, ChatTurn
<1>4. \A x \in ChatSessions \ chatRows' : chatLog'[x] = <<>>
  BY <1>2 DEF LogFollows
<1>5. ASSUME NEW p \in ChatPosts
      PROVE  /\ chatAt'[p] \in Answering => Asked(p)'
             /\ chatAt'[p] = "failure" => OnS(p) \notin chatRows' \/ Asked(p)'
  <2>1. OnS(p) # OnS(d) => (Asked(p)' <=> Asked(p))
    BY <1>2, RequestKinds DEF Asked, OnS
  <2>2. QED
    BY <2>1, <1>1, <1>3 DEF LogFollows, OnS
<1>6. ASSUME NEW x \in ChatSessions PROVE Follows(x, chatLog[x])'
  <2>1. CASE x = OnS(d)
    BY <2>1, <1>2 DEF Follows, OnS
  <2>2. CASE x # OnS(d)
    BY <2>2, <1>1, <1>2 DEF LogFollows, Follows, OnS
  <2>3. QED
    BY <2>1, <2>2
<1>7. QED
  BY <1>4, <1>5, <1>6 DEF LogFollows


\* A turn moves and stores nothing.
Onward(p, w) ==
  /\ chatAt[p] \in ChatTurn <=> w \in ChatTurn
  /\ chatAt[p] \in ChatTurn =>
       /\ chatAt[p] # "failure" /\ w # "load"
       /\ chatAt[p] \in {"load", "user"} => \A a \in ChatRequests : ~Ahead(a, p)
       /\ chatAt[p] = "load" => w \in {"user", "failure"}
       /\ w \in Answering => chatAt[p] \in Answering
       /\ w \in Answering2 => chatAt[p] \in Answering2
       /\ w = "failure" => chatAt[p] \in Answering \/ OnS(p) \notin chatRows
       /\ chatAt[p] \in Answering => w \in Answering \cup {"failure"}

LEMMA QuietTurn ==
  ASSUME ChatInductive, NEW p \in ChatPosts, NEW w, ChatPlaced', MovedOn(p, w), Onward(p, w),
         UNCHANGED <<chatRunning, chatRows, chatIndexed, chatLog, chatLane>>,
         chatResume' \subseteq ChatSessions
  PROVE  ChatInductive'
<1>0. Answering \cup Answering2 \cup {"failure", "load"} \subseteq ChatTurn /\ p \in ChatRequests
  BY RequestKinds DEF Answering, Answering2, ChatTurn
<1>1. ChatKept'
  BY DEF ChatInductive, ChatKept, ChatSessions
<1>2. OneTurn'
  BY <1>0, TurnGoesOn DEF ChatInductive, Onward
<1>3. DeletionAhead'
  <2>1. \/ w \notin ChatTurn
        \/ /\ chatAt[p] \in ChatTurn \ {"failure"} /\ w # "load"
           /\ chatAt[p] \in {"load", "user"} => \A a \in ChatRequests : ~Ahead(a, p)
           /\ chatAt[p] = "load" => w \in {"user", "failure"}
    BY DEF Onward
  <2>2. QED
    BY <2>1, TurnStaysBehind DEF ChatInductive
<1>4. RowsBehind'
  <2>1. w \in Answering \cup Answering2 => chatAt[p] \in Answering \cup Answering2
    BY <1>0 DEF Onward
  <2>2. QED
    BY <2>1, TurnHasRow DEF ChatInductive
<1>5. LogFollows'
  <2>1. /\ w \in Answering => chatAt[p] \in Answering
        /\ w = "failure" => chatAt[p] \in Answering \/ OnS(p) \notin chatRows
        /\ chatAt[p] \in Answering \cup {"failure"} => w \in Answering \cup {"failure"}
    BY <1>0 DEF Onward
  <2>2. QED
    BY <2>1, <1>0, LogStays DEF ChatInductive
<1>6. QED
  BY <1>1, <1>2, <1>3, <1>4, <1>5 DEF ChatInductive

\* A failure that is refused leaves nothing open: the session's messages are gone with its row.
LEMMA AbandonedLog ==
  ASSUME LogFollows, NEW p \in ChatPosts, MovedOn(p, "done"), OnS(p) \notin chatRows,
         UNCHANGED <<chatRows, chatLog>>
  PROVE  LogFollows'
<1>1. chatAt'[p] = "done" /\ \A q \in ChatPosts : q # p => chatAt'[q] = chatAt[q]
  BY RequestKinds DEF MovedOn
<1>2. "done" \notin Answering \cup {"failure"}
  BY DEF Answering
<1>3. \A q \in ChatPosts :
        /\ chatAt'[q] \in Answering => Asked(q)'
        /\ chatAt'[q] = "failure" => OnS(q) \notin chatRows' \/ Asked(q)'
  BY <1>1, <1>2 DEF LogFollows, Asked, OnS
<1>4. ASSUME NEW x \in ChatSessions PROVE Follows(x, chatLog[x])'
  <2>1. CASE x = OnS(p)
    BY <2>1 DEF LogFollows, Follows, OnS
  <2>2. CASE x # OnS(p)
    <3>1. \A q \in ChatPosts : OnS(q) = x => chatAt'[q] = chatAt[q]
      BY <2>2, <1>1
    <3>2. QED
      BY <3>1 DEF LogFollows, Follows, OnS
  <2>3. QED
    BY <2>1, <2>2
<1>5. QED
  BY <1>3, <1>4 DEF LogFollows, OnS

\* A turn ends: its session is not running any more.
LEMMA EndOfTurn ==
  ASSUME ChatInductive, NEW p \in ChatPosts, ChatPlaced', MovedOn(p, "done"),
         chatAt[p] \in {"embed", "index", "reply", "failure"},
         chatRunning' = chatRunning \ {OnS(p)},
         UNCHANGED <<chatRows, chatLane, chatResume>>,
         \/ UNCHANGED chatIndexed
         \/ chatAt[p] = "index" /\ chatIndexed' = chatIndexed \cup {OnS(p)},
         \/ chatAt[p] \in {"embed", "index"} /\ UNCHANGED chatLog
         \/ chatAt[p] \in {"reply", "failure"} /\ Stored(p, "assistant")
         \/ chatAt[p] = "failure" /\ OnS(p) \notin chatRows /\ UNCHANGED chatLog
  PROVE  ChatInductive'
<1>0. /\ "done" \notin Answering \cup Answering2 \cup ChatTurn \cup {"failure", "load"}
      /\ {"embed", "index"} \cap (Answering \cup {"failure"}) = {}
      /\ chatAt[p] \in ChatTurn /\ p \in ChatRequests /\ OnS(p) \in ChatSessions
  BY RequestKinds DEF Answering, Answering2, ChatTurn
<1>1. ChatKept'
  <2>1. chatLog' \in [ChatSessions -> Seq({"user", "assistant"} \X ChatPosts)]
    BY Storing DEF ChatInductive, ChatKept, ChatSessions
  <2>2. chatIndexed' \subseteq ChatSessions
    BY <1>0 DEF ChatInductive, ChatKept
  <2>3. QED
    BY <2>1, <2>2 DEF ChatInductive, ChatKept, ChatSessions
<1>2. OneTurn'
  BY <1>0, TurnEnds DEF ChatInductive
<1>3. DeletionAhead'
  BY <1>0, TurnStaysBehind DEF ChatInductive
<1>4. RowsBehind'
  BY <1>0, TurnHasRow DEF ChatInductive
<1>5. LogFollows'
  <2>1. CASE chatAt[p] \in {"embed", "index"} /\ UNCHANGED chatLog
    BY <2>1, <1>0, LogStays DEF ChatInductive
  <2>2. CASE chatAt[p] \in {"reply", "failure"} /\ Stored(p, "assistant")
    BY <2>2, <1>0, LogAnswers DEF ChatInductive
  <2>3. CASE chatAt[p] = "failure" /\ OnS(p) \notin chatRows /\ UNCHANGED chatLog
    BY <2>3, <1>0, AbandonedLog DEF ChatInductive
  <2>4. QED
    BY <2>1, <2>2, <2>3
<1>6. QED
  BY <1>1, <1>2, <1>3, <1>4, <1>5 DEF ChatInductive

\* Where the oldest statement of the queue was issued, its request is next.
LEMMA NextAnswered ==
  ASSUME ChatInductive, NEW r \in ChatRequests, NEW place, Answered(r, place)
  PROVE  /\ chatAt[r] = place /\ chatQueue # <<>> /\ Head(chatQueue) = r
         /\ \A a \in ChatRequests : ~Ahead(a, r)
<1>1. chatAt[r] = place /\ chatQueue # <<>> /\ Head(chatQueue) = r
  BY DEF Answered
<1>2. QED
  BY <1>1, AnswersFirst DEF ChatInductive

\* A request issues its first statement, or its next one after an await that was not on the database.
LEMMA PostMessageKeeps ==
  ASSUME ChatInductive, NEW p \in ChatPosts, PostMessage(p) PROVE ChatInductive'
<1>1. Issue(p, "find") /\ chatAt[p] = "new"
  BY DEF PostMessage
<1>2. MayBeAt(p, "find") /\ "find" \in ChatWaits /\ "new" \notin ChatWaits
  BY RequestKinds DEF MayBeAt, PostPlaces, ChatWaits
<1>3. ChatPlaced' /\ MovedOn(p, "find")
  BY <1>1, <1>2, Issued DEF ChatInductive
<1>4. Onward(p, "find")
  BY <1>1 DEF Onward, ChatTurn
<1>5. chatResume' \subseteq ChatSessions
  BY DEF PostMessage, ChatKeep, ChatInductive, ChatKept
<1>6. QED
  BY <1>3, <1>4, <1>5, QuietTurn DEF PostMessage, ChatKeep

LEMMA PostFoundKeeps ==
  ASSUME ChatInductive, NEW p \in ChatPosts, PostFound(p) PROVE ChatInductive'
<1>1. PICK w \in {"body", "gone"} : Await(p, w)
  BY DEF PostFound
<1>2. Answered(p, "find")
  BY DEF PostFound
<1>3. MayBeAt(p, w) /\ w \notin ChatWaits
  BY RequestKinds DEF MayBeAt, PostPlaces, ChatWaits
<1>4. chatAt[p] = "find" /\ chatQueue # <<>> /\ Head(chatQueue) = p
  BY <1>2, RequestKinds, NextAnswered
<1>5. ChatPlaced' /\ MovedOn(p, w)
  BY <1>1, <1>3, <1>4, Awaited DEF ChatInductive
<1>6. Onward(p, w)
  BY <1>4 DEF Onward, ChatTurn
<1>7. chatResume' \subseteq ChatSessions
  BY DEF PostFound, ChatKeep, ChatInductive, ChatKept
<1>8. QED
  BY <1>5, <1>6, <1>7, QuietTurn DEF PostFound, ChatKeep

LEMMA PostBodyKeeps ==
  ASSUME ChatInductive, NEW p \in ChatPosts, PostBody(p) PROVE ChatInductive'
<1>1. chatAt[p] = "body" /\ "body" \notin ChatWaits
  BY DEF PostBody, ChatWaits
<1>2. CASE /\ chatAt' = [chatAt EXCEPT ![p] = IF ChatSessionOf[p] \in chatRunning THEN "busy" ELSE "done"]
           /\ UNCHANGED <<chatQueue, chatRunning>>
  <2>1. PICK w \in {"busy", "done"} : chatAt' = [chatAt EXCEPT ![p] = w]
    BY <1>2
  <2>2. MayBeAt(p, w) /\ w \notin ChatWaits
    BY RequestKinds DEF MayBeAt, PostPlaces, ChatWaits
  <2>3. ChatPlaced' /\ MovedOn(p, w)
    BY <1>1, <1>2, <2>1, <2>2, WentOn DEF ChatInductive
  <2>4. Onward(p, w)
    BY <1>1 DEF Onward, ChatTurn
  <2>5. chatResume' \subseteq ChatSessions
    BY DEF PostBody, ChatKeep, ChatInductive, ChatKept
  <2>6. QED
    BY <1>2, <2>3, <2>4, <2>5, QuietTurn DEF PostBody, ChatKeep
<1>3. CASE /\ ChatSessionOf[p] \notin chatRunning
           /\ chatRunning' = chatRunning \cup {ChatSessionOf[p]}
           /\ Issue(p, "load")
  <2>1. MayBeAt(p, "load") /\ "load" \in ChatWaits /\ p \in ChatRequests
    BY RequestKinds DEF MayBeAt, PostPlaces, ChatTurn, ChatWaits
  <2>2. ChatPlaced' /\ MovedOn(p, "load")
    BY <1>1, <1>3, <2>1, Issued DEF ChatInductive
  <2>3. UNCHANGED <<chatLane, chatLog, chatRows, chatIndexed, chatResume>>
    BY DEF PostBody, ChatKeep
  <2>4. "body" \notin ChatTurn /\ "load" \notin Answering \cup Answering2 \cup {"failure"}
        /\ "body" \notin Answering \cup {"failure"}
    BY DEF ChatTurn, Answering, Answering2
  <2>5. ChatKept'
    BY <1>3, <2>3, RequestKinds DEF ChatInductive, ChatKept, ChatSessions, OnS
  <2>6. OneTurn'
    BY <1>3, <2>2, TurnStarts DEF ChatInductive, OnS
  <2>7. DeletionAhead'
    BY <1>1, <2>2, <2>4, TurnStaysBehind DEF ChatInductive
  <2>8. RowsBehind'
    BY <2>2, <2>3, <2>4, TurnHasRow DEF ChatInductive
  <2>9. LogFollows'
    BY <1>1, <2>1, <2>2, <2>3, <2>4, LogStays DEF ChatInductive
  <2>10. QED
    BY <2>2, <2>5, <2>6, <2>7, <2>8, <2>9 DEF ChatInductive
<1>4. QED
  BY <1>2, <1>3 DEF PostBody

LEMMA LoadSessionKeeps ==
  ASSUME ChatInductive, NEW p \in ChatPosts, LoadSession(p) PROVE ChatInductive'
<1>1. PICK w \in {"user", "failure"} : Reissue(p, w) /\ (w = "failure" => OnS(p) \notin chatRows)
  BY DEF LoadSession, OnS
<1>2. MayBeAt(p, w) /\ w \in ChatWaits
  BY RequestKinds DEF MayBeAt, PostPlaces, ChatTurn, ChatWaits
<1>3. /\ chatAt[p] = "load" /\ chatQueue # <<>> /\ Head(chatQueue) = p
      /\ \A a \in ChatRequests : ~Ahead(a, p)
  BY RequestKinds, NextAnswered DEF LoadSession
<1>4. ChatPlaced' /\ MovedOn(p, w)
  BY <1>1, <1>2, <1>3, Reissued DEF ChatInductive
<1>5. Onward(p, w)
  BY <1>1, <1>3 DEF Onward, ChatTurn, Answering, Answering2
<1>6. chatResume' \subseteq ChatSessions
  BY DEF LoadSession, ChatKeep, ChatInductive, ChatKept
<1>7. QED
  BY <1>4, <1>5, <1>6, QuietTurn DEF LoadSession, ChatKeep

LEMMA SaveUserKeeps ==
  ASSUME ChatInductive, NEW p \in ChatPosts, SaveUser(p) PROVE ChatInductive'
<1>1. /\ chatAt[p] = "user" /\ chatQueue # <<>> /\ Head(chatQueue) = p
      /\ \A a \in ChatRequests : ~Ahead(a, p)
  BY RequestKinds, NextAnswered DEF SaveUser
<1>2. CASE Refused(p) /\ Reissue(p, "failure") /\ UNCHANGED chatLane
  <2>1. MayBeAt(p, "failure") /\ "failure" \in ChatWaits
    BY RequestKinds DEF MayBeAt, PostPlaces, ChatTurn, ChatWaits
  <2>2. ChatPlaced' /\ MovedOn(p, "failure")
    BY <1>1, <1>2, <2>1, Reissued DEF ChatInductive
  <2>3. Onward(p, "failure")
    BY <1>1, <1>2 DEF Onward, ChatTurn, Answering, Answering2, Refused, OnS
  <2>4. chatResume' \subseteq ChatSessions
    BY DEF SaveUser, ChatKeep, ChatInductive, ChatKept
  <2>5. QED
    BY <1>2, <2>2, <2>3, <2>4, QuietTurn DEF SaveUser, ChatKeep, Refused
<1>3. CASE /\ Stored(p, "user")
           /\ \E l \in ChatLanesOf[p] :
                /\ chatLane' = [chatLane EXCEPT ![p] = l]
                /\ Reissue(p, IF l = "handoff" THEN "handoff" ELSE "prepare")
  <2>1. PICK l \in ChatLanesOf[p] :
               /\ chatLane' = [chatLane EXCEPT ![p] = l]
               /\ Reissue(p, IF l = "handoff" THEN "handoff" ELSE "prepare")
    BY <1>3
  <2>2. PICK w \in {"handoff", "prepare"} : Reissue(p, w)
    BY <2>1
  <2>3. /\ MayBeAt(p, w) /\ w \in ChatWaits /\ w \in Answering /\ w \in ChatTurn
        /\ w \notin {"load", "failure"} /\ "user" \in ChatTurn
        /\ p \in ChatRequests
    BY RequestKinds DEF MayBeAt, PostPlaces, ChatTurn, ChatWaits, Answering
  <2>4. ChatPlaced' /\ MovedOn(p, w)
    BY <1>1, <2>2, <2>3, Reissued DEF ChatInductive
  <2>5. UNCHANGED <<chatRunning, chatRows, chatIndexed, chatResume>>
    BY DEF SaveUser, ChatKeep
  <2>6. ChatKept'
    <3>1. chatLog' \in [ChatSessions -> Seq({"user", "assistant"} \X ChatPosts)]
      BY <1>3, Storing DEF ChatInductive
    <3>2. chatLane' \in [ChatPosts -> ChatLanes]
      BY <2>1, ChatAssumption DEF ChatAssumption, ChatInductive, ChatKept
    <3>3. QED
      BY <3>1, <3>2, <2>5 DEF ChatInductive, ChatKept, ChatSessions
  <2>7. OneTurn'
    BY <1>1, <2>3, <2>4, <2>5, TurnGoesOn DEF ChatInductive
  <2>8. DeletionAhead'
    BY <1>1, <2>3, <2>4, TurnStaysBehind DEF ChatInductive
  <2>9. RowsBehind'
    BY <1>3, <2>4, <2>5, TurnHasRow DEF ChatInductive, Stored, OnS
  <2>10. LogFollows'
    BY <1>1, <1>3, <2>3, <2>4, <2>5, LogAsks DEF ChatInductive
  <2>11. QED
    BY <2>4, <2>6, <2>7, <2>8, <2>9, <2>10 DEF ChatInductive
<1>4. QED
  BY <1>2, <1>3 DEF SaveUser

\* From where to where a turn goes while it looks for the answer.
LEMMA AnsweringGoesOn ==
  ASSUME ChatInductive, NEW p \in ChatPosts, chatAt[p] \in Answering,
         NEW w \in Answering \cup {"failure"},
         \/ /\ Answered(p, chatAt[p])
            /\ \/ Reissue(p, w) /\ w \in ChatWaits
               \/ Await(p, w) /\ w \notin ChatWaits
         \/ /\ chatAt[p] \notin ChatWaits
            /\ \/ Issue(p, w) /\ w \in ChatWaits
               \/ /\ chatAt' = [chatAt EXCEPT ![p] = w] /\ UNCHANGED chatQueue
                  /\ w \notin ChatWaits,
         UNCHANGED <<chatRunning, chatRows, chatIndexed, chatLog, chatLane>>,
         chatResume' \subseteq ChatSessions
  PROVE  ChatInductive'
<1>1. MayBeAt(p, w) /\ p \in ChatRequests
  BY RequestKinds DEF MayBeAt, PostPlaces, Answering, ChatTurn
<1>2. ChatPlaced' /\ MovedOn(p, w)
  <2>1. CASE Answered(p, chatAt[p]) /\ Reissue(p, w) /\ w \in ChatWaits
    BY <2>1, <1>1, Reissued DEF ChatInductive, Answered
  <2>2. CASE Answered(p, chatAt[p]) /\ Await(p, w) /\ w \notin ChatWaits
    BY <2>2, <1>1, Awaited DEF ChatInductive, Answered
  <2>3. CASE chatAt[p] \notin ChatWaits /\ Issue(p, w) /\ w \in ChatWaits
    BY <2>3, <1>1, Issued DEF ChatInductive
  <2>4. CASE /\ chatAt[p] \notin ChatWaits /\ chatAt' = [chatAt EXCEPT ![p] = w]
             /\ UNCHANGED chatQueue /\ w \notin ChatWaits
    BY <2>4, <1>1, WentOn DEF ChatInductive
  <2>5. QED
    BY <2>1, <2>2, <2>3, <2>4
<1>3. Onward(p, w)
  BY DEF Onward, Answering, Answering2, ChatTurn
<1>4. QED
  BY <1>2, <1>3, QuietTurn


LEMMA SaveHandoffKeeps ==
  ASSUME ChatInductive, NEW p \in ChatPosts, SaveHandoff(p) PROVE ChatInductive'
<1>1. PICK w \in {"reply", "failure"} : Reissue(p, w)
  BY DEF SaveHandoff
<1>2. Answered(p, "handoff") /\ chatAt[p] = "handoff"
  BY DEF SaveHandoff, Answered
<1>3. chatAt[p] \in Answering /\ w \in Answering \cup {"failure"} /\ w \in ChatWaits
  BY <1>2 DEF Answering, ChatWaits
<1>4. /\ UNCHANGED <<chatRunning, chatRows, chatIndexed, chatLog, chatLane>>
      /\ chatResume' \subseteq ChatSessions
  BY DEF SaveHandoff, ChatKeep, ChatInductive, ChatKept
<1>5. QED
  BY <1>1, <1>2, <1>3, <1>4, AnsweringGoesOn

LEMMA PrepareKeeps ==
  ASSUME ChatInductive, NEW p \in ChatPosts, Prepare(p) PROVE ChatInductive'
<1>1. \/ Reissue(p, "reply") \/ Reissue(p, "failure") \/ Await(p, "lane")
  BY DEF Prepare
<1>2. Answered(p, "prepare") /\ chatAt[p] = "prepare"
  BY DEF Prepare, Answered
<1>3. /\ chatAt[p] \in Answering /\ {"reply", "lane"} \subseteq Answering
      /\ {"reply", "failure"} \subseteq ChatWaits /\ "lane" \notin ChatWaits
  BY <1>2 DEF Answering, ChatWaits
<1>4. /\ UNCHANGED <<chatRunning, chatRows, chatIndexed, chatLog, chatLane>>
      /\ chatResume' \subseteq ChatSessions
  BY DEF Prepare, ChatKeep, ChatInductive, ChatKept
<1>5. QED
  BY <1>1, <1>2, <1>3, <1>4, AnsweringGoesOn

LEMMA AskAgentKeeps ==
  ASSUME ChatInductive, NEW p \in ChatPosts, AskAgent(p) PROVE ChatInductive'
<1>1. chatAt[p] \in {"lane", "retry"}
  BY DEF AskAgent
<1>2. \/ Issue(p, "reply") \/ Issue(p, "runtime") \/ Issue(p, "failure")
      \/ chatAt' = [chatAt EXCEPT ![p] = "retry"] /\ UNCHANGED chatQueue
  BY DEF AskAgent
<1>3. /\ chatAt[p] \in Answering /\ {"reply", "runtime", "retry"} \subseteq Answering
      /\ {"reply", "runtime", "failure"} \subseteq ChatWaits
      /\ "retry" \notin ChatWaits /\ chatAt[p] \notin ChatWaits
  BY <1>1 DEF Answering, ChatWaits
<1>4. /\ UNCHANGED <<chatRunning, chatRows, chatIndexed, chatLog, chatLane>>
      /\ chatResume' \subseteq ChatSessions
  BY DEF AskAgent, ChatKeep, ChatInductive, ChatKept
<1>5. QED
  BY <1>2, <1>3, <1>4, AnsweringGoesOn

LEMMA SaveRuntimeKeeps ==
  ASSUME ChatInductive, NEW p \in ChatPosts, SaveRuntime(p) PROVE ChatInductive'
<1>1. Reissue(p, "reply") /\ Answered(p, "runtime") /\ chatAt[p] = "runtime"
  BY DEF SaveRuntime, Answered
<1>2. chatAt[p] \in Answering /\ "reply" \in Answering /\ "reply" \in ChatWaits
  BY <1>1 DEF Answering, ChatWaits
<1>3. /\ UNCHANGED <<chatRunning, chatRows, chatIndexed, chatLog, chatLane>>
      /\ chatResume' \subseteq ChatSessions
  BY RequestKinds DEF SaveRuntime, ChatInductive, ChatKept, OnS
<1>4. QED
  BY <1>1, <1>2, <1>3, AnsweringGoesOn

LEMMA SaveReplyKeeps ==
  ASSUME ChatInductive, NEW p \in ChatPosts, SaveReply(p) PROVE ChatInductive'
<1>1. /\ Answered(p, "reply") /\ chatAt[p] = "reply" /\ chatQueue # <<>> /\ Head(chatQueue) = p
      /\ \A a \in ChatRequests : ~Ahead(a, p)
  BY RequestKinds, NextAnswered DEF SaveReply
<1>2. CASE Refused(p) /\ Reissue(p, "failure") /\ UNCHANGED chatRunning
  <2>1. chatAt[p] \in Answering /\ "failure" \in ChatWaits
    BY <1>1 DEF Answering, ChatWaits
  <2>2. /\ UNCHANGED <<chatRunning, chatRows, chatIndexed, chatLog, chatLane>>
        /\ chatResume' \subseteq ChatSessions
    BY <1>2 DEF SaveReply, ChatKeep, ChatInductive, ChatKept, Refused
  <2>3. QED
    BY <1>1, <1>2, <2>1, <2>2, AnsweringGoesOn
<1>3. CASE Stored(p, "assistant") /\ EndTurn(p)
  <2>1. MayBeAt(p, "done") /\ "done" \notin ChatWaits
    BY RequestKinds DEF MayBeAt, PostPlaces, ChatWaits
  <2>2. Await(p, "done") /\ chatRunning' = chatRunning \ {OnS(p)}
    BY <1>3 DEF EndTurn, OnS
  <2>3. ChatPlaced' /\ MovedOn(p, "done")
    BY <1>1, <2>1, <2>2, Awaited DEF ChatInductive
  <2>4. UNCHANGED <<chatRows, chatIndexed, chatLane, chatResume>>
    BY DEF SaveReply, ChatKeep
  <2>5. QED
    BY <1>1, <1>3, <2>2, <2>3, <2>4, EndOfTurn
<1>4. CASE Stored(p, "assistant") /\ Reissue(p, "transcript") /\ UNCHANGED chatRunning
  <2>1. MayBeAt(p, "transcript") /\ "transcript" \in ChatWaits /\ p \in ChatRequests
    BY RequestKinds DEF MayBeAt, PostPlaces, ChatTurn, ChatWaits
  <2>2. ChatPlaced' /\ MovedOn(p, "transcript")
    BY <1>1, <1>4, <2>1, Reissued DEF ChatInductive
  <2>3. UNCHANGED <<chatRunning, chatRows, chatIndexed, chatLane, chatResume>>
    BY <1>4 DEF SaveReply, ChatKeep
  <2>4. /\ "reply" \in ChatTurn /\ "transcript" \in ChatTurn /\ "reply" \in Answering
        /\ "transcript" \notin Answering \cup {"failure"}
    BY DEF ChatTurn, Answering
  <2>5. ChatKept'
    <3>1. chatLog' \in [ChatSessions -> Seq({"user", "assistant"} \X ChatPosts)]
      BY <1>4, Storing DEF ChatInductive
    <3>2. QED
      BY <3>1, <2>3 DEF ChatInductive, ChatKept, ChatSessions
  <2>6. OneTurn'
    BY <1>1, <2>1, <2>2, <2>3, <2>4, TurnGoesOn DEF ChatInductive
  <2>7. DeletionAhead'
    BY <1>1, <2>2, <2>4, TurnStaysBehind DEF ChatInductive
  <2>8. RowsBehind'
    BY <1>1, <2>2, <2>3, <2>4, TurnHasRow DEF ChatInductive
  <2>9. LogFollows'
    BY <1>1, <1>4, <2>2, <2>3, <2>4, LogAnswers DEF ChatInductive
  <2>10. QED
    BY <2>2, <2>5, <2>6, <2>7, <2>8, <2>9 DEF ChatInductive
<1>5. QED
  BY <1>2, <1>3, <1>4 DEF SaveReply

\* The index is written after the answer.
LEMMA ReadTranscriptKeeps ==
  ASSUME ChatInductive, NEW p \in ChatPosts, ReadTranscript(p) PROVE ChatInductive'
<1>1. Await(p, "embed")
  BY DEF ReadTranscript
<1>2. chatAt[p] = "transcript" /\ chatQueue # <<>> /\ Head(chatQueue) = p
  BY RequestKinds, NextAnswered DEF ReadTranscript
<1>3. MayBeAt(p, "embed") /\ "embed" \notin ChatWaits
  BY RequestKinds DEF MayBeAt, PostPlaces, ChatTurn, ChatWaits
<1>4. ChatPlaced' /\ MovedOn(p, "embed")
  BY <1>1, <1>2, <1>3, Awaited DEF ChatInductive
<1>5. Onward(p, "embed")
  BY <1>2 DEF Onward, ChatTurn, Answering, Answering2
<1>6. chatResume' \subseteq ChatSessions
  BY DEF ReadTranscript, ChatKeep, ChatInductive, ChatKept
<1>7. QED
  BY <1>4, <1>5, <1>6, QuietTurn DEF ReadTranscript, ChatKeep

LEMMA EmbedKeeps ==
  ASSUME ChatInductive, NEW p \in ChatPosts, Embed(p) PROVE ChatInductive'
<1>1. chatAt[p] = "embed" /\ "embed" \notin ChatWaits
  BY DEF Embed, ChatWaits
<1>2. CASE Issue(p, "index") /\ UNCHANGED chatRunning
  <2>1. MayBeAt(p, "index") /\ "index" \in ChatWaits
    BY RequestKinds DEF MayBeAt, PostPlaces, ChatTurn, ChatWaits
  <2>2. ChatPlaced' /\ MovedOn(p, "index")
    BY <1>1, <1>2, <2>1, Issued DEF ChatInductive
  <2>3. Onward(p, "index")
    BY <1>1 DEF Onward, ChatTurn, Answering, Answering2
  <2>4. chatResume' \subseteq ChatSessions
    BY DEF Embed, ChatKeep, ChatInductive, ChatKept
  <2>5. QED
    BY <1>2, <2>2, <2>3, <2>4, QuietTurn DEF Embed, ChatKeep
<1>3. CASE /\ chatAt' = [chatAt EXCEPT ![p] = "done"]
           /\ chatRunning' = chatRunning \ {ChatSessionOf[p]} /\ UNCHANGED chatQueue
  <2>1. MayBeAt(p, "done") /\ "done" \notin ChatWaits
    BY RequestKinds DEF MayBeAt, PostPlaces, ChatWaits
  <2>2. ChatPlaced' /\ MovedOn(p, "done")
    BY <1>1, <1>3, <2>1, WentOn DEF ChatInductive
  <2>3. /\ UNCHANGED <<chatRows, chatIndexed, chatLane, chatResume, chatLog>>
        /\ chatRunning' = chatRunning \ {OnS(p)}
    BY <1>3 DEF Embed, ChatKeep, OnS
  <2>4. QED
    BY <1>1, <2>2, <2>3, EndOfTurn
<1>4. QED
  BY <1>2, <1>3 DEF Embed

LEMMA WriteIndexKeeps ==
  ASSUME ChatInductive, NEW p \in ChatPosts, WriteIndex(p) PROVE ChatInductive'
<1>1. chatAt[p] = "index" /\ chatQueue # <<>> /\ Head(chatQueue) = p
  BY RequestKinds, NextAnswered DEF WriteIndex
<1>2. /\ Await(p, "done") /\ chatRunning' = chatRunning \ {OnS(p)}
      /\ UNCHANGED <<chatRows, chatLane, chatResume, chatLog>>
      /\ UNCHANGED chatIndexed \/ chatIndexed' = chatIndexed \cup {OnS(p)}
  BY DEF WriteIndex, EndTurn, OnS
<1>3. MayBeAt(p, "done") /\ "done" \notin ChatWaits
  BY RequestKinds DEF MayBeAt, PostPlaces, ChatWaits
<1>4. ChatPlaced' /\ MovedOn(p, "done")
  BY <1>1, <1>2, <1>3, Awaited DEF ChatInductive
<1>5. QED
  BY <1>1, <1>2, <1>4, EndOfTurn

LEMMA SaveFailureKeeps ==
  ASSUME ChatInductive, NEW p \in ChatPosts, SaveFailure(p) PROVE ChatInductive'
<1>1. chatAt[p] = "failure" /\ chatQueue # <<>> /\ Head(chatQueue) = p
  BY RequestKinds, NextAnswered DEF SaveFailure
<1>2. /\ Await(p, "done") /\ chatRunning' = chatRunning \ {OnS(p)}
      /\ UNCHANGED <<chatRows, chatLane, chatResume, chatIndexed>>
      /\ Stored(p, "assistant") \/ (OnS(p) \notin chatRows /\ UNCHANGED chatLog)
  BY DEF SaveFailure, EndTurn, ChatKeep, Refused, OnS
<1>3. MayBeAt(p, "done") /\ "done" \notin ChatWaits
  BY RequestKinds DEF MayBeAt, PostPlaces, ChatWaits
<1>4. ChatPlaced' /\ MovedOn(p, "done")
  BY <1>1, <1>2, <1>3, Awaited DEF ChatInductive
<1>5. QED
  BY <1>1, <1>2, <1>4, EndOfTurn

\* The deletion: its rows go after its chunks.
LEMMA QuietDeletion ==
  ASSUME ChatInductive, NEW d \in ChatDeletes, NEW w, ChatPlaced', MovedOn(d, w), w # "rows",
         w = "chunks" => OnS(d) \notin chatRunning,
         UNCHANGED <<chatRunning, chatRows, chatIndexed, chatLog, chatLane, chatResume>>
  PROVE  ChatInductive'
<1>1. d \in ChatRequests /\ d \notin ChatPosts
  BY RequestKinds
<1>2. ChatKept'
  BY DEF ChatInductive, ChatKept, ChatSessions
<1>3. OneTurn'
  BY <1>1, TurnGoesOn DEF ChatInductive
<1>4. DeletionAhead'
  BY DeletionGoesOn DEF ChatInductive
<1>5. RowsBehind'
  BY DeletionLeavesRows DEF ChatInductive
<1>6. LogFollows'
  BY <1>1, LogStays DEF ChatInductive
<1>7. QED
  BY <1>2, <1>3, <1>4, <1>5, <1>6 DEF ChatInductive

LEMMA DeleteSessionKeeps ==
  ASSUME ChatInductive, NEW d \in ChatDeletes, DeleteSession(d) PROVE ChatInductive'
<1>1. Issue(d, "findDel") /\ chatAt[d] = "new"
  BY DEF DeleteSession
<1>2. MayBeAt(d, "findDel") /\ "findDel" \in ChatWaits /\ "new" \notin ChatWaits
  BY RequestKinds DEF MayBeAt, DeletePlaces, ChatWaits
<1>3. ChatPlaced' /\ MovedOn(d, "findDel")
  BY <1>1, <1>2, Issued DEF ChatInductive
<1>4. QED
  BY <1>3, QuietDeletion DEF DeleteSession, ChatKeep

LEMMA DeleteFoundKeeps ==
  ASSUME ChatInductive, NEW d \in ChatDeletes, DeleteFound(d) PROVE ChatInductive'
<1>1. chatAt[d] = "findDel" /\ chatQueue # <<>> /\ Head(chatQueue) = d
  BY RequestKinds, NextAnswered DEF DeleteFound
<1>2. \/ \E w \in {"gone", "busy"} : Await(d, w)
      \/ OnS(d) \notin chatRunning /\ Reissue(d, "chunks")
  BY DEF DeleteFound, OnS
<1>3. UNCHANGED <<chatRunning, chatRows, chatIndexed, chatLog, chatLane, chatResume>>
  BY DEF DeleteFound, ChatKeep
<1>4. ASSUME NEW w \in {"gone", "busy"}, Await(d, w) PROVE ChatInductive'
  <2>1. MayBeAt(d, w) /\ w \notin ChatWaits
    BY RequestKinds DEF MayBeAt, DeletePlaces, ChatWaits
  <2>2. ChatPlaced' /\ MovedOn(d, w)
    BY <1>1, <1>4, <2>1, Awaited DEF ChatInductive
  <2>3. QED
    BY <1>3, <2>2, QuietDeletion
<1>5. CASE OnS(d) \notin chatRunning /\ Reissue(d, "chunks")
  <2>1. MayBeAt(d, "chunks") /\ "chunks" \in ChatWaits
    BY RequestKinds DEF MayBeAt, DeletePlaces, ChatWaits
  <2>2. ChatPlaced' /\ MovedOn(d, "chunks")
    BY <1>1, <1>5, <2>1, Reissued DEF ChatInductive
  <2>3. QED
    BY <1>3, <1>5, <2>2, QuietDeletion
<1>6. QED
  BY <1>2, <1>4, <1>5

LEMMA DeleteChunksKeeps ==
  ASSUME ChatInductive, NEW d \in ChatDeletes, DeleteChunks(d) PROVE ChatInductive'
<1>1. chatAt[d] = "chunks" /\ chatQueue # <<>> /\ Head(chatQueue) = d
  BY RequestKinds, NextAnswered DEF DeleteChunks
<1>2. UNCHANGED <<chatRunning, chatRows, chatLog, chatLane, chatResume>>
  BY DEF DeleteChunks
<1>3. CASE UNCHANGED chatIndexed /\ Await(d, "done")
  <2>1. MayBeAt(d, "done") /\ "done" \notin ChatWaits
    BY RequestKinds DEF MayBeAt, DeletePlaces, ChatWaits
  <2>2. ChatPlaced' /\ MovedOn(d, "done")
    BY <1>1, <1>3, <2>1, Awaited DEF ChatInductive
  <2>3. QED
    BY <1>2, <1>3, <2>2, QuietDeletion
<1>4. CASE chatIndexed' = chatIndexed \ {OnS(d)} /\ Reissue(d, "rows")
  <2>1. MayBeAt(d, "rows") /\ "rows" \in ChatWaits /\ d \in ChatRequests /\ d \notin ChatPosts
    BY RequestKinds DEF MayBeAt, DeletePlaces, ChatWaits
  <2>2. ChatPlaced' /\ MovedOn(d, "rows")
    BY <1>1, <1>4, <2>1, Reissued DEF ChatInductive
  <2>3. ChatKept'
    BY <1>2, <1>4 DEF ChatInductive, ChatKept, ChatSessions
  <2>4. OneTurn'
    BY <1>2, <2>1, <2>2, TurnGoesOn DEF ChatInductive
  <2>5. DeletionAhead'
    BY <1>1, <2>2, DeletionGoesOn DEF ChatInductive
  <2>6. RowsBehind'
    BY <1>2, <1>4, <2>2, DeletionTakesChunks DEF ChatInductive
  <2>7. LogFollows'
    BY <1>2, <2>1, <2>2, LogStays DEF ChatInductive
  <2>8. QED
    BY <2>2, <2>3, <2>4, <2>5, <2>6, <2>7 DEF ChatInductive
<1>5. QED
  BY <1>3, <1>4 DEF DeleteChunks, OnS

LEMMA DeleteRowsKeeps ==
  ASSUME ChatInductive, NEW d \in ChatDeletes, DeleteRows(d) PROVE ChatInductive'
<1>1. chatAt[d] = "rows" /\ chatQueue # <<>> /\ Head(chatQueue) = d
  BY RequestKinds, NextAnswered DEF DeleteRows
<1>2. Await(d, "done") /\ UNCHANGED <<chatRunning, chatIndexed, chatLane>>
  BY DEF DeleteRows
<1>3. MayBeAt(d, "done") /\ "done" \notin ChatWaits /\ d \in ChatRequests /\ d \notin ChatPosts
  BY RequestKinds DEF MayBeAt, DeletePlaces, ChatWaits
<1>4. ChatPlaced' /\ MovedOn(d, "done")
  BY <1>1, <1>2, <1>3, Awaited DEF ChatInductive
<1>5. CASE UNCHANGED <<chatRows, chatLog, chatResume>>
  BY <1>2, <1>4, <1>5, QuietDeletion
<1>6. CASE /\ chatRows' = chatRows \ {OnS(d)}
           /\ chatLog' = [chatLog EXCEPT ![OnS(d)] = <<>>]
           /\ chatResume' = chatResume \ {OnS(d)}
  <2>1. ChatKept'
    <3>1. <<>> \in Seq({"user", "assistant"} \X ChatPosts)
      OBVIOUS
    <3>2. chatLog' \in [ChatSessions -> Seq({"user", "assistant"} \X ChatPosts)]
      BY <3>1, <1>6 DEF ChatInductive, ChatKept
    <3>3. QED
      BY <3>2, <1>2, <1>6 DEF ChatInductive, ChatKept, ChatSessions
  <2>2. OneTurn'
    BY <1>2, <1>3, <1>4, TurnGoesOn DEF ChatInductive
  <2>3. DeletionAhead'
    BY <1>4, DeletionGoesOn DEF ChatInductive
  <2>4. RowsBehind'
    BY <1>1, <1>2, <1>4, <1>6, DeletionTakesRows DEF ChatInductive
  <2>5. LogFollows'
    BY <1>1, <1>4, <1>6, LogGoes DEF ChatInductive
  <2>6. QED
    BY <1>4, <2>1, <2>2, <2>3, <2>4, <2>5 DEF ChatInductive
<1>7. QED
  BY <1>5, <1>6 DEF DeleteRows, OnS

\* Nothing is under way and nothing was said at first.
LEMMA ChatStarts == ChatInit => ChatInductive
<1> SUFFICES ASSUME ChatInit PROVE ChatInductive
  OBVIOUS
<1>1. /\ chatAt = [r \in ChatRequests |-> "new"] /\ chatQueue = <<>> /\ chatRunning = {}
      /\ chatLog = [s \in ChatSessions |-> <<>>] /\ chatIndexed = {} /\ chatResume = {}
      /\ chatRows = ChatSessions /\ chatLane = [p \in ChatPosts |-> "none"]
  BY DEF ChatInit, ChatRequests
<1>2. "new" \notin ChatTurn \cup ChatWaits \cup Answering \cup Answering2 \cup {"failure"}
  BY DEF ChatTurn, ChatWaits, Answering, Answering2
<1>3. \A p \in ChatPosts : chatAt[p] = "new"
  BY <1>1, RequestKinds
<1>4. ChatPlaced
  <2>1. chatQueue \in Seq(ChatRequests) /\ Len(chatQueue) = 0
    BY <1>1
  <2>2. \A r \in ChatRequests : chatAt[r] \in ChatWaits <=> Queued(r)
    BY <1>1, <1>2, <2>1 DEF Queued
  <2>3. QED
    BY <1>1, <2>1, <2>2, RequestKinds DEF ChatPlaced, PostPlaces, DeletePlaces
<1>5. ChatKept
  <2>1. <<>> \in Seq({"user", "assistant"} \X ChatPosts)
    OBVIOUS
  <2>2. QED
    BY <1>1, <2>1 DEF ChatKept, ChatLanes
<1>6. OneTurn /\ DeletionAhead
  BY <1>1, <1>2, <1>3 DEF OneTurn, DeletionAhead
<1>7. RowsBehind
  BY <1>1, <1>2, <1>3 DEF RowsBehind
<1>8. LogFollows
  BY <1>1, <1>2, <1>3 DEF LogFollows, Follows
<1>9. QED
  BY <1>4, <1>5, <1>6, <1>7, <1>8 DEF ChatInductive

LEMMA ChatSteps == ChatInductive /\ [ChatNext]_chatVars => ChatInductive'
<1> SUFFICES ASSUME ChatInductive, [ChatNext]_chatVars PROVE ChatInductive'
  OBVIOUS
<1>1. ASSUME NEW p \in ChatPosts, PostMessage(p) \/ PostBody(p) \/ ChatStep(p) \/ AskAgent(p)
      PROVE  ChatInductive'
  BY <1>1, PostMessageKeeps, PostFoundKeeps, PostBodyKeeps, LoadSessionKeeps, SaveUserKeeps,
     SaveHandoffKeeps, PrepareKeeps, AskAgentKeeps, SaveRuntimeKeeps, SaveReplyKeeps,
     ReadTranscriptKeeps, EmbedKeeps, WriteIndexKeeps, SaveFailureKeeps DEF ChatStep
<1>2. ASSUME NEW d \in ChatDeletes, DeleteSession(d) \/ DeleteStep(d) PROVE ChatInductive'
  BY <1>2, DeleteSessionKeeps, DeleteFoundKeeps, DeleteChunksKeeps, DeleteRowsKeeps
     DEF DeleteStep
<1>3. CASE UNCHANGED chatVars
  <2>1. ChatPlaced' /\ ChatKept'
    BY <1>3 DEF chatVars, ChatInductive, ChatPlaced, ChatKept, Queued, ChatSessions
  <2>2. OneTurn' /\ DeletionAhead' /\ RowsBehind'
    BY <1>3 DEF chatVars, ChatInductive, OneTurn, DeletionAhead, RowsBehind, Ahead, OnS
  <2>3. LogFollows'
    <3>1. UNCHANGED <<chatAt, chatRows, chatLog>>
      BY <1>3 DEF chatVars
    <3>2. \A p \in ChatPosts : Asked(p)' <=> Asked(p)
      BY <3>1 DEF Asked, OnS
    <3>3. ASSUME NEW s \in ChatSessions PROVE Follows(s, chatLog[s])'
      BY <3>1 DEF ChatInductive, LogFollows, Follows, OnS
    <3>4. QED
      BY <3>1, <3>2, <3>3 DEF ChatInductive, LogFollows, OnS
  <2>4. QED
    BY <2>1, <2>2, <2>3 DEF ChatInductive
<1>4. QED
  BY <1>1, <1>2, <1>3 DEF ChatNext

LEMMA ChatIsEnough == ChatInductive => ChatInv
<1> SUFFICES ASSUME ChatInductive PROVE ChatInv
  OBVIOUS
<1>1. ASSUME NEW s \in ChatSessions
      PROVE  /\ chatLog[s] \in Seq({"user", "assistant"} \X ChatPosts)
             /\ DOMAIN chatLog[s] = 1..Len(chatLog[s])
             /\ \A i \in DOMAIN chatLog[s] : chatLog[s][i] \in {"user", "assistant"} \X ChatPosts
  BY DEF ChatInductive, ChatKept
<1>2. DOMAIN chatQueue = 1..Len(chatQueue) /\ DOMAIN chatAt = ChatRequests
  BY DEF ChatInductive, ChatPlaced
<1>3. ChatTypeOK
  <2>1. chatAt \in [ChatPosts \cup ChatDeletes ->
                      ChatTurn \cup ChatWaits \cup {"new", "body", "done", "gone", "busy"}]
    BY DEF ChatInductive, ChatPlaced, ChatRequests, PostPlaces, DeletePlaces, ChatWaits
  <2>2. \A r \in DOMAIN chatAt : chatAt[r] \in ChatWaits <=> \E i \in DOMAIN chatQueue : chatQueue[i] = r
    BY <1>2 DEF ChatInductive, ChatPlaced, Queued
  <2>3. QED
    BY <1>1, <2>1, <2>2 DEF ChatTypeOK, ChatInductive, ChatKept
<1>4. NoOrphan
  BY DEF NoOrphan, ChatInductive, RowsBehind
<1>5. ASSUME NEW s \in ChatSessions, NEW i \in DOMAIN chatLog[s], NEW p, p = chatLog[s][i][2]
      PROVE  IF chatLog[s][i][1] = "user"
             THEN /\ i < Len(chatLog[s]) => chatLog[s][i + 1] = <<"assistant", p>>
                  /\ i = Len(chatLog[s]) => s \in chatRunning /\ chatAt[p] # "done"
             ELSE i > 1 => chatLog[s][i - 1][2] = p
  <2>1. /\ p \in ChatPosts /\ i \in 1..Len(chatLog[s])
        /\ chatLog[s][i] = <<"user", p>> \/ chatLog[s][i] = <<"assistant", p>>
        /\ chatLog[s][i] = <<"assistant", p>> => chatLog[s][i][1] # "user"
        /\ chatLog[s][i] = <<"user", p>> => chatLog[s][i][1] = "user"
    BY <1>1, <1>5
  <2>2. Follows(s, chatLog[s])
    BY DEF ChatInductive, LogFollows
  <2>3. \A q \in ChatPosts : chatAt[q] \in Answering \cup {"failure"} =>
          OnS(q) \in chatRunning /\ chatAt[q] # "done"
    BY DEF ChatInductive, OneTurn, Answering, ChatTurn
  <2>4. QED
    BY <2>1, <2>2, <2>3 DEF Follows
<1>6. TurnsAnswered
  BY <1>5 DEF TurnsAnswered
<1>7. QED
  BY <1>3, <1>4, <1>6 DEF ChatInv

\* Whatever turns and deletions do to each other, no transcript outlives its session in the index, and
\* every stored message of a turn that is over has its answer directly behind it.
THEOREM ChatHolds == ChatSpec => []ChatInv
<1>1. ChatInit => ChatInductive
  BY ChatStarts
<1>2. ChatInductive /\ [ChatNext]_chatVars => ChatInductive'
  BY ChatSteps
<1>3. ChatInductive => ChatInv
  BY ChatIsEnough
<1>4. QED
  BY <1>1, <1>2, <1>3, PTL DEF ChatSpec

-----------------------------------------------------------------------------
(* The tools of a turn (ChatTools) *)

ToolsSpec == ToolsInit /\ [][ToolsNext]_toolsVars

\* The calls that one-shot allowances of a key let through.
LetThrough(k) == {c \in ToolCalls \ McpCalls : permit[c] = "once" /\ OnceKey(c) = k}
Left(k) == IF once[k] = "live" THEN 1 ELSE 0

\* An allowance is used, left, or gone.
OnceCounted ==
  \A k \in OnceKeys :
    IsFiniteSet(LetThrough(k)) /\ Cardinality(LetThrough(k)) + Left(k) <= given[k]

\* Who has not been answered has no permit, and what was read was allowed some time.
PermitsHonest ==
  /\ \A c \in ToolCalls : callNow[c] \in {"new", "ask"} => permit[c] = "none"
  /\ \A c \in ToolCalls : callNow[c] = "ask" => ToolOrigin[c] # "none"
  /\ \A c \in McpCalls : permit[c] # "once"
  /\ \A c \in ToolCalls : permit[c] = "standing" => ToolOrigin[c] \in everAllowed
  /\ browserGrants \subseteq everAllowed
  /\ \A a \in DOMAIN AlwaysAllow : allowAt[a].read \subseteq everAllowed

Recorded ==
  /\ CallsShown
  /\ \A c \in McpCalls : ledger[c] # "none" => callNow[c] = "over"

\* The clicks that were made have a state each.
AllowsTyped == DOMAIN allowAt = DOMAIN AlwaysAllow

ToolsInductive == ToolsTypeOK /\ OnceCounted /\ PermitsHonest /\ Recorded

\* The call of a key is one of those it counts.
LEMMA KeyOfCall ==
  \A c \in ToolCalls \ McpCalls : ToolOrigin[c] # "none" => OnceKey(c) \in OnceKeys
BY DEF OnceKeys

LEMMA OneMoreThrough ==
  ASSUME ToolsTypeOK, OnceCounted, NEW c \in ToolCalls \ McpCalls, permit[c] = "none",
         once[OnceKey(c)] = "live", OnceKey(c) \in OnceKeys,
         permit' = [permit EXCEPT ![c] = "once"], once' = [once EXCEPT ![OnceKey(c)] = "none"],
         UNCHANGED given
  PROVE  OnceCounted'
<1> SUFFICES ASSUME NEW k \in OnceKeys
             PROVE  /\ IsFiniteSet(LetThrough(k)')
                    /\ Cardinality(LetThrough(k)') + Left(k)' <= given'[k]
  BY DEF OnceCounted
<1>1. /\ permit \in [ToolCalls -> {"none", "standing", "once"}]
      /\ once \in [OnceKeys -> {"none", "live", "expired"}]
      /\ given[k] \in Nat
  <2>1. 0..OnceClicks \subseteq Nat
    BY ToolsAssumption DEF ToolsAssumption
  <2>2. QED
    BY <2>1 DEF ToolsTypeOK
<1>2. IsFiniteSet(LetThrough(k)) /\ Cardinality(LetThrough(k)) + Left(k) <= given[k]
  BY DEF OnceCounted
<1>3. Cardinality(LetThrough(k)) \in Nat
  BY <1>2, FS_CardinalityType
<1>4. CASE k = OnceKey(c)
  <2>1. LetThrough(k)' = LetThrough(k) \cup {c} /\ c \notin LetThrough(k)
    BY <1>1, <1>4 DEF LetThrough, OnceKey
  <2>2. /\ IsFiniteSet(LetThrough(k)')
        /\ Cardinality(LetThrough(k)') = Cardinality(LetThrough(k)) + 1
    BY <2>1, <1>2, FS_AddElement
  <2>3. Left(k) = 1 /\ Left(k)' = 0
    BY <1>1, <1>4 DEF Left
  <2>4. QED
    BY <2>2, <2>3, <1>1, <1>2, <1>3
<1>5. CASE k # OnceKey(c)
  <2>1. LetThrough(k)' = LetThrough(k)
    BY <1>1, <1>5 DEF LetThrough, OnceKey
  <2>2. Left(k)' = Left(k)
    BY <1>1, <1>5 DEF Left
  <2>3. QED
    BY <2>1, <2>2, <1>2
<1>6. QED
  BY <1>4, <1>5

\* Allowances that lapse, and calls let through otherwise, are not counted.
LEMMA NoMoreThrough ==
  ASSUME ToolsTypeOK, OnceCounted, UNCHANGED given,
         \A k \in OnceKeys : LetThrough(k)' = LetThrough(k),
         \A k \in OnceKeys : once'[k] = "live" => once[k] = "live"
  PROVE  OnceCounted'
<1> SUFFICES ASSUME NEW k \in OnceKeys
             PROVE  /\ IsFiniteSet(LetThrough(k)')
                    /\ Cardinality(LetThrough(k)') + Left(k)' <= given'[k]
  BY DEF OnceCounted
<1>1. /\ IsFiniteSet(LetThrough(k)) /\ Cardinality(LetThrough(k)) + Left(k) <= given[k]
      /\ LetThrough(k)' = LetThrough(k)
  BY DEF OnceCounted
<1>2. Cardinality(LetThrough(k)) \in Nat
  BY <1>1, FS_CardinalityType
<1>3. given[k] \in Nat /\ given'[k] = given[k]
  <2>1. 0..OnceClicks \subseteq Nat
    BY ToolsAssumption DEF ToolsAssumption
  <2>2. QED
    BY <2>1 DEF ToolsTypeOK
<1>4. Left(k)' \in {0, 1} /\ Left(k) \in {0, 1} /\ (Left(k)' = 1 => Left(k) = 1)
  BY DEF Left
<1>5. QED
  BY <1>1, <1>2, <1>3, <1>4

LEMMA CallBrowserKeeps ==
  ASSUME ToolsInductive, NEW c \in ToolCalls, CallBrowser(c) PROVE ToolsInductive'
<1>1. callNow[c] = "new" /\ UNCHANGED <<permit, theGrants, once, given, theLedger>>
  BY DEF CallBrowser
<1>2. PICK w \in {"sent", "ask", "over"} :
        callNow' = [callNow EXCEPT ![c] = w] /\ (w = "ask" => ToolOrigin[c] # "none")
  BY DEF CallBrowser
<1>3. ToolsTypeOK'
  BY <1>1, <1>2 DEF ToolsInductive, ToolsTypeOK, theGrants, theLedger
<1>4. OnceCounted'
  BY <1>1, NoMoreThrough DEF ToolsInductive, LetThrough
<1>5. PermitsHonest'
  BY <1>1, <1>2 DEF ToolsInductive, ToolsTypeOK, PermitsHonest, theGrants
<1>6. Recorded'
  BY <1>1, <1>2 DEF ToolsInductive, ToolsTypeOK, Recorded, CallsShown, theLedger
<1>7. QED
  BY <1>3, <1>4, <1>5, <1>6 DEF ToolsInductive

LEMMA HasActGrantKeeps ==
  ASSUME ToolsInductive, NEW c \in ToolCalls, HasActGrant(c) PROVE ToolsInductive'
<1>1. /\ callNow[c] = "ask" /\ UNCHANGED <<theGrants, given, theLedger>>
      /\ permit[c] = "none" /\ ToolOrigin[c] # "none"
      /\ c \notin McpCalls => OnceKey(c) \in OnceKeys
  BY KeyOfCall DEF HasActGrant, ToolsInductive, PermitsHonest
<1>2. PICK w \in {"sent", "refused"} : callNow' = [callNow EXCEPT ![c] = w]
  BY DEF HasActGrant
<1>3. PICK y \in {"none", "standing", "once"} :
        /\ permit' = [permit EXCEPT ![c] = y]
        /\ y = "standing" => Standing(c)
        /\ y = "once" => /\ c \notin McpCalls /\ once[OnceKey(c)] = "live"
                         /\ once' = [once EXCEPT ![OnceKey(c)] = "none"]
        /\ once' = once \/ (c \notin McpCalls /\ once' = [once EXCEPT ![OnceKey(c)] = "none"])
  <2>1. CASE Standing(c) /\ permit' = [permit EXCEPT ![c] = "standing"] /\ UNCHANGED once
    BY <2>1
  <2>2. CASE /\ c \notin McpCalls /\ once[OnceKey(c)] = "live"
             /\ permit' = [permit EXCEPT ![c] = "once"] /\ takeOnce(c)
    BY <2>2 DEF takeOnce
  <2>3. CASE /\ UNCHANGED permit
             /\ IF c \in McpCalls THEN UNCHANGED once ELSE takeOnce(c)
    <3>1. permit' = [permit EXCEPT ![c] = "none"]
      BY <2>3, <1>1 DEF ToolsInductive, ToolsTypeOK
    <3>2. QED
      BY <3>1, <2>3 DEF takeOnce
  <2>4. QED
    BY <2>1, <2>2, <2>3 DEF HasActGrant
<1>4. ToolsTypeOK'
  BY <1>1, <1>2, <1>3 DEF ToolsInductive, ToolsTypeOK, theGrants, theLedger
<1>5. OnceCounted'
  <2>1. CASE y = "once"
    BY <2>1, <1>1, <1>3, OneMoreThrough DEF ToolsInductive
  <2>2. CASE y # "once"
    <3>1. \A k \in OnceKeys : LetThrough(k)' = LetThrough(k)
      BY <2>2, <1>1, <1>3 DEF LetThrough, OnceKey, ToolsInductive, ToolsTypeOK
    <3>2. \A k \in OnceKeys : once'[k] = "live" => once[k] = "live"
      BY <1>3 DEF ToolsInductive, ToolsTypeOK
    <3>3. QED
      BY <1>1, <3>1, <3>2, NoMoreThrough DEF ToolsInductive
  <2>3. QED
    BY <2>1, <2>2
<1>6. PermitsHonest'
  <2>1. browserGrants' = browserGrants /\ allowAt' = allowAt /\ everAllowed' = everAllowed
    BY <1>1 DEF theGrants
  <2>2. y = "standing" => ToolOrigin[c] \in everAllowed
    BY <1>3 DEF Standing, ToolsInductive, PermitsHonest
  <2>3. QED
    BY <1>1, <1>2, <1>3, <2>1, <2>2 DEF ToolsInductive, ToolsTypeOK, PermitsHonest
<1>7. Recorded'
  BY <1>1, <1>2 DEF ToolsInductive, ToolsTypeOK, Recorded, CallsShown, theLedger
<1>8. QED
  BY <1>4, <1>5, <1>6, <1>7 DEF ToolsInductive

\* The last of the turns that run is one of them.
LEMMA NewestRuns ==
  ASSUME ToolsTypeOK, runningCli # <<>>
  PROVE  Last(runningCli) \in ToSet(runningCli) /\ Last(runningCli) \in ToolSessions
<1>1. runningCli \in Seq(ToolSessions) /\ Len(runningCli) \in DOMAIN runningCli
  BY DEF ToolsTypeOK
<1>2. QED
  BY <1>1 DEF Last, ToSet

LEMMA EndCallKeeps ==
  ASSUME ToolsInductive, NEW c \in ToolCalls, EndCall(c) PROVE ToolsInductive'
<1>1. /\ callNow[c] \in {"sent", "refused"} /\ callNow' = [callNow EXCEPT ![c] = "over"]
      /\ UNCHANGED <<permit, theGrants, once, given, runningCli, aged, shown, threw>>
  BY DEF EndCall
<1>2. c \notin McpCalls => ledger' = ledger
  BY DEF EndCall
<1>3. c \in McpCalls => \E s \in ToolSessions \cup {"unstamped"} :
        ledger' = [ledger EXCEPT ![c] = s] /\ (s # "unstamped" => s \in ToSet(runningCli))
  BY NewestRuns DEF EndCall, ToolsInductive
<1>4. ToolsTypeOK'
  BY <1>1, <1>2, <1>3 DEF ToolsInductive, ToolsTypeOK, theGrants
<1>5. OnceCounted'
  BY <1>1, NoMoreThrough DEF ToolsInductive, LetThrough
<1>6. PermitsHonest'
  BY <1>1 DEF ToolsInductive, ToolsTypeOK, PermitsHonest, theGrants
<1>7. Recorded'
  BY <1>1, <1>2, <1>3, ToolsAssumption
     DEF ToolsInductive, ToolsTypeOK, Recorded, CallsShown, ToolsAssumption
<1>8. QED
  BY <1>4, <1>5, <1>6, <1>7 DEF ToolsInductive

LEMMA AllowOnceKeeps ==
  ASSUME ToolsInductive, NEW k \in OnceKeys, AllowOnce(k) PROVE ToolsInductive'
<1>1. /\ given[k] < OnceClicks /\ once' = [once EXCEPT ![k] = "live"]
      /\ given' = [given EXCEPT ![k] = given[k] + 1]
      /\ UNCHANGED <<callNow, permit, theGrants, theLedger>>
  BY DEF AllowOnce
<1>2. \A x \in OnceKeys : given[x] \in Nat /\ given[x] \in 0..OnceClicks
  <2>1. 0..OnceClicks \subseteq Nat
    BY ToolsAssumption DEF ToolsAssumption
  <2>2. QED
    BY <2>1 DEF ToolsInductive, ToolsTypeOK
<1>3. given[k] + 1 \in 0..OnceClicks
  BY <1>1, <1>2, ToolsAssumption DEF ToolsAssumption
<1>4. ToolsTypeOK'
  BY <1>1, <1>3 DEF ToolsInductive, ToolsTypeOK, theGrants, theLedger
<1>5. OnceCounted'
  <2> SUFFICES ASSUME NEW x \in OnceKeys
               PROVE  /\ IsFiniteSet(LetThrough(x)')
                      /\ Cardinality(LetThrough(x)') + Left(x)' <= given'[x]
    BY DEF OnceCounted
  <2>1. /\ LetThrough(x)' = LetThrough(x) /\ IsFiniteSet(LetThrough(x))
        /\ Cardinality(LetThrough(x)) + Left(x) <= given[x]
    BY <1>1 DEF LetThrough, ToolsInductive, OnceCounted
  <2>2. Cardinality(LetThrough(x)) \in Nat
    BY <2>1, FS_CardinalityType
  <2>3. CASE x = k
    <3>1. Left(x)' \in {0, 1} /\ Left(x) \in {0, 1}
      BY DEF Left
    <3>2. given'[x] = given[x] + 1
      BY <2>3, <1>1 DEF ToolsInductive, ToolsTypeOK
    <3>3. QED
      BY <3>1, <3>2, <2>1, <2>2, <1>2
  <2>4. CASE x # k
    <3>1. Left(x)' = Left(x)
      BY <2>4, <1>1 DEF Left, ToolsInductive, ToolsTypeOK
    <3>2. given'[x] = given[x]
      BY <2>4, <1>1 DEF ToolsInductive, ToolsTypeOK
    <3>3. QED
      BY <3>1, <3>2, <2>1
  <2>5. QED
    BY <2>3, <2>4
<1>6. PermitsHonest'
  BY <1>1 DEF ToolsInductive, PermitsHonest, theGrants
<1>7. Recorded'
  BY <1>1 DEF ToolsInductive, Recorded, CallsShown, theLedger
<1>8. QED
  BY <1>4, <1>5, <1>6, <1>7 DEF ToolsInductive

LEMMA OnceExpiresKeeps ==
  ASSUME ToolsInductive, NEW k \in OnceKeys, OnceExpires(k) PROVE ToolsInductive'
<1>1. /\ once' = [once EXCEPT ![k] = "expired"]
      /\ UNCHANGED <<callNow, permit, theGrants, given, theLedger>>
  BY DEF OnceExpires
<1>2. ToolsTypeOK'
  BY <1>1 DEF ToolsInductive, ToolsTypeOK, theGrants, theLedger
<1>3. OnceCounted'
  <2>1. \A x \in OnceKeys : LetThrough(x)' = LetThrough(x) /\ (once'[x] = "live" => once[x] = "live")
    BY <1>1 DEF LetThrough, ToolsInductive, ToolsTypeOK
  <2>2. QED
    BY <2>1, <1>1, NoMoreThrough DEF ToolsInductive
<1>4. PermitsHonest' /\ Recorded'
  BY <1>1 DEF ToolsInductive, PermitsHonest, Recorded, CallsShown, theGrants, theLedger
<1>5. QED
  BY <1>2, <1>3, <1>4 DEF ToolsInductive

\* The stored list of grants: read, written, revoked.
LEMMA GrantsKeep ==
  ASSUME ToolsInductive, UNCHANGED <<callNow, permit, once, given, theLedger>>,
         browserGrants' \subseteq everAllowed', everAllowed \subseteq everAllowed',
         everAllowed' \subseteq ActOrigins,
         \A a \in DOMAIN AlwaysAllow :
           /\ allowAt'[a] \in [at : {"new", "write", "done"}, read : SUBSET ActOrigins]
           /\ allowAt'[a].read \subseteq everAllowed'
  PROVE  ToolsInductive'
<1>1. ToolsTypeOK'
  BY DEF ToolsInductive, ToolsTypeOK, theLedger
<1>2. OnceCounted'
  BY NoMoreThrough DEF ToolsInductive, LetThrough
<1>3. PermitsHonest' /\ Recorded'
  BY DEF ToolsInductive, PermitsHonest, Recorded, CallsShown, theLedger
<1>4. QED
  BY <1>1, <1>2, <1>3 DEF ToolsInductive

LEMMA ReadGrantsKeeps ==
  ASSUME ToolsInductive, AllowsTyped, NEW a \in DOMAIN AlwaysAllow, ReadGrants(a)
  PROVE  ToolsInductive' /\ AllowsTyped'
<1>1. /\ allowAt' = [allowAt EXCEPT ![a] = [at |-> "write", read |-> browserGrants]]
      /\ UNCHANGED <<callNow, permit, browserGrants, everAllowed, once, given, theLedger>>
  BY DEF ReadGrants
<1>2. browserGrants \subseteq ActOrigins /\ everAllowed \subseteq ActOrigins
      /\ browserGrants \subseteq everAllowed
  BY DEF ToolsInductive, ToolsTypeOK, PermitsHonest
<1>3. \A b \in DOMAIN AlwaysAllow :
        /\ allowAt'[b] \in [at : {"new", "write", "done"}, read : SUBSET ActOrigins]
        /\ allowAt'[b].read \subseteq everAllowed'
  BY <1>1, <1>2 DEF AllowsTyped, ToolsInductive, ToolsTypeOK, PermitsHonest
<1>4. QED
  BY <1>1, <1>2, <1>3, GrantsKeep DEF AllowsTyped

LEMMA WriteGrantsKeeps ==
  ASSUME ToolsInductive, AllowsTyped, NEW a \in DOMAIN AlwaysAllow, WriteGrants(a)
  PROVE  ToolsInductive' /\ AllowsTyped'
<1>1. /\ allowAt' = [allowAt EXCEPT ![a] = [at |-> "done", read |-> {}]]
      /\ browserGrants' = allowAt[a].read \cup {AlwaysAllow[a]}
      /\ everAllowed' = everAllowed \cup {AlwaysAllow[a]}
      /\ UNCHANGED <<callNow, permit, once, given, theLedger>>
  BY DEF WriteGrants
<1>2. /\ everAllowed \subseteq ActOrigins /\ allowAt[a].read \subseteq everAllowed
      /\ AlwaysAllow[a] \in ActOrigins
  BY DEF ToolsInductive, ToolsTypeOK, PermitsHonest, ActOrigins, Range
<1>3. \A b \in DOMAIN AlwaysAllow :
        /\ allowAt'[b] \in [at : {"new", "write", "done"}, read : SUBSET ActOrigins]
        /\ allowAt'[b].read \subseteq everAllowed'
  BY <1>1, <1>2 DEF AllowsTyped, ToolsInductive, ToolsTypeOK, PermitsHonest
<1>4. QED
  BY <1>1, <1>2, <1>3, GrantsKeep DEF AllowsTyped

LEMMA RevokeGrantKeeps ==
  ASSUME ToolsInductive, NEW o \in ActOrigins, RevokeGrant(o) PROVE ToolsInductive'
<1>1. /\ browserGrants' = browserGrants \ {o}
      /\ UNCHANGED <<callNow, permit, allowAt, everAllowed, once, given, theLedger>>
  BY DEF RevokeGrant
<1>2. QED
  BY <1>1, GrantsKeep DEF ToolsInductive, ToolsTypeOK, PermitsHonest

\* Turns of CLI agents begin and end; nothing they did over MCP stays with a turn that is over.
LEMMA LedgerKeeps ==
  ASSUME ToolsInductive, UNCHANGED <<callNow, permit, theGrants, once, given>>,
         runningCli' \in Seq(ToolSessions), IsInjective(runningCli'),
         ledger' \in [McpCalls -> ToolSessions \cup {"none", "unstamped"}],
         aged' \subseteq McpCalls, threw' \subseteq ToolSessions,
         shown' \in [McpCalls -> ToolSessions \cup {"none"}], Recorded'
  PROVE  ToolsInductive'
<1>1. ToolsTypeOK'
  BY DEF ToolsInductive, ToolsTypeOK, theGrants
<1>2. OnceCounted'
  BY NoMoreThrough DEF ToolsInductive, LetThrough
<1>3. PermitsHonest'
  BY DEF ToolsInductive, PermitsHonest, theGrants
<1>4. QED
  BY <1>1, <1>2, <1>3 DEF ToolsInductive

LEMMA BeginCliTurnKeeps ==
  ASSUME ToolsInductive, NEW s \in ToolSessions, beginCliTurn(s) PROVE ToolsInductive'
<1> DEFINE n == Len(runningCli)
<1>1. /\ s \notin ToSet(runningCli) /\ runningCli' = Append(runningCli, s)
      /\ UNCHANGED <<callNow, permit, theGrants, once, given, ledger, aged, shown, threw>>
  BY DEF beginCliTurn
<1>2. runningCli \in Seq(ToolSessions) /\ IsInjective(runningCli) /\ n \in Nat
      /\ DOMAIN runningCli = 1..n
  BY DEF ToolsInductive, ToolsTypeOK
<1>3. /\ runningCli' \in Seq(ToolSessions) /\ DOMAIN runningCli' = 1..(n + 1)
      /\ \A i \in 1..n : runningCli'[i] = runningCli[i]
      /\ runningCli'[n + 1] = s
  BY <1>1, <1>2
<1>4. \A i \in 1..n : runningCli[i] # s
  BY <1>1, <1>2 DEF ToSet
<1>5. IsInjective(runningCli')
  <2>1. ASSUME NEW i \in 1..(n + 1), NEW j \in 1..(n + 1), runningCli'[i] = runningCli'[j]
        PROVE  i = j
    <3>1. \A m \in 1..(n + 1) : m \in 1..n \/ m = n + 1
      BY <1>2
    <3>2. QED
      BY <2>1, <3>1, <1>2, <1>3, <1>4 DEF IsInjective
  <2>2. QED
    BY <2>1, <1>3 DEF IsInjective
<1>6. ToSet(runningCli) \subseteq ToSet(runningCli')
  BY <1>2, <1>3 DEF ToSet
<1>7. Recorded'
  BY <1>1, <1>6 DEF ToolsInductive, Recorded, CallsShown
<1>8. QED
  BY <1>1, <1>3, <1>5, <1>7, LedgerKeeps DEF ToolsInductive, ToolsTypeOK

\* A splice takes one element out of a sequence.
LEMMA TakenOut ==
  ASSUME NEW S, NEW q \in Seq(S), IsInjective(q), NEW i \in DOMAIN q
  PROVE  /\ RemoveAt(q, i) \in Seq(S) /\ IsInjective(RemoveAt(q, i))
         /\ ToSet(q) \ {q[i]} \subseteq ToSet(RemoveAt(q, i))
<1> DEFINE n == Len(q)
           r == RemoveAt(q, i)
<1>1. n \in Nat /\ DOMAIN q = 1..n /\ i \in 1..n /\ \A j \in 1..n : q[j] \in S
  OBVIOUS
<1>2. /\ SubSeq(q, 1, i - 1) \in Seq(S) /\ Len(SubSeq(q, 1, i - 1)) = i - 1
      /\ \A j \in 1..(i - 1) : SubSeq(q, 1, i - 1)[j] = q[j]
  BY <1>1
<1>3. /\ SubSeq(q, i + 1, n) \in Seq(S) /\ Len(SubSeq(q, i + 1, n)) = n - i
      /\ \A j \in 1..(n - i) : SubSeq(q, i + 1, n)[j] = q[i + j]
  <2>1. i + 1 <= n + 1 /\ i + 1 \in Nat
    BY <1>1
  <2>2. \A j \in (i + 1)..n : q[j] \in S
    BY <1>1
  <2>3. QED
    BY <1>1, <2>1, <2>2, SubSeqProperties
<1>4. /\ r \in Seq(S) /\ Len(r) = n - 1 /\ DOMAIN r = 1..(n - 1)
      /\ \A j \in 1..(n - 1) : r[j] = IF j < i THEN q[j] ELSE q[j + 1]
  <2>1. r = SubSeq(q, 1, i - 1) \o SubSeq(q, i + 1, n)
    BY DEF RemoveAt
  <2>2. r \in Seq(S) /\ Len(r) = (i - 1) + (n - i)
    BY <2>1, <1>2, <1>3
  <2>3. Len(r) = n - 1 /\ DOMAIN r = 1..(n - 1)
    BY <2>2, <1>1
  <2>4. ASSUME NEW j \in 1..(n - 1) PROVE r[j] = IF j < i THEN q[j] ELSE q[j + 1]
    <3>1. CASE j < i
      BY <3>1, <2>1, <1>1, <1>2, <1>3
    <3>2. CASE ~(j < i)
      <4>1. j - (i - 1) \in 1..(n - i) /\ i + (j - (i - 1)) = j + 1
        BY <3>2, <1>1
      <4>2. j \in 1..((i - 1) + (n - i)) /\ j > i - 1
        BY <3>2, <1>1
      <4>3. r[j] = SubSeq(q, i + 1, n)[j - (i - 1)]
        <5> DEFINE a == SubSeq(q, 1, i - 1)
                   b == SubSeq(q, i + 1, n)
        <5>1. /\ a \in Seq(S) /\ b \in Seq(S) /\ r = a \o b
              /\ Len(a) = i - 1 /\ Len(b) = n - i
          BY <2>1, <1>2, <1>3
        <5> HIDE DEF a, b
        <5>2. (a \o b)[j] = IF j <= Len(a) THEN a[j] ELSE b[j - Len(a)]
          BY <4>2, <5>1, ConcatProperties
        <5>3. ~(j <= Len(a))
          BY <4>2, <5>1, <1>1
        <5>4. r[j] = b[j - (i - 1)]
          BY <5>1, <5>2, <5>3
        <5>5. QED
          BY <5>4 DEF b
      <4>4. QED
        BY <3>2, <4>1, <4>3, <1>3
    <3>3. QED
      BY <3>1, <3>2
  <2>5. QED
    BY <2>2, <2>3, <2>4
<1>5. IsInjective(r)
  <2>1. ASSUME NEW a \in 1..(n - 1), NEW b \in 1..(n - 1), r[a] = r[b] PROVE a = b
    <3>1. a \in 1..n /\ b \in 1..n /\ a + 1 \in 1..n /\ b + 1 \in 1..n
      BY <1>1
    <3>2. QED
      BY <2>1, <3>1, <1>1, <1>4 DEF IsInjective
  <2>2. QED
    BY <2>1, <1>4 DEF IsInjective
<1>6. ASSUME NEW x \in ToSet(q) \ {q[i]} PROVE x \in ToSet(r)
  <2>1. PICK j \in 1..n : q[j] = x /\ j # i
    BY <1>1, <1>6 DEF ToSet
  <2>2. \E m \in 1..(n - 1) : r[m] = x
    <3>1. CASE j < i
      <4>1. j \in 1..(n - 1)
        BY <3>1, <1>1
      <4>2. QED
        BY <3>1, <4>1, <2>1, <1>4
    <3>2. CASE ~(j < i)
      <4>1. j - 1 \in 1..(n - 1) /\ ~(j - 1 < i) /\ (j - 1) + 1 = j
        BY <3>2, <2>1, <1>1
      <4>2. QED
        BY <4>1, <2>1, <1>4
    <3>3. QED
      BY <3>1, <3>2
  <2>3. QED
    BY <2>2, <1>4 DEF ToSet
<1>7. QED
  BY <1>4, <1>5, <1>6

LEMMA EndCliTurnKeeps ==
  ASSUME ToolsInductive, NEW s \in ToolSessions, endCliTurn(s) PROVE ToolsInductive'
<1>1. UNCHANGED <<callNow, permit, theGrants, once, given, aged>>
  BY DEF endCliTurn
<1>2. PICK i \in DOMAIN runningCli : runningCli[i] = s /\ runningCli' = RemoveAt(runningCli, i)
  BY DEF endCliTurn
<1>3. /\ runningCli' \in Seq(ToolSessions) /\ IsInjective(runningCli')
      /\ ToSet(runningCli) \ {s} \subseteq ToSet(runningCli')
  BY <1>2, TakenOut DEF ToolsInductive, ToolsTypeOK
<1>4. s # "none" /\ s # "unstamped"
  BY ToolsAssumption DEF ToolsAssumption
<1>5. CASE threw' = threw \cup {s} /\ UNCHANGED <<ledger, shown>>
  <2>1. Recorded'
    BY <1>1, <1>3, <1>5 DEF ToolsInductive, Recorded, CallsShown
  <2>2. QED
    BY <1>1, <1>3, <1>5, <2>1, LedgerKeeps DEF ToolsInductive, ToolsTypeOK
<1>6. ASSUME NEW same \in SUBSET {c \in McpCalls \ aged : ledger[c] = "unstamped"},
             ledger' = [c \in McpCalls |-> IF c \in Drained(s, same) \cup aged THEN "none" ELSE ledger[c]],
             shown' = [c \in McpCalls |-> IF c \in Drained(s, same) THEN s ELSE shown[c]],
             threw' = threw \ {s}
      PROVE  ToolsInductive'
  <2>1. \A c \in McpCalls :
          c \in Drained(s, same) => ledger[c] \in {s, "unstamped"}
    BY DEF Drained
  <2>2. \A c \in McpCalls \ aged : ledger[c] = s => c \in Drained(s, same)
    BY DEF Drained
  <2>3. /\ ledger' \in [McpCalls -> ToolSessions \cup {"none", "unstamped"}]
        /\ shown' \in [McpCalls -> ToolSessions \cup {"none"}]
        /\ threw' \subseteq ToolSessions
    BY <1>6 DEF ToolsInductive, ToolsTypeOK
  <2>4. ASSUME NEW c \in McpCalls
        PROVE  /\ ledger'[c] \in ToolSessions /\ c \notin aged' =>
                    ledger'[c] \in ToSet(runningCli') \cup threw'
               /\ shown'[c] # "none" => ledger'[c] = "none" /\ callNow'[c] = "over"
               /\ ledger'[c] # "none" => callNow'[c] = "over"
    <3>1. /\ ledger[c] # "none" => callNow[c] = "over"
          /\ shown[c] # "none" => ledger[c] = "none" /\ callNow[c] = "over"
          /\ ledger[c] \in ToolSessions /\ c \notin aged => ledger[c] \in ToSet(runningCli) \cup threw
      BY DEF ToolsInductive, Recorded, CallsShown
    <3>2. CASE c \in Drained(s, same)
      BY <3>1, <3>2, <2>1, <1>1, <1>4, <1>6, ToolsAssumption DEF ToolsAssumption
    <3>3. CASE c \notin Drained(s, same) /\ c \in aged
      BY <3>1, <3>3, <1>1, <1>6, ToolsAssumption DEF ToolsAssumption
    <3>4. CASE c \notin Drained(s, same) /\ c \notin aged
      BY <3>1, <3>4, <2>2, <1>1, <1>3, <1>6
    <3>5. QED
      BY <3>2, <3>3, <3>4
  <2>5. Recorded'
    BY <2>4 DEF Recorded, CallsShown
  <2>6. QED
    BY <1>1, <1>3, <2>3, <2>5, LedgerKeeps DEF ToolsInductive, ToolsTypeOK
<1>7. QED
  BY <1>5, <1>6 DEF endCliTurn

LEMMA CallAgesKeeps ==
  ASSUME ToolsInductive, NEW c \in McpCalls, CallAges(c) PROVE ToolsInductive'
<1>1. /\ aged' = aged \cup {c}
      /\ UNCHANGED <<callNow, permit, theGrants, once, given, runningCli, ledger, shown, threw>>
  BY DEF CallAges
<1>2. Recorded'
  BY <1>1 DEF ToolsInductive, Recorded, CallsShown
<1>3. QED
  BY <1>1, <1>2, LedgerKeeps DEF ToolsInductive, ToolsTypeOK

LEMMA ToolsStart == ToolsInit => ToolsInductive /\ AllowsTyped
<1> SUFFICES ASSUME ToolsInit PROVE ToolsInductive /\ AllowsTyped
  OBVIOUS
<1>1. ToolsTypeOK /\ AllowsTyped
  <2>1. runningCli \in Seq(ToolSessions) /\ IsInjective(runningCli)
    BY DEF ToolsInit, IsInjective
  <2>2. 0 \in 0..OnceClicks
    BY ToolsAssumption DEF ToolsAssumption
  <2>3. QED
    BY <2>1, <2>2 DEF ToolsInit, ToolsTypeOK, AllowsTyped
<1>2. OnceCounted
  <2>1. ASSUME NEW k \in OnceKeys
        PROVE  IsFiniteSet(LetThrough(k)) /\ Cardinality(LetThrough(k)) + Left(k) <= given[k]
    <3>1. LetThrough(k) = {}
      BY DEF LetThrough, ToolsInit
    <3>2. IsFiniteSet({}) /\ Cardinality({}) = 0
      BY FS_EmptySet
    <3>3. Left(k) = 0 /\ given[k] = 0
      BY DEF Left, ToolsInit
    <3>4. QED
      BY <3>1, <3>2, <3>3
  <2>2. QED
    BY <2>1 DEF OnceCounted
<1>3. PermitsHonest /\ Recorded
  BY ToolsAssumption DEF ToolsInit, PermitsHonest, Recorded, CallsShown, ToolsAssumption
<1>4. QED
  BY <1>1, <1>2, <1>3 DEF ToolsInductive

LEMMA ToolsStep ==
  ToolsInductive /\ AllowsTyped /\ [ToolsNext]_toolsVars => ToolsInductive' /\ AllowsTyped'
<1> SUFFICES ASSUME ToolsInductive, AllowsTyped, [ToolsNext]_toolsVars
             PROVE  ToolsInductive' /\ AllowsTyped'
  OBVIOUS
<1>1. ASSUME NEW c \in ToolCalls, CallBrowser(c) \/ HasActGrant(c) \/ EndCall(c)
      PROVE  ToolsInductive' /\ AllowsTyped'
  BY <1>1, CallBrowserKeeps, HasActGrantKeeps, EndCallKeeps
     DEF AllowsTyped, CallBrowser, HasActGrant, EndCall, theGrants
<1>2. ASSUME NEW k \in OnceKeys, AllowOnce(k) \/ OnceExpires(k)
      PROVE  ToolsInductive' /\ AllowsTyped'
  BY <1>2, AllowOnceKeeps, OnceExpiresKeeps DEF AllowsTyped, AllowOnce, OnceExpires, theGrants
<1>3. ASSUME NEW a \in DOMAIN AlwaysAllow, ReadGrants(a) \/ WriteGrants(a)
      PROVE  ToolsInductive' /\ AllowsTyped'
  BY <1>3, ReadGrantsKeeps, WriteGrantsKeeps
<1>4. ASSUME NEW o \in ActOrigins, RevokeGrant(o) PROVE ToolsInductive' /\ AllowsTyped'
  BY <1>4, RevokeGrantKeeps DEF AllowsTyped, RevokeGrant
<1>5. ASSUME NEW s \in ToolSessions, beginCliTurn(s) \/ endCliTurn(s)
      PROVE  ToolsInductive' /\ AllowsTyped'
  BY <1>5, BeginCliTurnKeeps, EndCliTurnKeeps DEF AllowsTyped, beginCliTurn, endCliTurn, theGrants
<1>6. ASSUME NEW c \in McpCalls, CallAges(c) PROVE ToolsInductive' /\ AllowsTyped'
  BY <1>6, CallAgesKeeps DEF AllowsTyped, CallAges, theGrants
<1>7. CASE UNCHANGED toolsVars
  <2>1. UNCHANGED <<callNow, permit, theGrants, once, given, theLedger, allowAt>>
    BY <1>7 DEF toolsVars, theGrants, theLedger
  <2>2. Recorded'
    BY <1>7 DEF toolsVars, ToolsInductive, Recorded, CallsShown
  <2>3. QED
    BY <1>7, <2>1, <2>2, LedgerKeeps DEF toolsVars, ToolsInductive, ToolsTypeOK, AllowsTyped
<1>8. QED
  BY <1>1, <1>2, <1>3, <1>4, <1>5, <1>6, <1>7 DEF ToolsNext

LEMMA ToolsEnough == ToolsInductive => ToolsInv
<1> SUFFICES ASSUME ToolsInductive PROVE ToolsInv
  OBVIOUS
<1>1. ASSUME NEW k \in OnceKeys PROVE Cardinality(LetThrough(k)) <= given[k]
  <2>1. IsFiniteSet(LetThrough(k)) /\ Cardinality(LetThrough(k)) + Left(k) <= given[k]
    BY DEF ToolsInductive, OnceCounted
  <2>2. Cardinality(LetThrough(k)) \in Nat /\ Left(k) \in {0, 1}
    BY <2>1, FS_CardinalityType DEF Left
  <2>3. given[k] \in Nat
    <3>1. 0..OnceClicks \subseteq Nat
      BY ToolsAssumption DEF ToolsAssumption
    <3>2. QED
      BY <3>1 DEF ToolsInductive, ToolsTypeOK
  <2>4. QED
    BY <2>1, <2>2, <2>3
<1>2. ActsAllowed
  BY <1>1 DEF ActsAllowed, LetThrough, ToolsInductive, PermitsHonest
<1>3. QED
  BY <1>2 DEF ToolsInv, ToolsInductive, Recorded

\* However calls run in parallel and turns begin and end: one-shot allowances let no more acts through
\* than were given, and what a CLI agent did is shown in its own session and is not left behind.
THEOREM ToolsHold == ToolsSpec => []ToolsInv
<1>1. ToolsInductive => ToolsInv
  BY ToolsEnough
<1>2. QED
  BY <1>1, ToolsStart, ToolsStep, PTL DEF ToolsSpec

-----------------------------------------------------------------------------
(* A turn over HTTP (HttpLane) *)

LaneSpec == LaneInit /\ [][LaneNext]_laneVars

\* After the message at i, its replies: all of them when other messages follow, and otherwise as many as
\* calls were looked at.
Replied(i) ==
  LET after == i + dialogue[i] + 1 IN
    /\ after <= Len(dialogue) \/ after = Len(dialogue) + 1 + pendingN
    /\ \A j \in (i + 1)..Len(dialogue) : j < after => dialogue[j] = 0
    /\ after <= Len(dialogue) => dialogue[after] > 0

DialogueSound ==
  /\ dialogue # <<>> => dialogue[1] > 0
  /\ pendingN > 0 => dialogue # <<>>
  /\ \A i \in 1..Len(dialogue) : dialogue[i] > 0 => Replied(i)

LaneSound ==
  /\ laneAt = "run" => pendingN > 0
  /\ laneAt \notin {"tools", "run"} => pendingN = 0 \/ laneAt = "over"
  /\ laneAt # "over" => laneResult = NoResult
  /\ laneAt \notin {"stream", "over"} => written = 0
  /\ laneAt \in {"request", "idle", "tools", "run"} => round < LaneRounds

LaneInductive == LaneTypeOK /\ DialogueSound /\ LaneSound /\ LaneHonest

LEMMA LaneNumbers == LaneRounds \in Nat \ {0} /\ RoundCalls \in Nat \ {0} /\ LaneFrames \in Nat
BY LaneAssumption DEF LaneAssumption

\* What a message adds to the dialogue, and what it leaves.
LEMMA Added ==
  ASSUME LaneTypeOK, NEW n \in 0..RoundCalls, dialogue' = Append(dialogue, n)
  PROVE  /\ dialogue \in Seq(0..RoundCalls) /\ Len(dialogue) \in Nat
         /\ dialogue' \in Seq(0..RoundCalls) /\ Len(dialogue') = Len(dialogue) + 1
         /\ dialogue' # <<>> /\ dialogue'[Len(dialogue) + 1] = n
         /\ \A i \in 1..Len(dialogue) : dialogue'[i] = dialogue[i] /\ dialogue[i] \in Nat
         /\ \A i \in 1..Len(dialogue') : i \in 1..Len(dialogue) \/ i = Len(dialogue) + 1
         /\ dialogue # <<>> => Len(dialogue) > 0
<1>1. dialogue \in Seq(0..RoundCalls) /\ Len(dialogue) \in Nat /\ 0..RoundCalls \subseteq Nat
  BY LaneNumbers DEF LaneTypeOK
<1>2. \A i \in 1..Len(dialogue) : dialogue[i] \in 0..RoundCalls
  BY <1>1, ElementOfSeq
<1>3. /\ dialogue' \in Seq(0..RoundCalls) /\ Len(dialogue') = Len(dialogue) + 1
      /\ dialogue'[Len(dialogue) + 1] = n
      /\ \A i \in 1..Len(dialogue) : dialogue'[i] = dialogue[i]
  BY <1>1
<1>4. dialogue' # <<>> /\ (dialogue # <<>> => Len(dialogue) > 0)
  BY <1>1, <1>3
<1>5. \A i \in 1..Len(dialogue') : i \in 1..Len(dialogue) \/ i = Len(dialogue) + 1
  BY <1>1, <1>3
<1>6. QED
  BY <1>1, <1>2, <1>3, <1>4, <1>5

\* A call that is replied to.
LEMMA ReplySound ==
  ASSUME LaneTypeOK, DialogueSound, pendingN > 0, Reply PROVE DialogueSound'
<1> DEFINE n == Len(dialogue)
<1>0. 0 \in 0..RoundCalls /\ pendingN \in Nat
  BY LaneNumbers DEF LaneTypeOK
<1>1. /\ n \in Nat /\ Len(dialogue') = n + 1 /\ dialogue' # <<>> /\ dialogue'[n + 1] = 0
      /\ \A i \in 1..n : dialogue'[i] = dialogue[i] /\ dialogue[i] \in Nat
      /\ \A i \in 1..Len(dialogue') : i \in 1..n \/ i = n + 1
      /\ dialogue # <<>> /\ n > 0 /\ pendingN' = pendingN - 1
  BY <1>0, Added DEF Reply, DialogueSound
<1>2. dialogue'[1] > 0
  BY <1>1 DEF DialogueSound
<1>3. ASSUME NEW i \in 1..n, dialogue[i] > 0 PROVE Replied(i)'
  <2> DEFINE after == i + dialogue[i] + 1
  <2>1. /\ after <= n \/ after = n + 1 + pendingN
        /\ \A j \in (i + 1)..n : j < after => dialogue[j] = 0
        /\ after <= n => dialogue[after] > 0
    BY <1>3 DEF DialogueSound, Replied
  <2>2. after \in Nat /\ after >= 1 /\ dialogue'[i] = dialogue[i]
    BY <1>1
  <2>3. after <= n + 1 \/ after = (n + 1) + 1 + (pendingN - 1)
    BY <2>1, <2>2, <1>0, <1>1
  <2>4. ASSUME NEW j \in (i + 1)..(n + 1), j < after PROVE dialogue'[j] = 0
    <3>1. CASE j = n + 1
      BY <3>1, <1>1
    <3>2. CASE j # n + 1
      <4>1. j \in (i + 1)..n /\ j \in 1..n
        BY <3>2, <1>1
      <4>2. QED
        BY <4>1, <2>1, <2>4, <1>1
    <3>3. QED
      BY <3>1, <3>2
  <2>5. after <= n + 1 => dialogue'[after] > 0
    <3>1. after # n + 1
      BY <2>1, <2>2, <1>0, <1>1
    <3>2. after <= n + 1 => after \in 1..n
      BY <3>1, <2>2, <1>1
    <3>3. QED
      BY <3>2, <2>1, <1>1
  <2>6. QED
    BY <2>2, <2>3, <2>4, <2>5, <1>1 DEF Replied
<1>4. \A i \in 1..Len(dialogue') : dialogue'[i] > 0 => Replied(i)'
  <2>1. ~(0 > 0)
    OBVIOUS
  <2>2. QED
    BY <2>1, <1>1, <1>3
<1>5. QED
  BY <1>1, <1>2, <1>4 DEF DialogueSound

\* A message that asks for calls.
LEMMA AskSound ==
  ASSUME LaneTypeOK, DialogueSound, pendingN = 0, NEW m \in 1..RoundCalls,
         dialogue' = Append(dialogue, m), pendingN' = m
  PROVE  DialogueSound'
<1> DEFINE n == Len(dialogue)
<1>0. m \in 0..RoundCalls /\ m \in Nat /\ m > 0
  BY LaneNumbers
<1>1. /\ n \in Nat /\ Len(dialogue') = n + 1 /\ dialogue' # <<>> /\ dialogue'[n + 1] = m
      /\ \A i \in 1..n : dialogue'[i] = dialogue[i] /\ dialogue[i] \in Nat
      /\ \A i \in 1..Len(dialogue') : i \in 1..n \/ i = n + 1
      /\ dialogue # <<>> => n > 0
      /\ dialogue = <<>> => n = 0
  BY <1>0, Added
<1>2. dialogue'[1] > 0
  <2>1. CASE dialogue = <<>>
    BY <2>1, <1>0, <1>1
  <2>2. CASE dialogue # <<>>
    <3>1. 1 \in 1..n /\ dialogue[1] > 0
      BY <2>2, <1>1 DEF DialogueSound
    <3>2. QED
      BY <3>1, <1>1
  <2>3. QED
    BY <2>1, <2>2
<1>3. ASSUME NEW i \in 1..n, dialogue[i] > 0 PROVE Replied(i)'
  <2> DEFINE after == i + dialogue[i] + 1
  <2>1. /\ after <= n \/ after = n + 1 + pendingN
        /\ \A j \in (i + 1)..n : j < after => dialogue[j] = 0
        /\ after <= n => dialogue[after] > 0
    BY <1>3 DEF DialogueSound, Replied
  <2>2. after \in Nat /\ after >= 1 /\ dialogue'[i] = dialogue[i]
    BY <1>1
  <2>3. after <= n \/ after = n + 1
    BY <2>1, <1>1
  <2>4. ASSUME NEW j \in (i + 1)..(n + 1), j < after PROVE dialogue'[j] = 0
    <3>1. j \in (i + 1)..n /\ j \in 1..n
      BY <2>3, <2>4, <2>2, <1>1
    <3>2. QED
      BY <3>1, <2>1, <2>4, <1>1
  <2>5. after <= n + 1 => dialogue'[after] > 0
    <3>1. CASE after = n + 1
      BY <3>1, <1>0, <1>1
    <3>2. CASE after <= n
      <4>1. after \in 1..n
        BY <3>2, <2>2, <1>1
      <4>2. QED
        BY <4>1, <3>2, <2>1, <1>1
    <3>3. QED
      BY <3>1, <3>2, <2>3
  <2>6. after <= n + 1
    BY <2>3, <2>2, <1>1
  <2>7. QED
    BY <2>2, <2>4, <2>5, <2>6, <1>1 DEF Replied
<1>4. ASSUME NEW i \in Nat, i = n + 1 PROVE Replied(i)'
  <2>1. i + m + 1 = (n + 1) + 1 + m /\ ~(i + m + 1 <= n + 1)
    BY <1>0, <1>1, <1>4
  <2>2. \A j \in (i + 1)..(n + 1) : FALSE
    BY <1>1, <1>4
  <2>3. dialogue'[i] = m /\ Len(dialogue') = n + 1 /\ pendingN' = m
    BY <1>1, <1>4
  <2>4. QED
    BY <2>1, <2>2, <2>3 DEF Replied
<1>5. ASSUME NEW i \in 1..Len(dialogue'), dialogue'[i] > 0 PROVE Replied(i)'
  <2>1. CASE i \in 1..n
    BY <2>1, <1>1, <1>3, <1>5
  <2>2. CASE i = n + 1
    BY <2>2, <1>1, <1>4
  <2>3. QED
    BY <2>1, <2>2, <1>1
<1>6. QED
  BY <1>1, <1>2, <1>5 DEF DialogueSound

LEMMA DialogueStays ==
  ASSUME DialogueSound, UNCHANGED <<dialogue, pendingN>> PROVE DialogueSound'
BY DEF DialogueSound, Replied

LEMMA LaneSteps == LaneInductive /\ [LaneNext]_laneVars => LaneInductive'
<1> SUFFICES ASSUME LaneInductive, [LaneNext]_laneVars PROVE LaneInductive'
  OBVIOUS
<1>0. /\ LaneTypeOK /\ DialogueSound /\ LaneSound /\ LaneHonest
      /\ pendingN \in Nat /\ round \in Nat /\ written \in Nat
  BY LaneNumbers DEF LaneInductive, LaneTypeOK
<1>1. ASSUME NEW ok \in BOOLEAN, NEW text \in {"error", "model", "placeholder", "partial"},
             LaneEnds(ok, text), UNCHANGED <<round, dialogue, pendingN, written>>,
             sawDone' \in BOOLEAN,
             ok => /\ text \in {"model", "placeholder"}
                   /\ sawDone' \/ (pendingN = 0 /\ round < LaneRounds)
                   /\ text = "placeholder" => written = 0
      PROVE  LaneInductive'
  <2>1. LaneTypeOK' /\ LaneSound'
    BY <1>0, <1>1 DEF LaneTypeOK, LaneSound, LaneEnds
  <2>2. LaneHonest'
    BY <1>1 DEF LaneHonest, LaneEnds
  <2>3. QED
    BY <1>0, <1>1, <2>1, <2>2, DialogueStays DEF LaneInductive
<1>2. CASE StartTurn
  <2>1. PICK way \in {"request", "stream"} : laneAt' = way
    BY <1>2 DEF StartTurn
  <2>2. laneAt = "idle" /\ UNCHANGED <<round, dialogue, pendingN, written, sawDone, laneResult>>
    BY <1>2 DEF StartTurn
  <2>3. LaneTypeOK' /\ LaneSound' /\ LaneHonest'
    BY <1>0, <2>1, <2>2 DEF LaneTypeOK, LaneSound, LaneHonest
  <2>4. QED
    BY <1>0, <2>2, <2>3, DialogueStays DEF LaneInductive
<1>3. CASE RequestFails
  BY <1>0, <1>1, <1>3 DEF RequestFails, LaneTypeOK
<1>4. CASE ModelAnswers
  <2>1. pendingN = 0 /\ round < LaneRounds /\ written = 0 /\ sawDone' \in BOOLEAN
    BY <1>0, <1>4 DEF ModelAnswers, LaneSound, LaneTypeOK
  <2>2. QED
    BY <1>1, <1>4, <2>1 DEF ModelAnswers
<1>5. CASE ModelAsks
  <2>1. PICK m \in 1..RoundCalls : dialogue' = Append(dialogue, m) /\ pendingN' = m
    BY <1>5 DEF ModelAsks
  <2>2. pendingN = 0 /\ m \in 0..RoundCalls
    BY <1>0, <1>5, LaneNumbers DEF ModelAsks, LaneSound
  <2>3. DialogueSound' /\ dialogue' \in Seq(0..RoundCalls)
    BY <1>0, <2>1, <2>2, AskSound, Added
  <2>4. LaneTypeOK' /\ LaneSound' /\ LaneHonest'
    BY <1>0, <1>5, <2>1, <2>2, <2>3 DEF ModelAsks, LaneTypeOK, LaneSound, LaneHonest, NoResult
  <2>5. QED
    BY <2>3, <2>4 DEF LaneInductive
<1>6. CASE BadCall \/ ToolReturns
  <2>1. /\ pendingN > 0 /\ Reply /\ laneAt' = "tools" /\ laneAt \in {"tools", "run"}
        /\ UNCHANGED <<round, written, sawDone, laneResult>>
    BY <1>0, <1>6 DEF BadCall, ToolReturns, LaneSound
  <2>2. /\ dialogue' \in Seq(0..RoundCalls) /\ pendingN' \in 0..RoundCalls
    BY <1>0, <2>1, LaneNumbers, Added DEF Reply, LaneTypeOK
  <2>3. LaneTypeOK' /\ LaneSound' /\ LaneHonest'
    BY <1>0, <2>1, <2>2 DEF LaneTypeOK, LaneSound, LaneHonest, NoResult
  <2>4. QED
    BY <1>0, <2>1, <2>3, ReplySound DEF LaneInductive
<1>7. CASE RunTool
  <2>1. LaneTypeOK' /\ LaneSound' /\ LaneHonest' /\ UNCHANGED <<dialogue, pendingN>>
    BY <1>0, <1>7 DEF RunTool, LaneTypeOK, LaneSound, LaneHonest
  <2>2. QED
    BY <1>0, <2>1, DialogueStays DEF LaneInductive
<1>8. CASE NextRound
  <2>1. /\ laneAt = "tools" /\ pendingN = 0 /\ round' = round + 1 /\ round < LaneRounds
        /\ written = 0 /\ laneResult = NoResult
        /\ UNCHANGED <<dialogue, pendingN, written, sawDone>>
    BY <1>0, <1>8 DEF NextRound, LaneSound
  <2>2. round' \in 0..LaneRounds
    BY <1>0, <2>1, LaneNumbers
  <2>3. CASE round + 1 = LaneRounds
    <3>1. laneAt' = "over" /\ laneResult' = [ok |-> FALSE, text |-> "capped"]
      BY <1>8, <2>3 DEF NextRound, LaneEnds
    <3>2. LaneTypeOK' /\ LaneSound' /\ LaneHonest'
      BY <1>0, <2>1, <2>2, <3>1 DEF LaneTypeOK, LaneSound, LaneHonest
    <3>3. QED
      BY <1>0, <2>1, <3>2, DialogueStays DEF LaneInductive
  <2>4. CASE round + 1 # LaneRounds
    <3>1. laneAt' = "request" /\ laneResult' = laneResult
      BY <1>8, <2>4 DEF NextRound
    <3>2. round + 1 < LaneRounds
      BY <1>0, <2>1, <2>4, LaneNumbers
    <3>3. LaneTypeOK' /\ LaneSound' /\ LaneHonest'
      BY <1>0, <2>1, <2>2, <3>1, <3>2 DEF LaneTypeOK, LaneSound, LaneHonest, NoResult
    <3>4. QED
      BY <1>0, <2>1, <3>3, DialogueStays DEF LaneInductive
  <2>5. QED
    BY <2>3, <2>4
<1>9. CASE Delta
  <2>1. /\ laneAt = "stream" /\ written < LaneFrames /\ written' = written + 1
        /\ UNCHANGED <<laneAt, round, dialogue, pendingN, sawDone, laneResult>>
    BY <1>9 DEF Delta
  <2>2. written' \in 0..LaneFrames
    BY <1>0, <2>1, LaneNumbers
  <2>3. LaneTypeOK' /\ LaneSound' /\ LaneHonest'
    BY <1>0, <2>1, <2>2 DEF LaneTypeOK, LaneSound, LaneHonest, NoResult
  <2>4. QED
    BY <1>0, <2>1, <2>3, DialogueStays DEF LaneInductive
<1>10. CASE DoneFrame
  BY <1>1, <1>10 DEF DoneFrame
<1>11. CASE StreamCut
  BY <1>0, <1>1, <1>11 DEF StreamCut, LaneTypeOK
<1>12. CASE UNCHANGED laneVars
  <2>1. LaneTypeOK' /\ LaneSound' /\ LaneHonest' /\ UNCHANGED <<dialogue, pendingN>>
    BY <1>0, <1>12 DEF laneVars, LaneTypeOK, LaneSound, LaneHonest
  <2>2. QED
    BY <1>0, <2>1, DialogueStays DEF LaneInductive
<1>13. QED
  BY <1>2, <1>3, <1>4, <1>5, <1>6, <1>7, <1>8, <1>9, <1>10, <1>11, <1>12 DEF LaneNext

LEMMA LaneEnough == LaneInductive => LaneInv
<1> SUFFICES ASSUME LaneInductive PROVE LaneInv
  OBVIOUS
<1>1. ASSUME laneAt = "request", dialogue # <<>> PROVE RepliesPaired
  <2> DEFINE n == Len(dialogue)
  <2>1. /\ n \in Nat /\ DOMAIN dialogue = 1..n /\ pendingN = 0
        /\ \A i \in 1..n : dialogue[i] \in Nat
    <3>1. 0..RoundCalls \subseteq Nat
      BY LaneNumbers
    <3>2. pendingN = 0
      BY <1>1 DEF LaneInductive, LaneSound
    <3>3. dialogue \in Seq(0..RoundCalls)
      BY DEF LaneInductive, LaneTypeOK
    <3>4. \A i \in 1..n : dialogue[i] \in 0..RoundCalls
      BY <3>3, ElementOfSeq
    <3>5. n \in Nat /\ DOMAIN dialogue = 1..n
      BY <3>3
    <3>6. QED
      BY <3>1, <3>2, <3>4, <3>5
  <2>2. ASSUME NEW i \in 1..n, dialogue[i] > 0
        PROVE  LET after == i + dialogue[i] + 1 IN
                 /\ after <= n + 1
                 /\ \A j \in (i + 1)..(after - 1) : dialogue[j] = 0
                 /\ after <= n => dialogue[after] > 0
    <3> DEFINE after == i + dialogue[i] + 1
    <3>1. /\ after <= n \/ after = n + 1
          /\ \A j \in (i + 1)..n : j < after => dialogue[j] = 0
          /\ after <= n => dialogue[after] > 0
      BY <2>1, <2>2 DEF LaneInductive, DialogueSound, Replied
    <3>2. after <= n + 1 /\ \A j \in (i + 1)..(after - 1) : j \in (i + 1)..n /\ j < after
      BY <3>1, <2>1
    <3>3. QED
      BY <3>1, <3>2
  <2>3. dialogue[1] > 0
    BY <1>1 DEF LaneInductive, DialogueSound
  <2>4. QED
    BY <2>1, <2>2, <2>3 DEF RepliesPaired
<1>2. RepliesPaired
  BY <1>1 DEF RepliesPaired
<1>3. QED
  BY <1>2 DEF LaneInv, LaneInductive

\* Every request of a turn, whatever became of its calls, is one the provider accepts, and an answer
\* counts as complete only when the model ended it.
THEOREM LaneHolds == LaneSpec => []LaneInv
<1>1. LaneInit => LaneInductive
  <2> SUFFICES ASSUME LaneInit PROVE LaneInductive
    OBVIOUS
  <2>1. dialogue = <<>> /\ Len(dialogue) = 0 /\ dialogue \in Seq(0..RoundCalls)
    BY DEF LaneInit
  <2>2. 0 \in 0..LaneRounds /\ 0 \in 0..RoundCalls /\ 0 \in 0..LaneFrames /\ 0 < LaneRounds
    BY LaneNumbers
  <2>3. LaneTypeOK
    BY <2>1, <2>2 DEF LaneInit, LaneTypeOK, NoResult
  <2>4. DialogueSound
    BY <2>1 DEF LaneInit, DialogueSound
  <2>5. LaneSound /\ LaneHonest
    BY <2>2 DEF LaneInit, LaneSound, LaneHonest, NoResult
  <2>6. QED
    BY <2>3, <2>4, <2>5 DEF LaneInductive
<1>2. LaneInductive => LaneInv
  BY LaneEnough
<1>3. QED
  BY <1>1, <1>2, LaneSteps, PTL DEF LaneSpec
===============================================================================

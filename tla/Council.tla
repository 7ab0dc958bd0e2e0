------------------------------ MODULE Council -------------------------------
(***************************************************************************)
(* The council (src/council/runs.ts, store.ts, src/api/council-routes.ts): *)
(* three personas answer an idea in parallel, a chairman judges, and asks  *)
(* the owner until there is a verdict, which may become a ticket.          *)
(*                                                                         *)
(* Sessions live in memory.  Each transition issues a write of all of them *)
(* that nobody waits for; the writes land in order, some time later, and a *)
(* crash loses those that have not.  Nothing cancels the personas that     *)
(* still run when one of them has failed the round, nor a pipeline whose   *)
(* session has been consumed.                                              *)
(*                                                                         *)
(* Abstracted: prompts, answers and the console; the verdict, to whether   *)
(* there is one; the briefing (Briefing), which fails open.                *)
(***************************************************************************)
EXTENDS Naturals, Sequences, FiniteSets

CONSTANTS
  Councils,       \* sessions
  Roles,          \* believer, investor, skeptic
  CouncilMax,     \* MAX_ACTIVE
  CouncilKeep,    \* KEEP_FINISHED
  CouncilRounds,  \* the round whose verdict is final: 3
  UnsavedMax,     \* bound: writes issued and not landed
  TicketTries,    \* bound: requests for a ticket of one session in flight
  CouncilCrashes  \* bound: crashes

ASSUME CouncilAssumption ==
  /\ CouncilMax \in Nat \ {0} /\ CouncilKeep \in Nat /\ CouncilRounds \in Nat \ {0}
  /\ UnsavedMax \in Nat \ {0} /\ TicketTries \in Nat /\ CouncilCrashes \in Nat
  /\ Roles # {} /\ IsFiniteSet(Councils)

VARIABLES
  council,    \* the sessions in memory
  pipeline,   \* what runs for a session: "none", "brief", "personas", "chairman"
  asked,      \* the personas the pipeline waits for
  lateCalls,  \* personas nobody waits for any more: <<role, round>>
  requests,   \* requests for a ticket between their check and the ticket
  forced,     \* history: the sessions a ticket was forced of before their verdict was final
  doubled,    \* history: a pipeline was started where one ran
  unsaved,    \* the writes that have not landed, oldest first
  saved,      \* what is stored
  councilCrashes

councilVars == <<council, pipeline, asked, lateCalls, requests, forced, doubled, unsaved, saved,
                 councilCrashes>>

Statuses == {"none", "running", "awaiting-answers", "decided", "consumed", "failed", "dropped"}
Sessions == [status : Statuses, round : 0..CouncilRounds, answered : 0..CouncilRounds,
             said : [Roles -> 0..CouncilRounds], verdict : BOOLEAN]
NoSession == [status |-> "none", round |-> 0, answered |-> 0, said |-> [r \in Roles |-> 0], verdict |-> FALSE]
Dropped == [NoSession EXCEPT !.status = "dropped"]

CouncilTypeOK ==
  /\ council \in [Councils -> Sessions] /\ saved \in [Councils -> Sessions]
  /\ pipeline \in [Councils -> {"none", "brief", "personas", "chairman"}]
  /\ \A s \in Councils : asked[s] \subseteq Roles /\ lateCalls[s] \subseteq Roles \X (1..CouncilRounds)
  /\ requests \in [Councils -> 0..TicketTries]
  /\ forced \subseteq Councils /\ doubled \in BOOLEAN
  /\ Len(unsaved) <= UnsavedMax /\ \A i \in DOMAIN unsaved : unsaved[i] \in [Councils -> Sessions]
  /\ councilCrashes \in 0..CouncilCrashes

CouncilInit ==
  /\ council = [s \in Councils |-> NoSession] /\ saved = council
  /\ pipeline = [s \in Councils |-> "none"] /\ asked = [s \in Councils |-> {}]
  /\ lateCalls = [s \in Councils |-> {}] /\ requests = [s \in Councils |-> 0]
  /\ forced = {} /\ doubled = FALSE
  /\ unsaved = <<>> /\ councilCrashes = 0

-----------------------------------------------------------------------------
Active(c) == {s \in Councils : c[s].status \in {"running", "awaiting-answers"}}

\* The snapshot is taken now and lands later.
persist(next) ==
  /\ Len(unsaved) < UnsavedMax
  /\ council' = next /\ unsaved' = Append(unsaved, next) /\ UNCHANGED <<saved, councilCrashes>>

Launched(s, stage) ==
  /\ pipeline' = [pipeline EXCEPT ![s] = stage]
  /\ doubled' = (doubled \/ pipeline[s] # "none")
  /\ asked' = [asked EXCEPT ![s] = {}]

theTickets == <<requests, forced>>

\* Of the finished sessions the oldest beyond the limit are dropped (which ones those are is left
\* open): what still runs for them writes where nobody looks.
startCouncil(s) ==
  /\ council[s].status = "none" /\ Cardinality(Active(council)) < CouncilMax
  /\ LET finished == {t \in Councils \ Active(council) : council[t].status \notin {"none", "dropped"}} IN
       \E dropped \in SUBSET finished :
         /\ Cardinality(finished \ dropped) <= CouncilKeep
         /\ dropped # {} => Cardinality(finished \ dropped) = CouncilKeep
         /\ persist([t \in Councils |->
              IF t = s THEN [NoSession EXCEPT !.status = "running", !.round = 1]
              ELSE IF t \in dropped THEN Dropped ELSE council[t]])
         /\ pipeline' = [t \in Councils |-> IF t = s THEN "brief" ELSE IF t \in dropped THEN "none" ELSE pipeline[t]]
         /\ asked' = [t \in Councils |-> IF t \in dropped THEN {} ELSE asked[t]]
         /\ lateCalls' = [t \in Councils |-> IF t \in dropped THEN {} ELSE lateCalls[t]]
  /\ UNCHANGED <<theTickets, doubled>>

Failed(s) ==
  /\ persist([council EXCEPT ![s].status = "failed"])
  /\ pipeline' = [pipeline EXCEPT ![s] = "none"] /\ asked' = [asked EXCEPT ![s] = {}]
  /\ UNCHANGED <<theTickets, doubled>>

\* The briefing is skipped when it fails; picking an agent may throw.
AskPersonas(s) ==
  /\ pipeline[s] = "brief"
  /\ \/ /\ pipeline' = [pipeline EXCEPT ![s] = "personas"] /\ asked' = [asked EXCEPT ![s] = Roles]
        /\ UNCHANGED <<council, lateCalls, theTickets, doubled, unsaved, saved, councilCrashes>>
     \/ Failed(s) /\ UNCHANGED lateCalls

PersonaAnswers(s, r) ==
  /\ pipeline[s] = "personas" /\ r \in asked[s]
  /\ LET said == [council EXCEPT ![s].said[r] = council[s].round] IN
       IF asked[s] = {r}
       THEN /\ persist([said EXCEPT ![s].answered = council[s].round])
            /\ pipeline' = [pipeline EXCEPT ![s] = "chairman"]
       ELSE council' = said /\ UNCHANGED <<pipeline, unsaved, saved, councilCrashes>>
  /\ asked' = [asked EXCEPT ![s] = @ \ {r}]
  /\ UNCHANGED <<lateCalls, theTickets, doubled>>

\* The first failure ends the wait for the others, not the others.
PersonaFails(s, r) ==
  /\ pipeline[s] = "personas" /\ r \in asked[s] /\ Failed(s)
  /\ lateCalls' = [lateCalls EXCEPT ![s] = @ \cup {<<q, council[s].round>> : q \in asked[s] \ {r}}]

\* It writes what it has to say into the session, whatever round that is in by now.
LateAnswer(s) ==
  /\ \E call \in lateCalls[s] :
       /\ lateCalls' = [lateCalls EXCEPT ![s] = @ \ {call}]
       /\ \/ council' = [council EXCEPT ![s].said[call[1]] = call[2]]
          \/ UNCHANGED council
  /\ UNCHANGED <<pipeline, asked, theTickets, doubled, unsaved, saved, councilCrashes>>

\* The status is set whatever it has become in the meantime.
ChairmanDecides(s) ==
  /\ pipeline[s] = "chairman"
  /\ \E status \in {"decided", "awaiting-answers"} :
       /\ council[s].round >= CouncilRounds => status = "decided"
       /\ persist([council EXCEPT ![s].status = status, ![s].verdict = TRUE])
  /\ pipeline' = [pipeline EXCEPT ![s] = "none"]
  /\ UNCHANGED <<asked, lateCalls, theTickets, doubled>>

ChairmanFails(s) == pipeline[s] = "chairman" /\ Failed(s) /\ UNCHANGED lateCalls

submitAnswers(s) ==
  /\ council[s].status = "awaiting-answers"
  /\ persist([council EXCEPT ![s].status = "running", ![s].round = @ + 1])
  /\ Launched(s, "brief") /\ UNCHANGED <<lateCalls, theTickets>>

\* Only the stage that died is run again.
resumeCouncil(s) ==
  /\ council[s].status = "failed" /\ Cardinality(Active(council)) < CouncilMax
  /\ persist([council EXCEPT ![s].status = "running"])
  /\ Launched(s, IF council[s].answered = council[s].round THEN "chairman" ELSE "brief")
  /\ UNCHANGED <<lateCalls, theTickets>>

\* A ticket of a session that waits for answers, or of one whose verdict is not GO, has to be forced.
AskTicket(s) ==
  /\ requests[s] < TicketTries
  /\ council[s].status \in {"decided", "awaiting-answers"}
  /\ forced' = IF council[s].status = "decided" THEN forced ELSE forced \cup {s}
  /\ requests' = [requests EXCEPT ![s] = @ + 1]
  /\ UNCHANGED <<council, pipeline, asked, lateCalls, doubled, unsaved, saved, councilCrashes>>

createTicketFromCouncil(s) ==
  /\ requests[s] > 0 /\ requests' = [requests EXCEPT ![s] = @ - 1]
  /\ \/ persist(IF council[s].status = "dropped" THEN council ELSE [council EXCEPT ![s].status = "consumed"])
     \/ UNCHANGED <<council, unsaved, saved, councilCrashes>>
  /\ UNCHANGED <<pipeline, asked, lateCalls, forced, doubled>>

-----------------------------------------------------------------------------
SaveLands ==
  /\ unsaved # <<>> /\ saved' = Head(unsaved) /\ unsaved' = Tail(unsaved)
  /\ UNCHANGED <<council, pipeline, asked, lateCalls, theTickets, doubled, councilCrashes>>

(* Mutant of Recovered: a session that was running goes on being shown as running. *)
RecoveredAsIs(c) == c

\* What cannot go on is reported as failed; a session that waits for the owner survives.
Recovered(c) == [s \in Councils |-> IF c[s].status = "running" THEN [c[s] EXCEPT !.status = "failed"] ELSE c[s]]

\* The process dies and starts again; whether a ticket asked for was made is not known.
Restart ==
  /\ councilCrashes < CouncilCrashes /\ councilCrashes' = councilCrashes + 1
  /\ council' = Recovered(saved) /\ unsaved' = <<Recovered(saved)>> /\ UNCHANGED saved
  /\ pipeline' = [s \in Councils |-> "none"] /\ asked' = [s \in Councils |-> {}]
  /\ lateCalls' = [s \in Councils |-> {}] /\ requests' = [s \in Councils |-> 0]
  /\ UNCHANGED <<forced, doubled>>

PersonaEnds(s) == \E r \in Roles : PersonaAnswers(s, r) \/ PersonaFails(s, r)
ChairmanEnds(s) == ChairmanDecides(s) \/ ChairmanFails(s)

CouncilNext ==
  \/ \E s \in Councils :
       \/ startCouncil(s) \/ AskPersonas(s) \/ PersonaEnds(s) \/ LateAnswer(s) \/ ChairmanEnds(s)
       \/ submitAnswers(s) \/ resumeCouncil(s) \/ AskTicket(s) \/ createTicketFromCouncil(s)
  \/ SaveLands \/ Restart

-----------------------------------------------------------------------------
\* No session is shown as running with nothing behind it, also after a crash, and none has two
\* pipelines; one runs behind another status only where a ticket was forced before the verdict.
PipelinesMatch ==
  /\ ~doubled
  /\ \A s \in Councils :
       /\ council[s].status = "running" => pipeline[s] # "none"
       /\ pipeline[s] # "none" => council[s].status = "running" \/ s \in forced

\* At most MAX_ACTIVE sessions are active, resumed ones and those on further rounds included (a
\* session whose ticket was forced leaves the count and may come back).
CapHeld == Cardinality(Active(council) \ forced) <= CouncilMax

\* The chairman is asked only when each persona has spoken, also when the stage is resumed from what
\* was stored (runs.ts:189-196 asserts it); and a ticket is made only of a verdict.
ChairmanInformed ==
  \A s \in Councils :
    /\ pipeline[s] = "chairman" => \A r \in Roles : council[s].said[r] # 0
    /\ requests[s] > 0 /\ council[s].status # "dropped" => council[s].verdict

CouncilInv == CouncilTypeOK /\ PipelinesMatch /\ CapHeld /\ ChairmanInformed

=============================================================================

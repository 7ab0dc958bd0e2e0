-------------------------------- MODULE Runner --------------------------------
(***************************************************************************)
(* The stand-alone relay runner (src/relay/runner.ts): processes that      *)
(* plan, work and review the tickets of a server they reach over HTTP      *)
(* (src/relay/api.ts), each in a loop that survives what it throws, while  *)
(* an operator edits the same tickets.  A ticket is moved only by a patch  *)
(* that names the version it was read at (src/services/tickets.ts).        *)
(*                                                                         *)
(* Abstracted: one ticket; a body is a number that an edit raises; an      *)
(* agent's text is what it was given and whether it passes.  A request     *)
(* that fails throws and ends the turn; one that the server has served may *)
(* still fail for the runner.                                              *)
(***************************************************************************)
EXTENDS Naturals

CONSTANTS
  Runners,       \* runner processes
  RunnerRole,    \* the --role of each: "plan", "work" or "review"
  Targeted,      \* runners started with --ticket: they take it whatever its status
  TicketEdits,   \* bound: operator's edits
  RunnerThrows,  \* bound: requests that fail
  TicketVersions \* bound: the version of the ticket

ASSUME RunnerAssumption ==
  /\ RunnerRole \in [Runners -> {"plan", "work", "review"}] /\ Targeted \subseteq Runners
  /\ TicketEdits \in Nat /\ RunnerThrows \in Nat /\ TicketVersions \in Nat \ {0}

VARIABLES
  item,     \* the ticket: status, version, body, requiresVerification, and whether an admin verified it
  posts,    \* its latest plan, report and review comment
  turn,     \* per runner: where it is, the ticket as it read it, the comment it read, its agent's answer
  closes,   \* history: each close by a runner, with what it had read and what it closed
  editing,  \* operator's edits so far
  outOfTurn, \* history: the operator moved the ticket, or a runner took it in a status of another role
  faulted     \* failed requests so far

runnerVars == <<item, posts, turn, closes, editing, outOfTurn, faulted>>

NoPost == [good |-> FALSE, turnOf |-> 0]
KindOf == [plan |-> "plan", work |-> "report", review |-> "review"]
NoTurn == [at |-> "idle", seen |-> [version |-> 0], read |-> NoPost, good |-> FALSE]

RunnerInit ==
  /\ item = [status |-> "open", version |-> 1, body |-> 1, must |-> FALSE, verified |-> FALSE]
  /\ posts = [k \in {"plan", "report", "review"} |-> NoPost] /\ turn = [r \in Runners |-> NoTurn]
  /\ closes = {} /\ editing = 0 /\ outOfTurn = FALSE /\ faulted = 0

-------------------------------------------------------------------------------
(* The server: tickets.ts.                                                  *)

(* Mutant of Accepts: the version is not compared.                          *)
AcceptsAny(expected, to) == ~(to.status = "closed" /\ item.must /\ ~item.verified)
\* updateTicket takes the patch; otherwise it answers 409, for a stale version and a missing verification alike.
Accepts(expected, to) == item.version = expected /\ ~(to.status = "closed" /\ item.must /\ ~item.verified)

Patched(to) == [to EXCEPT !.version = item.version + 1]
Moved(status) == [item EXCEPT !.status = status]

latestByKind(kind) == posts[kind]

-------------------------------------------------------------------------------
(* The three roles.                                                         *)

Taken(r) == CASE RunnerRole[r] = "plan" -> "open" [] RunnerRole[r] = "work" -> "planned" [] OTHER -> "review"

\* The oldest ticket of the status the role takes, or the one named.
PickUp(r) ==
  /\ turn[r].at = "idle" /\ (r \in Targeted \/ item.status = Taken(r))
  /\ turn' = [turn EXCEPT ![r] = [NoTurn EXCEPT !.at = IF RunnerRole[r] = "plan" THEN "agent" ELSE "picked", !.seen = item]]
  /\ outOfTurn' = (outOfTurn \/ item.status # Taken(r))
  /\ UNCHANGED <<item, posts, closes, editing, faulted>>

\* runWork claims the ticket by moving it; a conflict leaves it to another worker.
Claim(r) ==
  /\ turn[r].at = "picked" /\ RunnerRole[r] = "work"
  /\ IF Accepts(turn[r].seen.version, Moved("in_progress"))
     THEN /\ item.version < TicketVersions
          /\ item' = Patched(Moved("in_progress"))
          /\ turn' = [turn EXCEPT ![r].at = "claimed", ![r].seen = item']
     ELSE item' = item /\ turn' = [turn EXCEPT ![r] = NoTurn]
  /\ UNCHANGED <<posts, closes, editing, outOfTurn, faulted>>

\* The plan for a worker, the report for a reviewer, read after the ticket.
ReadPosts(r) ==
  /\ turn[r].at = (IF RunnerRole[r] = "work" THEN "claimed" ELSE "picked") /\ RunnerRole[r] # "plan"
  /\ turn' = [turn EXCEPT ![r].at = "agent",
                          ![r].read = latestByKind(IF RunnerRole[r] = "work" THEN "plan" ELSE "report")]
  /\ UNCHANGED <<item, posts, closes, editing, outOfTurn, faulted>>

\* runAgent, and parseVerdict of a review.  A planner that fails leaves the ticket open.
AgentAnswers(r, good) ==
  /\ turn[r].at = "agent"
  /\ turn' = [turn EXCEPT ![r] = IF RunnerRole[r] = "plan" /\ ~good THEN NoTurn ELSE [@ EXCEPT !.at = "answered", !.good = good]]
  /\ UNCHANGED <<item, posts, closes, editing, outOfTurn, faulted>>

Post(r) ==
  /\ turn[r].at = "answered"
  /\ posts' = [posts EXCEPT ![KindOf[RunnerRole[r]]] = [good |-> turn[r].good, turnOf |-> turn[r].seen.version]]
  /\ turn' = [turn EXCEPT ![r].at = "posted"] /\ UNCHANGED <<item, closes, editing, outOfTurn, faulted>>

Outcome(r) == CASE RunnerRole[r] = "plan" -> "planned"
              [] RunnerRole[r] = "work" -> IF turn[r].good THEN "review" ELSE "planned"
              [] OTHER -> IF turn[r].good THEN "closed" ELSE "planned"

\* The last patch of a turn.  Its conflict is not looked at (a planner only prints it).
FinishTurn(r) ==
  /\ turn[r].at = "posted"
  /\ IF Accepts(turn[r].seen.version, Moved(Outcome(r)))
     THEN /\ item.version < TicketVersions
          /\ item' = Patched(Moved(Outcome(r)))
          /\ closes' = IF Outcome(r) = "closed" THEN closes \cup {[by |-> turn[r], was |-> item]} ELSE closes
     ELSE UNCHANGED <<item, closes>>
  /\ turn' = [turn EXCEPT ![r] = NoTurn]
  /\ UNCHANGED <<posts, editing, outOfTurn, faulted>>

\* A request fails: the loop of main prints it and goes on with the next turn.
Throws(r) ==
  /\ turn[r].at # "idle" /\ faulted < RunnerThrows
  /\ turn' = [turn EXCEPT ![r] = NoTurn] /\ faulted' = faulted + 1
  /\ UNCHANGED <<item, posts, closes, editing, outOfTurn>>

-------------------------------------------------------------------------------
(* The operator, through the same updateTicket; verifying is a comment.     *)

Operator(to) ==
  /\ editing < TicketEdits /\ editing' = editing + 1 /\ item.version < TicketVersions
  /\ Accepts(item.version, to) /\ item' = Patched(to)
  /\ outOfTurn' = (outOfTurn \/ to.status # item.status)
  /\ UNCHANGED <<posts, turn, closes, faulted>>

EditBody == Operator([item EXCEPT !.body = @ + 1])
MoveTicket(status) == Operator(Moved(status))
Require == Operator([item EXCEPT !.must = TRUE])

VerifyTicket ==
  /\ ~item.verified /\ item.must /\ item' = [item EXCEPT !.verified = TRUE]
  /\ UNCHANGED <<posts, turn, closes, editing, outOfTurn, faulted>>

RunnerNext ==
  \/ \E r \in Runners : PickUp(r) \/ Claim(r) \/ ReadPosts(r) \/ Post(r) \/ FinishTurn(r) \/ Throws(r)
  \/ \E r \in Runners, good \in BOOLEAN : AgentAnswers(r, good)
  \/ \E status \in {"open", "planned", "in_progress", "review", "closed"} : MoveTicket(status)
  \/ EditBody \/ Require \/ VerifyTicket

-------------------------------------------------------------------------------
RunnerTypeOK ==
  /\ item \in [status : {"open", "planned", "in_progress", "review", "closed"}, version : 1..TicketVersions,
               body : Nat, must : BOOLEAN, verified : BOOLEAN]
  /\ \A r \in Runners : turn[r].at \in {"idle", "picked", "claimed", "agent", "answered", "posted"}

Holding(r) == RunnerRole[r] = "work" /\ turn[r].at \in {"claimed", "agent", "answered", "posted"}

\* Of two workers on one ticket at most one still holds the claim it works under, and while the
\* version is the one of a claim the ticket is in progress.
SoleClaim ==
  \A r \in Runners : Holding(r) =>
    /\ item.version = turn[r].seen.version => item.status = "in_progress"
    /\ \A other \in Runners \ {r} : Holding(other) => turn[other].seen.version # turn[r].seen.version

\* A runner closes a ticket only on a passing review of the body it has, and verified where it must be.
ClosedAsReviewed ==
  \A c \in closes : c.by.good /\ c.by.seen.body = c.was.body /\ c.was.status = c.by.seen.status /\ (c.was.must => c.was.verified)

\* As long as no one moves the ticket out of turn, a review whose patch will be accepted has read the
\* report of a worker that did not fail: of the very claim the ticket came from, when no edit came between.
ReportOfTheClaim ==
  ~outOfTurn => \A r \in Runners :
    RunnerRole[r] = "review" /\ turn[r].at \in {"agent", "answered", "posted"} /\ turn[r].seen.version = item.version
      => turn[r].read.good /\ (editing = 0 => turn[r].read.turnOf = item.version - 1)

\* Runners and the operator share a ticket through its version.
RunnerInv == RunnerTypeOK /\ SoleClaim /\ ClosedAsReviewed /\ ReportOfTheClaim
===============================================================================

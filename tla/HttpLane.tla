------------------------------ MODULE HttpLane ------------------------------
(***************************************************************************)
(* One chat turn on an HTTP provider (src/chat/http-lane.ts): a stream, or *)
(* when tools are attached a loop of requests, in which the model asks for *)
(* tool calls and is told their results in the next request.  The          *)
(* provider refuses a conversation in which a call has no reply, or a      *)
(* reply no call.                                                          *)
(*                                                                         *)
(* Abstracted: texts (only whether one is blank), headers, what the tools  *)
(* do (ChatTools); a frame is a piece of text, a keepalive or the end mark,*)
(* however the network cut it.                                             *)
(***************************************************************************)
EXTENDS Naturals, Sequences

CONSTANTS
  LaneRounds,  \* MAX_TOOL_ROUNDS
  RoundCalls,  \* bound: tool calls the model asks for at once
  LaneFrames   \* bound: pieces of text in a stream

ASSUME LaneAssumption == LaneRounds \in Nat \ {0} /\ RoundCalls \in Nat \ {0} /\ LaneFrames \in Nat

VARIABLES
  laneAt,     \* what the turn is doing
  round,      \* requests answered with tool calls
  dialogue,   \* the messages after the user's: n when the model asks for n calls, 0 for a reply
  pendingN,   \* the calls of the last message not looked at
  written,    \* some text was received
  sawDone,    \* history: the end mark of the stream was read
  laneResult  \* what the turn returns

laneVars == <<laneAt, round, dialogue, pendingN, written, sawDone, laneResult>>

NoResult == [ok |-> FALSE, text |-> "none"]

LaneTypeOK ==
  /\ laneAt \in {"idle", "request", "tools", "run", "stream", "over"}
  /\ round \in 0..LaneRounds /\ pendingN \in 0..RoundCalls
  /\ dialogue \in Seq(0..RoundCalls)
  /\ written \in 0..LaneFrames /\ sawDone \in BOOLEAN
  /\ laneResult \in [ok : BOOLEAN, text : {"none", "model", "placeholder", "capped", "partial", "error"}]

LaneInit ==
  /\ laneAt = "idle" /\ round = 0 /\ dialogue = <<>> /\ pendingN = 0
  /\ written = 0 /\ sawDone = FALSE /\ laneResult = NoResult

LaneEnds(ok, text) == laneAt' = "over" /\ laneResult' = [ok |-> ok, text |-> text]

-----------------------------------------------------------------------------
\* A request fails, times out, or is refused by the provider.
RequestFails ==
  /\ laneAt = "request" \/ (laneAt = "stream" /\ written = 0)
  /\ LaneEnds(FALSE, "error")
  /\ UNCHANGED <<round, dialogue, pendingN, written, sawDone>>

StartTurn ==
  /\ laneAt = "idle"
  /\ \E way \in {"request", "stream"} : laneAt' = way
  /\ UNCHANGED <<round, dialogue, pendingN, written, sawDone, laneResult>>

\* A 200 with an error and no choices is a failure; an answer without calls ends the turn.
ModelAnswers ==
  /\ laneAt = "request"
  /\ \/ LaneEnds(FALSE, "error")
     \/ \E text \in {"model", "placeholder"} : LaneEnds(TRUE, text)
  /\ UNCHANGED <<round, dialogue, pendingN, written, sawDone>>

ModelAsks ==
  /\ laneAt = "request"
  /\ \E n \in 1..RoundCalls : dialogue' = Append(dialogue, n) /\ pendingN' = n
  /\ laneAt' = "tools"
  /\ UNCHANGED <<round, written, sawDone, laneResult>>

Reply == dialogue' = Append(dialogue, 0) /\ pendingN' = pendingN - 1

(* Mutant of BadCall: it goes on to the next call without a word. *)
BadCallSkipped ==
  /\ laneAt = "tools" /\ pendingN > 0
  /\ pendingN' = pendingN - 1 /\ UNCHANGED <<laneAt, round, dialogue, written, sawDone, laneResult>>

\* An unknown tool, and arguments that do not parse, are replied to without running anything.
BadCall ==
  /\ laneAt = "tools" /\ pendingN > 0
  /\ Reply /\ UNCHANGED <<laneAt, round, written, sawDone, laneResult>>

RunTool ==
  /\ laneAt = "tools" /\ pendingN > 0 /\ laneAt' = "run"
  /\ UNCHANGED <<round, dialogue, pendingN, written, sawDone, laneResult>>

\* Its result, or that it threw, or that its arguments have not its shape (openai-tools.ts).
ToolReturns ==
  /\ laneAt = "run" /\ laneAt' = "tools" /\ Reply
  /\ UNCHANGED <<round, written, sawDone, laneResult>>

NextRound ==
  /\ laneAt = "tools" /\ pendingN = 0 /\ round' = round + 1
  /\ IF round + 1 = LaneRounds THEN LaneEnds(FALSE, "capped") ELSE laneAt' = "request" /\ UNCHANGED laneResult
  /\ UNCHANGED <<dialogue, pendingN, written, sawDone>>

-----------------------------------------------------------------------------
(* The stream *)

Delta ==
  /\ laneAt = "stream" /\ written < LaneFrames /\ written' = written + 1
  /\ UNCHANGED <<laneAt, round, dialogue, pendingN, sawDone, laneResult>>

\* The end mark; nothing is read after it.
DoneFrame ==
  /\ laneAt = "stream" /\ sawDone' = TRUE
  /\ LaneEnds(TRUE, IF written = 0 THEN "placeholder" ELSE "model")
  /\ UNCHANGED <<round, dialogue, pendingN, written>>

\* The connection breaks, or ends without the mark.
StreamCut ==
  /\ laneAt = "stream" /\ LaneEnds(FALSE, "partial")
  /\ UNCHANGED <<round, dialogue, pendingN, written, sawDone>>

LaneNext ==
  \/ StartTurn \/ RequestFails \/ ModelAnswers \/ ModelAsks \/ BadCall \/ RunTool \/ ToolReturns \/ NextRound
  \/ Delta \/ DoneFrame \/ StreamCut

-----------------------------------------------------------------------------
\* Every request is one the provider accepts: each message that asks for n calls is followed by its
\* n replies and nothing else (http-lane.ts:85-119, whatever became of each call).
RepliesPaired ==
  laneAt = "request" /\ dialogue # <<>> =>
    /\ dialogue[1] > 0
    /\ \A i \in DOMAIN dialogue : dialogue[i] > 0 =>
         LET after == i + dialogue[i] + 1 IN
           /\ after <= Len(dialogue) + 1
           /\ \A j \in (i + 1)..(after - 1) : dialogue[j] = 0
           /\ after <= Len(dialogue) => dialogue[after] > 0

\* An answer counts as complete only when the model ended it: a stream by its mark, a loop by a
\* message without calls; one cut off by the cap on rounds, or by the connection, does not.
LaneHonest ==
  laneResult.ok => /\ laneResult.text \in {"model", "placeholder"}
                   /\ sawDone \/ (pendingN = 0 /\ round < LaneRounds)
                   /\ laneResult.text = "placeholder" => written = 0

LaneInv == LaneTypeOK /\ RepliesPaired /\ LaneHonest
=============================================================================

----------------------------- MODULE AgentCalls -----------------------------
(***************************************************************************)
(* One invocation of an agent, on any of its lanes: the choice of a        *)
(* subscription account (src/relay/accounts.ts, account-state.ts), the     *)
(* process or request that does the work (invoke.ts, invoke-sdk.ts,        *)
(* http-agent.ts), the ways it can be found to be over, and what is noted  *)
(* about the account.                                                      *)
(*                                                                         *)
(* The state of an account is one settings row, read and written back      *)
(* whole, with an await between: calls and the operator's login check      *)
(* interleave there.  Node may learn of an exit late, or, for a detached   *)
(* child, never; a descendant may hold the output pipe open after the      *)
(* agent is gone; a killed process dies, but when is open.                 *)
(*                                                                         *)
(* Abstracted: prompts and how they are delivered, the wall, environment   *)
(* variables, output; the other fields of an account's row.                *)
(***************************************************************************)
EXTENDS Naturals, Sequences, FiniteSets, SequencesExt

CONSTANTS
  Calls,        \* invocations
  KindsOf,      \* lanes each may be on: "logged" (CLI with a run log), "piped", "sdk", "http"
  ForgeCalls,   \* those of a forge run, which alone are retried on the next account
  Logins,       \* the enabled accounts of the lane, best priority first
  MaxClock      \* bound: time, in units of a usage limit's reset

Kinds == {"logged", "piped", "sdk", "http"}

ASSUME CallsAssumption ==
  /\ ForgeCalls \subseteq Calls
  /\ KindsOf \in [Calls -> SUBSET Kinds]
  /\ Logins \in Seq(STRING) /\ IsInjective(Logins) /\ "none" \notin ToSet(Logins)
  /\ MaxClock \in Nat

VARIABLES
  clock,
  until,      \* per account, the stored exhaustedUntil; 0 when there is none
  marked,     \* history: the last exhaustedUntil a call stored
  overlapped, \* history: the accounts marked while another writer was between read and write
  kind,       \* the lane of a call
  callAt,     \* where a call is
  looked,     \* how many accounts a call has read
  spent,      \* the accounts it found at their limit
  login,      \* the account it runs on, or "none"
  rowRead,    \* the exhaustedUntil it read before it writes the row back
  attempt,    \* 1, or 2 for the one retry after a usage limit
  process,    \* the agent as the operating system and Node see it
  exitCode,   \* what it ended with: "zero", "fail", or "limit" (failed, with limit text)
  pipe,       \* the output pipe is held open by a descendant
  drain,      \* the timer set on the exit event is armed
  giveUp,     \* the liveness poll gave up waiting for an exit status
  answer,     \* what the caller was told
  check       \* the login check: the account and the exhaustedUntil it read

callsVars == <<clock, until, marked, overlapped, kind, callAt, looked, spent, login, rowRead, attempt, process,
               exitCode, pipe, drain, giveUp, answer, check>>

LoginIds == ToSet(Logins)
Places == {"new", "look", "touch", "touched", "launch", "run", "limit", "done"}
Idle == [login |-> "none", read |-> 0]

CallsTypeOK ==
  /\ clock \in 0..MaxClock
  /\ until \in [LoginIds -> 0..(MaxClock + 1)]
  /\ marked \in [LoginIds -> 0..(MaxClock + 1)]
  /\ overlapped \subseteq LoginIds
  /\ kind \in [Calls -> Kinds \cup {"none"}]
  /\ callAt \in [Calls -> Places]
  /\ looked \in [Calls -> 0..Len(Logins)]
  /\ spent \in [Calls -> SUBSET LoginIds]
  /\ login \in [Calls -> LoginIds \cup {"none"}]
  /\ rowRead \in [Calls -> 0..(MaxClock + 1)]
  /\ attempt \in [Calls -> 1..2]
  /\ process \in [Calls -> {"none", "alive", "killed", "gone", "reaped"}]
  /\ exitCode \in [Calls -> {"none", "zero", "fail", "limit"}]
  /\ pipe \in [Calls -> BOOLEAN] /\ drain \in [Calls -> BOOLEAN]
  /\ giveUp \in [Calls -> BOOLEAN]
  /\ answer \in [Calls -> {"none", "ok", "failed", "exhausted", "limit"}]
  /\ check \in [login : LoginIds \cup {"none"}, read : 0..(MaxClock + 1)]

CallsInit ==
  /\ clock = 0
  /\ until = [l \in LoginIds |-> 0]
  /\ marked = [l \in LoginIds |-> 0] /\ overlapped = {}
  /\ kind = [c \in Calls |-> "none"]
  /\ callAt = [c \in Calls |-> "new"] /\ looked = [c \in Calls |-> 0]
  /\ spent = [c \in Calls |-> {}] /\ login = [c \in Calls |-> "none"]
  /\ rowRead = [c \in Calls |-> 0] /\ attempt = [c \in Calls |-> 1]
  /\ process = [c \in Calls |-> "none"] /\ exitCode = [c \in Calls |-> "none"]
  /\ pipe = [c \in Calls |-> FALSE] /\ drain = [c \in Calls |-> FALSE]
  /\ giveUp = [c \in Calls |-> FALSE] /\ answer = [c \in Calls |-> "none"]
  /\ check = Idle

history == <<marked, overlapped>>
theRows == <<until, history>>
Go(c, where) == callAt' = [callAt EXCEPT ![c] = where]
theAgent == <<process, exitCode, pipe, drain, giveUp>>
theChoice == <<looked, spent, login>>

-----------------------------------------------------------------------------
(* The account *)

\* A lane without accounts, and the HTTP lane, run on the user's own login or key.
StartCall(c) ==
  /\ callAt[c] = "new"
  /\ \E k \in KindsOf[c] :
       /\ kind' = [kind EXCEPT ![c] = k]
       /\ Go(c, IF k = "http" \/ Logins = <<>> THEN "launch" ELSE "look")
  /\ UNCHANGED <<clock, theRows, theChoice, rowRead, attempt, theAgent, answer, check>>

\* One stored state is awaited after the other: a later one may be newer.
LookAt(c) ==
  /\ callAt[c] = "look" /\ looked[c] < Len(Logins)
  /\ LET l == Logins[looked[c] + 1] IN
       spent' = [spent EXCEPT ![c] = IF until[l] > clock THEN @ \cup {l} ELSE @]
  /\ looked' = [looked EXCEPT ![c] = @ + 1]
  /\ UNCHANGED <<clock, theRows, kind, callAt, login, rowRead, attempt, theAgent, answer, check>>

\* The n-th account is the first that has something left.
BestLeft(n, exhausted) ==
  Logins[n] \notin exhausted /\ \A m \in 1..(n - 1) : Logins[m] \in exhausted

\* The best account left; none left ends the call.
Choose(c) ==
  /\ callAt[c] = "look" /\ looked[c] = Len(Logins)
  /\ looked' = [looked EXCEPT ![c] = 0] /\ spent' = [spent EXCEPT ![c] = {}]
  /\ \/ /\ LoginIds \subseteq spent[c]
        /\ Go(c, "done") /\ answer' = [answer EXCEPT ![c] = "exhausted"]
        /\ UNCHANGED login
     \/ \E n \in DOMAIN Logins :
          /\ BestLeft(n, spent[c])
          /\ Go(c, "touch") /\ login' = [login EXCEPT ![c] = Logins[n]]
          /\ UNCHANGED answer
  /\ UNCHANGED <<clock, theRows, kind, rowRead, attempt, theAgent, check>>

\* markUsed: the row is read, and later written back with the patch.
ReadRow(c) ==
  /\ callAt[c] = "touch" /\ Go(c, "touched")
  /\ rowRead' = [rowRead EXCEPT ![c] = until[login[c]]]
  /\ UNCHANGED <<clock, theRows, kind, theChoice, attempt, theAgent, answer, check>>

(* Mutant: the row is replaced, not merged. *)
MarkUsedWhole(c) ==
  /\ callAt[c] = "touched" /\ Go(c, "launch")
  /\ until' = [until EXCEPT ![login[c]] = 0]
  /\ rowRead' = [rowRead EXCEPT ![c] = 0]
  /\ UNCHANGED <<clock, history, kind, theChoice, attempt, theAgent, answer, check>>

MarkUsed(c) ==
  /\ callAt[c] = "touched" /\ Go(c, "launch")
  /\ until' = [until EXCEPT ![login[c]] = rowRead[c]]
  /\ rowRead' = [rowRead EXCEPT ![c] = 0]
  /\ UNCHANGED <<clock, history, kind, theChoice, attempt, theAgent, answer, check>>

BetweenReadAndWrite(l) ==
  check.login = l \/ \E d \in Calls : callAt[d] = "touched" /\ login[d] = l

\* The reset time the agent printed, or the cooldown: any time ahead.  The row read before
\* supplies other fields only.
MarkExhausted(c) ==
  /\ callAt[c] = "limit" /\ Go(c, "done")
  /\ \E reset \in (clock + 1)..(MaxClock + 1) :
       /\ until' = [until EXCEPT ![login[c]] = reset]
       /\ marked' = [marked EXCEPT ![login[c]] = reset]
  /\ overlapped' = IF BetweenReadAndWrite(login[c]) THEN overlapped \cup {login[c]} ELSE overlapped
  /\ answer' = [answer EXCEPT ![c] = "limit"]
  /\ UNCHANGED <<clock, kind, theChoice, rowRead, attempt, theAgent, check>>

\* The operator checks a login while agents run: markLogin writes the same row.
CheckLogin(l) ==
  /\ check = Idle
  /\ check' = [login |-> l, read |-> until[l]]
  /\ UNCHANGED <<clock, theRows, kind, callAt, theChoice, rowRead, attempt, theAgent, answer>>

MarkLogin ==
  /\ check # Idle /\ check' = Idle
  /\ until' = [until EXCEPT ![check.login] = check.read]
  /\ UNCHANGED <<clock, history, kind, callAt, theChoice, rowRead, attempt, theAgent, answer>>

-----------------------------------------------------------------------------
(* The agent *)

\* The binary is missing, the lane has no credentials or key, the folder is gone; or it runs.
Launch(c) ==
  /\ callAt[c] = "launch"
  /\ \/ /\ Go(c, "run") /\ process' = [process EXCEPT ![c] = "alive"]
        /\ UNCHANGED answer
     \/ /\ Go(c, "done") /\ answer' = [answer EXCEPT ![c] = "failed"]
        /\ UNCHANGED process
  /\ UNCHANGED <<clock, theRows, kind, theChoice, rowRead, attempt, exitCode, pipe, drain, giveUp, check>>

\* finish: only the first caller settles the promise; then the account is looked after.
Finish(c, ok, code) ==
  /\ callAt[c] = "run"
  /\ drain' = [drain EXCEPT ![c] = FALSE] /\ pipe' = [pipe EXCEPT ![c] = FALSE]
  /\ IF ~ok /\ code = "limit" /\ login[c] # "none"
     THEN /\ Go(c, "limit") /\ UNCHANGED answer
     ELSE /\ Go(c, "done")
          /\ answer' = [answer EXCEPT ![c] = IF ok THEN "ok" ELSE "failed"]
  /\ UNCHANGED <<clock, theRows, kind, theChoice, rowRead, attempt, check>>

\* A stream or response ends or is aborted.
StreamEnds(c) ==
  /\ process[c] \in {"alive", "killed"}
  /\ \E code \in {"zero", "fail", "limit"} :
       /\ process[c] = "killed" => code # "zero"
       /\ exitCode' = [exitCode EXCEPT ![c] = code]
       /\ process' = [process EXCEPT ![c] = "reaped"]
       /\ Finish(c, code = "zero", code)
  /\ UNCHANGED giveUp

SdkEnds(c) == kind[c] = "sdk" /\ StreamEnds(c)
HttpEnds(c) == kind[c] = "http" /\ StreamEnds(c)

\* The process exits; its children may keep a pipe open, a log file has none.
AgentExits(c) ==
  /\ kind[c] \in {"logged", "piped"} /\ process[c] \in {"alive", "killed"}
  /\ process' = [process EXCEPT ![c] = "gone"]
  /\ \E code \in {"zero", "fail", "limit"} :
       /\ process[c] = "killed" => code # "zero"
       /\ exitCode' = [exitCode EXCEPT ![c] = code]
  /\ \E held \in BOOLEAN :
       /\ held => kind[c] = "piped"
       /\ pipe' = [pipe EXCEPT ![c] = held]
  /\ UNCHANGED <<clock, theRows, kind, callAt, theChoice, rowRead, attempt, drain, giveUp, answer, check>>

\* Node learns the exit status and emits "exit", which arms the drain timer.
Reap(c) ==
  /\ callAt[c] = "run" /\ process[c] = "gone"
  /\ process' = [process EXCEPT ![c] = "reaped"]
  /\ drain' = [drain EXCEPT ![c] = TRUE]
  /\ UNCHANGED <<clock, theRows, kind, callAt, theChoice, rowRead, attempt, exitCode, pipe, giveUp,
                 answer, check>>

PipeCloses(c) ==
  /\ pipe[c] /\ pipe' = [pipe EXCEPT ![c] = FALSE]
  /\ UNCHANGED <<clock, theRows, kind, callAt, theChoice, rowRead, attempt, process, exitCode, drain,
                 giveUp, answer, check>>

\* "close" comes once the pipe is at its end.
OnClose(c) ==
  /\ kind[c] \in {"logged", "piped"} /\ process[c] = "reaped" /\ ~pipe[c]
  /\ Finish(c, exitCode[c] = "zero", exitCode[c])
  /\ UNCHANGED <<process, exitCode, giveUp>>

(* Mutant: only "close" settles a call. *)
WaitForClose(c) == FALSE /\ UNCHANGED callsVars

DrainFires(c) ==
  /\ drain[c]
  /\ Finish(c, exitCode[c] = "zero", exitCode[c])
  /\ UNCHANGED <<process, exitCode, giveUp>>

(* Mutant: the poll settles as soon as the pid is gone. *)
PollHasty(c) ==
  /\ kind[c] = "logged" /\ process[c] \in {"gone", "reaped"}
  /\ Finish(c, process[c] = "reaped" /\ exitCode[c] = "zero", exitCode[c])
  /\ UNCHANGED <<process, exitCode, giveUp>>

\* The liveness poll of a detached child: it is gone, and its status known or overdue.
PollFinds(c) ==
  /\ kind[c] = "logged"
  /\ \/ /\ process[c] = "reaped" /\ UNCHANGED giveUp
        /\ Finish(c, exitCode[c] = "zero", exitCode[c])
     \/ /\ process[c] = "gone" /\ giveUp' = [giveUp EXCEPT ![c] = TRUE]
        /\ Finish(c, FALSE, exitCode[c])
  /\ UNCHANGED <<process, exitCode>>

\* The timeout, or an operator's stop: the agent is killed, the call waits for its end.
KillAgent(c) ==
  /\ callAt[c] = "run" /\ process[c] = "alive"
  /\ process' = [process EXCEPT ![c] = "killed"]
  /\ UNCHANGED <<clock, theRows, kind, callAt, theChoice, rowRead, attempt, exitCode, pipe, drain,
                 giveUp, answer, check>>

-----------------------------------------------------------------------------
(* Retry and time *)

\* retryOnNextAccount: once, on whichever account is then below its limit.
RetryCall(c) ==
  /\ c \in ForgeCalls /\ callAt[c] = "done" /\ answer[c] = "limit" /\ attempt[c] = 1
  /\ \E l \in LoginIds : until[l] <= clock
  /\ Go(c, "look") /\ attempt' = [attempt EXCEPT ![c] = 2]
  /\ looked' = [looked EXCEPT ![c] = 0] /\ spent' = [spent EXCEPT ![c] = {}]
  /\ login' = [login EXCEPT ![c] = "none"]
  /\ process' = [process EXCEPT ![c] = "none"] /\ exitCode' = [exitCode EXCEPT ![c] = "none"]
  /\ pipe' = [pipe EXCEPT ![c] = FALSE] /\ drain' = [drain EXCEPT ![c] = FALSE]
  /\ giveUp' = [giveUp EXCEPT ![c] = FALSE] /\ answer' = [answer EXCEPT ![c] = "none"]
  /\ UNCHANGED <<clock, theRows, kind, rowRead, check>>

CallsTick ==
  /\ clock < MaxClock /\ clock' = clock + 1
  /\ UNCHANGED <<theRows, kind, callAt, theChoice, rowRead, attempt, theAgent, answer, check>>

CallsNext ==
  \/ \E c \in Calls :
       \/ StartCall(c) \/ LookAt(c) \/ Choose(c) \/ ReadRow(c) \/ MarkUsed(c)
       \/ MarkExhausted(c) \/ Launch(c) \/ SdkEnds(c) \/ HttpEnds(c) \/ AgentExits(c) \/ Reap(c)
       \/ PipeCloses(c) \/ OnClose(c) \/ DrainFires(c) \/ PollFinds(c) \/ KillAgent(c)
       \/ RetryCall(c)
  \/ \E l \in LoginIds : CheckLogin(l)
  \/ MarkLogin \/ CallsTick

\* Timeouts and timers fire; what was killed dies; Node reaps a child it has a pipe to.
\* Nothing is assumed of a running agent, of descendants, or of the exit of a detached child.
CallProgress(c) ==
  \/ KillAgent(c)
  \/ process[c] = "killed" /\ (AgentExits(c) \/ SdkEnds(c) \/ HttpEnds(c))
  \/ kind[c] = "piped" /\ Reap(c)
  \/ DrainFires(c) \/ PollFinds(c)

CallsFair == \A c \in Calls : WF_callsVars(CallProgress(c))

-----------------------------------------------------------------------------
(* Properties *)

\* What the caller is told is how the agent ended: a success is never reported as a failure
\* because the pid vanished before its status was known, short of the grace period passing; and
\* no answer is given while the agent still runs, also after a timeout.
CallVerdict ==
  \A c \in Calls :
    /\ answer[c] = "ok" => exitCode[c] = "zero"
    /\ answer[c] = "failed" /\ exitCode[c] = "zero" => giveUp[c]
    /\ answer[c] \in {"ok", "failed", "limit"} => process[c] \notin {"alive", "killed"}

\* A usage limit that was found stays on record until another call finds one, however often the
\* row is written back by calls that use the account and by login checks; only a writer that had
\* read the row before the mark was made may take it away.
MarksKept == \A l \in LoginIds : l \in overlapped \/ until[l] = marked[l]

CallsInv == CallsTypeOK /\ CallVerdict /\ MarksKept

\* An invocation ends, whatever the agent does: by its exit, by the drain of a pipe that a
\* descendant holds open, by the liveness poll, or by its timeout.
CallsSettle == \A c \in Calls : callAt[c] = "run" ~> callAt[c] # "run"
=============================================================================

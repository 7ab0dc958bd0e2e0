----------------------------- MODULE ChatTools ------------------------------
(***************************************************************************)
(* The browser calls of agents: the tools of a chat turn on the SDK and    *)
(* HTTP lanes (src/chat/tools.ts), the same tools behind the MCP server    *)
(* (src/mcp/server.ts), the grants both are checked against                *)
(* (src/browser/grants.ts) and the ledger that brings what a CLI agent did *)
(* over MCP into the chat turn that started it (browser/pending-grants.ts).*)
(*                                                                         *)
(* A call asks for its grant across an await and then takes a one-shot     *)
(* allowance in the same step; calls run in parallel.  A CLI agent reaches *)
(* MCP as another actor than its turn, so a call is stamped with the turn  *)
(* begun last.                                                             *)
(*                                                                         *)
(* Abstracted: what the browser does with a batch (BrowserChannel), its    *)
(* steps and their validation, texts; a call's origin stands for the batch.*)
(***************************************************************************)
EXTENDS Naturals, Sequences, FiniteSets, SequencesExt

CONSTANTS
  ToolCalls,     \* browser calls: tool calls of a chat turn, or calls over MCP
  McpCalls,      \* those over MCP, which have no session of their own
  ToolSession,   \* the chat session of each of the others
  ToolOrigin,    \* the origin a call wants to act on; "none": it only reads
  ToolSessions,  \* chat sessions
  AlwaysAllow,   \* clicks on Always allow: a function to origins
  OnceClicks     \* bound: clicks on Allow once for one session and origin

ASSUME ToolsAssumption ==
  /\ McpCalls \subseteq ToolCalls /\ OnceClicks \in Nat
  /\ ToolSession \in [ToolCalls \ McpCalls -> ToolSessions]
  /\ DOMAIN ToolOrigin = ToolCalls
  /\ "none" \notin ToolSessions /\ "unstamped" \notin ToolSessions

VARIABLES
  callNow,     \* where a call is
  permit,      \* what an act was let through by: "standing" or "once"
  browserGrants, \* the origins of the stored list of act grants
  allowAt,     \* a click on Always allow, and the list it read
  once,        \* the one-shot allowances: "live" or "expired"
  given,       \* history: clicks on Allow once
  everAllowed, \* history: the origins somebody allowed for always
  runningCli,  \* the sessions with a CLI turn running, oldest first
  ledger,      \* the recorded MCP calls: of a session, or of none
  aged,        \* those recorded longer ago than the ledger keeps them
  shown,       \* the session a recorded call was shown in
  threw        \* the sessions whose last CLI turn threw and drained nothing

toolsVars == <<callNow, permit, browserGrants, allowAt, once, given, everAllowed, runningCli, ledger, aged, shown, threw>>

ActOrigins == ({ToolOrigin[c] : c \in ToolCalls} \ {"none"}) \cup Range(AlwaysAllow)
OnceKey(c) == <<ToolSession[c], ToolOrigin[c]>>
OnceKeys == {OnceKey(c) : c \in {d \in ToolCalls \ McpCalls : ToolOrigin[d] # "none"}}

ToolsTypeOK ==
  /\ callNow \in [ToolCalls -> {"new", "ask", "sent", "refused", "over"}]
  /\ permit \in [ToolCalls -> {"none", "standing", "once"}]
  /\ browserGrants \subseteq ActOrigins /\ everAllowed \subseteq ActOrigins
  /\ \A a \in DOMAIN AlwaysAllow :
       allowAt[a] \in [at : {"new", "write", "done"}, read : SUBSET ActOrigins]
  /\ once \in [OnceKeys -> {"none", "live", "expired"}]
  /\ given \in [OnceKeys -> 0..OnceClicks]
  /\ runningCli \in Seq(ToolSessions) /\ IsInjective(runningCli)
  /\ ledger \in [McpCalls -> ToolSessions \cup {"none", "unstamped"}] \* "none": not in the ledger
  /\ aged \subseteq McpCalls /\ threw \subseteq ToolSessions
  /\ shown \in [McpCalls -> ToolSessions \cup {"none"}]

ToolsInit ==
  /\ callNow = [c \in ToolCalls |-> "new"] /\ permit = [c \in ToolCalls |-> "none"]
  /\ browserGrants = {} /\ everAllowed = {}
  /\ allowAt = [a \in DOMAIN AlwaysAllow |-> [at |-> "new", read |-> {}]]
  /\ once = [k \in OnceKeys |-> "none"] /\ given = [k \in OnceKeys |-> 0]
  /\ runningCli = <<>> /\ ledger = [c \in McpCalls |-> "none"] /\ aged = {}
  /\ shown = [c \in McpCalls |-> "none"] /\ threw = {}

theLedger == <<runningCli, ledger, aged, shown, threw>>
theGrants == <<browserGrants, allowAt, everAllowed>>

-----------------------------------------------------------------------------
(* A call *)

\* The instance is found and the steps are valid, or the call is over; only an act needs a grant.
CallBrowser(c) ==
  /\ callNow[c] = "new"
  /\ \/ callNow' = [callNow EXCEPT ![c] = IF ToolOrigin[c] = "none" THEN "sent" ELSE "ask"]
     \/ callNow' = [callNow EXCEPT ![c] = "over"]
  /\ UNCHANGED <<permit, theGrants, once, given, theLedger>>

(* Mutant of takeOnce: the allowance is left where it was. *)
takeOnceAgain(c) == UNCHANGED once

\* An allowance is gone once it was looked at, live or expired.
takeOnce(c) == once' = [once EXCEPT ![OnceKey(c)] = "none"]

Standing(c) == ToolOrigin[c] \in browserGrants

\* The stored list was awaited; the one-shot allowance is taken in the step that sees the answer.
HasActGrant(c) ==
  /\ callNow[c] = "ask"
  /\ \/ /\ Standing(c)
        /\ callNow' = [callNow EXCEPT ![c] = "sent"] /\ permit' = [permit EXCEPT ![c] = "standing"]
        /\ UNCHANGED once
     \/ /\ ~Standing(c) /\ c \notin McpCalls
        /\ once[OnceKey(c)] = "live"
        /\ callNow' = [callNow EXCEPT ![c] = "sent"] /\ permit' = [permit EXCEPT ![c] = "once"]
        /\ takeOnce(c)
     \/ /\ ~Standing(c)
        /\ IF c \in McpCalls THEN UNCHANGED once ELSE once[OnceKey(c)] # "live" /\ takeOnce(c)
        /\ callNow' = [callNow EXCEPT ![c] = "refused"] /\ UNCHANGED permit
  /\ UNCHANGED <<theGrants, given, theLedger>>

\* The batch is answered, refused or timed out; over MCP that is recorded under the CLI turn begun last.
EndCall(c) ==
  /\ callNow[c] \in {"sent", "refused"}
  /\ callNow' = [callNow EXCEPT ![c] = "over"]
  /\ ledger' = IF c \in McpCalls
               THEN [ledger EXCEPT ![c] = IF runningCli = <<>> THEN "unstamped" ELSE Last(runningCli)]
               ELSE ledger
  /\ UNCHANGED <<permit, theGrants, once, given, runningCli, aged, shown, threw>>

-----------------------------------------------------------------------------
(* The owner *)

AllowOnce(k) ==
  /\ given[k] < OnceClicks
  /\ once' = [once EXCEPT ![k] = "live"] /\ given' = [given EXCEPT ![k] = @ + 1]
  /\ UNCHANGED <<callNow, permit, theGrants, theLedger>>

OnceExpires(k) ==
  /\ once[k] = "live" /\ once' = [once EXCEPT ![k] = "expired"]
  /\ UNCHANGED <<callNow, permit, theGrants, given, theLedger>>

\* addActGrant reads the whole list, and writes it back with the origin: two statements.
ReadGrants(a) ==
  /\ allowAt[a].at = "new"
  /\ allowAt' = [allowAt EXCEPT ![a] = [at |-> "write", read |-> browserGrants]]
  /\ UNCHANGED <<callNow, permit, browserGrants, everAllowed, once, given, theLedger>>

WriteGrants(a) ==
  /\ allowAt[a].at = "write"
  /\ browserGrants' = allowAt[a].read \cup {AlwaysAllow[a]}
  /\ everAllowed' = everAllowed \cup {AlwaysAllow[a]}
  /\ allowAt' = [allowAt EXCEPT ![a] = [at |-> "done", read |-> {}]]
  /\ UNCHANGED <<callNow, permit, once, given, theLedger>>

\* Settings stores the list anew, without an origin.
RevokeGrant(o) ==
  /\ o \in browserGrants /\ browserGrants' = browserGrants \ {o}
  /\ UNCHANGED <<callNow, permit, allowAt, everAllowed, once, given, theLedger>>

-----------------------------------------------------------------------------
(* A CLI turn *)

beginCliTurn(s) ==
  /\ s \notin ToSet(runningCli) /\ runningCli' = Append(runningCli, s)
  /\ UNCHANGED <<callNow, permit, theGrants, once, given, ledger, aged, shown, threw>>

\* What the ledger has for the session, and what its actor did under no turn in the same
\* millisecond the turn began in; what is too old is dropped, whoever drains.
Drained(s, same) == {c \in McpCalls \ aged : ledger[c] = s} \cup same

\* The process ended, or threw: then nothing is drained, and the next turn of the session does it.
endCliTurn(s) ==
  /\ \E i \in DOMAIN runningCli : runningCli[i] = s /\ runningCli' = RemoveAt(runningCli, i)
  /\ \/ \E same \in SUBSET {c \in McpCalls \ aged : ledger[c] = "unstamped"} :
          LET out == Drained(s, same) IN
            /\ ledger' = [c \in McpCalls |-> IF c \in out \cup aged THEN "none" ELSE ledger[c]]
            /\ shown' = [c \in McpCalls |-> IF c \in out THEN s ELSE shown[c]]
            /\ threw' = threw \ {s}
     \/ threw' = threw \cup {s} /\ UNCHANGED <<ledger, shown>>
  /\ UNCHANGED <<callNow, permit, theGrants, once, given, aged>>

CallAges(c) ==
  /\ ledger[c] # "none" /\ c \notin aged /\ aged' = aged \cup {c}
  /\ UNCHANGED <<callNow, permit, theGrants, once, given, runningCli, ledger, shown, threw>>

-----------------------------------------------------------------------------
ToolsNext ==
  \/ \E c \in ToolCalls : CallBrowser(c) \/ HasActGrant(c) \/ EndCall(c)
  \/ \E k \in OnceKeys : AllowOnce(k) \/ OnceExpires(k)
  \/ \E a \in DOMAIN AlwaysAllow : ReadGrants(a) \/ WriteGrants(a)
  \/ \E o \in ActOrigins : RevokeGrant(o)
  \/ \E s \in ToolSessions : beginCliTurn(s) \/ endCliTurn(s)
  \/ \E c \in McpCalls : CallAges(c)

-----------------------------------------------------------------------------
\* Calls in parallel do not share an allowance: as many acts are let through by one-shot allowances
\* of a session and origin as the owner gave, at most; and an act over MCP, or of an origin nobody
\* ever allowed for always, is let through by none (grants.ts:36-48).
ActsAllowed ==
  /\ \A k \in OnceKeys :
       Cardinality({c \in ToolCalls \ McpCalls : permit[c] = "once" /\ OnceKey(c) = k}) <= given[k]
  /\ \A c \in McpCalls : permit[c] # "once"
  /\ \A c \in ToolCalls : permit[c] = "standing" => ToolOrigin[c] \in everAllowed

\* What a CLI agent did is not left behind: a call stamped with a turn is in the ledger no longer
\* than the turn runs, unless it threw; and it is shown, if at all, in the session of its stamp
\* and then no longer in the ledger (pending-grants.ts:41-66).
CallsShown ==
  \A c \in McpCalls :
    /\ ledger[c] \in ToolSessions /\ c \notin aged => ledger[c] \in ToSet(runningCli) \cup threw
    /\ shown[c] # "none" => ledger[c] = "none" /\ callNow[c] = "over"

ToolsInv == ToolsTypeOK /\ ActsAllowed /\ CallsShown
=============================================================================

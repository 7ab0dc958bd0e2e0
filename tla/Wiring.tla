-------------------------------- MODULE Wiring --------------------------------
(***************************************************************************)
(* How the server writes itself into the configuration of agent CLIs       *)
(* (src/mcp/autowire.ts, clients.ts): at boot and after each bootstrap,    *)
(* lane by lane, it checks, installs an entry with a key, checks again,    *)
(* and in the end flags the lanes in relay.json.                           *)
(*                                                                         *)
(* Lanes of a client share its file.  Passes may overlap, and an operator  *)
(* edits files and flags meanwhile.  An entry is the number of the key it  *)
(* carries, Hand (written by somebody else) or nothing.                    *)
(***************************************************************************)
EXTENDS Integers, FiniteSets, SequencesExt

CONSTANTS
  WireLanes,   \* lanes of relay.json, in the order of the file
  ClientOf,    \* the client of each
  ClientKind,  \* "file" (gemini), "asked" (claude: a file, checked by its program), "named" (kimi) or "other"
  WirePasses,  \* passes of ensureMcpWiring
  WireEdits,   \* bound: what the operator does meanwhile
  LaneKeys     \* bound: keys made

ASSUME WiringAssumption ==
  /\ \A i \in DOMAIN WireLanes : WireLanes[i] \in DOMAIN ClientOf /\ ClientOf[WireLanes[i]] \in DOMAIN ClientKind
  /\ WireEdits \in Nat /\ LaneKeys \in Nat

Clients == DOMAIN ClientKind
Lanes == ToSet(WireLanes)
None == 0
Hand == -1
Broken == -2

VARIABLES
  entry,    \* per client: its entry, Broken when its file is no JSON
  copied,   \* per client: what the copy of its file holds
  laneKey,  \* the setting mcp.laneKey: a key or None
  keyCount, \* keys made so far
  flag,     \* per lane, agent.mcp of relay.json: unset, yes or no
  pass,     \* per pass: where it is, the places of the lanes before it and of the one it is at, what
            \* it read, its key, why it installs, and the lanes to flag
  twoKeys,  \* history: a key was stored while another pass, that had found none either, made its own
  replaced, \* history: entries of others the server replaced, and why
  optOut,   \* history, per lane: no opt-out yet, one under a pass, or one that met none
  wireEdits \* the operator's steps so far

wiringVars == <<entry, copied, laneKey, keyCount, flag, pass, twoKeys, replaced, optOut, wireEdits>>
filesVars == <<entry, copied, replaced>>
keyVars == <<laneKey, keyCount, twoKeys>>

NoPass == [at |-> "off", todo |-> {}, on |-> 0, optedIn |-> {}, key |-> None, flagged |-> {}, why |-> ""]
WireKind(l) == ClientKind[ClientOf[l]]
FileBased(l) == WireKind(l) \in {"file", "asked"}

WiringInit ==
  /\ entry \in [Clients -> {None, Hand, Broken}] /\ \A c \in Clients :
       (ClientKind[c] = "named" => entry[c] # Broken) /\ (ClientKind[c] = "other" => entry[c] = None)
  /\ copied = [c \in Clients |-> None] /\ laneKey = None /\ keyCount = 0
  /\ flag = [l \in Lanes |-> "unset"] /\ pass = [w \in WirePasses |-> NoPass]
  /\ twoKeys = FALSE /\ replaced = {} /\ optOut = [l \in Lanes |-> "none"] /\ wireEdits = 0

-------------------------------------------------------------------------------
(* A pass.  Each check asks a program or the database.                      *)

Lane(w) == WireLanes[pass[w].on]
NextLane(w, flagged) ==
  pass' = [pass EXCEPT ![w].on = 0, ![w].flagged = @ \cup flagged, ![w].at = "lane", ![w].why = ""]

\* loadRelayConfig: what the flags were is kept. Lanes that opted out, run no
\* program or one that cannot be asked are left out.
ensureMcpWiring(w) ==
  /\ pass[w] = NoPass
  /\ LET wanted(l) == flag[l] # "no" /\ WireKind(l) # "other" IN
       pass' = [pass EXCEPT ![w] = [NoPass EXCEPT !.at = "lane", !.todo = {i \in DOMAIN WireLanes : wanted(WireLanes[i])},
                                                  !.optedIn = {l \in Lanes : flag[l] = "yes"}]]
  /\ UNCHANGED <<filesVars, keyVars, flag, optOut, wireEdits>>

\* mcpRegistration: by name only; a program that fails or takes too long has no server.
Registered(l) == entry[ClientOf[l]] \in {Hand} \cup 1..keyCount
Answers(l) == IF WireKind(l) \in {"asked", "named"} THEN {Registered(l), FALSE} ELSE {Registered(l)}

\* A lane that is registered is flagged, unless its file holds another entry than the stored key's.
CheckLane(w) ==
  /\ pass[w].at = "lane"
  /\ \E i \in pass[w].todo :
       /\ \A j \in pass[w].todo : i <= j
       /\ \E known \in Answers(WireLanes[i]) :
            pass' = [pass EXCEPT
                       ![w].at = IF known THEN "known" ELSE "install", ![w].on = i, ![w].todo = @ \ {i},
                       ![w].why = IF known THEN "" ELSE IF Registered(WireLanes[i]) THEN "unanswered" ELSE "absent"]
  /\ UNCHANGED <<filesVars, keyVars, flag, optOut, wireEdits>>

clientEntryCurrent(w) ==
  /\ pass[w].at = "known"
  /\ IF FileBased(Lane(w)) /\ laneKey # None /\ entry[ClientOf[Lane(w)]] # laneKey
     THEN pass' = [pass EXCEPT ![w].at = "install", ![w].why = IF laneKey # None THEN "stored" ELSE "none"]
     ELSE NextLane(w, {Lane(w)} \ pass[w].optedIn)
  /\ UNCHANGED <<filesVars, keyVars, flag, optOut, wireEdits>>

\* laneKey: the stored key, or a new actor's, once per pass.
ReadKey(w) ==
  /\ pass[w].at = "install"
  /\ pass' = [pass EXCEPT ![w].at = IF pass[w].key # None \/ laneKey # None THEN "write" ELSE "make",
                          ![w].key = IF @ # None THEN @ ELSE laneKey]
  /\ UNCHANGED <<filesVars, keyVars, flag, optOut, wireEdits>>

createActor(w) ==
  /\ pass[w].at = "make" /\ keyCount < LaneKeys
  /\ keyCount' = keyCount + 1 /\ pass' = [pass EXCEPT ![w].at = "store", ![w].key = keyCount + 1]
  /\ UNCHANGED <<filesVars, laneKey, twoKeys, flag, optOut, wireEdits>>

StoreKey(w) ==
  /\ pass[w].at = "store"
  /\ laneKey' = pass[w].key /\ twoKeys' = (twoKeys \/ \E v \in WirePasses \ {w} : pass[v].at \in {"make", "store"})
  /\ pass' = [pass EXCEPT ![w].at = "write"]
  /\ UNCHANGED <<filesVars, keyCount, flag, optOut, wireEdits>>

\* installClientConfig: a file that is no JSON is left; the first write of all copies the file.
Install(c, k, why) ==
  /\ entry' = [entry EXCEPT ![c] = k]
  /\ copied' = [copied EXCEPT ![c] = IF @ = None /\ ClientKind[c] # "named" /\ entry[c] # None THEN entry[c] ELSE @]
  /\ replaced' = IF entry[c] < None THEN replaced \cup {[client |-> c, was |-> entry[c], why |-> why]} ELSE replaced

InstallClient(w) ==
  LET l == Lane(w)
      c == ClientOf[l]
  IN  /\ pass[w].at = "write"
      /\ \/ entry[c] = Broken /\ NextLane(w, {}) /\ UNCHANGED filesVars
         \/ WireKind(l) = "named" /\ NextLane(w, {}) /\ UNCHANGED filesVars   \* kimi mcp add fails
         \/ /\ entry[c] # Broken
            /\ Install(c, pass[w].key, pass[w].why)
            /\ pass' = [pass EXCEPT ![w].at = "again"]
      /\ UNCHANGED <<keyVars, flag, optOut, wireEdits>>

CheckAgain(w) ==
  /\ pass[w].at = "again"
  /\ \E known \in Answers(Lane(w)) : NextLane(w, IF known THEN {Lane(w)} ELSE {})
  /\ UNCHANGED <<filesVars, keyVars, flag, optOut, wireEdits>>

\* The file is loaded afresh, and the flags set whatever they are by now.
FlagLanes(w) ==
  /\ pass[w].at = "lane" /\ pass[w].todo = {}
  /\ flag' = [l \in Lanes |-> IF l \in pass[w].flagged THEN "yes" ELSE flag[l]]
  /\ pass' = [pass EXCEPT ![w].at = "done"]
  /\ UNCHANGED <<filesVars, keyVars, optOut, wireEdits>>

-------------------------------------------------------------------------------
(* The operator.                                                            *)

Edit == wireEdits < WireEdits /\ wireEdits' = wireEdits + 1

OptOut(l) ==
  /\ Edit /\ flag[l] # "no" /\ WireKind(l) # "other" /\ flag' = [flag EXCEPT ![l] = "no"]
  /\ LET met == \E w \in WirePasses : pass[w].at \notin {"off", "done"} IN
       optOut' = [optOut EXCEPT ![l] = IF met THEN "crossed" ELSE "quiet"]
  /\ UNCHANGED <<filesVars, keyVars, pass>>

RegisterByHand(c) ==
  /\ Edit /\ entry[c] # Hand /\ ClientKind[c] # "other" /\ entry' = [entry EXCEPT ![c] = Hand]
  /\ UNCHANGED <<copied, replaced, keyVars, flag, pass, optOut>>

WiringNext ==
  \/ \E w \in WirePasses :
       \/ ensureMcpWiring(w) \/ CheckLane(w) \/ clientEntryCurrent(w) \/ ReadKey(w) \/ createActor(w)
       \/ StoreKey(w) \/ InstallClient(w) \/ CheckAgain(w) \/ FlagLanes(w)
  \/ \E l \in Lanes : OptOut(l)
  \/ \E c \in Clients : RegisterByHand(c)

-------------------------------------------------------------------------------
WiringTypeOK ==
  /\ entry \in [Clients -> {None, Hand, Broken} \cup 1..LaneKeys] /\ laneKey \in 0..LaneKeys
  /\ flag \in [Lanes -> {"unset", "yes", "no"}] /\ \A w \in WirePasses : pass[w].key \in 0..LaneKeys

\* Every entry the server wrote carries the stored key, and no other key is about (autowire.ts:49-52);
\* but of two passes that both find none stored, the later key wins and the earlier stays in use.
OneLaneKey ==
  ~twoKeys =>
    /\ \A c \in Clients : entry[c] > 0 => entry[c] = laneKey
    /\ \A w \in WirePasses : pass[w].at = "write" => pass[w].key = laneKey

\* An opt-out is kept (autowire.ts:69); one that comes while a pass is on is overwritten at its end.
OptOutKept == \A l \in Lanes : optOut[l] = "quiet" => flag[l] = "no"

\* A hand-registered entry is left alone (autowire.ts:81-82), unless there is a stored key to compare it
\* with, the client's program did not answer, or it was written while a pass found none; and what is
\* replaced in a file is in its copy, or an older state of the file is.  A file that is no JSON is not written (clients.ts:50-52).
HandKept ==
  \A r \in replaced :
    /\ r.was = Hand
    /\ r.why # "none"
    /\ r.why = "unanswered" => ClientKind[r.client] \in {"asked", "named"}
    /\ r.why = "absent" => wireEdits > 0
    /\ ClientKind[r.client] # "named" => copied[r.client] # None

WiringInv == WiringTypeOK /\ OneLaneKey /\ OptOutKept /\ HandKept
==============================================================================

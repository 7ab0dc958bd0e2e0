--------------------------------- MODULE Laya ---------------------------------
(***************************************************************************)
(* Laya, a model in a process of its own that answers structured questions *)
(* on the path of requests (src/laya/client.ts).                           *)
(*                                                                         *)
(* One process is shared by all calls, kept while it is used and closed    *)
(* some minutes after.  Its connection is a promise in a variable, which   *)
(* connecting, failing and closeWanted write; connections are numbered here in *)
(* the order in which they were begun.                                     *)
(***************************************************************************)
EXTENDS Integers, FiniteSets

CONSTANTS
  LayaCalls,       \* calls of layaDecide
  LayaConnections  \* bound: connections to Laya

ASSUME LayaAssumption == LayaConnections \in Nat /\ IsFiniteSet(LayaCalls)

VARIABLES
  decide,     \* per call: where it is, the connection it waits for, what it was told
  connection, \* per connection: unused, starting, open, dead (its process died), failed or closed
  closeWanted,    \* connections that are closed as soon as they are open
  current,    \* clientPromise: a connection or 0
  inflight,   \* the counter of calls
  idleTimer,  \* is the timer that closes an idle Laya armed
  shutdown    \* the server has closed Laya on its way out

layaVars == <<decide, connection, closeWanted, current, inflight, idleTimer, shutdown>>

ConnectionIds == 1..LayaConnections
NotAsked == [at |-> "unasked", on |-> 0]
Underway(c) == decide[c].at \in {"connect", "asked"}
UnderwayOn(k) == {c \in LayaCalls : Underway(c) /\ decide[c].on = k}
Alive(k) == connection[k] \in {"starting", "open"}

LayaInit ==
  /\ decide = [c \in LayaCalls |-> NotAsked] /\ connection = [k \in ConnectionIds |-> "unused"]
  /\ closeWanted = {} /\ current = 0 /\ inflight = 0 /\ idleTimer = FALSE /\ shutdown = FALSE

-------------------------------------------------------------------------------
\* The finally of layaDecide, for some calls at once: counted off, and the idle timer armed.
Decided(cs, verdict) ==
  /\ decide' = [c \in LayaCalls |-> IF c \in cs THEN [at |-> verdict, on |-> 0] ELSE decide[c]]
  /\ inflight' = inflight - Cardinality(cs)
  /\ idleTimer' = (idleTimer \/ cs # {})

\* load: the connection there is, or a new one.
layaDecide(c) ==
  /\ decide[c] = NotAsked
  /\ inflight' = inflight + 1
  /\ IF current # 0
     THEN /\ decide' = [decide EXCEPT ![c] = [at |-> IF connection[current] = "starting" THEN "connect" ELSE "asked",
                                              on |-> current]]
          /\ UNCHANGED <<connection, current>>
     ELSE \E k \in ConnectionIds :
            /\ connection[k] = "unused" /\ \A j \in 1..(k - 1) : connection[j] # "unused"
            /\ connection' = [connection EXCEPT ![k] = "starting"] /\ current' = k
            /\ decide' = [decide EXCEPT ![c] = [at |-> "connect", on |-> k]]
  /\ UNCHANGED <<closeWanted, idleTimer, shutdown>>

\* Only now is the deadline of a call armed.
Connected(k) ==
  /\ connection[k] = "starting"
  /\ connection' = [connection EXCEPT ![k] = IF k \in closeWanted THEN "closed" ELSE "open"]
  /\ decide' = [c \in LayaCalls |-> IF c \in UnderwayOn(k) THEN [decide[c] EXCEPT !.at = "asked"] ELSE decide[c]]
  /\ UNCHANGED <<closeWanted, current, inflight, idleTimer, shutdown>>

\* Forgotten, whichever connection clientPromise stands for by now.
ConnectFails(k) ==
  /\ connection[k] = "starting"
  /\ connection' = [connection EXCEPT ![k] = "failed"] /\ current' = 0
  /\ Decided(UnderwayOn(k), "null")
  /\ UNCHANGED <<closeWanted, shutdown>>

\* The model answers, or says nothing of use; a connection that is gone rejects the call, and a deadline
\* gives up on it.
ModelDecides(c) ==
  /\ decide[c].at = "asked" /\ connection[decide[c].on] = "open"
  /\ \E verdict \in {"decided", "null"} : Decided({c}, verdict)
  /\ UNCHANGED <<connection, closeWanted, current, shutdown>>

GivesUp(c) ==
  /\ decide[c].at = "asked"
  /\ Decided({c}, "null")
  /\ UNCHANGED <<connection, closeWanted, current, shutdown>>

\* The connection stays the current one: later calls fail on it.
ModelDies(k) ==
  /\ connection[k] = "open" /\ connection' = [connection EXCEPT ![k] = "dead"]
  /\ UNCHANGED <<decide, closeWanted, current, inflight, idleTimer, shutdown>>

closeLaya ==
  /\ current' = 0 /\ idleTimer' = FALSE
  /\ IF current = 0 THEN UNCHANGED <<connection, closeWanted>>
     ELSE IF connection[current] = "starting" THEN closeWanted' = closeWanted \cup {current} /\ UNCHANGED connection
     ELSE connection' = [connection EXCEPT ![current] = "closed"] /\ UNCHANGED closeWanted

IdleFires ==
  /\ idleTimer
  /\ IF inflight = 0 THEN closeLaya ELSE idleTimer' = FALSE /\ UNCHANGED <<connection, closeWanted, current>>
  /\ UNCHANGED <<decide, inflight, shutdown>>

\* beforeClose of the server; requests may still be on their way.
ShutdownCloses ==
  /\ ~shutdown /\ shutdown' = TRUE /\ closeLaya
  /\ UNCHANGED <<decide, inflight>>

LayaNext ==
  \/ \E c \in LayaCalls : layaDecide(c) \/ ModelDecides(c) \/ GivesUp(c)
  \/ \E k \in ConnectionIds : Connected(k) \/ ConnectFails(k) \/ ModelDies(k)
  \/ IdleFires \/ ShutdownCloses

-------------------------------------------------------------------------------
LayaTypeOK ==
  /\ connection \in [ConnectionIds -> {"unused", "starting", "open", "dead", "failed", "closed"}]
  /\ current \in ConnectionIds \cup {0} /\ closeWanted \subseteq ConnectionIds /\ inflight \in 0..Cardinality(LayaCalls)

\* The memory of a model is given back: no process runs that clientPromise has lost sight of, so that
\* there is one at most, and one that nobody asks has the timer on it (client.ts:33-37), however calls
\* ended.  A call that comes when the server has closed Laya on its way out may start one that is lost.
LayaGivenBack ==
  /\ \A k \in ConnectionIds : Alive(k) => k = current \/ shutdown
  /\ current # 0 /\ inflight = 0 => idleTimer

\* The idle timer never closes Laya under a call, which the counter of calls is for (client.ts:29, 153).
NotClosedUnderCall ==
  /\ inflight = Cardinality({c \in LayaCalls : Underway(c)})
  /\ \A c \in LayaCalls : decide[c].at = "asked" /\ connection[decide[c].on] = "closed" => shutdown

LayaInv == LayaTypeOK /\ LayaGivenBack /\ NotClosedUnderCall
===============================================================================

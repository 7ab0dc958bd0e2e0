--------------------------- MODULE BrowserChannel ---------------------------
(***************************************************************************)
(* The channel between the server and the browser extension: the queue and *)
(* long poll of src/browser/channel.ts, the routes in front of it          *)
(* (src/api/browser-routes.ts), and the service worker that polls it       *)
(* (extension/worker.js), for one browser profile.                         *)
(*                                                                         *)
(* The server runs on one event loop: an action is what happens between    *)
(* two of its awaits.  Chrome may kill the worker, connections drop        *)
(* without the server noticing, results get lost, the server may restart.  *)
(* Timers fire at any time, except that a held poll (25 s) keeps its       *)
(* instance from expiring (90 s).                                          *)
(*                                                                         *)
(* Abstracted: what a batch does to a page; API keys; back-off times; how  *)
(* a caller picks an instance.                                             *)
(***************************************************************************)
EXTENDS Naturals, Sequences, FiniteSets, SequencesExt

CONSTANTS
  Batches,      \* calls of POST /browser/batches and of the chat and MCP tools
  Acts,         \* those that need a grant and pass the risk screen
  None,
  MaxInstances, \* bound: registrations
  MaxDeaths,    \* bound: how often Chrome kills the worker
  MaxRestarts,  \* bound: how often the server restarts
  Relinks       \* TRUE: the options page may ask the worker to register again

ASSUME ChannelAssumption ==
  /\ None \notin Batches /\ None \notin Nat
  /\ Acts \subseteq Batches
  /\ MaxInstances \in Nat /\ MaxDeaths \in Nat /\ MaxRestarts \in Nat
  /\ Relinks \in BOOLEAN

VARIABLES
  registered, \* number of instances so far; they are 1..registered
  fresh,      \* instances the server knows and has seen within the TTL
  queue,      \* per instance, batches to deliver
  inFlight,   \* per instance, the batch delivered and not yet answered
  waiter,     \* per instance: no poll, a "held" one, or one whose client is gone
  asked,      \* per batch: where its call is
  target,     \* per batch, the instance it is for
  worker,     \* what the service worker is doing
  id,         \* the worker's instanceId
  job,        \* the batch the worker executes
  runs,       \* history: how often each batch was executed
  deaths, restarts

server == <<registered, fresh, queue, inFlight, waiter>>
calls  == <<asked, target>>
client == <<worker, id, job, runs>>
bounds == <<deaths, restarts>>
vars   == <<server, calls, client, bounds>>

Instances == 1..MaxInstances
Ended     == {"result", "timeout", "refused", "lost"}

TypeOK ==
  /\ registered \in 0..MaxInstances
  /\ fresh \subseteq 1..registered
  /\ queue \in [Instances -> Seq(Batches)]
  /\ inFlight \in [Instances -> Batches \cup {None}]
  /\ waiter \in [Instances -> {"none", "held", "gone"}]
  /\ asked \in [Batches -> {"new", "grant", "screen", "sent"} \cup Ended]
  /\ target \in [Batches -> Instances \cup {None}]
  /\ worker \in {"dead", "idle", "polling", "busy", "posting"}
  /\ id \in Instances \cup {None}
  /\ job \in Batches \cup {None}
  /\ runs \in [Batches -> 0..2]
  /\ deaths \in 0..MaxDeaths /\ restarts \in 0..MaxRestarts

Init ==
  /\ registered = 0 /\ fresh = {}
  /\ queue = [i \in Instances |-> <<>>]
  /\ inFlight = [i \in Instances |-> None]
  /\ waiter = [i \in Instances |-> "none"]
  /\ asked = [b \in Batches |-> "new"]
  /\ target = [b \in Batches |-> None]
  /\ worker = "idle" /\ id = None /\ job = None
  /\ runs = [b \in Batches |-> 0]
  /\ deaths = 0 /\ restarts = 0

-----------------------------------------------------------------------------
(* Delivery *)

\* The head of q goes in flight at i, to a worker that listens or to nobody; w and j
\* are the state of the worker otherwise.
Deliver(i, q, listening, w, j) ==
  /\ queue' = [queue EXCEPT ![i] = Tail(q)]
  /\ inFlight' = [inFlight EXCEPT ![i] = Head(q)]
  /\ worker' = IF listening THEN "busy" ELSE w
  /\ job' = IF listening THEN Head(q) ELSE j

\* pump, once q and f are the queue and the batch in flight of i.
Pump(i, q, f, w, j) ==
  IF f = None /\ waiter[i] # "none" /\ q # <<>>
  THEN /\ Deliver(i, q, waiter[i] = "held", w, j)
       /\ waiter' = [waiter EXCEPT ![i] = "none"]
  ELSE /\ queue' = [queue EXCEPT ![i] = q]
       /\ inFlight' = [inFlight EXCEPT ![i] = f]
       /\ worker' = w /\ job' = j
       /\ UNCHANGED waiter

\* A poll nobody listens to any more; the server does not notice.
Abandon == waiter' = IF worker = "polling" THEN [waiter EXCEPT ![id] = "gone"] ELSE waiter

-----------------------------------------------------------------------------
(* The caller's side *)

Enqueue(b, i) ==
  /\ asked' = [asked EXCEPT ![b] = "sent"]
  /\ Pump(i, Append(queue[i], b), inFlight[i], worker, job)

\* The route finds the instance; without it, 404.  A read-only batch is enqueued at
\* once, one that acts has its grant looked up first.
Ask(b) ==
  /\ asked[b] = "new"
  /\ \E i \in 1..registered :
       /\ target' = [target EXCEPT ![b] = i]
       /\ \/ /\ i \notin fresh
             /\ asked' = [asked EXCEPT ![b] = "refused"]
             /\ UNCHANGED <<queue, inFlight, waiter, worker, job>>
          \/ /\ i \in fresh /\ b \in Acts
             /\ asked' = [asked EXCEPT ![b] = "grant"]
             /\ UNCHANGED <<queue, inFlight, waiter, worker, job>>
          \/ i \in fresh /\ b \notin Acts /\ Enqueue(b, i)
  /\ UNCHANGED <<registered, fresh, id, runs, bounds>>

\* hasActGrant is back: 403 without a grant; submitBatch gives up at once on an instance
\* that expired meanwhile; else the risk screen is asked.
Grant(b) ==
  /\ asked[b] = "grant"
  /\ \/ asked' = [asked EXCEPT ![b] = "refused"]
     \/ asked' = [asked EXCEPT ![b] = IF target[b] \in fresh THEN "screen" ELSE "timeout"]
  /\ UNCHANGED <<server, target, client, bounds>>

\* actRiskRefusal is back.  The instance is not looked at again.
Screen(b) ==
  /\ asked[b] = "screen"
  /\ \/ /\ asked' = [asked EXCEPT ![b] = "refused"]
        /\ UNCHANGED <<queue, inFlight, waiter, worker, job>>
     \/ Enqueue(b, target[b])
  /\ UNCHANGED <<registered, fresh, target, id, runs, bounds>>

(* Mutant of BatchTimeout: a batch in flight stays in flight. *)
TimeoutWhileQueued(b) ==
  /\ asked[b] = "sent"
  /\ asked' = [asked EXCEPT ![b] = "timeout"]
  /\ LET i == target[b] IN Pump(i, RemoveFirst(queue[i], b), inFlight[i], worker, job)
  /\ UNCHANGED <<registered, fresh, target, id, runs, bounds>>

(* Mutant of BatchTimeout: the next batch is not pumped. *)
TimeoutWithoutPump(b) ==
  /\ asked[b] = "sent"
  /\ asked' = [asked EXCEPT ![b] = "timeout"]
  /\ LET i == target[b] IN
     IF inFlight[i] = b THEN inFlight' = [inFlight EXCEPT ![i] = None] /\ UNCHANGED queue
                        ELSE queue' = [queue EXCEPT ![i] = RemoveFirst(@, b)] /\ UNCHANGED inFlight
  /\ UNCHANGED <<registered, fresh, waiter, target, client, bounds>>

\* The batch's timer: it leaves the queue or the slot in flight, and the next one flows.
BatchTimeout(b) ==
  /\ asked[b] = "sent"
  /\ asked' = [asked EXCEPT ![b] = "timeout"]
  /\ LET i == target[b] IN
     IF inFlight[i] = b THEN Pump(i, queue[i], None, worker, job)
                        ELSE Pump(i, RemoveFirst(queue[i], b), inFlight[i], worker, job)
  /\ UNCHANGED <<registered, fresh, target, id, runs, bounds>>

-----------------------------------------------------------------------------
(* The service worker *)

\* A worker without instanceId registers before it polls.
Register ==
  /\ worker = "idle" /\ id = None /\ registered < MaxInstances
  /\ registered' = registered + 1
  /\ id' = registered + 1
  /\ fresh' = fresh \cup {registered + 1}
  /\ UNCHANGED <<queue, inFlight, waiter, calls, worker, job, runs, bounds>>

\* 404 from the poll: the instance expired or the server forgot it.
PollUnknown ==
  /\ worker = "idle" /\ id # None /\ id \notin fresh
  /\ id' = None
  /\ UNCHANGED <<server, calls, worker, job, runs, bounds>>

(* Mutant of Poll: the batch delivered at once stays in the queue. *)
PollPeeks ==
  /\ worker = "idle" /\ id \in fresh
  /\ IF inFlight[id] = None /\ queue[id] # <<>>
     THEN /\ Deliver(id, <<Head(queue[id])>> \o queue[id], TRUE, worker, job)
          /\ UNCHANGED waiter
     ELSE /\ waiter' = [waiter EXCEPT ![id] = "held"]
          /\ worker' = "polling"
          /\ UNCHANGED <<queue, inFlight, job>>
  /\ UNCHANGED <<registered, fresh, calls, id, runs, bounds>>

\* nextBatch: a queued batch at once, unless another is in flight; else the poll is
\* held, in the place of an earlier one.
Poll ==
  /\ worker = "idle" /\ id \in fresh
  /\ IF inFlight[id] = None /\ queue[id] # <<>>
     THEN /\ Deliver(id, queue[id], TRUE, worker, job)
          /\ UNCHANGED waiter
     ELSE /\ waiter' = [waiter EXCEPT ![id] = "held"]
          /\ worker' = "polling"
          /\ UNCHANGED <<queue, inFlight, job>>
  /\ UNCHANGED <<registered, fresh, calls, id, runs, bounds>>

\* 204 after 25 s.
PollTimeout(i) ==
  /\ waiter[i] # "none"
  /\ waiter' = [waiter EXCEPT ![i] = "none"]
  /\ worker' = IF waiter[i] = "held" THEN "idle" ELSE worker
  /\ UNCHANGED <<registered, fresh, queue, inFlight, calls, id, job, runs, bounds>>

\* The connection of the poll breaks (sleep, network); the worker polls again.
PollDrops ==
  /\ worker = "polling"
  /\ Abandon
  /\ worker' = "idle"
  /\ UNCHANGED <<registered, fresh, queue, inFlight, calls, id, job, runs, bounds>>

\* The options page saved a key: the worker forgets its instance and cuts its poll.
Relink ==
  /\ Relinks /\ worker # "dead" /\ id # None
  /\ Abandon
  /\ id' = None
  /\ worker' = IF worker = "polling" THEN "idle" ELSE worker
  /\ UNCHANGED <<registered, fresh, queue, inFlight, calls, job, runs, bounds>>

Execute ==
  /\ worker = "busy"
  /\ runs' = [runs EXCEPT ![job] = @ + 1]
  /\ worker' = "posting"
  /\ UNCHANGED <<server, calls, id, job, bounds>>

\* submitResult: the batch that is still in flight is answered, its instance counts as
\* seen, and the next one flows.
Post ==
  /\ worker = "posting"
  /\ \E i \in Instances :
       /\ inFlight[i] = job
       /\ asked' = [asked EXCEPT ![job] = "result"]
       /\ fresh' = fresh \cup {i}
       /\ Pump(i, queue[i], None, "idle", None)
  /\ UNCHANGED <<registered, target, id, runs, bounds>>

\* The result does not arrive, or comes too late: 404.
PostFails ==
  /\ worker = "posting"
  /\ worker' = "idle" /\ job' = None
  /\ UNCHANGED <<server, calls, id, runs, bounds>>

\* Chrome kills the worker.
Die ==
  /\ worker # "dead" /\ deaths < MaxDeaths
  /\ deaths' = deaths + 1
  /\ Abandon
  /\ worker' = "dead" /\ job' = None
  /\ UNCHANGED <<registered, fresh, queue, inFlight, calls, id, runs, restarts>>

\* The alarm starts a new worker, which begins with no instanceId: the stored one is
\* never read.
Wake ==
  /\ worker = "dead"
  /\ worker' = "idle" /\ id' = None
  /\ UNCHANGED <<server, calls, job, runs, bounds>>

-----------------------------------------------------------------------------
(* Time, restarts *)

\* No poll and no result from i for the whole TTL.
Expire(i) ==
  /\ i \in fresh /\ waiter[i] = "none"
  /\ fresh' = fresh \ {i}
  /\ UNCHANGED <<registered, queue, inFlight, waiter, calls, client, bounds>>

\* The server loses the instances, the callers their connections.
Restart ==
  /\ restarts < MaxRestarts
  /\ restarts' = restarts + 1
  /\ fresh' = {}
  /\ queue' = [i \in Instances |-> <<>>]
  /\ inFlight' = [i \in Instances |-> None]
  /\ waiter' = [i \in Instances |-> "none"]
  /\ asked' = [b \in Batches |-> IF asked[b] \in {"new"} \cup Ended THEN asked[b] ELSE "lost"]
  /\ worker' = IF worker = "polling" THEN "idle" ELSE worker
  /\ UNCHANGED <<registered, target, id, job, runs, deaths>>

-----------------------------------------------------------------------------
(* Specification *)

Next ==
  \/ \E b \in Batches : Ask(b) \/ Grant(b) \/ Screen(b) \/ BatchTimeout(b)
  \/ Register \/ PollUnknown \/ Poll \/ PollDrops \/ Relink
  \/ Execute \/ Post \/ PostFails \/ Die \/ Wake
  \/ \E i \in Instances : PollTimeout(i) \/ Expire(i)
  \/ Restart

\* The database and the classifier answer, and the timers of batches fire.
Fairness == \A b \in Batches : WF_vars(Grant(b)) /\ WF_vars(Screen(b)) /\ WF_vars(BatchTimeout(b))

Spec == Init /\ [][Next]_vars /\ Fairness

-----------------------------------------------------------------------------
(* Properties *)

\* A call that waits for its result is in exactly one place, once, and nothing else is:
\* "timeout leaves the queue consistent" (submitBatch).
Placed ==
  /\ \A i \in Instances :
       /\ \A k \in DOMAIN queue[i] : asked[queue[i][k]] = "sent" /\ target[queue[i][k]] = i
       /\ \A k, l \in DOMAIN queue[i] : queue[i][k] = queue[i][l] => k = l
       /\ inFlight[i] # None =>
            /\ asked[inFlight[i]] = "sent" /\ target[inFlight[i]] = i
            /\ \A k \in DOMAIN queue[i] : queue[i][k] # inFlight[i]
  /\ \A b \in Batches : asked[b] = "sent" =>
       inFlight[target[b]] = b \/ \E k \in DOMAIN queue[target[b]] : queue[target[b]][k] = b

\* A poll never waits next to a queued batch unless another batch is in flight: no path
\* that frees the slot forgets to pump.
PumpedOut ==
  \A i \in Instances : waiter[i] # "none" /\ queue[i] # <<>> => inFlight[i] # None

ChannelInv == TypeOK /\ Placed /\ PumpedOut

\* A batch that was delivered to a worker that died does not block the instance for ever.
InFlightClears ==
  \A b \in Batches : \A i \in Instances : inFlight[i] = b ~> inFlight[i] # b

\* "A batch enqueued the moment the worker dies is still collected on the next wake"
\* (BATCH_TIMEOUT_MS): once the worker polls again, nothing waits elsewhere.
CollectedOnWake == worker = "polling" => \A i \in Instances \ {id} : queue[i] = <<>>

\* What the channel promises a caller.
CallOf(state) ==
  CASE state = "new" -> "new"
    [] state = "result" -> "answered"
    [] state \in Ended \ {"result"} -> "failed"
    [] OTHER -> "open"

Rpc == INSTANCE BrowserRpc WITH call <- [b \in Batches |-> CallOf(asked[b])]

ImplementsRpc == Rpc!RpcSpec
=============================================================================

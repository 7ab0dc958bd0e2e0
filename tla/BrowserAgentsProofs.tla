------------------------- MODULE BrowserAgentsProofs -------------------------
(***************************************************************************)
(* Proofs about BrowserChannel, AgentCalls and Page, for every number of   *)
(* calls, instances, accounts, deaths of the worker, restarts of the       *)
(* server, tabs, sites and batches: a call to the browser that waits is in *)
(* one place, no poll waits next to work, and the channel implements the   *)
(* safety part of BrowserRpc; the verdict on an agent's call is the one    *)
(* its end deserves, and the marks of the accounts are not lost; a batch   *)
(* changes a page only where it was allowed to, and strikes what its       *)
(* caller saw, who is told what was done and reads what was there.         *)
(***************************************************************************)
EXTENDS MCBrowserAgents, ListProofs

-----------------------------------------------------------------------------
\* The channel.  Its invariant says where a batch may be at each stage of its call, whom the server
\* may hold a poll for, and that a batch which has yet to be delivered was never executed.  Four
\* actions pump an instance; what a pump does to the invariant is proved once (PumpStep, PumpKeeps).

USE ChannelAssumption DEF ChannelAssumption

\* Membership in a queue, and queues that hold nothing twice.
In(q, b) == \E k \in DOMAIN q : q[k] = b

Distinct(q) == \A k, l \in DOMAIN q : q[k] = q[l] => k = l

\* What Append, Tail and RemoveFirst do to the members of a queue without repetitions.
LEMMA AppendMembers ==
  ASSUME NEW S, NEW q \in Seq(S), NEW b \in S
  PROVE  /\ Append(q, b) \in Seq(S)
         /\ \A x : In(Append(q, b), x) <=> In(q, x) \/ x = b
         /\ Distinct(q) /\ ~In(q, b) => Distinct(Append(q, b))
<1>1. /\ Append(q, b) \in Seq(S) /\ DOMAIN Append(q, b) = 1..(Len(q) + 1)
      /\ DOMAIN q = 1..Len(q) /\ Len(q) \in Nat
      /\ \A k \in 1..Len(q) : Append(q, b)[k] = q[k]
      /\ Append(q, b)[Len(q) + 1] = b
  OBVIOUS
<1>2. QED
  BY <1>1 DEF In, Distinct

\* The head leaves with Tail, and nothing else.
LEMMA TailMembers ==
  ASSUME NEW S, NEW q \in Seq(S), q # <<>>
  PROVE  /\ Tail(q) \in Seq(S) /\ Head(q) \in S
         /\ In(q, Head(q))
         /\ \A x : In(q, x) => In(Tail(q), x) \/ x = Head(q)
         /\ \A x : In(Tail(q), x) => In(q, x)
         /\ Distinct(q) => Distinct(Tail(q)) /\ ~In(Tail(q), Head(q))
<1>1. /\ Tail(q) \in Seq(S) /\ DOMAIN Tail(q) = 1..(Len(q) - 1)
      /\ DOMAIN q = 1..Len(q) /\ Len(q) \in Nat /\ Len(q) > 0
      /\ \A k \in 1..(Len(q) - 1) : Tail(q)[k] = q[k + 1]
      /\ Head(q) = q[1] /\ Head(q) \in S
  OBVIOUS
<1>2. In(q, Head(q))
  BY <1>1 DEF In
<1>3. ASSUME NEW x, In(q, x) PROVE In(Tail(q), x) \/ x = Head(q)
  <2>1. PICK k \in 1..Len(q) : q[k] = x
    BY <1>1, <1>3 DEF In
  <2>2. CASE k = 1
    BY <1>1, <2>1, <2>2
  <2>3. CASE k # 1
    <3>1. k - 1 \in 1..(Len(q) - 1) /\ (k - 1) + 1 = k
      BY <1>1, <2>3
    <3>2. Tail(q)[k - 1] = x
      BY <1>1, <2>1, <3>1
    <3>3. QED
      BY <1>1, <3>1, <3>2 DEF In
  <2>4. QED
    BY <2>2, <2>3
<1>4. \A x : In(Tail(q), x) => In(q, x)
  BY <1>1 DEF In
<1>5. Distinct(q) => Distinct(Tail(q)) /\ ~In(Tail(q), Head(q))
  BY <1>1 DEF In, Distinct
<1>6. QED
  BY <1>1, <1>2, <1>3, <1>4, <1>5

\* RemoveFirst takes out what is removed, and nothing else, wherever it is.
LEMMA RemoveMembers ==
  ASSUME NEW S, NEW q \in Seq(S), Distinct(q), NEW b
  PROVE  /\ RemoveFirst(q, b) \in Seq(S)
         /\ \A x : In(RemoveFirst(q, b), x) <=> In(q, x) /\ x # b
         /\ Distinct(RemoveFirst(q, b))
<1>0. DOMAIN q = 1..Len(q) /\ Len(q) \in Nat
  OBVIOUS
<1>1. CASE ~\E k \in 1..Len(q) : q[k] = b
  BY <1>0, <1>1 DEF RemoveFirst, In
<1>2. CASE \E k \in 1..Len(q) : q[k] = b
  <2>1. \E n \in 1..Len(q) : RemoveFirst(q, b) = RemoveAt(q, n) /\ q[n] = b
    <3> DEFINE I == {k \in 1..Len(q) : q[k] = b}
    <3>1. PICK k \in I : \A l \in I : k = l
      BY <1>0, <1>2 DEF Distinct
    <3>2. RemoveFirst(q, b) = RemoveAt(q, Min(I))
      BY <1>2 DEF RemoveFirst, SelectInSeq
    <3>3. Min(I) \in I
      <4>1. k <= k
        BY <1>0
      <4>2. \E x \in I : \A y \in I : x <= y
        BY <3>1, <4>1
      <4>3. QED
        BY <4>2 DEF Min
    <3>4. QED
      BY <3>2, <3>3
  <2>2. PICK n \in 1..Len(q) : RemoveFirst(q, b) = RemoveAt(q, n) /\ q[n] = b
    BY <2>1
  <2> DEFINE r == RemoveAt(q, n)
  <2>9. n \in Nat /\ 1 <= n /\ n <= Len(q)
    BY <1>0, <2>2
  <2>10. RemoveFirst(q, b) = r
    BY <2>2
  <2>3. /\ r \in Seq(S) /\ DOMAIN r = 1..(Len(q) - 1)
        /\ \A k \in 1..(Len(q) - 1) : r[k] = IF k < n THEN q[k] ELSE q[k + 1]
    <3> DEFINE u == SubSeq(q, 1, n - 1)
               v == SubSeq(q, n + 1, Len(q))
    <3>0. \A k \in 1..Len(q) : q[k] \in S
      BY <1>0
    <3>1. u \in Seq(S) /\ Len(u) = n - 1 /\ \A k \in 1..(n - 1) : u[k] = q[k]
      BY <1>0, <2>2, <3>0, SubSeqProperties
    <3>2. v \in Seq(S) /\ Len(v) = Len(q) - n /\ \A k \in 1..(Len(q) - n) : v[k] = q[k + n]
      <4>1. n + 1 \in Int /\ Len(q) \in Int /\ \A k \in (n + 1)..Len(q) : q[k] \in S
        BY <1>0, <2>2, <3>0
      <4>2. /\ v \in Seq(S)
            /\ Len(v) = IF n + 1 <= Len(q) THEN Len(q) - (n + 1) + 1 ELSE 0
            /\ \A k \in 1..(Len(q) - (n + 1) + 1) : v[k] = q[(n + 1) + k - 1]
        BY <4>1, SubSeqProperties
      <4> HIDE DEF v
      <4>3. \A k \in 1..(Len(q) - n) : (n + 1) + k - 1 = k + n
        BY <1>0, <2>2
      <4>4. Len(q) - (n + 1) + 1 = Len(q) - n
        BY <1>0, <2>2
      <4>5. Len(v) = Len(q) - n
        <5>1. \A l \in Nat : n <= l => (IF n + 1 <= l THEN l - (n + 1) + 1 ELSE 0) = l - n
          BY <2>9
        <5>2. QED
          BY <1>0, <2>9, <4>2, <5>1
      <4>6. \A k \in 1..(Len(q) - n) : v[k] = q[k + n]
        BY <4>2, <4>3, <4>4
      <4>7. QED
        BY <4>2, <4>5, <4>6
    <3>3. r = u \o v
      BY DEF RemoveAt
    <3> HIDE DEF u, v, r
    <3>4. /\ r \in Seq(S) /\ Len(r) = Len(q) - 1
          /\ \A k \in 1..(Len(q) - 1) : r[k] = IF k <= n - 1 THEN u[k] ELSE v[k - (n - 1)]
      <4>1. /\ r \in Seq(S) /\ Len(r) = Len(u) + Len(v)
            /\ \A k \in 1..(Len(u) + Len(v)) : r[k] = IF k <= Len(u) THEN u[k] ELSE v[k - Len(u)]
        BY <3>1, <3>2, <3>3, ConcatProperties
      <4>2. Len(u) + Len(v) = Len(q) - 1
        BY <1>0, <2>2, <3>1, <3>2
      <4>3. QED
        BY <3>1, <4>1, <4>2
    <3>5. ASSUME NEW k \in 1..(Len(q) - 1) PROVE r[k] = IF k < n THEN q[k] ELSE q[k + 1]
      <4>1. CASE k < n
        BY <1>0, <2>2, <3>1, <3>4, <4>1
      <4>2. CASE ~(k < n)
        <5>1. k - (n - 1) \in 1..(Len(q) - n) /\ (k - (n - 1)) + n = k + 1
          BY <1>0, <2>2, <4>2
        <5>2. QED
          BY <1>0, <2>2, <3>2, <3>4, <4>2, <5>1
      <4>3. QED
        BY <4>1, <4>2
    <3>6. QED
      BY <1>0, <3>4, <3>5
  <2> HIDE DEF r
  <2>4. ASSUME NEW x, In(q, x), x # b PROVE In(r, x)
    <3>1. PICK k \in 1..Len(q) : q[k] = x
      BY <1>0, <2>4 DEF In
    <3>2. CASE k < n
      BY <1>0, <2>2, <2>3, <3>1, <3>2 DEF In
    <3>3. CASE k > n
      <4>1. k - 1 \in 1..(Len(q) - 1) /\ ~(k - 1 < n) /\ (k - 1) + 1 = k
        BY <1>0, <2>2, <3>3
      <4>2. r[k - 1] = x
        BY <2>3, <3>1, <4>1
      <4>3. QED
        BY <2>3, <4>1, <4>2 DEF In
    <3>4. QED
      BY <1>0, <2>2, <2>4, <3>1, <3>2, <3>3
  <2>5. ASSUME NEW x, In(r, x) PROVE In(q, x) /\ x # b
    <3>1. PICK k \in 1..(Len(q) - 1) : r[k] = x
      BY <2>3, <2>5 DEF In
    <3>2. CASE k < n
      BY <1>0, <2>2, <2>3, <2>9, <3>1, <3>2 DEF In, Distinct
    <3>3. CASE ~(k < n)
      <4>1. k + 1 \in 1..Len(q) /\ k + 1 # n /\ q[k + 1] = x
        BY <1>0, <2>3, <2>9, <3>1, <3>3
      <4>2. QED
        BY <1>0, <2>2, <4>1 DEF In, Distinct
    <3>4. QED
      BY <3>2, <3>3
  <2>6. ASSUME NEW k \in DOMAIN r, NEW l \in DOMAIN r, r[k] = r[l] PROVE k = l
    <3>1. k \in 1..(Len(q) - 1) /\ l \in 1..(Len(q) - 1)
      BY <2>3
    <3> DEFINE at(m) == IF m < n THEN m ELSE m + 1
    <3>2. at(k) \in 1..Len(q) /\ at(l) \in 1..Len(q) /\ q[at(k)] = q[at(l)]
      <4>1. \A m \in 1..(Len(q) - 1) : at(m) \in 1..Len(q) /\ r[m] = q[at(m)]
        BY <1>0, <2>2, <2>3
      <4>2. QED
        BY <2>6, <3>1, <4>1
    <3>3. at(k) = at(l)
      <4> HIDE DEF at
      <4>1. QED
        BY <1>0, <3>2 DEF Distinct
    <3>4. QED
      BY <1>0, <2>2, <3>1, <3>3
  <2>7. QED
    BY <2>10, <2>3, <2>4, <2>5, <2>6 DEF Distinct
<1>3. QED
  BY <1>1, <1>2

-----------------------------------------------------------------------------
(* The inductive invariant *)

\* A batch is in the queue of its instance once, and not in flight as well; what is in a
\* queue or in flight has a caller that waits, and such a batch is in one of them.
QueuesHold ==
  \A i \in Instances :
    /\ Distinct(queue[i])
    /\ \A b \in Batches : In(queue[i], b) =>
         asked[b] = "sent" /\ target[b] = i /\ inFlight[i] # b

FlightsHold ==
  \A i \in Instances : inFlight[i] # None =>
    asked[inFlight[i]] = "sent" /\ target[inFlight[i]] = i

CallsHold ==
  \A b \in Batches :
    /\ asked[b] \in {"grant", "screen", "sent"} => target[b] \in Instances
    /\ asked[b] = "sent" => inFlight[target[b]] = b \/ In(queue[target[b]], b)

TargetsKnown == \A b \in Batches : target[b] # None => target[b] \in 1..registered

\* The server holds a poll for a listener only as long as there is one, at the instance it
\* polls for, and a worker has a batch while it is at work.
ListenerHolds ==
  /\ \A i \in Instances : waiter[i] = "held" => worker = "polling" /\ id = i
  /\ worker = "polling" => id \in Instances /\ waiter[id] = "held"

JobHolds == worker \in {"busy", "posting"} <=> job # None

\* A batch that has yet to be delivered was never executed, and no worker has it; so it is
\* executed once at most, and a worker that posts has executed what it posts.
OnceHolds ==
  /\ \A b \in Batches :
       asked[b] \in {"new", "grant", "screen"} \/ (\E i \in Instances : In(queue[i], b))
         => runs[b] = 0 /\ job # b
  /\ \A b \in Batches : runs[b] \in {0, 1}
  /\ worker = "busy" => runs[job] = 0
  /\ worker = "posting" => runs[job] = 1

Serving ==
  /\ TypeOK
  /\ QueuesHold /\ FlightsHold /\ CallsHold /\ ListenerHolds /\ JobHolds /\ OnceHolds
  /\ PumpedOut

ServedInv == TargetsKnown /\ Serving

\* What a pump does, whatever the queue and the batch in flight it is given: no batch is
\* lost or doubled, and what it hands a listening worker comes from the queue.
LEMMA PumpStep ==
  ASSUME TypeOK, NEW i \in Instances, NEW q \in Seq(Batches), Distinct(q),
         NEW f \in Batches \cup {None}, f = None \/ ~In(q, f), NEW w, NEW j,
         Pump(i, q, f, w, j)
  PROVE  /\ queue' \in [Instances -> Seq(Batches)]
         /\ inFlight' \in [Instances -> Batches \cup {None}]
         /\ waiter' \in [Instances -> {"none", "held", "gone"}]
         /\ \A k \in Instances \ {i} :
              queue'[k] = queue[k] /\ inFlight'[k] = inFlight[k] /\ waiter'[k] = waiter[k]
         /\ Distinct(queue'[i])
         /\ \A b \in Batches : In(queue'[i], b) => In(q, b) /\ inFlight'[i] # b
         /\ \A b \in Batches : In(q, b) \/ f = b => In(queue'[i], b) \/ inFlight'[i] = b
         /\ inFlight'[i] # None => inFlight'[i] = f \/ In(q, inFlight'[i])
         /\ \/ worker' = w /\ job' = j /\ (waiter'[i] = "held" <=> waiter[i] = "held")
            \/ /\ waiter[i] = "held" /\ waiter'[i] = "none"
               /\ worker' = "busy" /\ job' \in Batches /\ job' = inFlight'[i]
               /\ In(q, job') /\ ~In(queue'[i], job')
         /\ waiter'[i] # "none" /\ queue'[i] # <<>> => inFlight'[i] # None
<1> USE DEF TypeOK
<1>1. CASE f = None /\ waiter[i] # "none" /\ q # <<>>
  <2>1. /\ Tail(q) \in Seq(Batches) /\ Head(q) \in Batches /\ In(q, Head(q))
        /\ \A x : In(q, x) => In(Tail(q), x) \/ x = Head(q)
        /\ \A x : In(Tail(q), x) => In(q, x)
        /\ Distinct(Tail(q)) /\ ~In(Tail(q), Head(q))
    BY <1>1, TailMembers
  <2>2. /\ queue' = [queue EXCEPT ![i] = Tail(q)]
        /\ inFlight' = [inFlight EXCEPT ![i] = Head(q)]
        /\ waiter' = [waiter EXCEPT ![i] = "none"]
        /\ worker' = IF waiter[i] = "held" THEN "busy" ELSE w
        /\ job' = IF waiter[i] = "held" THEN Head(q) ELSE j
    BY <1>1 DEF Pump, Deliver
  <2>3. queue'[i] = Tail(q) /\ inFlight'[i] = Head(q) /\ waiter'[i] = "none"
    BY <2>2
  <2>4. QED
    BY <1>1, <2>1, <2>2, <2>3
<1>2. CASE ~(f = None /\ waiter[i] # "none" /\ q # <<>>)
  <2>1. /\ queue' = [queue EXCEPT ![i] = q] /\ inFlight' = [inFlight EXCEPT ![i] = f]
        /\ worker' = w /\ job' = j /\ waiter' = waiter
    BY <1>2 DEF Pump
  <2>2. queue'[i] = q /\ inFlight'[i] = f
    BY <2>1
  <2>3. QED
    BY <1>2, <2>1, <2>2
<1>3. QED
  BY <1>1, <1>2

\* A pump keeps the invariant when the queue and the batch in flight it is given are what
\* the calls of its instance wait for, and the calls of other instances stay as they are.
LEMMA PumpKeeps ==
  ASSUME ServedInv, NEW i \in Instances, NEW q \in Seq(Batches), Distinct(q),
         NEW f \in Batches \cup {None}, f = None \/ ~In(q, f), NEW w, NEW j,
         Pump(i, q, f, w, j),
         \/ w = worker /\ j = job
         \/ worker = "posting" /\ w = "idle" /\ j = None,
         UNCHANGED <<id, runs>>,
         \A b \in Batches : In(q, b) =>
           asked'[b] = "sent" /\ target'[b] = i /\ runs[b] = 0 /\ job # b,
         f # None => asked'[f] = "sent" /\ target'[f] = i,
         \A b \in Batches : asked'[b] = "sent" /\ target'[b] = i => f = b \/ In(q, b),
         \A b \in Batches, k \in Instances \ {i} :
           asked'[b] = "sent" /\ target'[b] = k <=> asked[b] = "sent" /\ target[b] = k,
         \A b \in Batches : asked'[b] \in {"grant", "screen", "sent"} => target'[b] \in Instances,
         \A b \in Batches : asked'[b] \in {"new", "grant", "screen"}
           => asked[b] \in {"new", "grant", "screen"}
  PROVE  /\ QueuesHold' /\ FlightsHold' /\ CallsHold' /\ ListenerHolds' /\ JobHolds'
         /\ OnceHolds' /\ PumpedOut'
<1>0. /\ TypeOK /\ QueuesHold /\ FlightsHold /\ CallsHold /\ ListenerHolds /\ JobHolds
      /\ OnceHolds /\ PumpedOut
  BY DEF ServedInv, Serving
<1>1. /\ inFlight' \in [Instances -> Batches \cup {None}]
      /\ \A k \in Instances \ {i} :
           queue'[k] = queue[k] /\ inFlight'[k] = inFlight[k] /\ waiter'[k] = waiter[k]
      /\ Distinct(queue'[i])
      /\ \A b \in Batches : In(queue'[i], b) => In(q, b) /\ inFlight'[i] # b
      /\ \A b \in Batches : In(q, b) \/ f = b => In(queue'[i], b) \/ inFlight'[i] = b
      /\ inFlight'[i] # None => inFlight'[i] = f \/ In(q, inFlight'[i])
      /\ \/ worker' = w /\ job' = j /\ (waiter'[i] = "held" <=> waiter[i] = "held")
         \/ /\ waiter[i] = "held" /\ waiter'[i] = "none"
            /\ worker' = "busy" /\ job' \in Batches /\ job' = inFlight'[i]
            /\ In(q, job') /\ ~In(queue'[i], job')
      /\ waiter'[i] # "none" /\ queue'[i] # <<>> => inFlight'[i] # None
  BY <1>0, PumpStep
<1>2. QueuesHold'
  BY <1>0, <1>1 DEF QueuesHold
<1>3. FlightsHold'
  BY <1>0, <1>1 DEF FlightsHold
<1>4. CallsHold'
  BY <1>0, <1>1 DEF CallsHold
<1>5. ListenerHolds'
  BY <1>0, <1>1 DEF ListenerHolds
<1>6. JobHolds'
  BY <1>0, <1>1 DEF JobHolds
<1>7. OnceHolds'
  BY <1>0, <1>1 DEF OnceHolds, JobHolds, QueuesHold
<1>8. PumpedOut'
  BY <1>0, <1>1 DEF PumpedOut
<1>9. QED
  BY <1>2, <1>3, <1>4, <1>5, <1>6, <1>7, <1>8

\* The types, after a pump.
LEMMA PumpTypes ==
  ASSUME TypeOK, NEW i \in Instances, NEW q \in Seq(Batches), Distinct(q),
         NEW f \in Batches \cup {None}, f = None \/ ~In(q, f),
         NEW w \in {"dead", "idle", "polling", "busy", "posting"},
         NEW j \in Batches \cup {None},
         Pump(i, q, f, w, j)
  PROVE  /\ queue' \in [Instances -> Seq(Batches)]
         /\ inFlight' \in [Instances -> Batches \cup {None}]
         /\ waiter' \in [Instances -> {"none", "held", "gone"}]
         /\ worker' \in {"dead", "idle", "polling", "busy", "posting"}
         /\ job' \in Batches \cup {None}
<1>1. /\ queue' \in [Instances -> Seq(Batches)]
      /\ inFlight' \in [Instances -> Batches \cup {None}]
      /\ waiter' \in [Instances -> {"none", "held", "gone"}]
  BY PumpStep
<1>2. \/ worker' = w /\ job' = j /\ (waiter'[i] = "held" <=> waiter[i] = "held")
      \/ /\ waiter[i] = "held" /\ waiter'[i] = "none"
         /\ worker' = "busy" /\ job' \in Batches /\ job' = inFlight'[i]
         /\ In(q, job') /\ ~In(queue'[i], job')
  BY PumpStep
<1>3. QED
  BY <1>1, <1>2

\* A call is sent, at once or after its checks: it joins the queue, which is pumped.
LEMMA EnqueueKeeps ==
  ASSUME ServedInv, NEW b \in Batches, NEW i \in Instances, Enqueue(b, i),
         asked[b] \in {"new", "screen"},
         target' \in [Batches -> Instances \cup {None}],
         target'[b] = i, \A c \in Batches \ {b} : target'[c] = target[c],
         UNCHANGED <<registered, fresh, id, runs, bounds>>
  PROVE  Serving'
<1>0. /\ TypeOK /\ QueuesHold /\ FlightsHold /\ CallsHold /\ OnceHolds
  BY DEF ServedInv, Serving
<1>1. ~In(queue[i], b) /\ inFlight[i] # b /\ queue[i] \in Seq(Batches) /\ Distinct(queue[i])
      /\ inFlight[i] \in Batches \cup {None}
  BY <1>0 DEF QueuesHold, FlightsHold, TypeOK
<1> DEFINE q == Append(queue[i], b)
<1>2. /\ q \in Seq(Batches) /\ Distinct(q)
      /\ \A x : In(q, x) <=> In(queue[i], x) \/ x = b
  BY <1>1, AppendMembers
<1>3. Pump(i, q, inFlight[i], worker, job)
  BY DEF Enqueue
<1> HIDE DEF q
<1>4. inFlight[i] = None \/ ~In(q, inFlight[i])
  BY <1>0, <1>1, <1>2 DEF QueuesHold
<1>5. /\ asked' = [asked EXCEPT ![b] = "sent"]
      /\ asked' \in [Batches -> {"new", "grant", "screen", "sent"} \cup Ended]
      /\ asked'[b] = "sent" /\ \A c \in Batches \ {b} : asked'[c] = asked[c]
  BY <1>0 DEF Enqueue, TypeOK
<1>6. fresh' \subseteq 1..registered
      /\ worker \in {"dead", "idle", "polling", "busy", "posting"} /\ job \in Batches \cup {None}
  BY <1>0 DEF TypeOK
<1>7. TypeOK'
  <2>1. /\ queue' \in [Instances -> Seq(Batches)]
        /\ inFlight' \in [Instances -> Batches \cup {None}]
        /\ waiter' \in [Instances -> {"none", "held", "gone"}]
        /\ worker' \in {"dead", "idle", "polling", "busy", "posting"}
        /\ job' \in Batches \cup {None}
    BY <1>0, <1>1, <1>2, <1>3, <1>4, <1>6, PumpTypes
  <2>2. QED
    BY <1>0, <1>5, <1>6, <2>1 DEF TypeOK, bounds
<1>8. \A c \in Batches : In(q, c) =>
        asked'[c] = "sent" /\ target'[c] = i /\ runs[c] = 0 /\ job # c
  <2>1. ASSUME NEW c \in Batches, In(queue[i], c)
        PROVE  asked'[c] = "sent" /\ target'[c] = i /\ runs[c] = 0 /\ job # c
    BY <1>0, <1>1, <1>5, <2>1 DEF QueuesHold, OnceHolds
  <2>2. runs[b] = 0 /\ job # b
    BY <1>0 DEF OnceHolds
  <2>3. QED
    BY <1>2, <1>5, <2>1, <2>2
<1>9. /\ inFlight[i] # None => asked'[inFlight[i]] = "sent" /\ target'[inFlight[i]] = i
      /\ \A c \in Batches : asked'[c] = "sent" /\ target'[c] = i => inFlight[i] = c \/ In(q, c)
      /\ \A c \in Batches, k \in Instances \ {i} :
           asked'[c] = "sent" /\ target'[c] = k <=> asked[c] = "sent" /\ target[c] = k
      /\ \A c \in Batches :
           asked'[c] \in {"grant", "screen", "sent"} => target'[c] \in Instances
      /\ \A c \in Batches : asked'[c] \in {"new", "grant", "screen"}
           => asked[c] \in {"new", "grant", "screen"}
  BY <1>0, <1>1, <1>2, <1>5 DEF CallsHold, FlightsHold
<1>10. /\ QueuesHold' /\ FlightsHold' /\ CallsHold' /\ ListenerHolds' /\ JobHolds'
       /\ OnceHolds' /\ PumpedOut'
  BY <1>1, <1>2, <1>3, <1>4, <1>8, <1>9, PumpKeeps
<1>11. QED
  BY <1>7, <1>10 DEF ServedInv, Serving

\* A call that ends, or goes on to its next check, without having been sent.
LEMMA UnsentKeeps ==
  ASSUME ServedInv, NEW b \in Batches, asked[b] \in {"new", "grant", "screen"},
         NEW s \in {"grant", "screen", "refused", "timeout"},
         asked' = [asked EXCEPT ![b] = s],
         target' \in [Batches -> Instances \cup {None}], target'[b] \in Instances,
         \A c \in Batches \ {b} : target'[c] = target[c],
         UNCHANGED <<server, client, bounds>>
  PROVE  Serving'
<1> USE DEF server, client, bounds
<1>0. /\ TypeOK /\ QueuesHold /\ FlightsHold /\ CallsHold /\ ListenerHolds /\ JobHolds
      /\ OnceHolds /\ PumpedOut
  BY DEF ServedInv, Serving
<1>1. TypeOK'
  BY <1>0 DEF TypeOK, Ended
<1>2. \A c \in Batches \ {b} : asked'[c] = asked[c]
  BY <1>0 DEF TypeOK
<1>3. asked'[b] = s
  BY <1>0 DEF TypeOK
<1>4. QueuesHold' /\ FlightsHold' /\ CallsHold' /\ OnceHolds'
  BY <1>0, <1>2, <1>3 DEF QueuesHold, FlightsHold, CallsHold, OnceHolds, TypeOK
<1>5. ListenerHolds' /\ JobHolds' /\ PumpedOut'
  BY <1>0 DEF ListenerHolds, JobHolds, PumpedOut
<1>6. QED
  BY <1>1, <1>4, <1>5 DEF ServedInv, Serving

\* The caller's steps, up to the point where the batch is sent.
LEMMA CallerKeeps ==
  ASSUME ServedInv, NEW b \in Batches, Ask(b) \/ Grant(b) \/ Screen(b)
  PROVE  Serving'
<1>0. TypeOK /\ CallsHold
  BY DEF ServedInv, Serving
<1>1. CASE Ask(b)
  <2>1. PICK i \in 1..registered :
          /\ target' = [target EXCEPT ![b] = i]
          /\ \/ /\ asked' = [asked EXCEPT ![b] = "refused"]
                /\ UNCHANGED <<queue, inFlight, waiter, worker, job>>
             \/ /\ asked' = [asked EXCEPT ![b] = "grant"]
                /\ UNCHANGED <<queue, inFlight, waiter, worker, job>>
             \/ Enqueue(b, i)
    BY <1>1 DEF Ask
  <2>2. /\ asked[b] = "new" /\ UNCHANGED <<registered, fresh, id, runs, bounds>>
    BY <1>1 DEF Ask
  <2>3. i \in Instances
    BY <1>0 DEF TypeOK, Instances
  <2>4. /\ target' \in [Batches -> Instances \cup {None}] /\ target'[b] = i
        /\ \A c \in Batches \ {b} : target'[c] = target[c]
    BY <1>0, <2>1, <2>3 DEF TypeOK
  <2>5. CASE Enqueue(b, i)
    BY <2>2, <2>3, <2>4, <2>5, EnqueueKeeps
  <2>6. CASE /\ asked' = [asked EXCEPT ![b] = "refused"] \/ asked' = [asked EXCEPT ![b] = "grant"]
             /\ UNCHANGED <<queue, inFlight, waiter, worker, job>>
    BY <2>2, <2>3, <2>4, <2>6, UnsentKeeps DEF server, client
  <2>7. QED
    BY <2>1, <2>5, <2>6
<1>2. CASE Grant(b)
  <2>1. /\ target' \in [Batches -> Instances \cup {None}] /\ target'[b] \in Instances
        /\ \A c \in Batches : target'[c] = target[c]
    BY <1>0, <1>2 DEF Grant, TypeOK, CallsHold
  <2>2. QED
    BY <1>2, <2>1, UnsentKeeps DEF Grant
<1>3. CASE Screen(b)
  <2>1. /\ target' \in [Batches -> Instances \cup {None}] /\ target'[b] \in Instances
        /\ target' = target /\ target[b] \in Instances
    BY <1>0, <1>3 DEF Screen, TypeOK, CallsHold
  <2>2. CASE Enqueue(b, target[b])
    BY <1>3, <2>1, <2>2, EnqueueKeeps DEF Screen
  <2>3. CASE asked' = [asked EXCEPT ![b] = "refused"]
             /\ UNCHANGED <<queue, inFlight, waiter, worker, job>>
    BY <1>3, <2>1, <2>3, UnsentKeeps DEF Screen, server, client
  <2>4. QED
    BY <1>3, <2>2, <2>3 DEF Screen
<1>4. QED
  BY <1>1, <1>2, <1>3

\* A batch leaves the slot in flight with its call: it is answered, or it times out.
LEMMA SlotKeeps ==
  ASSUME ServedInv, NEW i \in Instances, NEW b \in Batches, asked[b] = "sent",
         target[b] = i,
         inFlight[i] = b,
         NEW w, NEW j,
         \/ w = worker /\ j = job
         \/ worker = "posting" /\ w = "idle" /\ j = None,
         Pump(i, queue[i], None, w, j),
         NEW s \in {"result", "timeout"}, asked' = [asked EXCEPT ![b] = s],
         fresh' \subseteq 1..registered, UNCHANGED <<registered, target, id, runs, bounds>>
  PROVE  Serving'
<1>0. /\ TypeOK /\ QueuesHold /\ FlightsHold /\ CallsHold /\ OnceHolds
  BY DEF ServedInv, Serving
<1>1. /\ asked' \in [Batches -> {"new", "grant", "screen", "sent"} \cup Ended]
      /\ asked'[b] = s /\ \A c \in Batches \ {b} : asked'[c] = asked[c]
      /\ target' \in [Batches -> Instances \cup {None}]
  BY <1>0 DEF TypeOK, Ended
<1>2. /\ queue[i] \in Seq(Batches) /\ Distinct(queue[i])
      /\ w \in {"dead", "idle", "polling", "busy", "posting"} /\ j \in Batches \cup {None}
  BY <1>0 DEF QueuesHold, TypeOK
<1>3. TypeOK'
  <2>1. /\ queue' \in [Instances -> Seq(Batches)]
        /\ inFlight' \in [Instances -> Batches \cup {None}]
        /\ waiter' \in [Instances -> {"none", "held", "gone"}]
        /\ worker' \in {"dead", "idle", "polling", "busy", "posting"}
        /\ job' \in Batches \cup {None}
    BY <1>0, <1>2, PumpTypes
  <2>2. QED
    BY <1>0, <1>1, <2>1 DEF TypeOK, bounds
<1>4. \A c \in Batches : In(queue[i], c) =>
        asked'[c] = "sent" /\ target'[c] = i /\ runs[c] = 0 /\ job # c
  BY <1>0, <1>1 DEF QueuesHold, FlightsHold, OnceHolds, TypeOK
<1>5. \A c \in Batches : asked'[c] = "sent" /\ target'[c] = i => In(queue[i], c)
  BY <1>0, <1>1 DEF CallsHold
<1>6. /\ \A c \in Batches, k \in Instances \ {i} :
           asked'[c] = "sent" /\ target'[c] = k <=> asked[c] = "sent" /\ target[c] = k
      /\ \A c \in Batches :
           asked'[c] \in {"grant", "screen", "sent"} => target'[c] \in Instances
      /\ \A c \in Batches : asked'[c] \in {"new", "grant", "screen"}
           => asked[c] \in {"new", "grant", "screen"}
  BY <1>0, <1>1 DEF CallsHold
<1>7. /\ QueuesHold' /\ FlightsHold' /\ CallsHold' /\ ListenerHolds' /\ JobHolds'
      /\ OnceHolds' /\ PumpedOut'
  BY <1>2, <1>4, <1>5, <1>6, PumpKeeps
<1>8. QED
  BY <1>3, <1>7 DEF ServedInv, Serving

\* A batch that times out leaves the queue.
LEMMA QueueKeeps ==
  ASSUME ServedInv, NEW i \in Instances, NEW b \in Batches, asked[b] = "sent",
         target[b] = i,
         inFlight[i] # b, NEW q \in Seq(Batches), Distinct(q),
         \A x : In(q, x) <=> In(queue[i], x) /\ x # b,
         Pump(i, q, inFlight[i], worker, job),
         asked' = [asked EXCEPT ![b] = "timeout"],
         UNCHANGED <<registered, fresh, target, id, runs, bounds>>
  PROVE  Serving'
<1>0. /\ TypeOK /\ QueuesHold /\ FlightsHold /\ CallsHold /\ OnceHolds
  BY DEF ServedInv, Serving
<1>1. /\ asked' \in [Batches -> {"new", "grant", "screen", "sent"} \cup Ended]
      /\ asked'[b] = "timeout" /\ \A c \in Batches \ {b} : asked'[c] = asked[c]
      /\ target' \in [Batches -> Instances \cup {None}]
  BY <1>0 DEF TypeOK, Ended
<1>2. /\ inFlight[i] \in Batches \cup {None} /\ (inFlight[i] = None \/ ~In(q, inFlight[i]))
      /\ worker \in {"dead", "idle", "polling", "busy", "posting"} /\ job \in Batches \cup {None}
      /\ fresh' \subseteq 1..registered
  BY <1>0 DEF QueuesHold, TypeOK
<1>3. TypeOK'
  <2>1. /\ queue' \in [Instances -> Seq(Batches)]
        /\ inFlight' \in [Instances -> Batches \cup {None}]
        /\ waiter' \in [Instances -> {"none", "held", "gone"}]
        /\ worker' \in {"dead", "idle", "polling", "busy", "posting"}
        /\ job' \in Batches \cup {None}
    BY <1>0, <1>2, PumpTypes
  <2>2. QED
    BY <1>0, <1>1, <2>1 DEF TypeOK, bounds
<1>4. /\ \A c \in Batches : In(q, c) =>
           asked'[c] = "sent" /\ target'[c] = i /\ runs[c] = 0 /\ job # c
      /\ inFlight[i] # None => asked'[inFlight[i]] = "sent" /\ target'[inFlight[i]] = i
  BY <1>0, <1>1 DEF QueuesHold, FlightsHold, OnceHolds, TypeOK
<1>5. \A c \in Batches : asked'[c] = "sent" /\ target'[c] = i => inFlight[i] = c \/ In(q, c)
  BY <1>0, <1>1 DEF CallsHold
<1>6. /\ \A c \in Batches, k \in Instances \ {i} :
           asked'[c] = "sent" /\ target'[c] = k <=> asked[c] = "sent" /\ target[c] = k
      /\ \A c \in Batches :
           asked'[c] \in {"grant", "screen", "sent"} => target'[c] \in Instances
      /\ \A c \in Batches : asked'[c] \in {"new", "grant", "screen"}
           => asked[c] \in {"new", "grant", "screen"}
  BY <1>0, <1>1 DEF CallsHold
<1>7. /\ QueuesHold' /\ FlightsHold' /\ CallsHold' /\ ListenerHolds' /\ JobHolds'
      /\ OnceHolds' /\ PumpedOut'
  BY <1>2, <1>4, <1>5, <1>6, PumpKeeps
<1>8. QED
  BY <1>3, <1>7 DEF ServedInv, Serving

\* The batch's timer takes it from where it is.
LEMMA TimeoutKeeps ==
  ASSUME ServedInv, NEW b \in Batches, BatchTimeout(b)
  PROVE  Serving'
<1>0. /\ TypeOK /\ QueuesHold /\ CallsHold
  BY DEF ServedInv, Serving
<1> DEFINE i == target[b]
<1>1. /\ asked[b] = "sent" /\ i \in Instances /\ asked' = [asked EXCEPT ![b] = "timeout"]
      /\ UNCHANGED <<registered, fresh, target, id, runs, bounds>>
  BY <1>0 DEF BatchTimeout, CallsHold
<1> HIDE DEF i
<1>2. i = target[b]
  BY DEF i
<1>3. /\ queue[i] \in Seq(Batches) /\ inFlight[i] \in Batches \cup {None} /\ Distinct(queue[i])
      /\ worker \in {"dead", "idle", "polling", "busy", "posting"} /\ job \in Batches \cup {None}
      /\ fresh \subseteq 1..registered
  BY <1>0, <1>1 DEF TypeOK, QueuesHold
<1>4. CASE inFlight[i] = b
  <2>1. Pump(i, queue[i], None, worker, job)
    BY <1>4 DEF BatchTimeout, i
  <2>2. worker = worker /\ job = job /\ fresh' \subseteq 1..registered
        /\ UNCHANGED <<registered, target, id, runs, bounds>>
    BY <1>1, <1>3
  <2>3. QED
    BY <1>1, <1>2, <1>4, <2>1, <2>2, SlotKeeps
<1>5. CASE inFlight[i] # b
  <2> DEFINE q == RemoveFirst(queue[i], b)
  <2>1. Pump(i, q, inFlight[i], worker, job)
    BY <1>5 DEF BatchTimeout, i
  <2>2. q \in Seq(Batches) /\ Distinct(q) /\ \A x : In(q, x) <=> In(queue[i], x) /\ x # b
    BY <1>3, RemoveMembers
  <2> HIDE DEF q
  <2>3. QED
    BY <1>1, <1>2, <1>5, <2>1, <2>2, QueueKeeps
<1>6. QED
  BY <1>4, <1>5

\* A result is taken for the batch in flight only.
LEMMA PostKeeps ==
  ASSUME ServedInv, Post
  PROVE  Serving'
<1>0. /\ TypeOK /\ TargetsKnown /\ QueuesHold /\ FlightsHold /\ JobHolds
  BY DEF ServedInv, Serving
<1>1. PICK i \in Instances :
        /\ inFlight[i] = job /\ asked' = [asked EXCEPT ![job] = "result"]
        /\ fresh' = fresh \cup {i} /\ Pump(i, queue[i], None, "idle", None)
  BY DEF Post
<1>2. worker = "posting" /\ UNCHANGED <<registered, target, id, runs, bounds>>
  BY DEF Post
<1>3. job \in Batches /\ asked[job] = "sent" /\ target[job] = i
  BY <1>0, <1>1, <1>2 DEF TypeOK, JobHolds, FlightsHold
<1>4. i \in 1..registered
  <2>1. target[job] # None
    BY <1>3 DEF Instances
  <2>2. QED
    BY <1>0, <1>3, <2>1 DEF TargetsKnown
<1>5. fresh' \subseteq 1..registered
  BY <1>0, <1>1, <1>4 DEF TypeOK
<1>6. QED
  BY <1>1, <1>2, <1>3, <1>5, SlotKeeps

\* The worker's own steps, and the server's with no batch involved.
LEMMA WorkerKeeps ==
  ASSUME ServedInv, Register \/ PollUnknown \/ Execute \/ PostFails \/ Wake
  PROVE  Serving'
<1> USE DEF server, calls, client, bounds
<1>0. /\ TypeOK /\ QueuesHold /\ FlightsHold /\ CallsHold /\ ListenerHolds /\ JobHolds
      /\ OnceHolds /\ PumpedOut
  BY DEF ServedInv, Serving
<1>1. /\ UNCHANGED <<queue, inFlight, waiter, asked, target, deaths, restarts>>
  BY DEF Register, PollUnknown, Execute, PostFails, Wake
<1>2. QueuesHold' /\ FlightsHold' /\ CallsHold' /\ PumpedOut'
  BY <1>0, <1>1 DEF QueuesHold, FlightsHold, CallsHold, PumpedOut
<1>3. CASE Register \/ PollUnknown \/ PostFails \/ Wake
  <2>1. TypeOK'
    <3>1. /\ worker' \in {"dead", "idle", "polling", "busy", "posting"}
          /\ job' \in Batches \cup {None} /\ runs' = runs
      BY <1>0, <1>3 DEF TypeOK, Register, PollUnknown, PostFails, Wake
    <3>2. /\ registered' \in 0..MaxInstances /\ fresh' \subseteq 1..registered'
          /\ id' \in Instances \cup {None}
      <4>1. CASE Register
        <5>1. registered + 1 \in Instances /\ registered \in Nat
          BY <1>0, <4>1 DEF TypeOK, Instances, Register
        <5>2. QED
          BY <1>0, <4>1, <5>1 DEF TypeOK, Instances, Register
      <4>2. CASE PollUnknown \/ PostFails \/ Wake
        BY <1>0, <4>2 DEF TypeOK, PollUnknown, PostFails, Wake
      <4>3. QED
        BY <1>3, <4>1, <4>2
    <3>3. QED
      BY <1>0, <1>1, <3>1, <3>2 DEF TypeOK
  <2>2. ListenerHolds' /\ JobHolds'
    BY <1>0, <1>1, <1>3 DEF ListenerHolds, JobHolds, TypeOK, Register, PollUnknown,
                            PostFails, Wake
  <2>3. OnceHolds'
    BY <1>0, <1>1, <1>3 DEF OnceHolds, JobHolds, Register, PollUnknown, PostFails, Wake
  <2>4. QED
    BY <1>2, <2>1, <2>2, <2>3 DEF Serving
<1>4. CASE Execute
  <2>1. job \in Batches /\ worker = "busy" /\ runs[job] = 0
    BY <1>0, <1>4 DEF TypeOK, JobHolds, OnceHolds, Execute
  <2>2. /\ runs' \in [Batches -> 0..2] /\ runs'[job] = 1
        /\ \A b \in Batches \ {job} : runs'[b] = runs[b]
    BY <1>0, <1>4, <2>1 DEF TypeOK, Execute
  <2>3. TypeOK'
    BY <1>0, <1>1, <1>4, <2>2 DEF TypeOK, Execute
  <2>4. ListenerHolds' /\ JobHolds'
    BY <1>0, <1>1, <1>4, <2>1 DEF ListenerHolds, JobHolds, Execute
  <2>5. OnceHolds'
    BY <1>0, <1>1, <1>4, <2>1, <2>2 DEF OnceHolds, Execute
  <2>6. QED
    BY <1>2, <2>3, <2>4, <2>5 DEF Serving
<1>5. QED
  BY <1>3, <1>4

\* A poll that ends or is cut: whoever waited does not wait any more.
LEMMA CutKeeps ==
  ASSUME ServedInv,
         PollDrops \/ Relink \/ Die \/ \E i \in Instances : PollTimeout(i) \/ Expire(i)
  PROVE  Serving'
<1> USE DEF server, calls, client, bounds, Abandon
<1>0. /\ TypeOK /\ QueuesHold /\ FlightsHold /\ CallsHold /\ ListenerHolds /\ JobHolds
      /\ OnceHolds /\ PumpedOut
  BY DEF ServedInv, Serving
<1>1. /\ UNCHANGED <<queue, inFlight, asked, target, runs, registered, restarts>>
  BY DEF PollDrops, Relink, Die, PollTimeout, Expire
<1>2. QueuesHold' /\ FlightsHold' /\ CallsHold'
  BY <1>0, <1>1 DEF QueuesHold, FlightsHold, CallsHold
<1>3. worker = "polling" => id \in Instances /\ waiter[id] = "held"
  BY <1>0 DEF ListenerHolds
<1>4. CASE PollDrops \/ Relink \/ Die
  <2>1. TypeOK'
    <3>1. waiter' \in [Instances -> {"none", "held", "gone"}]
      BY <1>0, <1>3, <1>4 DEF TypeOK, PollDrops, Relink, Die
    <3>2. /\ worker' \in {"dead", "idle", "polling", "busy", "posting"}
          /\ id' \in Instances \cup {None} /\ job' \in Batches \cup {None}
          /\ fresh' = fresh
      BY <1>0, <1>4 DEF TypeOK, PollDrops, Relink, Die
    <3>3. deaths' \in 0..MaxDeaths
      BY <1>0, <1>4 DEF TypeOK, PollDrops, Relink, Die
    <3>4. QED
      BY <1>0, <1>1, <3>1, <3>2, <3>3 DEF TypeOK
  <2>2. ListenerHolds'
    BY <1>0, <1>3, <1>4 DEF ListenerHolds, TypeOK, PollDrops, Relink, Die
  <2>3. JobHolds' /\ OnceHolds'
    BY <1>0, <1>1, <1>4 DEF JobHolds, OnceHolds, PollDrops, Relink, Die
  <2>4. \A i \in Instances : waiter'[i] # "none" => waiter[i] # "none"
    BY <1>0, <1>3, <1>4 DEF TypeOK, PollDrops, Relink, Die
  <2>5. PumpedOut'
    BY <1>0, <1>1, <2>4 DEF PumpedOut
  <2>6. QED
    BY <1>2, <2>1, <2>2, <2>3, <2>5 DEF Serving
<1>5. ASSUME NEW i \in Instances, PollTimeout(i) \/ Expire(i) PROVE Serving'
  <2>1. TypeOK'
    BY <1>0, <1>1, <1>5 DEF TypeOK, PollTimeout, Expire
  <2>2. ListenerHolds'
    BY <1>0, <1>3, <1>5 DEF ListenerHolds, TypeOK, PollTimeout, Expire
  <2>3. JobHolds' /\ OnceHolds'
    BY <1>0, <1>1, <1>5 DEF JobHolds, OnceHolds, ListenerHolds, PollTimeout, Expire
  <2>4. \A k \in Instances : waiter'[k] # "none" => waiter[k] # "none"
    BY <1>0, <1>5 DEF TypeOK, PollTimeout, Expire
  <2>5. PumpedOut'
    BY <1>0, <1>1, <2>4 DEF PumpedOut
  <2>6. QED
    BY <1>2, <2>1, <2>2, <2>3, <2>5 DEF Serving
<1>6. QED
  BY <1>4, <1>5

\* A poll is handed the head of the queue, or held.
LEMMA PollKeeps ==
  ASSUME ServedInv, Poll
  PROVE  Serving'
<1> USE DEF calls, bounds
<1>0. /\ TypeOK /\ QueuesHold /\ FlightsHold /\ CallsHold /\ ListenerHolds /\ JobHolds
      /\ OnceHolds /\ PumpedOut
  BY DEF ServedInv, Serving
<1>1. /\ worker = "idle" /\ id \in fresh /\ id \in Instances
      /\ UNCHANGED <<registered, fresh, asked, target, id, runs, deaths, restarts>>
  BY <1>0 DEF Poll, TypeOK, Instances
<1>2. CASE inFlight[id] = None /\ queue[id] # <<>>
  <2> DEFINE q == queue[id]
  <2>1. queue' = [queue EXCEPT ![id] = Tail(q)] /\ inFlight' = [inFlight EXCEPT ![id] = Head(q)]
        /\ worker' = "busy" /\ job' = Head(q) /\ waiter' = waiter
    BY <1>2 DEF Poll, Deliver
  <2>2. q \in Seq(Batches) /\ Distinct(q)
    <3>1. q \in Seq(Batches)
      BY <1>0, <1>1 DEF TypeOK
    <3>2. Distinct(q)
      BY <1>0, <1>1 DEF QueuesHold
    <3>3. QED
      BY <3>1, <3>2
  <2>3. /\ Tail(q) \in Seq(Batches) /\ Head(q) \in Batches
        /\ In(q, Head(q))
        /\ \A x : In(q, x) => In(Tail(q), x) \/ x = Head(q)
        /\ \A x : In(Tail(q), x) => In(q, x)
        /\ Distinct(Tail(q)) /\ ~In(Tail(q), Head(q))
    BY <1>2, <2>2, TailMembers
  <2>4. /\ queue'[id] = Tail(q) /\ inFlight'[id] = Head(q)
        /\ \A k \in Instances \ {id} : queue'[k] = queue[k] /\ inFlight'[k] = inFlight[k]
    BY <1>0, <1>1, <2>1 DEF TypeOK
  <2>5. TypeOK'
    BY <1>0, <1>1, <2>1, <2>3 DEF TypeOK
  <2>6. \A b \in Batches : In(q, b) =>
          asked[b] = "sent" /\ target[b] = id /\ runs[b] = 0 /\ job # b
    BY <1>0, <1>1 DEF QueuesHold, OnceHolds
  <2> HIDE DEF q
  <2>7. QueuesHold'
    <3>1. ASSUME NEW k \in Instances \ {id}
          PROVE  /\ Distinct(queue'[k])
                 /\ \A b \in Batches : In(queue'[k], b) =>
                      asked'[b] = "sent" /\ target'[b] = k /\ inFlight'[k] # b
      BY <1>0, <1>1, <2>4 DEF QueuesHold
    <3>2. /\ Distinct(queue'[id])
          /\ \A b \in Batches : In(queue'[id], b) =>
               asked'[b] = "sent" /\ target'[b] = id /\ inFlight'[id] # b
      BY <1>1, <2>3, <2>4, <2>6
    <3>3. QED
      BY <1>1, <3>1, <3>2 DEF QueuesHold
  <2>8. FlightsHold'
    BY <1>0, <1>1, <2>3, <2>4, <2>6 DEF FlightsHold
  <2>9. CallsHold'
    BY <1>0, <1>1, <1>2, <2>3, <2>4 DEF CallsHold, q
  <2>10. ListenerHolds' /\ JobHolds'
    BY <1>0, <1>1, <2>1, <2>3 DEF ListenerHolds, JobHolds
  <2>11. OnceHolds'
    <3>1. \A b \in Batches : (\E i \in Instances : In(queue'[i], b)) =>
            (\E i \in Instances : In(queue[i], b)) /\ b # Head(q)
      BY <1>0, <1>1, <2>3, <2>4, <2>6 DEF QueuesHold, q
    <3>2. QED
      BY <1>0, <1>1, <2>1, <2>3, <2>6, <3>1 DEF OnceHolds
  <2>12. PumpedOut'
    BY <1>0, <1>1, <2>1, <2>3, <2>4 DEF PumpedOut
  <2>13. QED
    BY <2>5, <2>7, <2>8, <2>9, <2>10, <2>11, <2>12 DEF Serving
<1>3. CASE ~(inFlight[id] = None /\ queue[id] # <<>>)
  <2>1. /\ waiter' = [waiter EXCEPT ![id] = "held"] /\ worker' = "polling"
        /\ UNCHANGED <<queue, inFlight, job>>
    BY <1>3 DEF Poll
  <2>2. QueuesHold' /\ FlightsHold' /\ CallsHold'
    BY <1>0, <1>1, <2>1 DEF QueuesHold, FlightsHold, CallsHold
  <2>3. TypeOK' /\ ListenerHolds' /\ JobHolds' /\ OnceHolds'
    BY <1>0, <1>1, <2>1 DEF TypeOK, ListenerHolds, JobHolds, OnceHolds
  <2>4. PumpedOut'
    BY <1>0, <1>1, <1>3, <2>1 DEF TypeOK, PumpedOut
  <2>5. QED
    BY <2>2, <2>3, <2>4 DEF Serving
<1>4. QED
  BY <1>2, <1>3

\* Nothing is in an empty queue.
LEMMA EmptyMembers == \A b : ~In(<<>>, b) /\ Distinct(<<>>)
BY DEF In, Distinct

\* A restart empties the server and ends every call that was under way.
LEMMA RestartKeeps ==
  ASSUME ServedInv, Restart
  PROVE  Serving'
<1>0. /\ TypeOK /\ ListenerHolds /\ JobHolds /\ OnceHolds
  BY DEF ServedInv, Serving
<1>1. /\ \A i \in Instances : queue'[i] = <<>> /\ inFlight'[i] = None /\ waiter'[i] = "none"
      /\ \A b \in Batches : asked'[b] \in {"new"} \cup Ended
      /\ \A b \in Batches : asked'[b] = "new" => asked[b] = "new"
  BY <1>0 DEF Restart, TypeOK, Ended
<1>2. TypeOK'
  BY <1>0 DEF Restart, TypeOK, Ended
<1>3. QueuesHold' /\ FlightsHold' /\ CallsHold' /\ PumpedOut'
  BY <1>1, EmptyMembers DEF QueuesHold, FlightsHold, CallsHold, PumpedOut, Ended
<1>4. ListenerHolds' /\ JobHolds'
  BY <1>0, <1>1 DEF Restart, ListenerHolds, JobHolds
<1>5. OnceHolds'
  BY <1>0, <1>1, EmptyMembers DEF Restart, OnceHolds, Ended
<1>6. QED
  BY <1>2, <1>3, <1>4, <1>5 DEF Serving

\* An instance stays registered, so a call goes on knowing its own.
LEMMA TargetsNext ==
  ASSUME ServedInv, [Next]_vars
  PROVE  TargetsKnown'
<1> USE DEF TargetsKnown, server, calls, client, bounds
<1>0. TypeOK /\ TargetsKnown
  BY DEF ServedInv, Serving
<1>1. ASSUME NEW b \in Batches, Ask(b) PROVE TargetsKnown'
  BY <1>0, <1>1 DEF Ask, TypeOK
<1>2. CASE ~\E b \in Batches : Ask(b)
  <2>1. target' = target /\ (registered' = registered \/ registered' = registered + 1)
    BY <1>2 DEF vars, Next, Grant, Screen, BatchTimeout, Register, PollUnknown, Poll,
         PollDrops, Relink, Execute, Post, PostFails, Die, Wake, PollTimeout, Expire, Restart
  <2>2. QED
    BY <1>0, <2>1 DEF TypeOK
<1>3. QED
  BY <1>1, <1>2

\* The invariant holds before the first registration.
LEMMA ServedInit == Init => ServedInv
<1> SUFFICES ASSUME Init PROVE ServedInv
  OBVIOUS
<1>1. TypeOK
  BY DEF Init, TypeOK, Ended
<1>2. QueuesHold /\ FlightsHold /\ CallsHold /\ PumpedOut
  BY EmptyMembers DEF Init, QueuesHold, FlightsHold, CallsHold, PumpedOut
<1>3. ListenerHolds /\ JobHolds /\ OnceHolds /\ TargetsKnown
  BY EmptyMembers DEF Init, ListenerHolds, JobHolds, OnceHolds, TargetsKnown
<1>4. QED
  BY <1>1, <1>2, <1>3 DEF ServedInv, Serving

\* Every step keeps the invariant.
LEMMA ServedNext == ServedInv /\ [Next]_vars => ServedInv'
<1> SUFFICES ASSUME ServedInv, [Next]_vars PROVE ServedInv'
  OBVIOUS
<1>1. CASE UNCHANGED vars
  BY <1>1 DEF ServedInv, Serving, vars, server, calls, client, bounds, TargetsKnown, TypeOK,
       QueuesHold, FlightsHold, CallsHold, ListenerHolds, JobHolds, OnceHolds, PumpedOut
<1>2. CASE Next
  <2>1. Serving'
    BY <1>2, CallerKeeps, TimeoutKeeps, PostKeeps, WorkerKeeps, CutKeeps, PollKeeps,
       RestartKeeps
       DEF Next
  <2>2. QED
    BY <2>1, TargetsNext DEF ServedInv
<1>3. QED
  BY <1>1, <1>2

\* The invariant of the channel.
LEMMA ServedInvariant == Spec => []ServedInv
BY ServedInit, ServedNext, PTL DEF Spec

\* A call that waits for its result is in exactly one place, once, and nothing else is, and no path that
\* frees the slot in flight forgets to pump, for every number of calls, instances, deaths and restarts.
THEOREM ChannelConsistent == Spec => []ChannelInv
<1>1. ServedInv => ChannelInv
  BY DEF ServedInv, Serving, ChannelInv, Placed, QueuesHold, FlightsHold, CallsHold, In,
         Distinct, TypeOK
<1>2. QED
  BY ServedInvariant, <1>1, PTL

-----------------------------------------------------------------------------
(* The channel implements the safety part of BrowserRpc *)

\* What BrowserRpc sees of the calls.
calling == [b \in Batches |-> CallOf(asked[b])]

\* One call changes, the rest stay.
LEMMA OneCall ==
  ASSUME TypeOK, NEW b \in Batches, NEW s \in {"grant", "screen", "sent"} \cup Ended,
         asked' = [asked EXCEPT ![b] = s]
  PROVE  calling' = [calling EXCEPT ![b] = CallOf(s)]
<1>1. \A c \in Batches : asked'[c] = IF c = b THEN s ELSE asked[c]
  BY DEF TypeOK
<1>2. \A c \in Batches : CallOf(asked'[c]) = IF c = b THEN CallOf(s) ELSE CallOf(asked[c])
  BY <1>1
<1>3. QED
  BY <1>2 DEF calling

\* In BrowserRpc, a call opens when it is accepted, ...
LEMMA SendIsOpen ==
  ASSUME TypeOK, NEW b \in Batches, asked[b] = "new", asked' = [asked EXCEPT ![b] = "sent"]
           \/ asked' = [asked EXCEPT ![b] = "grant"],
         runs' = runs
  PROVE  Rpc!Open(b)
<1>1. calling' = [calling EXCEPT ![b] = "open"]
  BY OneCall DEF CallOf, Ended
<1>2. calling[b] = "new"
  BY DEF calling, CallOf, Ended
<1>3. QED
  BY <1>1, <1>2 DEF Rpc!Open, calling

\* ... fails when it is refused or times out, ...
LEMMA EndIsFail ==
  ASSUME TypeOK, NEW b \in Batches, asked[b] \in {"new", "grant", "screen", "sent"},
         NEW s \in {"timeout", "refused"}, asked' = [asked EXCEPT ![b] = s], runs' = runs
  PROVE  Rpc!Fail({b})
<1>1. calling' = [calling EXCEPT ![b] = "failed"]
  BY OneCall DEF CallOf, Ended
<1>2. calling[b] \in {"new", "open"}
  BY DEF calling, CallOf, Ended
<1>3. calling' = [c \in Batches |-> IF c \in {b} THEN "failed" ELSE calling[c]]
  BY <1>1 DEF calling
<1>4. QED
  BY <1>2, <1>3 DEF Rpc!Fail, calling

\* ... and its checks are not visible.
LEMMA StaysOpen ==
  ASSUME TypeOK, NEW b \in Batches, asked[b] \in {"grant", "screen"},
         NEW s \in {"screen", "sent"}, asked' = [asked EXCEPT ![b] = s]
  PROVE  calling' = calling
<1>1. calling' = [calling EXCEPT ![b] = "open"]
  BY OneCall DEF CallOf, Ended
<1>2. calling[b] = "open"
  BY DEF calling, CallOf, Ended
<1>3. QED
  BY <1>1, <1>2 DEF calling

\* Every step of the channel is a step of BrowserRpc, or none.
LEMMA ChannelStep ==
  ASSUME ServedInv, [Next]_vars
  PROVE  [Rpc!RpcNext]_(Rpc!rpcVars)
<1> USE DEF server, calls, client, bounds
<1>0. TypeOK /\ JobHolds /\ OnceHolds /\ FlightsHold
  BY DEF ServedInv, Serving
<1>1. ASSUME NEW b \in Batches, Ask(b) PROVE Rpc!RpcNext
  <2>1. asked[b] = "new" /\ runs' = runs
    BY <1>1 DEF Ask
  <2>2. \/ asked' = [asked EXCEPT ![b] = "sent"] \/ asked' = [asked EXCEPT ![b] = "grant"]
        \/ asked' = [asked EXCEPT ![b] = "refused"]
    BY <1>1 DEF Ask, Enqueue
  <2>3. Rpc!Open(b) \/ Rpc!Fail({b})
    BY <1>0, <2>1, <2>2, SendIsOpen, EndIsFail
  <2>4. QED
    BY <2>3 DEF Rpc!RpcNext
<1>2. ASSUME NEW b \in Batches, Grant(b) \/ Screen(b) \/ BatchTimeout(b)
      PROVE  Rpc!RpcNext \/ UNCHANGED (Rpc!rpcVars)
  <2>1. asked[b] \in {"grant", "screen", "sent"} /\ runs' = runs
    BY <1>2 DEF Grant, Screen, BatchTimeout
  <2>2. \/ \E s \in {"timeout", "refused"} : asked' = [asked EXCEPT ![b] = s]
        \/ /\ asked[b] \in {"grant", "screen"}
           /\ \E s \in {"screen", "sent"} : asked' = [asked EXCEPT ![b] = s]
    BY <1>2 DEF Grant, Screen, BatchTimeout, Enqueue
  <2>3. Rpc!Fail({b}) \/ calling' = calling
    BY <1>0, <2>1, <2>2, EndIsFail, StaysOpen
  <2>4. QED
    BY <2>1, <2>3 DEF Rpc!RpcNext, Rpc!rpcVars, calling
<1>3. CASE Execute
  <2>1. job \in Batches /\ runs[job] = 0 /\ asked[job] # "new"
    BY <1>0, <1>3 DEF Execute, TypeOK, JobHolds, OnceHolds
  <2>2. runs' = [runs EXCEPT ![job] = 1] /\ asked' = asked
    BY <1>0, <1>3, <2>1 DEF Execute, TypeOK
  <2>3. calling[job] # "new" /\ calling' = calling
    BY <2>1, <2>2 DEF calling, CallOf
  <2>4. Rpc!Run(job)
    BY <2>1, <2>2, <2>3 DEF Rpc!Run, calling
  <2>5. QED
    BY <2>1, <2>4 DEF Rpc!RpcNext
<1>4. CASE Post
  <2>1. /\ job \in Batches /\ runs[job] = 1 /\ asked[job] = "sent"
        /\ asked' = [asked EXCEPT ![job] = "result"] /\ runs' = runs
    BY <1>0, <1>4 DEF Post, TypeOK, JobHolds, OnceHolds, FlightsHold
  <2>2. calling' = [calling EXCEPT ![job] = "answered"]
    BY <1>0, <2>1, OneCall DEF CallOf, Ended
  <2>3. calling[job] = "open"
    BY <2>1 DEF calling, CallOf, Ended
  <2>4. Rpc!Answer(job)
    BY <2>1, <2>2, <2>3 DEF Rpc!Answer, calling
  <2>5. QED
    BY <2>1, <2>4 DEF Rpc!RpcNext
<1>5. CASE Restart
  <2> DEFINE S == {b \in Batches : asked[b] \in {"grant", "screen", "sent"}}
  <2>1. /\ \A b \in Batches : asked'[b] = IF b \in S THEN "lost" ELSE asked[b]
        /\ runs' = runs
    BY <1>0, <1>5 DEF Restart, TypeOK, Ended
  <2>2. calling' = [b \in Batches |-> IF b \in S THEN "failed" ELSE calling[b]]
    BY <2>1 DEF calling, CallOf, Ended
  <2>3. \A b \in S : calling[b] \in {"new", "open"}
    BY DEF calling, CallOf, Ended
  <2>4. CASE S = {}
    BY <2>1, <2>2, <2>4 DEF Rpc!rpcVars, calling
  <2>5. CASE S # {}
    BY <2>1, <2>2, <2>3, <2>5 DEF Rpc!RpcNext, Rpc!Fail, calling
  <2>6. QED
    BY <2>4, <2>5
<1>6. CASE \/ UNCHANGED vars
           \/ Register \/ PollUnknown \/ Poll \/ PollDrops \/ Relink \/ PostFails \/ Die \/ Wake
           \/ \E i \in Instances : PollTimeout(i) \/ Expire(i)
  <2>1. asked' = asked /\ runs' = runs
    BY <1>6 DEF vars, Register, PollUnknown, Poll, PollDrops, Relink, PostFails, Die, Wake,
         PollTimeout, Expire
  <2>2. QED
    BY <2>1 DEF Rpc!rpcVars
<1>7. QED
  BY <1>1, <1>2, <1>3, <1>4, <1>5, <1>6 DEF Next

\* A batch is executed once at most, and a caller gets one answer, a result only of the
\* execution of its own batch: every step of the channel is a step of BrowserRpc, or none.
THEOREM ImplementsRpcSafely == Spec => Rpc!RpcSafe
<1>1. Init => Rpc!RpcInit
  BY DEF Init, Rpc!RpcInit, CallOf, Ended
<1>2. ServedInv /\ [Next]_vars => [Rpc!RpcNext]_(Rpc!rpcVars)
  BY ChannelStep
<1>3. QED
  BY ServedInvariant, <1>1, <1>2, PTL DEF Spec, Rpc!RpcSafe

-----------------------------------------------------------------------------
\* Calls of agents and the marks of their accounts.

CallsSpec == CallsInit /\ [][CallsNext]_callsVars

\* Where a call is says what there is of its agent and of its answer.
CallPlaced(c) ==
  /\ process[c] \in {"alive", "killed"} => callAt[c] = "run"
  /\ callAt[c] \in {"new", "look", "touch", "touched", "launch"} =>
       process[c] = "none" /\ exitCode[c] = "none"
  /\ answer[c] # "none" => callAt[c] = "done"
  /\ callAt[c] \in {"touch", "touched", "limit"} => login[c] \in LoginIds
  /\ drain[c] => process[c] = "reaped"

\* Whoever has read the row of an account and not yet written it back has read the latest mark, as
\* long as none was made under him.
RowsFresh ==
  \A l \in LoginIds \ overlapped :
    /\ until[l] = marked[l]
    /\ \A c \in Calls : callAt[c] = "touched" /\ login[c] = l => rowRead[c] = marked[l]
    /\ check.login = l => check.read = marked[l]

CallsPlaced == \A c \in Calls : CallPlaced(c)
CallsInductive == CallsTypeOK /\ CallVerdict /\ CallsPlaced /\ RowsFresh

\* The accounts of a lane are its logins, and none is the absence of one.
LEMMA LoginFacts ==
  /\ DOMAIN Logins = 1..Len(Logins) /\ Len(Logins) \in Nat
  /\ \A n \in 1..Len(Logins) : Logins[n] \in LoginIds
  /\ "none" \notin LoginIds
  /\ MaxClock \in Nat /\ \A c \in Calls : KindsOf[c] \subseteq Kinds
BY CallsAssumption DEF CallsAssumption, LoginIds, ToSet

\* A call goes from place to place.
LEMMA GoTyped ==
  ASSUME CallsTypeOK, NEW c \in Calls, NEW p \in Places, Go(c, p)
  PROVE  callAt' \in [Calls -> Places]
BY DEF CallsTypeOK, Go

\* Every step keeps the types.
LEMMA CallsTyped ==
  ASSUME CallsTypeOK, CallsPlaced, CallsNext
  PROVE  CallsTypeOK'
PROOF
  <1>1. ASSUME NEW c \in Calls, StartCall(c) PROVE CallsTypeOK'
    <2>1. kind' \in [Calls -> Kinds \cup {"none"}]
      BY <1>1, LoginFacts DEF StartCall, Go, theRows, history, theAgent, theChoice, CallsTypeOK
    <2>2. callAt' \in [Calls -> Places]
      <3>1. \E p \in {"launch", "look"} : Go(c, p)
        BY <1>1 DEF StartCall
      <3> QED BY <3>1, GoTyped DEF Places
    <2>3. UNCHANGED <<clock, until, marked, overlapped, looked, spent, login, rowRead, attempt,
                      process, exitCode, pipe, drain, giveUp, answer, check>>
      BY <1>1 DEF StartCall, Go, theRows, history, theAgent, theChoice
    <2> QED BY <2>1, <2>2, <2>3 DEF CallsTypeOK
  <1>2. ASSUME NEW c \in Calls, LookAt(c) PROVE CallsTypeOK'
    <2>1. looked' \in [Calls -> 0..Len(Logins)]
      BY <1>2, LoginFacts DEF LookAt, Go, theRows, history, theAgent, theChoice, CallsTypeOK
    <2>2. spent' \in [Calls -> SUBSET LoginIds]
      BY <1>2, LoginFacts DEF LookAt, Go, theRows, history, theAgent, theChoice, CallsTypeOK
    <2>3. UNCHANGED <<clock, until, marked, overlapped, kind, callAt, login, rowRead, attempt,
                      process, exitCode, pipe, drain, giveUp, answer, check>>
      BY <1>2 DEF LookAt, Go, theRows, history, theAgent, theChoice
    <2> QED BY <2>1, <2>2, <2>3 DEF CallsTypeOK
  <1>3. ASSUME NEW c \in Calls, Choose(c) PROVE CallsTypeOK'
    <2>1. callAt' \in [Calls -> Places]
      <3>1. \E p \in {"done", "touch"} : Go(c, p)
        BY <1>3 DEF Choose
      <3> QED BY <3>1, GoTyped DEF Places
    <2>2. looked' \in [Calls -> 0..Len(Logins)]
      BY <1>3, LoginFacts DEF Choose, Go, theRows, history, theAgent, theChoice, CallsTypeOK
    <2>3. spent' \in [Calls -> SUBSET LoginIds]
      BY <1>3, LoginFacts DEF Choose, Go, theRows, history, theAgent, theChoice, CallsTypeOK
    <2>4. login' \in [Calls -> LoginIds \cup {"none"}]
      <3>1. login' = login \/ \E n \in 1..Len(Logins) : login' = [login EXCEPT ![c] = Logins[n]]
        BY <1>3, LoginFacts DEF Choose
      <3> QED BY <3>1, LoginFacts DEF CallsTypeOK
    <2>5. answer' \in [Calls -> {"none", "ok", "failed", "exhausted", "limit"}]
      BY <1>3, LoginFacts DEF Choose, Go, theRows, history, theAgent, theChoice, CallsTypeOK
    <2>6. UNCHANGED <<clock, until, marked, overlapped, kind, rowRead, attempt, process, exitCode,
                      pipe, drain, giveUp, check>>
      BY <1>3 DEF Choose, Go, theRows, history, theAgent, theChoice
    <2> QED BY <2>1, <2>2, <2>3, <2>4, <2>5, <2>6 DEF CallsTypeOK
  <1>4. ASSUME NEW c \in Calls, ReadRow(c) PROVE CallsTypeOK'
    <2>1. callAt' \in [Calls -> Places]
      <3>1. \E p \in {"touched"} : Go(c, p)
        BY <1>4 DEF ReadRow
      <3> QED BY <3>1, GoTyped DEF Places
    <2>2. rowRead' \in [Calls -> 0..(MaxClock + 1)]
      <3>1. login[c] \in LoginIds
        BY <1>4 DEF ReadRow, CallsPlaced, CallPlaced
      <3> QED BY <3>1, <1>4 DEF ReadRow, CallsTypeOK
    <2>3. UNCHANGED <<clock, until, marked, overlapped, kind, looked, spent, login, attempt,
                      process, exitCode, pipe, drain, giveUp, answer, check>>
      BY <1>4 DEF ReadRow, Go, theRows, history, theAgent, theChoice
    <2> QED BY <2>1, <2>2, <2>3 DEF CallsTypeOK
  <1>5. ASSUME NEW c \in Calls, MarkUsed(c) PROVE CallsTypeOK'
    <2>1. callAt' \in [Calls -> Places]
      <3>1. \E p \in {"launch"} : Go(c, p)
        BY <1>5 DEF MarkUsed
      <3> QED BY <3>1, GoTyped DEF Places
    <2>2. until' \in [LoginIds -> 0..(MaxClock + 1)]
      BY <1>5, LoginFacts DEF MarkUsed, Go, theRows, history, theAgent, theChoice, CallsTypeOK
    <2>3. rowRead' \in [Calls -> 0..(MaxClock + 1)]
      BY <1>5, LoginFacts DEF MarkUsed, Go, theRows, history, theAgent, theChoice, CallsTypeOK
    <2>4. UNCHANGED <<clock, marked, overlapped, kind, looked, spent, login, attempt, process,
                      exitCode, pipe, drain, giveUp, answer, check>>
      BY <1>5 DEF MarkUsed, Go, theRows, history, theAgent, theChoice
    <2> QED BY <2>1, <2>2, <2>3, <2>4 DEF CallsTypeOK
  <1>6. ASSUME NEW c \in Calls, MarkExhausted(c) PROVE CallsTypeOK'
    <2>1. callAt' \in [Calls -> Places]
      <3>1. \E p \in {"done"} : Go(c, p)
        BY <1>6 DEF MarkExhausted
      <3> QED BY <3>1, GoTyped DEF Places
    <2>2. until' \in [LoginIds -> 0..(MaxClock + 1)]
      <3>1. PICK reset \in (clock + 1)..(MaxClock + 1) : until' = [until EXCEPT ![login[c]] = reset]
        BY <1>6 DEF MarkExhausted, BetweenReadAndWrite
      <3>2. reset \in 0..(MaxClock + 1)
        BY LoginFacts DEF CallsTypeOK
      <3> QED BY <3>1, <3>2 DEF CallsTypeOK
    <2>3. marked' \in [LoginIds -> 0..(MaxClock + 1)]
      <3>1. PICK reset \in (clock + 1)..(MaxClock + 1) : marked' = [marked EXCEPT ![login[c]] = reset]
        BY <1>6 DEF MarkExhausted, BetweenReadAndWrite
      <3>2. reset \in 0..(MaxClock + 1)
        BY LoginFacts DEF CallsTypeOK
      <3> QED BY <3>1, <3>2 DEF CallsTypeOK
    <2>4. overlapped' \in SUBSET LoginIds
      <3>1. login[c] \in LoginIds
        BY <1>6 DEF MarkExhausted, CallsPlaced, CallPlaced
      <3> QED BY <3>1, <1>6 DEF MarkExhausted, CallsTypeOK
    <2>5. answer' \in [Calls -> {"none", "ok", "failed", "exhausted", "limit"}]
      BY <1>6, LoginFacts
        DEF MarkExhausted, BetweenReadAndWrite, Go, theRows, history, theAgent, theChoice,
            CallsTypeOK
    <2>6. UNCHANGED <<clock, kind, looked, spent, login, rowRead, attempt, process, exitCode,
                      pipe, drain, giveUp, check>>
      BY <1>6 DEF MarkExhausted, BetweenReadAndWrite, Go, theRows, history, theAgent, theChoice
    <2> QED BY <2>1, <2>2, <2>3, <2>4, <2>5, <2>6 DEF CallsTypeOK
  <1>7. ASSUME NEW c \in Calls, Launch(c) PROVE CallsTypeOK'
    <2>1. callAt' \in [Calls -> Places]
      <3>1. \E p \in {"run", "done"} : Go(c, p)
        BY <1>7 DEF Launch
      <3> QED BY <3>1, GoTyped DEF Places
    <2>2. process' \in [Calls -> {"none", "alive", "killed", "gone", "reaped"}]
      BY <1>7, LoginFacts DEF Launch, Go, theRows, history, theAgent, theChoice, CallsTypeOK
    <2>3. answer' \in [Calls -> {"none", "ok", "failed", "exhausted", "limit"}]
      BY <1>7, LoginFacts DEF Launch, Go, theRows, history, theAgent, theChoice, CallsTypeOK
    <2>4. UNCHANGED <<clock, until, marked, overlapped, kind, looked, spent, login, rowRead,
                      attempt, exitCode, pipe, drain, giveUp, check>>
      BY <1>7 DEF Launch, Go, theRows, history, theAgent, theChoice
    <2> QED BY <2>1, <2>2, <2>3, <2>4 DEF CallsTypeOK
  <1>8. ASSUME NEW c \in Calls, SdkEnds(c) PROVE CallsTypeOK'
    <2>1. callAt' \in [Calls -> Places]
      <3>1. \E p \in {"limit", "done"} : Go(c, p)
        BY <1>8 DEF SdkEnds, StreamEnds, Finish
      <3> QED BY <3>1, GoTyped DEF Places
    <2>2. drain' \in [Calls -> BOOLEAN]
      BY <1>8, LoginFacts
        DEF SdkEnds, StreamEnds, Finish, Go, theRows, history, theAgent, theChoice, CallsTypeOK
    <2>3. pipe' \in [Calls -> BOOLEAN]
      BY <1>8, LoginFacts
        DEF SdkEnds, StreamEnds, Finish, Go, theRows, history, theAgent, theChoice, CallsTypeOK
    <2>4. answer' \in [Calls -> {"none", "ok", "failed", "exhausted", "limit"}]
      <3>1. answer' = answer \/ \E verdict \in {"ok", "failed"} : answer' = [answer EXCEPT ![c] = verdict]
        BY <1>8 DEF SdkEnds, StreamEnds, Finish
      <3> QED BY <3>1 DEF CallsTypeOK
    <2>5. exitCode' \in [Calls -> {"none", "zero", "fail", "limit"}]
      BY <1>8, LoginFacts
        DEF SdkEnds, StreamEnds, Finish, Go, theRows, history, theAgent, theChoice, CallsTypeOK
    <2>6. process' \in [Calls -> {"none", "alive", "killed", "gone", "reaped"}]
      BY <1>8, LoginFacts
        DEF SdkEnds, StreamEnds, Finish, Go, theRows, history, theAgent, theChoice, CallsTypeOK
    <2>7. UNCHANGED <<clock, until, marked, overlapped, kind, looked, spent, login, rowRead,
                      attempt, giveUp, check>>
      BY <1>8 DEF SdkEnds, StreamEnds, Finish, Go, theRows, history, theAgent, theChoice
    <2> QED BY <2>1, <2>2, <2>3, <2>4, <2>5, <2>6, <2>7 DEF CallsTypeOK
  <1>9. ASSUME NEW c \in Calls, HttpEnds(c) PROVE CallsTypeOK'
    <2>1. callAt' \in [Calls -> Places]
      <3>1. \E p \in {"limit", "done"} : Go(c, p)
        BY <1>9 DEF HttpEnds, StreamEnds, Finish
      <3> QED BY <3>1, GoTyped DEF Places
    <2>2. drain' \in [Calls -> BOOLEAN]
      BY <1>9, LoginFacts
        DEF HttpEnds, StreamEnds, Finish, Go, theRows, history, theAgent, theChoice, CallsTypeOK
    <2>3. pipe' \in [Calls -> BOOLEAN]
      BY <1>9, LoginFacts
        DEF HttpEnds, StreamEnds, Finish, Go, theRows, history, theAgent, theChoice, CallsTypeOK
    <2>4. answer' \in [Calls -> {"none", "ok", "failed", "exhausted", "limit"}]
      <3>1. answer' = answer \/ \E verdict \in {"ok", "failed"} : answer' = [answer EXCEPT ![c] = verdict]
        BY <1>9 DEF HttpEnds, StreamEnds, Finish
      <3> QED BY <3>1 DEF CallsTypeOK
    <2>5. exitCode' \in [Calls -> {"none", "zero", "fail", "limit"}]
      BY <1>9, LoginFacts
        DEF HttpEnds, StreamEnds, Finish, Go, theRows, history, theAgent, theChoice, CallsTypeOK
    <2>6. process' \in [Calls -> {"none", "alive", "killed", "gone", "reaped"}]
      BY <1>9, LoginFacts
        DEF HttpEnds, StreamEnds, Finish, Go, theRows, history, theAgent, theChoice, CallsTypeOK
    <2>7. UNCHANGED <<clock, until, marked, overlapped, kind, looked, spent, login, rowRead,
                      attempt, giveUp, check>>
      BY <1>9 DEF HttpEnds, StreamEnds, Finish, Go, theRows, history, theAgent, theChoice
    <2> QED BY <2>1, <2>2, <2>3, <2>4, <2>5, <2>6, <2>7 DEF CallsTypeOK
  <1>10. ASSUME NEW c \in Calls, AgentExits(c) PROVE CallsTypeOK'
    BY <1>10, LoginFacts
      DEF AgentExits, Go, theRows, history, theAgent, theChoice, CallsTypeOK, Idle, Kinds
  <1>11. ASSUME NEW c \in Calls, Reap(c) PROVE CallsTypeOK'
    BY <1>11, LoginFacts
      DEF Reap, Go, theRows, history, theAgent, theChoice, CallsTypeOK, Idle, Kinds
  <1>12. ASSUME NEW c \in Calls, PipeCloses(c) PROVE CallsTypeOK'
    BY <1>12, LoginFacts
      DEF PipeCloses, Go, theRows, history, theAgent, theChoice, CallsTypeOK, Idle, Kinds
  <1>13. ASSUME NEW c \in Calls, OnClose(c) PROVE CallsTypeOK'
    <2>1. callAt' \in [Calls -> Places]
      <3>1. \E p \in {"limit", "done"} : Go(c, p)
        BY <1>13 DEF OnClose, Finish
      <3> QED BY <3>1, GoTyped DEF Places
    <2>2. drain' \in [Calls -> BOOLEAN]
      BY <1>13, LoginFacts
        DEF OnClose, Finish, Go, theRows, history, theAgent, theChoice, CallsTypeOK
    <2>3. pipe' \in [Calls -> BOOLEAN]
      BY <1>13, LoginFacts
        DEF OnClose, Finish, Go, theRows, history, theAgent, theChoice, CallsTypeOK
    <2>4. answer' \in [Calls -> {"none", "ok", "failed", "exhausted", "limit"}]
      <3>1. answer' = answer \/ \E verdict \in {"ok", "failed"} : answer' = [answer EXCEPT ![c] = verdict]
        BY <1>13 DEF OnClose, Finish
      <3> QED BY <3>1 DEF CallsTypeOK
    <2>5. UNCHANGED <<clock, until, marked, overlapped, kind, looked, spent, login, rowRead,
                      attempt, process, exitCode, giveUp, check>>
      BY <1>13 DEF OnClose, Finish, Go, theRows, history, theAgent, theChoice
    <2> QED BY <2>1, <2>2, <2>3, <2>4, <2>5 DEF CallsTypeOK
  <1>14. ASSUME NEW c \in Calls, DrainFires(c) PROVE CallsTypeOK'
    <2>1. callAt' \in [Calls -> Places]
      <3>1. \E p \in {"limit", "done"} : Go(c, p)
        BY <1>14 DEF DrainFires, Finish
      <3> QED BY <3>1, GoTyped DEF Places
    <2>2. drain' \in [Calls -> BOOLEAN]
      BY <1>14, LoginFacts
        DEF DrainFires, Finish, Go, theRows, history, theAgent, theChoice, CallsTypeOK
    <2>3. pipe' \in [Calls -> BOOLEAN]
      BY <1>14, LoginFacts
        DEF DrainFires, Finish, Go, theRows, history, theAgent, theChoice, CallsTypeOK
    <2>4. answer' \in [Calls -> {"none", "ok", "failed", "exhausted", "limit"}]
      <3>1. answer' = answer \/ \E verdict \in {"ok", "failed"} : answer' = [answer EXCEPT ![c] = verdict]
        BY <1>14 DEF DrainFires, Finish
      <3> QED BY <3>1 DEF CallsTypeOK
    <2>5. UNCHANGED <<clock, until, marked, overlapped, kind, looked, spent, login, rowRead,
                      attempt, process, exitCode, giveUp, check>>
      BY <1>14 DEF DrainFires, Finish, Go, theRows, history, theAgent, theChoice
    <2> QED BY <2>1, <2>2, <2>3, <2>4, <2>5 DEF CallsTypeOK
  <1>15. ASSUME NEW c \in Calls, PollFinds(c) PROVE CallsTypeOK'
    <2>1. callAt' \in [Calls -> Places]
      <3>1. \E p \in {"limit", "done"} : Go(c, p)
        BY <1>15 DEF PollFinds, Finish
      <3> QED BY <3>1, GoTyped DEF Places
    <2>2. drain' \in [Calls -> BOOLEAN]
      BY <1>15, LoginFacts
        DEF PollFinds, Finish, Go, theRows, history, theAgent, theChoice, CallsTypeOK
    <2>3. pipe' \in [Calls -> BOOLEAN]
      BY <1>15, LoginFacts
        DEF PollFinds, Finish, Go, theRows, history, theAgent, theChoice, CallsTypeOK
    <2>4. answer' \in [Calls -> {"none", "ok", "failed", "exhausted", "limit"}]
      <3>1. answer' = answer \/ \E verdict \in {"ok", "failed"} : answer' = [answer EXCEPT ![c] = verdict]
        BY <1>15 DEF PollFinds, Finish
      <3> QED BY <3>1 DEF CallsTypeOK
    <2>5. giveUp' \in [Calls -> BOOLEAN]
      BY <1>15, LoginFacts
        DEF PollFinds, Finish, Go, theRows, history, theAgent, theChoice, CallsTypeOK
    <2>6. UNCHANGED <<clock, until, marked, overlapped, kind, looked, spent, login, rowRead,
                      attempt, process, exitCode, check>>
      BY <1>15 DEF PollFinds, Finish, Go, theRows, history, theAgent, theChoice
    <2> QED BY <2>1, <2>2, <2>3, <2>4, <2>5, <2>6 DEF CallsTypeOK
  <1>16. ASSUME NEW c \in Calls, KillAgent(c) PROVE CallsTypeOK'
    BY <1>16, LoginFacts
      DEF KillAgent, Go, theRows, history, theAgent, theChoice, CallsTypeOK, Idle, Kinds
  <1>17. ASSUME NEW c \in Calls, RetryCall(c) PROVE CallsTypeOK'
    <2>1. callAt' \in [Calls -> Places]
      <3>1. \E p \in {"look"} : Go(c, p)
        BY <1>17 DEF RetryCall
      <3> QED BY <3>1, GoTyped DEF Places
    <2>2. attempt' \in [Calls -> 1..2]
      BY <1>17, LoginFacts DEF RetryCall, Go, theRows, history, theAgent, theChoice, CallsTypeOK
    <2>3. looked' \in [Calls -> 0..Len(Logins)]
      BY <1>17, LoginFacts DEF RetryCall, Go, theRows, history, theAgent, theChoice, CallsTypeOK
    <2>4. spent' \in [Calls -> SUBSET LoginIds]
      BY <1>17, LoginFacts DEF RetryCall, Go, theRows, history, theAgent, theChoice, CallsTypeOK
    <2>5. login' \in [Calls -> LoginIds \cup {"none"}]
      BY <1>17, LoginFacts DEF RetryCall, Go, theRows, history, theAgent, theChoice, CallsTypeOK
    <2>6. process' \in [Calls -> {"none", "alive", "killed", "gone", "reaped"}]
      BY <1>17, LoginFacts DEF RetryCall, Go, theRows, history, theAgent, theChoice, CallsTypeOK
    <2>7. exitCode' \in [Calls -> {"none", "zero", "fail", "limit"}]
      BY <1>17, LoginFacts DEF RetryCall, Go, theRows, history, theAgent, theChoice, CallsTypeOK
    <2>8. pipe' \in [Calls -> BOOLEAN]
      BY <1>17, LoginFacts DEF RetryCall, Go, theRows, history, theAgent, theChoice, CallsTypeOK
    <2>9. drain' \in [Calls -> BOOLEAN]
      BY <1>17, LoginFacts DEF RetryCall, Go, theRows, history, theAgent, theChoice, CallsTypeOK
    <2>10. giveUp' \in [Calls -> BOOLEAN]
      BY <1>17, LoginFacts DEF RetryCall, Go, theRows, history, theAgent, theChoice, CallsTypeOK
    <2>11. answer' \in [Calls -> {"none", "ok", "failed", "exhausted", "limit"}]
      BY <1>17, LoginFacts DEF RetryCall, Go, theRows, history, theAgent, theChoice, CallsTypeOK
    <2>12. UNCHANGED <<clock, until, marked, overlapped, kind, rowRead, check>>
      BY <1>17 DEF RetryCall, Go, theRows, history, theAgent, theChoice
    <2> QED
      BY <2>1, <2>2, <2>3, <2>4, <2>5, <2>6, <2>7, <2>8, <2>9, <2>10, <2>11, <2>12 DEF CallsTypeOK
  <1>18. ASSUME NEW l \in LoginIds, CheckLogin(l) PROVE CallsTypeOK'
    BY <1>18, LoginFacts
      DEF CheckLogin, Go, theRows, history, theAgent, theChoice, CallsTypeOK, Idle, Kinds
  <1>19. CASE MarkLogin
    <2>1. check' = Idle /\ until' \in [LoginIds -> 0..(MaxClock + 1)]
      BY <1>19 DEF MarkLogin, CallsTypeOK
    <2>2. check' \in [login : LoginIds \cup {"none"}, read : 0..(MaxClock + 1)]
      BY <2>1, LoginFacts DEF Idle
    <2>3. UNCHANGED <<clock, history, kind, callAt, theChoice, rowRead, attempt, theAgent,
                      answer>>
      BY <1>19 DEF MarkLogin
    <2> QED BY <2>1, <2>2, <2>3 DEF CallsTypeOK, history, theChoice, theAgent
  <1>20. CASE CallsTick
    BY <1>20, LoginFacts
      DEF CallsTick, Idle, Go, theRows, history, theAgent, theChoice, CallsTypeOK, Idle, Kinds
  <1> QED
    BY <1>1, <1>2, <1>3, <1>4, <1>5, <1>6, <1>7, <1>8, <1>9, <1>10, <1>11, <1>12, <1>13, <1>14,
       <1>15, <1>16, <1>17, <1>18, <1>19, <1>20 DEF CallsNext

\* Every step keeps a call in its place.
LEMMA CallsStayPlaced ==
  ASSUME CallsTypeOK, CallsPlaced, CallsNext
  PROVE  CallsPlaced'
PROOF
  <1>1. ASSUME NEW c \in Calls, StartCall(c) PROVE CallsPlaced'
    BY <1>1, LoginFacts
      DEF StartCall, Go, theRows, history, theAgent, theChoice, CallsTypeOK, CallsPlaced,
          CallPlaced
  <1>2. ASSUME NEW c \in Calls, LookAt(c) PROVE CallsPlaced'
    BY <1>2, LoginFacts
      DEF LookAt, Go, theRows, history, theAgent, theChoice, CallsTypeOK, CallsPlaced, CallPlaced
  <1>3. ASSUME NEW c \in Calls, Choose(c) PROVE CallsPlaced'
    BY <1>3, LoginFacts
      DEF Choose, BestLeft, Go, theRows, history, theAgent, theChoice, CallsTypeOK, CallsPlaced,
          CallPlaced
  <1>4. ASSUME NEW c \in Calls, ReadRow(c) PROVE CallsPlaced'
    BY <1>4, LoginFacts
      DEF ReadRow, Go, theRows, history, theAgent, theChoice, CallsTypeOK, CallsPlaced,
          CallPlaced
  <1>5. ASSUME NEW c \in Calls, MarkUsed(c) PROVE CallsPlaced'
    BY <1>5, LoginFacts
      DEF MarkUsed, Go, theRows, history, theAgent, theChoice, CallsTypeOK, CallsPlaced,
          CallPlaced
  <1>6. ASSUME NEW c \in Calls, MarkExhausted(c) PROVE CallsPlaced'
    BY <1>6, LoginFacts
      DEF MarkExhausted, BetweenReadAndWrite, Go, theRows, history, theAgent, theChoice,
          CallsTypeOK, CallsPlaced, CallPlaced
  <1>7. ASSUME NEW c \in Calls, Launch(c) PROVE CallsPlaced'
    BY <1>7, LoginFacts
      DEF Launch, Go, theRows, history, theAgent, theChoice, CallsTypeOK, CallsPlaced, CallPlaced
  <1>8. ASSUME NEW c \in Calls, SdkEnds(c) PROVE CallsPlaced'
    BY <1>8, LoginFacts
      DEF SdkEnds, StreamEnds, Finish, Go, theRows, history, theAgent, theChoice, CallsTypeOK,
          CallsPlaced, CallPlaced
  <1>9. ASSUME NEW c \in Calls, HttpEnds(c) PROVE CallsPlaced'
    BY <1>9, LoginFacts
      DEF HttpEnds, StreamEnds, Finish, Go, theRows, history, theAgent, theChoice, CallsTypeOK,
          CallsPlaced, CallPlaced
  <1>10. ASSUME NEW c \in Calls, AgentExits(c) PROVE CallsPlaced'
    BY <1>10, LoginFacts
      DEF AgentExits, Go, theRows, history, theAgent, theChoice, CallsTypeOK, CallsPlaced,
          CallPlaced
  <1>11. ASSUME NEW c \in Calls, Reap(c) PROVE CallsPlaced'
    BY <1>11, LoginFacts
      DEF Reap, Go, theRows, history, theAgent, theChoice, CallsTypeOK, CallsPlaced, CallPlaced
  <1>12. ASSUME NEW c \in Calls, PipeCloses(c) PROVE CallsPlaced'
    BY <1>12, LoginFacts
      DEF PipeCloses, Go, theRows, history, theAgent, theChoice, CallsTypeOK, CallsPlaced,
          CallPlaced
  <1>13. ASSUME NEW c \in Calls, OnClose(c) PROVE CallsPlaced'
    BY <1>13, LoginFacts
      DEF OnClose, Finish, Go, theRows, history, theAgent, theChoice, CallsTypeOK, CallsPlaced,
          CallPlaced
  <1>14. ASSUME NEW c \in Calls, DrainFires(c) PROVE CallsPlaced'
    BY <1>14, LoginFacts
      DEF DrainFires, Finish, Go, theRows, history, theAgent, theChoice, CallsTypeOK, CallsPlaced,
          CallPlaced
  <1>15. ASSUME NEW c \in Calls, PollFinds(c) PROVE CallsPlaced'
    BY <1>15, LoginFacts
      DEF PollFinds, Finish, Go, theRows, history, theAgent, theChoice, CallsTypeOK, CallsPlaced,
          CallPlaced
  <1>16. ASSUME NEW c \in Calls, KillAgent(c) PROVE CallsPlaced'
    BY <1>16, LoginFacts
      DEF KillAgent, Go, theRows, history, theAgent, theChoice, CallsTypeOK, CallsPlaced,
          CallPlaced
  <1>17. ASSUME NEW c \in Calls, RetryCall(c) PROVE CallsPlaced'
    BY <1>17, LoginFacts
      DEF RetryCall, Go, theRows, history, theAgent, theChoice, CallsTypeOK, CallsPlaced,
          CallPlaced
  <1>18. ASSUME NEW l \in LoginIds, CheckLogin(l) PROVE CallsPlaced'
    BY <1>18, LoginFacts
      DEF CheckLogin, Go, theRows, history, theAgent, theChoice, CallsTypeOK, CallsPlaced,
          CallPlaced
  <1>19. CASE MarkLogin
    BY <1>19, LoginFacts
      DEF MarkLogin, Idle, Go, theRows, history, theAgent, theChoice, CallsTypeOK, CallsPlaced,
          CallPlaced
  <1>20. CASE CallsTick
    BY <1>20, LoginFacts
      DEF CallsTick, Idle, Go, theRows, history, theAgent, theChoice, CallsTypeOK, CallsPlaced,
          CallPlaced
  <1> QED
    BY <1>1, <1>2, <1>3, <1>4, <1>5, <1>6, <1>7, <1>8, <1>9, <1>10, <1>11, <1>12, <1>13, <1>14,
       <1>15, <1>16, <1>17, <1>18, <1>19, <1>20 DEF CallsNext

\* Every step keeps the verdicts.
LEMMA VerdictsHold ==
  ASSUME CallsTypeOK, CallsPlaced, CallVerdict, CallsNext
  PROVE  CallVerdict'
PROOF
  <1>1. ASSUME NEW c \in Calls, StartCall(c) PROVE CallVerdict'
    BY <1>1
      DEF StartCall, Go, theRows, history, theAgent, theChoice, CallsTypeOK, CallsPlaced,
          CallPlaced, CallVerdict
  <1>2. ASSUME NEW c \in Calls, LookAt(c) PROVE CallVerdict'
    BY <1>2
      DEF LookAt, Go, theRows, history, theAgent, theChoice, CallsTypeOK, CallsPlaced, CallPlaced,
          CallVerdict
  <1>3. ASSUME NEW c \in Calls, Choose(c) PROVE CallVerdict'
    BY <1>3
      DEF Choose, BestLeft, Go, theRows, history, theAgent, theChoice, CallsTypeOK, CallsPlaced,
          CallPlaced, CallVerdict
  <1>4. ASSUME NEW c \in Calls, ReadRow(c) PROVE CallVerdict'
    BY <1>4
      DEF ReadRow, Go, theRows, history, theAgent, theChoice, CallsTypeOK, CallsPlaced,
          CallPlaced, CallVerdict
  <1>5. ASSUME NEW c \in Calls, MarkUsed(c) PROVE CallVerdict'
    BY <1>5
      DEF MarkUsed, Go, theRows, history, theAgent, theChoice, CallsTypeOK, CallsPlaced,
          CallPlaced, CallVerdict
  <1>6. ASSUME NEW c \in Calls, MarkExhausted(c) PROVE CallVerdict'
    BY <1>6
      DEF MarkExhausted, BetweenReadAndWrite, Go, theRows, history, theAgent, theChoice,
          CallsTypeOK, CallsPlaced, CallPlaced, CallVerdict
  <1>7. ASSUME NEW c \in Calls, Launch(c) PROVE CallVerdict'
    <2>1. answer[c] = "none" /\ exitCode[c] = "none" /\ process[c] = "none"
      BY <1>7 DEF Launch, CallsPlaced, CallPlaced
    <2>2. ASSUME NEW d \in Calls, d # c
          PROVE  /\ answer'[d] = answer[d] /\ exitCode'[d] = exitCode[d] /\ giveUp'[d] = giveUp[d]
                 /\ process'[d] = process[d]
      BY <1>7, <2>2 DEF Launch, CallsTypeOK
    <2>3. exitCode'[c] = "none" /\ (answer'[c] = "none" \/ (answer'[c] = "failed" /\ process'[c] = "none"))
      <3>1. /\ exitCode' = exitCode
            /\ UNCHANGED answer \/ (UNCHANGED process /\ answer' = [answer EXCEPT ![c] = "failed"])
        BY <1>7 DEF Launch
      <3> QED BY <3>1, <2>1 DEF CallsTypeOK
    <2> QED BY <2>2, <2>3 DEF CallVerdict
  <1>8. ASSUME NEW c \in Calls, SdkEnds(c) PROVE CallVerdict'
    BY <1>8
      DEF SdkEnds, StreamEnds, Finish, Go, theRows, history, theAgent, theChoice, CallsTypeOK,
          CallsPlaced, CallPlaced, CallVerdict
  <1>9. ASSUME NEW c \in Calls, HttpEnds(c) PROVE CallVerdict'
    BY <1>9
      DEF HttpEnds, StreamEnds, Finish, Go, theRows, history, theAgent, theChoice, CallsTypeOK,
          CallsPlaced, CallPlaced, CallVerdict
  <1>10. ASSUME NEW c \in Calls, AgentExits(c) PROVE CallVerdict'
    BY <1>10
      DEF AgentExits, Go, theRows, history, theAgent, theChoice, CallsTypeOK, CallsPlaced,
          CallPlaced, CallVerdict
  <1>11. ASSUME NEW c \in Calls, Reap(c) PROVE CallVerdict'
    BY <1>11
      DEF Reap, Go, theRows, history, theAgent, theChoice, CallsTypeOK, CallsPlaced, CallPlaced,
          CallVerdict
  <1>12. ASSUME NEW c \in Calls, PipeCloses(c) PROVE CallVerdict'
    BY <1>12
      DEF PipeCloses, Go, theRows, history, theAgent, theChoice, CallsTypeOK, CallsPlaced,
          CallPlaced, CallVerdict
  <1>13. ASSUME NEW c \in Calls, OnClose(c) PROVE CallVerdict'
    BY <1>13
      DEF OnClose, Finish, Go, theRows, history, theAgent, theChoice, CallsTypeOK, CallsPlaced,
          CallPlaced, CallVerdict
  <1>14. ASSUME NEW c \in Calls, DrainFires(c) PROVE CallVerdict'
    BY <1>14
      DEF DrainFires, Finish, Go, theRows, history, theAgent, theChoice, CallsTypeOK, CallsPlaced,
          CallPlaced, CallVerdict
  <1>15. ASSUME NEW c \in Calls, PollFinds(c) PROVE CallVerdict'
    BY <1>15
      DEF PollFinds, Finish, Go, theRows, history, theAgent, theChoice, CallsTypeOK, CallsPlaced,
          CallPlaced, CallVerdict
  <1>16. ASSUME NEW c \in Calls, KillAgent(c) PROVE CallVerdict'
    BY <1>16
      DEF KillAgent, Go, theRows, history, theAgent, theChoice, CallsTypeOK, CallsPlaced,
          CallPlaced, CallVerdict
  <1>17. ASSUME NEW c \in Calls, RetryCall(c) PROVE CallVerdict'
    BY <1>17
      DEF RetryCall, Go, theRows, history, theAgent, theChoice, CallsTypeOK, CallsPlaced,
          CallPlaced, CallVerdict
  <1>18. ASSUME NEW l \in LoginIds, CheckLogin(l) PROVE CallVerdict'
    BY <1>18
      DEF CheckLogin, Go, theRows, history, theAgent, theChoice, CallsTypeOK, CallsPlaced,
          CallPlaced, CallVerdict
  <1>19. CASE MarkLogin
    BY <1>19
      DEF MarkLogin, Idle, Go, theRows, history, theAgent, theChoice, CallsTypeOK, CallsPlaced,
          CallPlaced, CallVerdict
  <1>20. CASE CallsTick
    BY <1>20
      DEF CallsTick, Idle, Go, theRows, history, theAgent, theChoice, CallsTypeOK, CallsPlaced,
          CallPlaced, CallVerdict
  <1> QED
    BY <1>1, <1>2, <1>3, <1>4, <1>5, <1>6, <1>7, <1>8, <1>9, <1>10, <1>11, <1>12, <1>13, <1>14,
       <1>15, <1>16, <1>17, <1>18, <1>19, <1>20 DEF CallsNext

\* Every step keeps the rows fresh.
LEMMA RowsStayFresh ==
  ASSUME CallsTypeOK, CallsPlaced, RowsFresh, CallsNext
  PROVE  RowsFresh'
PROOF
  <1>1. ASSUME NEW c \in Calls, StartCall(c) PROVE RowsFresh'
    BY <1>1
      DEF StartCall, Go, theRows, history, theAgent, theChoice, CallsTypeOK, CallsPlaced,
          CallPlaced, RowsFresh
  <1>2. ASSUME NEW c \in Calls, LookAt(c) PROVE RowsFresh'
    BY <1>2
      DEF LookAt, Go, theRows, history, theAgent, theChoice, CallsTypeOK, CallsPlaced, CallPlaced,
          RowsFresh
  <1>3. ASSUME NEW c \in Calls, Choose(c) PROVE RowsFresh'
    BY <1>3
      DEF Choose, BestLeft, Go, theRows, history, theAgent, theChoice, CallsTypeOK, CallsPlaced,
          CallPlaced, RowsFresh
  <1>4. ASSUME NEW c \in Calls, ReadRow(c) PROVE RowsFresh'
    BY <1>4
      DEF ReadRow, Go, theRows, history, theAgent, theChoice, CallsTypeOK, CallsPlaced,
          CallPlaced, RowsFresh
  <1>5. ASSUME NEW c \in Calls, MarkUsed(c) PROVE RowsFresh'
    BY <1>5
      DEF MarkUsed, Go, theRows, history, theAgent, theChoice, CallsTypeOK, CallsPlaced,
          CallPlaced, RowsFresh
  <1>6. ASSUME NEW c \in Calls, MarkExhausted(c) PROVE RowsFresh'
    BY <1>6
      DEF MarkExhausted, BetweenReadAndWrite, Go, theRows, history, theAgent, theChoice,
          CallsTypeOK, CallsPlaced, CallPlaced, RowsFresh
  <1>7. ASSUME NEW c \in Calls, Launch(c) PROVE RowsFresh'
    BY <1>7
      DEF Launch, Go, theRows, history, theAgent, theChoice, CallsTypeOK, CallsPlaced, CallPlaced,
          RowsFresh
  <1>8. ASSUME NEW c \in Calls, SdkEnds(c) PROVE RowsFresh'
    BY <1>8
      DEF SdkEnds, StreamEnds, Finish, Go, theRows, history, theAgent, theChoice, CallsTypeOK,
          CallsPlaced, CallPlaced, RowsFresh
  <1>9. ASSUME NEW c \in Calls, HttpEnds(c) PROVE RowsFresh'
    BY <1>9
      DEF HttpEnds, StreamEnds, Finish, Go, theRows, history, theAgent, theChoice, CallsTypeOK,
          CallsPlaced, CallPlaced, RowsFresh
  <1>10. ASSUME NEW c \in Calls, AgentExits(c) PROVE RowsFresh'
    BY <1>10
      DEF AgentExits, Go, theRows, history, theAgent, theChoice, CallsTypeOK, CallsPlaced,
          CallPlaced, RowsFresh
  <1>11. ASSUME NEW c \in Calls, Reap(c) PROVE RowsFresh'
    BY <1>11
      DEF Reap, Go, theRows, history, theAgent, theChoice, CallsTypeOK, CallsPlaced, CallPlaced,
          RowsFresh
  <1>12. ASSUME NEW c \in Calls, PipeCloses(c) PROVE RowsFresh'
    BY <1>12
      DEF PipeCloses, Go, theRows, history, theAgent, theChoice, CallsTypeOK, CallsPlaced,
          CallPlaced, RowsFresh
  <1>13. ASSUME NEW c \in Calls, OnClose(c) PROVE RowsFresh'
    BY <1>13
      DEF OnClose, Finish, Go, theRows, history, theAgent, theChoice, CallsTypeOK, CallsPlaced,
          CallPlaced, RowsFresh
  <1>14. ASSUME NEW c \in Calls, DrainFires(c) PROVE RowsFresh'
    BY <1>14
      DEF DrainFires, Finish, Go, theRows, history, theAgent, theChoice, CallsTypeOK, CallsPlaced,
          CallPlaced, RowsFresh
  <1>15. ASSUME NEW c \in Calls, PollFinds(c) PROVE RowsFresh'
    BY <1>15
      DEF PollFinds, Finish, Go, theRows, history, theAgent, theChoice, CallsTypeOK, CallsPlaced,
          CallPlaced, RowsFresh
  <1>16. ASSUME NEW c \in Calls, KillAgent(c) PROVE RowsFresh'
    BY <1>16
      DEF KillAgent, Go, theRows, history, theAgent, theChoice, CallsTypeOK, CallsPlaced,
          CallPlaced, RowsFresh
  <1>17. ASSUME NEW c \in Calls, RetryCall(c) PROVE RowsFresh'
    BY <1>17
      DEF RetryCall, Go, theRows, history, theAgent, theChoice, CallsTypeOK, CallsPlaced,
          CallPlaced, RowsFresh
  <1>18. ASSUME NEW l \in LoginIds, CheckLogin(l) PROVE RowsFresh'
    BY <1>18
      DEF CheckLogin, Go, theRows, history, theAgent, theChoice, CallsTypeOK, CallsPlaced,
          CallPlaced, RowsFresh
  <1>19. CASE MarkLogin
    <2> SUFFICES ASSUME NEW l \in LoginIds \ overlapped
                 PROVE  until'[l] = marked[l] /\ check'.login # l
      BY <1>19 DEF MarkLogin, RowsFresh, history, theChoice
    <2>1. check'.login # l
      BY <1>19, LoginFacts DEF MarkLogin, Idle
    <2>2. until'[l] = marked[l]
      BY <1>19 DEF MarkLogin, RowsFresh, CallsTypeOK
    <2> QED BY <2>1, <2>2
  <1>20. CASE CallsTick
    BY <1>20
      DEF CallsTick, Idle, Go, theRows, history, theAgent, theChoice, CallsTypeOK, CallsPlaced,
          CallPlaced, RowsFresh
  <1> QED
    BY <1>1, <1>2, <1>3, <1>4, <1>5, <1>6, <1>7, <1>8, <1>9, <1>10, <1>11, <1>12, <1>13, <1>14,
       <1>15, <1>16, <1>17, <1>18, <1>19, <1>20 DEF CallsNext

\* A call answers ok only after its process left with zero, and calls one that left with zero failed
\* only if it had given up on it; none ends over a process that lives; and the mark of an account that
\* ran out is lost only to a writer that had read the row before the mark was made.
THEOREM AgentCallsHold == CallsSpec => []CallsInv
PROOF
  <1>1. CallsInit => CallsInductive
    <2> SUFFICES ASSUME CallsInit PROVE CallsInductive OBVIOUS
    <2>1. CallsTypeOK
      BY LoginFacts DEF CallsInit, CallsTypeOK, Idle, Places
    <2>2. CallsPlaced /\ CallVerdict
      BY DEF CallsInit, CallsPlaced, CallPlaced, CallVerdict
    <2>3. RowsFresh
      BY LoginFacts DEF CallsInit, RowsFresh, Idle
    <2> QED BY <2>1, <2>2, <2>3 DEF CallsInductive
  <1>2. CallsInductive /\ [CallsNext]_callsVars => CallsInductive'
    <2>1. CASE CallsNext
      BY <2>1, CallsTyped, CallsStayPlaced, VerdictsHold, RowsStayFresh DEF CallsInductive
    <2>2. CASE UNCHANGED callsVars
      BY <2>2
        DEF callsVars, CallsInductive, CallsTypeOK, CallVerdict, CallsPlaced, CallPlaced,
            RowsFresh
    <2> QED BY <2>1, <2>2
  <1>3. CallsInductive => CallsInv
    BY DEF CallsInductive, CallsInv, MarksKept, RowsFresh
  <1> QED BY <1>1, <1>2, <1>3, PTL DEF CallsSpec

-----------------------------------------------------------------------------
(* What a batch does to a page *)

PageSpec == PageInit /\ [][PageNext]_pageVars

Elements == DOMAIN RolesOf
TabStates == [win : Nat, origin : Origins \cup {"none", "blank"}, els : Seq(Elements), ready : BOOLEAN,
              leaving : Origins \cup {"no"}]
\* A snapshot lists the controls of a page.
Snapshots == [els : {collectInteractive(e) : e \in Seq(Elements)}, tab : 1..PageTabs, same : BOOLEAN]
\* The fields of the worker's state, and the tab it works in.
WorkShape == DOMAIN work = {"at", "seg", "tab", "i", "refs", "fresh", "inPage", "shot"}
TabOf(w) == w.tab \in 0..PageTabs /\ (w.at \notin {"idle", "segment"} => w.tab # 0)
TabsTyped == tabs \in [1..PageTabs -> TabStates]
WorkTyped == WorkShape /\ TabOf(work)
PageTyped ==
  /\ TabsTyped /\ WorkTyped
  /\ agentAt \in [win : Nat, tab : 0..PageTabs]
  /\ seen \in Snapshots \cup {Nothing} /\ taken \in Seq(Snapshots)

\* A snapshot that is as the page was taken is what the page, which is there, would give now.
CurrentIn(ts, snap) ==
  snap.same => snap.tab \in 1..PageTabs /\ ts[snap.tab].win # 0 /\ snap.els = collectInteractive(ts[snap.tab].els)
SnapshotsTrue == CurrentIn(tabs, seen) /\ \A i \in DOMAIN taken : CurrentIn(tabs, taken[i])
\* What a batch means is what its caller saw, and references that are fresh are those.
MeansSeen ==
  work.at # "idle" => /\ batch.meant = seen.els
                      /\ work.fresh => work.refs = batch.meant
\* A page in which something runs is there.
InAPage == work.at \in {"inject", "page", "loading", "waiting"} => tabs[work.tab].win # 0
GrantTravels == batch.grant = "act" => batch.target \in Granted

PageInductive == PageTyped /\ SnapshotsTrue /\ MeansSeen /\ InAPage /\ GrantTravels /\ PageInv

LEMMA FreeTab ==
  ASSUME TabsTyped, Free # {}
  PROVE FirstFree \in 1..PageTabs /\ tabs[FirstFree].win = 0
<1>1. Free \in SUBSET Nat BY PageAssumption DEF Free, PageAssumption
<1>2. \E m \in Free : \A n \in Free : m <= n BY <1>1, LeastOf
<1>3. FirstFree \in Free BY <1>2 DEF FirstFree
<1> QED BY <1>3 DEF Free

LEMMA PageTypes ==
  ASSUME NEW w \in Nat, NEW o \in Origins \cup {"none", "blank"}
  PROVE PageAt(w, o) \in TabStates
<1>1. o \in Origins => HomePage[o] \in Seq(Elements) BY PageAssumption DEF PageAssumption, Elements
<1>2. <<>> \in Seq(Elements) OBVIOUS
<1> QED BY <1>1, <1>2 DEF PageAt, TabStates

LEMMA NoTabTypes == NoTab \in TabStates
BY DEF NoTab, TabStates

LEMMA NewWindow ==
  ASSUME PageTyped
  PROVE 1 + Cardinality({tabs[t].win : t \in 1..PageTabs} \cup {agentAt.win}) \in Nat
<1> DEFINE f == [t \in 1..PageTabs |-> tabs[t].win]
<1>1. IsFiniteSet(1..PageTabs)
  <2>1. 1 \in Int /\ PageTabs \in Int BY PageAssumption DEF PageAssumption
  <2> QED BY <2>1, FS_Interval
<1>2. {tabs[t].win : t \in 1..PageTabs} = {f[t] : t \in 1..PageTabs} OBVIOUS
<1>3. f \in Surjection(1..PageTabs, {f[t] : t \in 1..PageTabs}) BY DEF Surjection
<1>4. IsFiniteSet({tabs[t].win : t \in 1..PageTabs})
  <2> HIDE DEF f
  <2>1. IsFiniteSet({f[t] : t \in 1..PageTabs}) BY <1>1, <1>3, FS_Surjection
  <2> QED BY <1>2, <2>1
<1>5. IsFiniteSet({tabs[t].win : t \in 1..PageTabs} \cup {agentAt.win}) BY <1>4, FS_AddElement
<1> QED BY <1>5, FS_CardinalityType

LEMMA Responds ==
  ASSUME TabsTyped, NEW t \in 1..PageTabs, NEW p \in Responses(t)
  PROVE p \in TabStates /\ p.win = tabs[t].win
<1>1. tabs[t] \in TabStates BY DEF TabsTyped
<1>2. CASE p = tabs[t] BY <1>1, <1>2
<1>3. CASE p = [tabs[t] EXCEPT !.els = IF tabs[t].els = <<>> THEN tabs[t].els ELSE Tail(tabs[t].els)]
  <2>1. (IF tabs[t].els = <<>> THEN tabs[t].els ELSE Tail(tabs[t].els)) \in Seq(Elements) BY <1>1 DEF TabStates
  <2> QED BY <1>1, <1>3, <2>1 DEF TabStates
<1>4. ASSUME NEW e \in Elements, p = [tabs[t] EXCEPT !.els = <<e>> \o tabs[t].els]
      PROVE p \in TabStates /\ p.win = tabs[t].win
  <2>1. <<e>> \o tabs[t].els \in Seq(Elements) BY <1>1 DEF TabStates
  <2> QED BY <1>1, <1>4, <2>1 DEF TabStates
<1>5. ASSUME NEW o \in Origins, p = [tabs[t] EXCEPT !.leaving = o]
      PROVE p \in TabStates /\ p.win = tabs[t].win
  BY <1>1, <1>5 DEF TabStates
<1> QED BY <1>2, <1>3, <1>4, <1>5 DEF Responses, Elements

LEMMA TouchedKind ==
  ASSUME NEW t
  PROVE /\ \A snap \in Snapshots : TouchedIn(t, snap) \in Snapshots
        /\ taken \in Seq(Snapshots) => [i \in DOMAIN taken |-> TouchedIn(t, taken[i])] \in Seq(Snapshots)
        /\ \A snap \in Snapshots \cup {Nothing} : TouchedIn(t, snap) \in Snapshots \cup {Nothing}
<1>1. \A snap \in Snapshots : TouchedIn(t, snap) \in Snapshots BY DEF Snapshots, TouchedIn
<1>2. TouchedIn(t, Nothing) = Nothing BY DEF TouchedIn, Nothing
<1>3. ASSUME taken \in Seq(Snapshots) PROVE [i \in DOMAIN taken |-> TouchedIn(t, taken[i])] \in Seq(Snapshots)
  BY <1>1, <1>3
<1> QED BY <1>1, <1>2, <1>3

\* The worker moves on, in the same tab and with the same references.
LEMMA MovesOn ==
  ASSUME WorkShape, NEW a, NEW s,
         \/ work' = [work EXCEPT !.at = a]
         \/ work' = [work EXCEPT !.at = a, !.seg = s]
         \/ work' = [work EXCEPT !.at = a, !.shot = s]
         \/ work' = [work EXCEPT !.shot = s, !.at = a]
  PROVE  WorkShape' /\ work'.at = a /\ work'.tab = work.tab /\ work'.refs = work.refs /\ work'.fresh = work.fresh
<1>1. CASE work' = [work EXCEPT !.at = a]  BY <1>1 DEF WorkShape
<1>2. CASE work' = [work EXCEPT !.at = a, !.seg = s]  BY <1>2 DEF WorkShape
<1>3. CASE work' = [work EXCEPT !.at = a, !.shot = s]  BY <1>3 DEF WorkShape
<1>4. CASE work' = [work EXCEPT !.shot = s, !.at = a]  BY <1>4 DEF WorkShape
<1> QED  BY <1>1, <1>2, <1>3, <1>4

\* It goes to a tab.
LEMMA MovesTo ==
  ASSUME WorkShape, NEW a, NEW t, work' = [work EXCEPT !.tab = t, !.at = a] \/ work' = [work EXCEPT !.at = a, !.tab = t]
  PROVE  WorkShape' /\ work'.at = a /\ work'.tab = t /\ work'.refs = work.refs /\ work'.fresh = work.fresh
<1>1. CASE work' = [work EXCEPT !.tab = t, !.at = a]  BY <1>1 DEF WorkShape
<1>2. CASE work' = [work EXCEPT !.at = a, !.tab = t]  BY <1>2 DEF WorkShape
<1> QED  BY <1>1, <1>2

\* It has done a step, and may be somewhere else then, or have resolved the references again.
LEMMA StepDone ==
  ASSUME WorkShape, NEW ok, NEW code, NEW a
  PROVE  /\ work' = InPage(ok, code) =>
              WorkShape' /\ work'.at = work.at /\ work'.tab = work.tab /\ work'.refs = work.refs /\ work'.fresh = work.fresh
         /\ work' = [InPage(ok, code) EXCEPT !.at = a] =>
              WorkShape' /\ work'.at = a /\ work'.tab = work.tab /\ work'.refs = work.refs /\ work'.fresh = work.fresh
<1> DEFINE w == InPage(ok, code)
<1>1. DOMAIN w = DOMAIN work /\ w.at = work.at /\ w.tab = work.tab /\ w.refs = work.refs /\ w.fresh = work.fresh
  BY DEF InPage, WorkShape
<1> HIDE DEF w
<1>2. work' = w => WorkShape' /\ work'.at = work.at /\ work'.tab = work.tab /\ work'.refs = work.refs /\ work'.fresh = work.fresh
  BY <1>1 DEF WorkShape
<1>3. work' = [w EXCEPT !.at = a] =>
              WorkShape' /\ work'.at = a /\ work'.tab = work.tab /\ work'.refs = work.refs /\ work'.fresh = work.fresh
  BY <1>1 DEF WorkShape
<1> QED  BY <1>2, <1>3 DEF w

LEMMA StepDoneAgain ==
  ASSUME WorkShape, NEW ok, NEW code, NEW a, NEW r, NEW f, work' = [InPage(ok, code) EXCEPT !.at = a, !.refs = r, !.fresh = f]
  PROVE  WorkShape' /\ work'.at = a /\ work'.tab = work.tab /\ work'.refs = r /\ work'.fresh = f
<1> DEFINE w == InPage(ok, code)
<1>1. DOMAIN w = DOMAIN work /\ w.tab = work.tab  BY DEF InPage, WorkShape
<1>2. work' = [w EXCEPT !.at = a, !.refs = r, !.fresh = f]  OBVIOUS
<1> HIDE DEF w
<1> QED  BY <1>1, <1>2 DEF WorkShape

LEMMA StillCurrent ==
  ASSUME NEW ts, NEW us, NEW snap, CurrentIn(ts, snap),
         \A t \in 1..PageTabs : ts[t].win # 0 => us[t].win # 0 /\ us[t].els = ts[t].els
  PROVE  CurrentIn(us, snap)
BY DEF CurrentIn

LEMMA TouchedCurrent ==
  ASSUME NEW ts, NEW us, NEW snap, NEW u, CurrentIn(ts, snap), \A t \in 1..PageTabs : t # u => us[t] = ts[t]
  PROVE  CurrentIn(us, TouchedIn(u, snap))
BY DEF CurrentIn, TouchedIn

\* Nothing happens to the pages and to what is known of them: what the worker does next decides.
LEMMA WorkOnly ==
  ASSUME PageInductive, UNCHANGED <<tabs, seen, taken, batch, acts>>, WorkTyped',
         agentAt' \in [win : Nat, tab : 0..PageTabs],
         work.at # "idle" \/ work'.at = "idle", work'.at \in {"inject", "page", "loading", "waiting"} => tabs[work'.tab].win # 0,
         \/ work'.refs = work.refs /\ work'.fresh = work.fresh
         \/ work'.refs = collectInteractive(tabs[work.tab].els) /\ work'.fresh = (seen.tab = work.tab /\ seen.same)
  PROVE  PageInductive'
<1>1. PageTyped'  BY DEF PageInductive, PageTyped, TabsTyped
<1>2. SnapshotsTrue'  BY DEF PageInductive, SnapshotsTrue, CurrentIn
<1>3. InAPage'  BY DEF PageInductive, InAPage
<1>4. GrantTravels' /\ PageInv'  BY DEF PageInductive, GrantTravels, PageInv
<1>5. MeansSeen'
  <2>1. CurrentIn(tabs, seen) /\ MeansSeen  BY DEF PageInductive, SnapshotsTrue
  <2>2. CASE work'.refs = work.refs /\ work'.fresh = work.fresh  BY <2>1, <2>2 DEF MeansSeen
  <2>3. CASE work'.refs = collectInteractive(tabs[work.tab].els) /\ work'.fresh = (seen.tab = work.tab /\ seen.same)
    BY <2>1, <2>3 DEF MeansSeen, CurrentIn
  <2> QED  BY <2>2, <2>3
<1> QED  BY <1>1, <1>2, <1>3, <1>4, <1>5 DEF PageInductive

LEMMA AskedKept ==
  ASSUME PageInductive, NEW b \in PageAsks, AskBatch(b)
  PROVE  PageInductive'
<1>0. 0 \in 0..PageTabs  BY PageAssumption DEF PageAssumption
<1>1. /\ work' = [NoWork EXCEPT !.at = "segment"]
      /\ batch' = [steps |-> b.steps, meant |-> seen.els, grant |-> IF Mutates(b.steps) THEN "act" ELSE "none",
                   target |-> IF Mutates(b.steps) THEN b.target ELSE "none"]
      /\ Mutates(b.steps) => b.target \in Granted
      /\ UNCHANGED <<tabs, agentAt, seen, taken, acts>>
  BY DEF AskBatch
<1>2. WorkTyped' /\ work'.at = "segment" /\ ~work'.fresh  BY <1>0, <1>1 DEF WorkTyped, WorkShape, TabOf, NoWork
<1>3. PageTyped'  BY <1>1, <1>2 DEF PageInductive, PageTyped, TabsTyped
<1>4. SnapshotsTrue'  BY <1>1 DEF PageInductive, SnapshotsTrue, CurrentIn
<1>5. MeansSeen' /\ InAPage'  BY <1>1, <1>2 DEF MeansSeen, InAPage
<1>6. GrantTravels'  BY <1>1 DEF GrantTravels
<1>7. PageInv'  BY <1>1 DEF PageInductive, PageInv
<1> QED  BY <1>3, <1>4, <1>5, <1>6, <1>7 DEF PageInductive

\* What the worker does on its own, between the steps, and the steps that only read.
LEMMA WorkerKept ==
  ASSUME PageInductive,
         NoPageYet \/ ScriptSent \/ executeSteps \/ StepRefused \/ StepReads \/ waitForText \/ TextFound \/ WaitedOut
         \/ FillSlot \/ Torn \/ TabSlow \/ TabLoaded
  PROVE  PageInductive'
<1> USE DEF PageInductive
<1>0. WorkShape /\ TabOf(work) /\ InAPage /\ agentAt \in [win : Nat, tab : 0..PageTabs]  BY DEF PageTyped, WorkTyped
<1>a. ASSUME NEW rs, work.at # "idle", work.at # "segment", work' = NextSegment(rs)
      PROVE  WorkTyped' /\ work'.at \notin {"inject", "page", "loading", "waiting"} /\ work'.refs = work.refs /\ work'.fresh = work.fresh
  <2> DEFINE a == IF AnyRefused(rs) \/ work.seg = Len(splitSegments) THEN "send" ELSE "segment"
  <2>1. a \in {"send", "segment"} /\ work' = [work EXCEPT !.at = a, !.seg = work.seg + 1]  BY <1>a DEF NextSegment
  <2> HIDE DEF a
  <2>2. WorkShape' /\ work'.at = a /\ work'.tab = work.tab /\ work'.refs = work.refs /\ work'.fresh = work.fresh
    BY <2>1, <1>0, MovesOn
  <2> QED  BY <2>1, <2>2, <1>0, <1>a DEF WorkTyped, TabOf
<1>b. ASSUME NEW ok, NEW code, work.at = "page", work' = InPage(ok, code)
      PROVE  WorkTyped' /\ work'.at = "page" /\ work'.tab = work.tab /\ work'.refs = work.refs /\ work'.fresh = work.fresh
  BY <1>b, <1>0, StepDone DEF WorkTyped, TabOf
<1>c. ASSUME NEW a, work.at # "idle", work.at # "segment", work' = [work EXCEPT !.at = a]
      PROVE  WorkTyped' /\ work'.at = a /\ work'.tab = work.tab /\ work'.refs = work.refs /\ work'.fresh = work.fresh
  <2>1. WorkShape' /\ work'.at = a /\ work'.tab = work.tab /\ work'.refs = work.refs /\ work'.fresh = work.fresh
    BY <1>c, <1>0, MovesOn
  <2> QED  BY <2>1, <1>0, <1>c DEF WorkTyped, TabOf
<1>1. CASE NoPageYet
  <2>1. work.at = "script" /\ work' = [work EXCEPT !.at = "send"] /\ UNCHANGED <<tabs, agentAt, seen, batch, taken, acts>>
    BY <1>1 DEF NoPageYet
  <2> QED  BY <2>1, <1>0, <1>c, WorkOnly
<1>2. CASE ScriptSent
  <2> DEFINE a == IF tabs[work.tab].win = 0 THEN "thrown" ELSE "inject"
  <2>1. work.at = "script" /\ work' = [work EXCEPT !.at = a] /\ UNCHANGED <<tabs, agentAt, seen, batch, taken, acts>>
    BY <1>2 DEF ScriptSent
  <2>2. a # "thrown" => tabs[work.tab].win # 0  OBVIOUS
  <2>3. a \in {"thrown", "inject"}  OBVIOUS
  <2> HIDE DEF a
  <2> QED  BY <2>1, <2>2, <2>3, <1>0, <1>c, WorkOnly
<1>3. CASE executeSteps
  <2> DEFINE r == collectInteractive(tabs[work.tab].els)
             f == seen.tab = work.tab /\ seen.same
             s == SegStart
  <2>1. /\ work.at = "inject" /\ UNCHANGED <<tabs, agentAt, seen, batch, taken, acts>>
        /\ work' = [work EXCEPT !.at = "page", !.i = s, !.inPage = <<>>, !.refs = r, !.fresh = f]
    BY <1>3 DEF executeSteps, buildRefMap
  <2>2. WorkShape' /\ work'.at = "page" /\ work'.tab = work.tab /\ work'.refs = r /\ work'.fresh = f
    <3> HIDE DEF r, f, s
    <3> QED  BY <2>1, <1>0 DEF WorkShape
  <2>3. WorkTyped'  BY <2>1, <2>2, <1>0 DEF WorkTyped, TabOf
  <2>4. tabs[work'.tab].win # 0  BY <2>1, <2>2, <1>0 DEF InAPage
  <2> QED  BY <2>1, <2>2, <2>3, <2>4, <1>0, WorkOnly
<1>4. CASE StepRefused
  <2>1. /\ work.at = "page" /\ UNCHANGED <<tabs, agentAt, seen, batch, taken, acts>>
        /\ \E ok, code : work' = InPage(ok, code)
    BY <1>4 DEF StepRefused, AtStep
  <2> QED  BY <2>1, <1>0, <1>b, WorkOnly DEF InAPage
<1>5. CASE StepReads
  <2>1. work.at = "page" /\ UNCHANGED <<tabs, agentAt, seen, batch, taken, acts>> /\ work' = InPage(TRUE, "none")
    BY <1>5 DEF StepReads, AtStep
  <2> QED  BY <2>1, <1>0, <1>b, WorkOnly DEF InAPage
<1>6. CASE waitForText
  <2>1. work.at = "page" /\ work' = [work EXCEPT !.at = "waiting"] /\ UNCHANGED <<tabs, agentAt, seen, batch, taken, acts>>
    BY <1>6 DEF waitForText, AtStep
  <2> QED  BY <2>1, <1>0, <1>c, WorkOnly DEF InAPage
<1>7. CASE TextFound
  <2> DEFINE r == collectInteractive(tabs[work.tab].els)
             f == seen.tab = work.tab /\ seen.same
  <2>1. /\ work.at = "waiting" /\ UNCHANGED <<tabs, agentAt, seen, batch, taken, acts>>
        /\ work' = [InPage(TRUE, "none") EXCEPT !.at = "page", !.refs = r, !.fresh = f]
    BY <1>7 DEF TextFound, buildRefMap
  <2>2. WorkShape' /\ work'.at = "page" /\ work'.tab = work.tab /\ work'.refs = r /\ work'.fresh = f
    <3> HIDE DEF r, f
    <3>1. work' = [InPage(TRUE, "none") EXCEPT !.at = "page", !.refs = r, !.fresh = f]  BY <2>1
    <3> QED  BY <3>1, <1>0, StepDoneAgain
  <2>3. WorkTyped'  BY <2>1, <2>2, <1>0 DEF WorkTyped, TabOf
  <2>4. tabs[work'.tab].win # 0  BY <2>1, <2>2, <1>0 DEF InAPage
  <2> QED  BY <2>1, <2>2, <2>3, <2>4, <1>0, WorkOnly
<1>8. CASE WaitedOut
  <2>1. /\ work.at \in {"waiting", "loading"} /\ UNCHANGED <<tabs, agentAt, seen, batch, taken, acts>>
        /\ \E code : work' = [InPage(FALSE, code) EXCEPT !.at = "page"]
    BY <1>8 DEF WaitedOut
  <2>2. WorkShape' /\ work'.at = "page" /\ work'.tab = work.tab /\ work'.refs = work.refs /\ work'.fresh = work.fresh
    <3>1. PICK code : work' = [InPage(FALSE, code) EXCEPT !.at = "page"]  BY <2>1
    <3> QED  BY <3>1, <1>0, StepDone
  <2>3. WorkTyped'  BY <2>1, <2>2, <1>0 DEF WorkTyped, TabOf
  <2>4. tabs[work'.tab].win # 0  BY <2>1, <2>2, <1>0 DEF InAPage
  <2> QED  BY <2>1, <2>2, <2>3, <2>4, <1>0, WorkOnly
<1>9. CASE FillSlot
  <2>1. work.at \in {"return", "fill"} /\ UNCHANGED <<tabs, agentAt, seen, batch, taken, acts>>  BY <1>9 DEF FillSlot
  <2>2. work' = NextSegment(results) \/ work' = [work EXCEPT !.shot = work.shot + 1, !.at = "fill"]  BY <1>9 DEF FillSlot
  <2>3. CASE work' = NextSegment(results)  BY <2>1, <2>3, <1>0, <1>a, WorkOnly
  <2>4. CASE work' = [work EXCEPT !.shot = work.shot + 1, !.at = "fill"]
    <3>1. WorkShape' /\ work'.at = "fill" /\ work'.tab = work.tab /\ work'.refs = work.refs /\ work'.fresh = work.fresh
      BY <2>4, <1>0, MovesOn
    <3>2. WorkTyped'  BY <2>1, <3>1, <1>0 DEF WorkTyped, TabOf
    <3> QED  BY <2>1, <3>1, <3>2, <1>0, WorkOnly
  <2> QED  BY <2>2, <2>3, <2>4
<1>10. CASE Torn
  <2>1. work.at = "torn" /\ work' = NextSegment(results') /\ UNCHANGED <<tabs, agentAt, seen, batch, taken, acts>>  BY <1>10 DEF Torn
  <2> QED  BY <2>1, <1>0, <1>a, WorkOnly
<1>11. CASE TabSlow
  <2>1. work.at = "opening" /\ work' = NextSegment(results') /\ UNCHANGED <<tabs, agentAt, seen, batch, taken, acts>>
    BY <1>11 DEF TabSlow, TabStepDone
  <2> QED  BY <2>1, <1>0, <1>a, WorkOnly
<1>12. CASE TabLoaded
  <2>1. /\ work.at = "opened" /\ work' = NextSegment(results') /\ UNCHANGED <<tabs, seen, batch, taken, acts>>
        /\ agentAt' = [agentAt EXCEPT !.tab = work.tab]
    BY <1>12 DEF TabLoaded, TabStepDone
  <2>2. agentAt' \in [win : Nat, tab : 0..PageTabs]  BY <2>1, <1>0 DEF TabOf
  <2> QED  BY <2>1, <2>2, <1>0, <1>a, WorkOnly
<1> QED  BY <1>1, <1>2, <1>3, <1>4, <1>5, <1>6, <1>7, <1>8, <1>9, <1>10, <1>11, <1>12

\* A tab changes: the tabs that were there before it are as they were, or the snapshots of it no longer count.
LEMMA TouchedKept ==
  ASSUME PageInductive, NEW t \in 1..PageTabs, TabsTyped', \A u \in 1..PageTabs : u # t => tabs'[u] = tabs[u],
         seen' = TouchedIn(t, seen),
         \/ taken' = [i \in DOMAIN taken |-> TouchedIn(t, taken[i])]
         \/ taken' = [i \in DOMAIN Front(taken) |-> TouchedIn(t, Front(taken)[i])]
  PROVE  SnapshotsTrue' /\ seen' \in Snapshots \cup {Nothing} /\ taken' \in Seq(Snapshots) /\ seen'.els = seen.els
<1> USE DEF PageInductive
<1>1. seen \in Snapshots \cup {Nothing} /\ taken \in Seq(Snapshots)  BY DEF PageTyped
<1>2. CurrentIn(tabs', seen')  BY TouchedCurrent DEF SnapshotsTrue
<1>3. \A snap : CurrentIn(tabs, snap) => CurrentIn(tabs', TouchedIn(t, snap))  BY TouchedCurrent
<1>4. CASE taken' = [i \in DOMAIN taken |-> TouchedIn(t, taken[i])]
  <2>1. \A i \in DOMAIN taken' : CurrentIn(tabs', taken'[i])  BY <1>3, <1>4 DEF SnapshotsTrue
  <2>2. taken' \in Seq(Snapshots)  BY <1>1, <1>4, TouchedKind
  <2> QED  BY <2>1, <2>2, <1>1, <1>2, TouchedKind DEF SnapshotsTrue, TouchedIn
<1>5. CASE taken' = [i \in DOMAIN Front(taken) |-> TouchedIn(t, Front(taken)[i])]
  <2>1. Front(taken) \in Seq(Snapshots) /\ \A i \in DOMAIN Front(taken) : i \in DOMAIN taken /\ Front(taken)[i] = taken[i]
    BY <1>1, <1>5 DEF Front
  <2>2. \A i \in DOMAIN taken' : CurrentIn(tabs', taken'[i])  BY <1>3, <1>5, <2>1 DEF SnapshotsTrue
  <2>3. taken' \in Seq(Snapshots)
    <3> DEFINE q == Front(taken)
    <3>1. q \in Seq(Snapshots) /\ taken' = [i \in DOMAIN q |-> TouchedIn(t, q[i])]  BY <2>1, <1>5
    <3>2. \A snap \in Snapshots : TouchedIn(t, snap) \in Snapshots  BY TouchedKind
    <3> HIDE DEF q
    <3> QED  BY <3>1, <3>2
  <2> QED  BY <2>2, <2>3, <1>1, <1>2, TouchedKind DEF SnapshotsTrue, TouchedIn
<1> QED  BY <1>4, <1>5

LEMMA PagesKept ==
  ASSUME PageInductive, NEW t \in 1..PageTabs, PageChanges(t) \/ PageLoads(t) \/ Arrives(t) \/ Closes(t)
  PROVE  PageInductive'
<1> USE DEF PageInductive
<1>0. /\ WorkShape /\ TabOf(work) /\ InAPage /\ TabsTyped /\ MeansSeen /\ tabs[t] \in TabStates
      /\ agentAt \in [win : Nat, tab : 0..PageTabs]
  BY DEF PageTyped, WorkTyped, TabsTyped
<1>c. ASSUME NEW a, work.at # "idle", work.at # "segment", work' = [work EXCEPT !.at = a]
      PROVE  WorkTyped' /\ work'.at = a /\ work'.tab = work.tab /\ work'.refs = work.refs /\ work'.fresh = work.fresh
  <2>1. WorkShape' /\ work'.at = a /\ work'.tab = work.tab /\ work'.refs = work.refs /\ work'.fresh = work.fresh
    BY <1>c, <1>0, MovesOn
  <2> QED  BY <2>1, <1>0, <1>c DEF WorkTyped, TabOf
<1>1. CASE PageChanges(t)
  <2>1. UNCHANGED <<agentAt, batch, work, acts>> /\ PageTouched(t)  BY <1>1 DEF PageChanges
  <2>2. \E new \in Seq(Elements) : tabs' = [tabs EXCEPT ![t].els = new]
    <3> DEFINE els == tabs[t].els
    <3>0. els \in Seq(Elements)  BY <1>0 DEF TabStates
    <3>1. PICK new \in {IF els = <<>> THEN els ELSE Tail(els)} \cup {<<e>> \o els : e \in Elements \ ToSet(els)} :
            tabs' = [tabs EXCEPT ![t].els = new]
      BY <1>1 DEF PageChanges, Elements
    <3>2. (IF els = <<>> THEN els ELSE Tail(els)) \in Seq(Elements)  BY <3>0
    <3>3. \A e \in Elements : <<e>> \o els \in Seq(Elements)  BY <3>0
    <3> QED  BY <3>1, <3>2, <3>3
  <2>3. TabsTyped' /\ (\A u \in 1..PageTabs : u # t => tabs'[u] = tabs[u]) /\ tabs'[t].win = tabs[t].win
    <3>1. PICK new \in Seq(Elements) : tabs' = [tabs EXCEPT ![t] = [tabs[t] EXCEPT !.els = new]]  BY <2>2
    <3> DEFINE p == [tabs[t] EXCEPT !.els = new]
    <3>2. p \in TabStates /\ p.win = tabs[t].win  BY <1>0 DEF TabStates
    <3>3. tabs' = [tabs EXCEPT ![t] = p]  BY <3>1
    <3> HIDE DEF p
    <3> QED  BY <3>2, <3>3, <1>0 DEF TabsTyped
  <2>4. SnapshotsTrue' /\ seen' \in Snapshots \cup {Nothing} /\ taken' \in Seq(Snapshots) /\ seen'.els = seen.els
    BY <2>1, <2>3, TouchedKept DEF PageTouched
  <2>5. PageTyped'  BY <2>1, <2>3, <2>4, <1>0 DEF PageTyped, WorkTyped, WorkShape, TabOf
  <2>6. MeansSeen'  BY <2>1, <2>4, <1>0 DEF MeansSeen
  <2>7. InAPage'  BY <2>1, <2>3, <1>0 DEF InAPage, TabOf
  <2>8. GrantTravels' /\ PageInv'  BY <2>1 DEF GrantTravels, PageInv
  <2> QED  BY <2>4, <2>5, <2>6, <2>7, <2>8
<1>2. CASE PageLoads(t)
  <2>1. /\ UNCHANGED <<agentAt, seen, batch, taken, acts>> /\ tabs' = [tabs EXCEPT ![t].ready = TRUE]
    BY <1>2 DEF PageLoads
  <2>2. TabsTyped' /\ \A u \in 1..PageTabs : tabs'[u].win = tabs[u].win /\ tabs'[u].els = tabs[u].els
    BY <2>1, <1>0 DEF TabsTyped, TabStates
  <2>3. WorkTyped' /\ InAPage' /\ MeansSeen'
    <3>1. CASE work' = work
      BY <3>1, <2>1, <2>2, <1>0 DEF WorkTyped, WorkShape, TabOf, InAPage, MeansSeen
    <3>2. CASE work.at = "loading" /\ work.tab = t /\ work' # work
      <4> DEFINE r == collectInteractive(tabs[t].els)
                 f == seen.tab = t /\ seen.same
      <4>1. work' = [InPage(TRUE, "none") EXCEPT !.at = "page", !.refs = r, !.fresh = f]  BY <1>2, <3>2 DEF PageLoads
      <4>2. WorkShape' /\ work'.at = "page" /\ work'.tab = work.tab /\ work'.refs = r /\ work'.fresh = f
        <5> HIDE DEF r, f
        <5> QED  BY <4>1, <1>0, StepDoneAgain
      <4>3. WorkTyped'  BY <4>2, <3>2, <1>0 DEF WorkTyped, TabOf
      <4>4. InAPage'  BY <4>2, <3>2, <2>2, <1>0 DEF InAPage
      <4>5. MeansSeen'  BY <4>2, <3>2, <2>1, <1>0 DEF MeansSeen, SnapshotsTrue, CurrentIn
      <4> QED  BY <4>3, <4>4, <4>5
    <3> QED  BY <1>2, <3>1, <3>2 DEF PageLoads
  <2>4. SnapshotsTrue'
    <3>1. \A snap : CurrentIn(tabs, snap) => CurrentIn(tabs', snap)  BY <2>2, StillCurrent
    <3> QED  BY <3>1, <2>1 DEF SnapshotsTrue
  <2>5. PageTyped'  BY <2>1, <2>2, <2>3 DEF PageTyped
  <2>6. GrantTravels' /\ PageInv'  BY <2>1 DEF GrantTravels, PageInv
  <2> QED  BY <2>3, <2>4, <2>5, <2>6
<1>3. CASE Arrives(t)
  <2>1. /\ UNCHANGED <<agentAt, batch, acts>> /\ tabs[t].leaving # "no" /\ work.at # "page" /\ seen' = TouchedIn(t, seen)
    BY <1>3 DEF Arrives
  <2>2. TabsTyped' /\ (\A u \in 1..PageTabs : u # t => tabs'[u] = tabs[u]) /\ tabs'[t].win = tabs[t].win
    <3>1. PICK r \in BOOLEAN : tabs' = [tabs EXCEPT ![t] = [PageAt(tabs[t].win, tabs[t].leaving) EXCEPT !.ready = r]]
      BY <1>3 DEF Arrives
    <3> DEFINE p == PageAt(tabs[t].win, tabs[t].leaving)
    <3>2. p \in TabStates /\ p.win = tabs[t].win
      <4>1. tabs[t].win \in Nat /\ tabs[t].leaving \in Origins  BY <2>1, <1>0 DEF TabStates
      <4> QED  BY <4>1, PageTypes DEF PageAt
    <3>3. tabs' = [tabs EXCEPT ![t] = [p EXCEPT !.ready = r]]  BY <3>1
    <3> HIDE DEF p
    <3>4. [p EXCEPT !.ready = r] \in TabStates /\ [p EXCEPT !.ready = r].win = tabs[t].win  BY <3>2 DEF TabStates
    <3> DEFINE q == [p EXCEPT !.ready = r]
    <3>5. tabs' = [tabs EXCEPT ![t] = q] /\ q \in TabStates /\ q.win = tabs[t].win  BY <3>3, <3>4
    <3> HIDE DEF q
    <3> QED  BY <3>5, <1>0 DEF TabsTyped
  <2>3. /\ \/ work' = work
           \/ work.at \in {"loading", "waiting", "return"} /\ work' = [work EXCEPT !.at = "torn"]
           \/ work.at = "opening" /\ work' = [work EXCEPT !.at = "opened"]
    BY <1>3 DEF Arrives
  <2>4. /\ WorkTyped' /\ work'.tab = work.tab /\ work'.refs = work.refs /\ work'.fresh = work.fresh
        /\ work'.at = work.at \/ work'.at \in {"torn", "opened"}
        /\ work'.at # "idle" => work.at # "idle"
    <3>1. CASE work' = work  BY <3>1, <1>0 DEF WorkTyped, WorkShape, TabOf
    <3>2. CASE work.at \in {"loading", "waiting", "return"} /\ work' = [work EXCEPT !.at = "torn"]  BY <3>2, <1>c
    <3>3. CASE work.at = "opening" /\ work' = [work EXCEPT !.at = "opened"]  BY <3>3, <1>c
    <3> QED  BY <2>3, <3>1, <3>2, <3>3
  <2>5. \/ taken' = [i \in DOMAIN taken |-> TouchedIn(t, taken[i])]
        \/ taken' = [i \in DOMAIN Front(taken) |-> TouchedIn(t, Front(taken)[i])]
    BY <1>3 DEF Arrives
  <2>6. SnapshotsTrue' /\ seen' \in Snapshots \cup {Nothing} /\ taken' \in Seq(Snapshots) /\ seen'.els = seen.els
    BY <2>1, <2>2, <2>5, TouchedKept
  <2>7. PageTyped'  BY <2>1, <2>2, <2>4, <2>6, <1>0 DEF PageTyped
  <2>8. MeansSeen'  BY <2>1, <2>4, <2>6, <1>0 DEF MeansSeen
  <2>9. InAPage'  BY <2>2, <2>4, <1>0 DEF InAPage, TabOf
  <2>10. GrantTravels' /\ PageInv'  BY <2>1 DEF GrantTravels, PageInv
  <2> QED  BY <2>6, <2>7, <2>8, <2>9, <2>10
<1>4. CASE Closes(t)
  <2>1. /\ UNCHANGED <<agentAt, batch, acts>> /\ PageTouched(t) /\ tabs' = [tabs EXCEPT ![t] = NoTab] /\ work.at # "page"
    BY <1>4 DEF Closes
  <2>2. TabsTyped' /\ \A u \in 1..PageTabs : u # t => tabs'[u] = tabs[u]  BY <2>1, <1>0, NoTabTypes DEF TabsTyped
  <2>3. \/ work' = work /\ ~(work.tab = t /\ work.at \in {"inject", "loading", "waiting", "return"})
        \/ work.at \in {"inject", "loading", "waiting", "return"} /\ work' = [work EXCEPT !.at = "thrown"]
    BY <1>4 DEF Closes
  <2>4. /\ WorkTyped' /\ work'.tab = work.tab /\ work'.refs = work.refs /\ work'.fresh = work.fresh
        /\ work'.at # "thrown" => (work'.at = work.at /\ ~(work.tab = t /\ work.at \in {"inject", "loading", "waiting", "return"}))
        /\ work'.at # "idle" => work.at # "idle"
    <3>1. CASE work' = work  BY <2>3, <3>1, <1>0 DEF WorkTyped, WorkShape, TabOf
    <3>2. CASE work.at \in {"inject", "loading", "waiting", "return"} /\ work' = [work EXCEPT !.at = "thrown"]
      <4>1. work.at # "idle" /\ work.at # "segment"  BY <3>2
      <4>2. WorkTyped' /\ work'.at = "thrown" /\ work'.tab = work.tab /\ work'.refs = work.refs /\ work'.fresh = work.fresh
        BY <3>2, <4>1, <1>c
      <4> QED  BY <4>1, <4>2
    <3> QED  BY <2>3, <3>1, <3>2
  <2>6. SnapshotsTrue' /\ seen' \in Snapshots \cup {Nothing} /\ taken' \in Seq(Snapshots) /\ seen'.els = seen.els
    BY <2>1, <2>2, TouchedKept DEF PageTouched
  <2>7. PageTyped'  BY <2>1, <2>2, <2>4, <2>6, <1>0 DEF PageTyped
  <2>8. MeansSeen'  BY <2>1, <2>4, <2>6, <1>0 DEF MeansSeen
  <2>9. InAPage'  BY <2>1, <2>2, <2>4, <1>0 DEF InAPage, TabOf
  <2>10. GrantTravels' /\ PageInv'  BY <2>1 DEF GrantTravels, PageInv
  <2> QED  BY <2>6, <2>7, <2>8, <2>9, <2>10
<1> QED  BY <1>1, <1>2, <1>3, <1>4

\* A free tab is taken: nothing was known of it.
LEMMA FreeKept ==
  ASSUME PageInductive, Free # {}, NEW p \in TabStates, tabs' = [tabs EXCEPT ![FirstFree] = p], UNCHANGED <<seen, taken>>
  PROVE  TabsTyped' /\ SnapshotsTrue'
<1> USE DEF PageInductive
<1>1. TabsTyped  BY DEF PageTyped
<1>2. FirstFree \in 1..PageTabs /\ tabs[FirstFree].win = 0  BY <1>1, FreeTab
<1>3. TabsTyped' /\ \A t \in 1..PageTabs : tabs[t].win # 0 => tabs'[t] = tabs[t]  BY <1>1, <1>2 DEF TabsTyped
<1>4. \A snap : CurrentIn(tabs, snap) => CurrentIn(tabs', snap)  BY <1>3, StillCurrent
<1> QED  BY <1>3, <1>4 DEF SnapshotsTrue

LEMMA AgentTabKept ==
  ASSUME PageInductive, AgentTab
  PROVE  PageInductive'
<1> USE DEF PageInductive
<1>0. /\ WorkShape /\ TabOf(work) /\ InAPage /\ TabsTyped /\ MeansSeen /\ agentAt \in [win : Nat, tab : 0..PageTabs]
      /\ seen \in Snapshots \cup {Nothing} /\ taken \in Seq(Snapshots)
  BY DEF PageTyped, WorkTyped
<1>1. work.at = "segment" /\ UNCHANGED <<seen, batch, taken, acts>>  BY DEF AgentTab
<1>2. \E a \in {"tabStep", "script"} : work' = [work EXCEPT !.tab = agentAt'.tab, !.at = a]
  <2>1. work' = [work EXCEPT !.tab = agentAt'.tab, !.at = IF IsTab(SegStart) THEN "tabStep" ELSE "script"]  BY DEF AgentTab
  <2>2. CASE IsTab(SegStart)  BY <2>1, <2>2
  <2>3. CASE ~IsTab(SegStart)  BY <2>1, <2>3
  <2> QED  BY <2>2, <2>3
<1>3. /\ WorkShape' /\ work'.at \in {"tabStep", "script"} /\ work'.tab = agentAt'.tab /\ work'.refs = work.refs
      /\ work'.fresh = work.fresh
  <2>1. PICK a \in {"tabStep", "script"} : work' = [work EXCEPT !.tab = agentAt'.tab, !.at = a]  BY <1>2
  <2> QED  BY <2>1, <1>0, MovesTo
<1>4. TabsTyped' /\ SnapshotsTrue' /\ agentAt' \in [win : Nat, tab : 0..PageTabs] /\ agentAt'.tab # 0
  <2>1. CASE Present(agentAt.tab)
    <3>1. UNCHANGED <<tabs, agentAt>> /\ agentAt.tab # 0  BY <2>1 DEF AgentTab, Present
    <3> QED  BY <3>1, <1>0, <1>1 DEF TabsTyped, SnapshotsTrue, CurrentIn
  <2>2. CASE ~Present(agentAt.tab)
    <3> DEFINE w == 1 + Cardinality({tabs[t].win : t \in 1..PageTabs} \cup {agentAt.win})
    <3>1. Free # {} /\ tabs' = [tabs EXCEPT ![FirstFree] = PageAt(w, "blank")] /\ agentAt' = [win |-> w, tab |-> FirstFree]
      BY <2>2 DEF AgentTab
    <3>2. w \in Nat  BY NewWindow
    <3> HIDE DEF w
    <3>3. PageAt(w, "blank") \in TabStates  BY <3>2, PageTypes
    <3>4. FirstFree \in 1..PageTabs  BY <3>1, <1>0, FreeTab
    <3>5. TabsTyped' /\ SnapshotsTrue'  BY <3>1, <3>3, <1>1, FreeKept
    <3>6. FirstFree \in 0..PageTabs /\ FirstFree # 0  BY <3>4, PageAssumption DEF PageAssumption
    <3> QED  BY <3>1, <3>2, <3>5, <3>6
  <2> QED  BY <2>1, <2>2
<1>5. WorkTyped'  BY <1>3, <1>4 DEF WorkTyped, TabOf
<1>6. PageTyped'  BY <1>0, <1>1, <1>4, <1>5 DEF PageTyped
<1>7. MeansSeen' /\ InAPage'  BY <1>0, <1>1, <1>3 DEF MeansSeen, InAPage
<1>8. GrantTravels' /\ PageInv'  BY <1>1 DEF GrantTravels, PageInv
<1> QED  BY <1>4, <1>6, <1>7, <1>8

\* A change the grant and the site let through.
LEMMA Struck ==
  ASSUME PageInductive, UNCHANGED batch, NEW a, acts' = acts \cup {a}, a.grant = batch.grant, a.target = batch.target, Barred(a.origin) = "none",
         (a.fresh /\ a.meant # "none") => a.el = a.meant
  PROVE  GrantTravels' /\ PageInv'
<1>1. batch.grant = "act" /\ a.origin = batch.target  BY DEF Barred
<1>2. batch.target \in Granted  BY <1>1 DEF PageInductive, GrantTravels
<1> QED  BY <1>1, <1>2 DEF PageInductive, GrantTravels, PageInv

LEMMA MutationKept ==
  ASSUME PageInductive, runMutation
  PROVE  PageInductive'
<1> USE DEF PageInductive
<1>0. /\ WorkShape /\ TabOf(work) /\ InAPage /\ TabsTyped /\ MeansSeen /\ agentAt \in [win : Nat, tab : 0..PageTabs]
      /\ seen \in Snapshots \cup {Nothing} /\ taken \in Seq(Snapshots)
  BY DEF PageTyped, WorkTyped
<1>1. work.at = "page" /\ Barred(OriginNow) = "none" /\ UNCHANGED <<agentAt, batch>>  BY DEF runMutation, AtStep
<1>2. work.tab \in 1..PageTabs  BY <1>0, <1>1 DEF TabOf
<1>3. PICK p \in Responses(work.tab) :
        /\ tabs' = [tabs EXCEPT ![work.tab] = p]
        /\ IF p = tabs[work.tab] THEN UNCHANGED <<seen, taken>> ELSE PageTouched(work.tab)
  BY DEF runMutation
<1>4. /\ TabsTyped' /\ (\A u \in 1..PageTabs : u # work.tab => tabs'[u] = tabs[u]) /\ tabs'[work.tab].win = tabs[work.tab].win
  BY <1>0, <1>2, <1>3, Responds DEF TabsTyped
<1>5. SnapshotsTrue' /\ seen' \in Snapshots \cup {Nothing} /\ taken' \in Seq(Snapshots) /\ seen'.els = seen.els
  <2>1. CASE p = tabs[work.tab]
    <3>1. tabs' = tabs /\ UNCHANGED <<seen, taken>>  BY <2>1, <1>0, <1>2, <1>3 DEF TabsTyped
    <3> QED  BY <3>1, <1>0 DEF SnapshotsTrue, CurrentIn
  <2>2. CASE p # tabs[work.tab]
    <3>1. PageTouched(work.tab)  BY <2>2, <1>3
    <3> QED  BY <3>1, <1>2, <1>4, TouchedKept DEF PageTouched
  <2> QED  BY <2>1, <2>2
<1>6. WorkTyped' /\ work'.at = "page" /\ work'.tab = work.tab /\ work'.refs = work.refs /\ work'.fresh = work.fresh
  <2>1. work' = InPage(TRUE, "none")  BY DEF runMutation
  <2>2. WorkShape' /\ work'.at = work.at /\ work'.tab = work.tab /\ work'.refs = work.refs /\ work'.fresh = work.fresh
    BY <2>1, <1>0, StepDone
  <2> QED  BY <2>2, <1>0, <1>1 DEF WorkTyped, TabOf
<1>7. PageTyped'  BY <1>0, <1>1, <1>4, <1>5, <1>6 DEF PageTyped
<1>8. MeansSeen'  BY <1>0, <1>1, <1>5, <1>6 DEF MeansSeen
<1>9. InAPage'  BY <1>0, <1>1, <1>4, <1>6 DEF InAPage
<1>10. GrantTravels' /\ PageInv'
  <2> DEFINE el == IF NeedsRef(BatchStep) THEN work.refs[BatchStep.ref] ELSE "focused"
             meant == IF NeedsRef(BatchStep) /\ BatchStep.ref <= Len(batch.meant) THEN batch.meant[BatchStep.ref] ELSE "none"
             a == [el |-> el, fresh |-> work.fresh, meant |-> meant, origin |-> tabs[work.tab].origin, grant |-> batch.grant,
                   target |-> batch.target]
  <2>1. acts' = acts \cup {a}  BY DEF runMutation
  <2>2. work.fresh => work.refs = batch.meant  BY <1>0, <1>1 DEF MeansSeen
  <2>3. (a.fresh /\ a.meant # "none") => a.el = a.meant  BY <2>2
  <2>4. Barred(a.origin) = "none" /\ a.grant = batch.grant /\ a.target = batch.target  BY <1>1 DEF OriginNow
  <2> HIDE DEF a
  <2> QED  BY <1>1, <2>1, <2>3, <2>4, Struck
<1> QED  BY <1>5, <1>7, <1>8, <1>9, <1>10

LEMMA NavigationKept ==
  ASSUME PageInductive, navigateAndWait
  PROVE  PageInductive'
<1> USE DEF PageInductive
<1>0. /\ WorkShape /\ TabOf(work) /\ InAPage /\ TabsTyped /\ MeansSeen /\ agentAt \in [win : Nat, tab : 0..PageTabs]
      /\ seen \in Snapshots \cup {Nothing} /\ taken \in Seq(Snapshots)
  BY DEF PageTyped, WorkTyped
<1> DEFINE url == BatchStep.url
<1>1. work.at = "page" /\ Barred(url) = "none" /\ UNCHANGED <<agentAt, seen, batch, taken>>  BY DEF navigateAndWait, AtStep
<1>2. work.tab \in 1..PageTabs /\ tabs[work.tab] \in TabStates  BY <1>0, <1>1 DEF TabOf, TabsTyped
<1>3. url \in Origins
  <2>1. batch.grant = "act" /\ url = batch.target  BY <1>1 DEF Barred
  <2>2. batch.target \in Granted  BY <2>1 DEF GrantTravels
  <2> QED  BY <2>1, <2>2, PageAssumption DEF PageAssumption
<1>4. /\ TabsTyped' /\ \A u \in 1..PageTabs : tabs'[u].win = tabs[u].win /\ tabs'[u].els = tabs[u].els
  <2>1. tabs' = [tabs EXCEPT ![work.tab] = [tabs[work.tab] EXCEPT !.leaving = url]]  BY DEF navigateAndWait
  <2> DEFINE p == [tabs[work.tab] EXCEPT !.leaving = url]
  <2> HIDE DEF url
  <2>2. p \in TabStates /\ p.win = tabs[work.tab].win /\ p.els = tabs[work.tab].els  BY <1>2, <1>3 DEF TabStates
  <2>3. tabs' = [tabs EXCEPT ![work.tab] = p]  BY <2>1
  <2> HIDE DEF p
  <2> QED  BY <1>0, <1>2, <2>2, <2>3 DEF TabsTyped
<1>5. SnapshotsTrue'
  <2>1. \A snap : CurrentIn(tabs, snap) => CurrentIn(tabs', snap)  BY <1>4, StillCurrent
  <2> QED  BY <1>1, <2>1 DEF SnapshotsTrue
<1>6. WorkTyped' /\ work'.at = "loading" /\ work'.tab = work.tab /\ work'.refs = work.refs /\ work'.fresh = work.fresh
  <2>1. work' = [work EXCEPT !.at = "loading"]  BY DEF navigateAndWait
  <2>2. WorkShape' /\ work'.at = "loading" /\ work'.tab = work.tab /\ work'.refs = work.refs /\ work'.fresh = work.fresh
    BY <2>1, <1>0, MovesOn
  <2> QED  BY <2>2, <1>0, <1>1 DEF WorkTyped, TabOf
<1>7. PageTyped'  BY <1>0, <1>1, <1>4, <1>6 DEF PageTyped
<1>8. MeansSeen'  BY <1>0, <1>1, <1>6 DEF MeansSeen
<1>9. InAPage'  BY <1>0, <1>1, <1>2, <1>4, <1>6 DEF InAPage
<1>10. GrantTravels' /\ PageInv'
  <2> DEFINE a == [el |-> "location", meant |-> "location", fresh |-> TRUE, origin |-> url, grant |-> batch.grant, target |-> batch.target]
  <2>1. acts' = acts \cup {a}  BY DEF navigateAndWait
  <2>2. a.el = a.meant /\ a.origin = url /\ a.grant = batch.grant /\ a.target = batch.target  OBVIOUS
  <2> HIDE DEF a, url
  <2> QED  BY <1>1, <2>1, <2>2, Struck
<1> QED  BY <1>5, <1>7, <1>8, <1>9, <1>10

LEMMA OverKept ==
  ASSUME PageInductive, StepsOver \/ SendResults \/ Thrown
  PROVE  PageInductive'
<1> USE DEF PageInductive
<1>0. /\ WorkShape /\ TabOf(work) /\ InAPage /\ TabsTyped /\ MeansSeen /\ agentAt \in [win : Nat, tab : 0..PageTabs]
      /\ seen \in Snapshots \cup {Nothing} /\ taken \in Seq(Snapshots)
  BY DEF PageTyped, WorkTyped
<1>1. CASE StepsOver
  <2> DEFINE shot == [els |-> collectInteractive(tabs[work.tab].els), tab |-> work.tab, same |-> TRUE]
             s == SegStart
  <2>1. /\ work.at = "page" /\ UNCHANGED <<tabs, agentAt, seen, batch, acts>> /\ taken' = Append(taken, shot)
        /\ work' = [work EXCEPT !.at = "return", !.shot = s]
    BY <1>1 DEF StepsOver
  <2>2. work.tab \in 1..PageTabs /\ tabs[work.tab] \in TabStates /\ tabs[work.tab].win # 0
    BY <2>1, <1>0 DEF TabOf, TabsTyped, InAPage
  <2>3. shot \in Snapshots /\ CurrentIn(tabs, shot)
    <3>1. tabs[work.tab].els \in Seq(Elements)  BY <2>2 DEF TabStates
    <3> QED  BY <2>2, <3>1 DEF Snapshots, CurrentIn
  <2> HIDE DEF shot, s
  <2>4. taken' \in Seq(Snapshots) /\ \A i \in DOMAIN taken' : CurrentIn(tabs, taken'[i])
    BY <2>1, <2>3, <1>0 DEF SnapshotsTrue
  <2>5. SnapshotsTrue'  BY <2>1, <2>4 DEF SnapshotsTrue, CurrentIn
  <2>6. WorkTyped' /\ work'.at = "return" /\ work'.refs = work.refs /\ work'.fresh = work.fresh
    <3>1. WorkShape' /\ work'.at = "return" /\ work'.tab = work.tab /\ work'.refs = work.refs /\ work'.fresh = work.fresh
      BY <2>1, <1>0, MovesOn
    <3> QED  BY <3>1, <1>0, <2>1 DEF WorkTyped, TabOf
  <2>7. PageTyped'  BY <2>1, <2>4, <2>6, <1>0 DEF PageTyped, TabsTyped
  <2>8. MeansSeen' /\ InAPage'  BY <2>1, <2>6, <1>0 DEF MeansSeen, InAPage
  <2>9. GrantTravels' /\ PageInv'  BY <2>1 DEF GrantTravels, PageInv
  <2> QED  BY <2>5, <2>7, <2>8, <2>9
<1>2. CASE SendResults \/ Thrown
  <2>1. /\ taken' = <<>> /\ work' = NoWork /\ batch' = NoBatch /\ UNCHANGED <<tabs, agentAt, acts>>
    BY <1>2 DEF SendResults, Thrown
  <2>2. seen' \in Snapshots \cup {Nothing} /\ CurrentIn(tabs, seen')
    <3>1. CurrentIn(tabs, Nothing)  BY DEF CurrentIn, Nothing
    <3>2. seen' = Nothing \/ (taken # <<>> /\ seen' = Last(taken))  BY <1>2 DEF SendResults, Thrown
    <3>3. taken # <<>> => Last(taken) \in Snapshots /\ CurrentIn(tabs, Last(taken))
      <4>1. taken # <<>> => Len(taken) \in DOMAIN taken  BY <1>0
      <4> QED  BY <4>1, <1>0 DEF Last, SnapshotsTrue
    <3> QED  BY <3>1, <3>2, <3>3
  <2>3. SnapshotsTrue'  BY <2>1, <2>2 DEF SnapshotsTrue, CurrentIn
  <2>4. WorkTyped' /\ work'.at = "idle"
    <3>1. 0 \in 0..PageTabs  BY PageAssumption DEF PageAssumption
    <3> QED  BY <2>1, <3>1 DEF WorkTyped, WorkShape, TabOf, NoWork
  <2>5. PageTyped'  BY <2>1, <2>2, <2>4, <1>0 DEF PageTyped, TabsTyped
  <2>6. MeansSeen' /\ InAPage'  BY <2>4 DEF MeansSeen, InAPage
  <2>7. GrantTravels' /\ PageInv'  BY <2>1 DEF GrantTravels, NoBatch, PageInv
  <2> QED  BY <2>3, <2>5, <2>6, <2>7
<1> QED  BY <1>1, <1>2

LEMMA TabStepKept ==
  ASSUME PageInductive, runTabStep
  PROVE  PageInductive'
<1> USE DEF PageInductive
<1>0. /\ WorkShape /\ TabOf(work) /\ InAPage /\ TabsTyped /\ MeansSeen /\ agentAt \in [win : Nat, tab : 0..PageTabs]
      /\ seen \in Snapshots \cup {Nothing} /\ taken \in Seq(Snapshots)
  BY DEF PageTyped, WorkTyped
<1> DEFINE s == batch.steps[SegStart]
<1>1. work.at = "tabStep" /\ UNCHANGED <<seen, batch, taken>>  BY DEF runTabStep
<1>2. ASSUME work' = NextSegment(results')
      PROVE  /\ WorkTyped' /\ work'.at \in {"send", "segment"} /\ work'.refs = work.refs /\ work'.fresh = work.fresh
  <2> DEFINE a == IF AnyRefused(results') \/ work.seg = Len(splitSegments) THEN "send" ELSE "segment"
  <2>1. a \in {"send", "segment"} /\ work' = [work EXCEPT !.at = a, !.seg = work.seg + 1]  BY <1>2 DEF NextSegment
  <2> HIDE DEF a
  <2>2. WorkShape' /\ work'.at = a /\ work'.tab = work.tab /\ work'.refs = work.refs /\ work'.fresh = work.fresh
    BY <2>1, <1>0, MovesOn
  <2> QED  BY <2>1, <2>2, <1>0, <1>1 DEF WorkTyped, TabOf
<1>3. CASE work' = NextSegment(results') /\ UNCHANGED <<tabs, acts>> /\ agentAt' \in [win : Nat, tab : 0..PageTabs]
  BY <1>1, <1>2, <1>3, WorkOnly
<1>4. CASE /\ Barred(s.url) = "none" /\ Free # {} /\ UNCHANGED agentAt
           /\ tabs' = [tabs EXCEPT ![FirstFree] = [PageAt(agentAt.win, "blank") EXCEPT !.leaving = s.url]]
           /\ acts' = acts \cup {[el |-> "tab", meant |-> "tab", fresh |-> TRUE, origin |-> s.url, grant |-> batch.grant, target |-> batch.target]}
           /\ work' = [work EXCEPT !.at = "opening", !.tab = FirstFree]
  <2> DEFINE url == s.url
  <2>1. url \in Origins
    <3>1. batch.grant = "act" /\ url = batch.target  BY <1>4 DEF Barred
    <3>2. batch.target \in Granted  BY <3>1 DEF GrantTravels
    <3> QED  BY <3>1, <3>2, PageAssumption DEF PageAssumption
  <2>2. FirstFree \in 1..PageTabs  BY <1>0, <1>4, FreeTab
  <2>3. TabsTyped' /\ SnapshotsTrue'
    <3> DEFINE w == agentAt.win
               q == PageAt(w, "blank")
               p == [q EXCEPT !.leaving = url]
    <3>1. tabs' = [tabs EXCEPT ![FirstFree] = p]  BY <1>4
    <3>2. w \in Nat  BY <1>0
    <3> HIDE DEF w, url
    <3>3. q \in TabStates  BY <3>2, PageTypes
    <3> HIDE DEF q
    <3>4. p \in TabStates  BY <3>3, <2>1 DEF TabStates
    <3> HIDE DEF p
    <3> QED  BY <3>1, <3>4, <1>1, <1>4, FreeKept
  <2>4. WorkTyped' /\ work'.at = "opening" /\ work'.refs = work.refs /\ work'.fresh = work.fresh
    <3>1. WorkShape' /\ work'.at = "opening" /\ work'.tab = FirstFree /\ work'.refs = work.refs /\ work'.fresh = work.fresh
      BY <1>4, <1>0, MovesTo
    <3>2. FirstFree \in 0..PageTabs /\ FirstFree # 0  BY <2>2, PageAssumption DEF PageAssumption
    <3> QED  BY <3>1, <3>2 DEF WorkTyped, TabOf
  <2>5. PageTyped'  BY <1>0, <1>1, <1>4, <2>3, <2>4 DEF PageTyped
  <2>6. MeansSeen' /\ InAPage'  BY <1>0, <1>1, <2>4 DEF MeansSeen, InAPage
  <2>7. GrantTravels' /\ PageInv'
    <3> DEFINE a == [el |-> "tab", meant |-> "tab", fresh |-> TRUE, origin |-> url, grant |-> batch.grant, target |-> batch.target]
    <3>1. acts' = acts \cup {a}  BY <1>4
    <3>2. a.el = a.meant /\ a.origin = url /\ a.grant = batch.grant /\ a.target = batch.target  OBVIOUS
    <3>3. Barred(url) = "none"  BY <1>4
    <3> HIDE DEF a, url
    <3> QED  BY <1>1, <3>1, <3>2, <3>3, Struck
  <2> QED  BY <2>3, <2>5, <2>6, <2>7
<1>5. \/ work' = NextSegment(results') /\ UNCHANGED <<tabs, acts>> /\ agentAt' \in [win : Nat, tab : 0..PageTabs]
      \/ /\ Barred(s.url) = "none" /\ Free # {} /\ UNCHANGED agentAt
         /\ tabs' = [tabs EXCEPT ![FirstFree] = [PageAt(agentAt.win, "blank") EXCEPT !.leaving = s.url]]
         /\ acts' = acts \cup {[el |-> "tab", meant |-> "tab", fresh |-> TRUE, origin |-> s.url, grant |-> batch.grant, target |-> batch.target]}
         /\ work' = [work EXCEPT !.at = "opening", !.tab = FirstFree]
  <2>1. CASE s.verb = "tabs" /\ TabStepDone(Result(TRUE, "none", SegStart)) /\ UNCHANGED <<tabs, agentAt, acts>>
    BY <2>1, <1>0 DEF TabStepDone
  <2>2. CASE /\ UNCHANGED <<tabs, acts>>
             /\ IF s.tabId \in 1..PageTabs /\ Present(s.tabId)
                THEN TabStepDone(Result(TRUE, "none", SegStart)) /\ agentAt' = [agentAt EXCEPT !.tab = s.tabId]
                ELSE TabStepDone(Result(FALSE, "none", SegStart)) /\ UNCHANGED <<agentAt>>
    <3>1. CASE s.tabId \in 1..PageTabs /\ Present(s.tabId)
      <4>1. agentAt' = [agentAt EXCEPT !.tab = s.tabId] /\ work' = NextSegment(results')  BY <2>2, <3>1 DEF TabStepDone
      <4>2. s.tabId \in 0..PageTabs  BY <3>1, PageAssumption DEF PageAssumption
      <4> HIDE DEF s
      <4>3. agentAt' \in [win : Nat, tab : 0..PageTabs]  BY <4>1, <4>2, <1>0
      <4> QED  BY <4>1, <4>3, <2>2
    <3>2. CASE ~(s.tabId \in 1..PageTabs /\ Present(s.tabId))  BY <2>2, <3>2, <1>0 DEF TabStepDone
    <3> QED  BY <3>1, <3>2
  <2>3. CASE /\ UNCHANGED agentAt
             /\ IF Barred(s.url) # "none"
                THEN TabStepDone(Result(FALSE, Barred(s.url), SegStart)) /\ UNCHANGED <<tabs, acts>>
                ELSE /\ Free # {}
                     /\ tabs' = [tabs EXCEPT ![FirstFree] = [PageAt(agentAt.win, "blank") EXCEPT !.leaving = s.url]]
                     /\ acts' = acts \cup {[el |-> "tab", meant |-> "tab", fresh |-> TRUE, origin |-> s.url, grant |-> batch.grant, target |-> batch.target]}
                     /\ work' = [work EXCEPT !.at = "opening", !.tab = FirstFree] /\ results' = results
    BY <2>3, <1>0 DEF TabStepDone
  <2> QED  BY <2>1, <2>2, <2>3 DEF runTabStep
<1> QED  BY <1>3, <1>4, <1>5

LEMMA PageStart ==
  ASSUME PageInit
  PROVE  PageInductive
<1>0. 0 \in 0..PageTabs /\ 1 \in 1..PageTabs /\ 1 \in 0..PageTabs  BY PageAssumption DEF PageAssumption
<1>1. work = NoWork /\ taken = <<>> /\ batch = NoBatch /\ acts = {}  BY DEF PageInit
<1>2. WorkTyped /\ work.at = "idle"  BY <1>0, <1>1 DEF WorkTyped, WorkShape, TabOf, NoWork
<1>3. MeansSeen /\ InAPage /\ GrantTravels /\ PageInv  BY <1>1, <1>2 DEF MeansSeen, InAPage, GrantTravels, NoBatch, PageInv
<1>4. TabsTyped /\ agentAt \in [win : Nat, tab : 0..PageTabs] /\ seen \in Snapshots \cup {Nothing} /\ CurrentIn(tabs, seen)
  <2>1. CASE tabs = [t \in 1..PageTabs |-> NoTab] /\ agentAt = [win |-> 0, tab |-> 0] /\ seen = Nothing
    BY <2>1, <1>0, NoTabTypes DEF TabsTyped, CurrentIn, Nothing
  <2>2. ASSUME NEW o \in Origins, tabs = [t \in 1..PageTabs |-> IF t = 1 THEN PageAt(1, o) ELSE NoTab],
               agentAt = [win |-> 1, tab |-> 1], seen = [els |-> collectInteractive(HomePage[o]), tab |-> 1, same |-> TRUE]
        PROVE  TabsTyped /\ agentAt \in [win : Nat, tab : 0..PageTabs] /\ seen \in Snapshots \cup {Nothing} /\ CurrentIn(tabs, seen)
    <3>1. PageAt(1, o) \in TabStates /\ PageAt(1, o).win = 1 /\ PageAt(1, o).els = HomePage[o]  BY PageTypes DEF PageAt
    <3>2. HomePage[o] \in Seq(Elements)  BY PageAssumption DEF PageAssumption, Elements
    <3>3. TabsTyped  BY <2>2, <3>1, NoTabTypes DEF TabsTyped
    <3>4. tabs[1] = PageAt(1, o)  BY <2>2, <1>0
    <3>5. seen \in Snapshots  BY <2>2, <1>0, <3>2 DEF Snapshots
    <3>6. CurrentIn(tabs, seen)  BY <2>2, <1>0, <3>1, <3>4 DEF CurrentIn
    <3> QED  BY <2>2, <1>0, <3>3, <3>5, <3>6
  <2> QED  BY <2>1, <2>2 DEF PageInit
<1>5. taken \in Seq(Snapshots) /\ SnapshotsTrue  BY <1>1, <1>4 DEF SnapshotsTrue
<1> QED  BY <1>2, <1>3, <1>4, <1>5 DEF PageInductive, PageTyped

LEMMA PageStep ==
  ASSUME PageInductive, [PageNext]_pageVars
  PROVE  PageInductive'
<1>1. CASE \E b \in PageAsks : AskBatch(b)  BY <1>1, AskedKept
<1>2. CASE \E t \in 1..PageTabs : PageChanges(t) \/ PageLoads(t) \/ Arrives(t) \/ Closes(t)  BY <1>2, PagesKept
<1>3. CASE NoPageYet \/ ScriptSent \/ executeSteps \/ StepRefused \/ StepReads \/ waitForText \/ TextFound \/ WaitedOut
           \/ FillSlot \/ Torn \/ TabSlow \/ TabLoaded
  BY <1>3, WorkerKept
<1>4. CASE AgentTab  BY <1>4, AgentTabKept
<1>5. CASE runMutation  BY <1>5, MutationKept
<1>6. CASE navigateAndWait  BY <1>6, NavigationKept
<1>7. CASE StepsOver \/ SendResults \/ Thrown  BY <1>7, OverKept
<1>8. CASE runTabStep  BY <1>8, TabStepKept
<1>9. CASE UNCHANGED pageVars
  <2>1. UNCHANGED <<tabs, agentAt, seen, batch, work, taken, acts>>  BY <1>9 DEF pageVars
  <2> QED  BY <2>1 DEF PageInductive, PageTyped, TabsTyped, WorkTyped, WorkShape, TabOf, SnapshotsTrue, CurrentIn, MeansSeen,
                       InAPage, GrantTravels, PageInv
<1> QED  BY <1>1, <1>2, <1>3, <1>4, <1>5, <1>6, <1>7, <1>8, <1>9 DEF PageNext

\* Whatever the pages, the batches asked, the tabs there may be and the changes the pages make by themselves: every
\* change a step makes has the grant of the site it happens on, and a click on references resolved on a page that is
\* as its caller saw it strikes the element the caller named.
THEOREM PageHolds == PageSpec => []PageInv
<1>1. PageInit => PageInductive  BY PageStart
<1>2. PageInductive /\ [PageNext]_pageVars => PageInductive'  BY PageStep
<1>3. PageInductive => PageInv  BY DEF PageInductive
<1> QED  BY <1>1, <1>2, <1>3, PTL DEF PageSpec

-----------------------------------------------------------------------------
(* What a caller is told *)

\* Where the segments of a batch begin and end: one after the other from the first step to the last, and a step on tabs
\* is one of its own.
TabStep(steps, i) == steps[i].verb \in TAB_VERBS
SegmentsOf(steps) ==
  OnlyIn([i \in DOMAIN steps |-> i], {i \in DOMAIN steps : TabStep(steps, i) \/ i = 1 \/ TabStep(steps, i - 1)})
OneByOne(steps, begins) ==
  /\ Len(begins) \in Nat \ {0} /\ begins[1] = 1
  /\ \A g \in 1..Len(begins) : begins[g] \in 1..Len(steps)
  /\ \A g \in 1..(Len(begins) - 1) : begins[g] < begins[g + 1]
  /\ \A g \in 1..Len(begins) : TabStep(steps, begins[g]) =>
       IF g < Len(begins) THEN begins[g + 1] = begins[g] + 1 ELSE begins[g] = Len(steps)

LEMMA Segmented ==
  ASSUME NEW steps, steps \in Seq(ToSet(steps)), steps # <<>>, NEW out, out = SegmentsOf(steps)
  PROVE  OneByOne(steps, out)
<1> DEFINE n == Len(steps)
           S == {i \in DOMAIN steps : TabStep(steps, i) \/ i = 1 \/ TabStep(steps, i - 1)}
<1>1. n \in Nat /\ n # 0 /\ DOMAIN steps = 1..n
  OBVIOUS
<1>2. ListOf(out, n, S)
  <2>1. S \subseteq 1..n
    BY <1>1
  <2>2. out = OnlyIn([i \in 1..n |-> i], S)
    BY <1>1 DEF SegmentsOf
  <2> HIDE DEF S, n
  <2>3. QED
    BY <1>1, <2>1, <2>2, Chosen
<1>4. 1 \in S /\ \A i \in 1..n : TabStep(steps, i) => i \in S /\ (i + 1 \in 1..n => i + 1 \in S)
  <2>1. ASSUME NEW i \in 1..n, TabStep(steps, i), i + 1 \in 1..n PROVE i + 1 \in S
    <3>1. (i + 1) - 1 = i
      OBVIOUS
    <3>2. QED
      BY <1>1, <2>1, <3>1
  <2>2. QED
    BY <1>1, <2>1
<1>0. n \in Nat /\ n # 0 /\ n = Len(steps)
  BY <1>1
<1> HIDE DEF S, n
<1>5. Len(out) \in Nat /\ \A i \in 1..Len(out) : out[i] \in 1..n
  <2>1. out \in Seq(1..n)
    BY <1>2 DEF ListOf
  <2>2. QED
    BY <1>0, <2>1
<1>12. /\ \A i, j \in 1..Len(out) : i < j => out[i] < out[j]
       /\ \A k \in S : \E i \in 1..Len(out) : out[i] = k
  BY <1>2 DEF ListOf
<1>6. Len(out) # 0 /\ out[1] = 1
  <2>1. PICK i \in 1..Len(out) : out[i] = 1
    BY <1>12, <1>4
  <2>2. 1 \in 1..Len(out) /\ (1 < i => out[1] < out[i]) /\ out[1] \in 1..n
    BY <1>12, <1>5
  <2>3. QED
    BY <1>5, <2>1, <2>2
<1>7. \A g \in 1..(Len(out) - 1) : g \in 1..Len(out) /\ g + 1 \in 1..Len(out) /\ g < g + 1
  BY <1>5
<1>8. \A g \in 1..(Len(out) - 1) : out[g] < out[g + 1]
  BY <1>12, <1>7
<1>9. ASSUME NEW g \in 1..Len(out), TabStep(steps, out[g]), g < Len(out) PROVE out[g + 1] = out[g] + 1
  <2>1. g \in 1..(Len(out) - 1) /\ g + 1 \in 1..Len(out)
    BY <1>5, <1>9
  <2>2. out[g] \in 1..n /\ out[g + 1] \in 1..n /\ out[g] < out[g + 1]
    BY <2>1, <1>5, <1>8
  <2>3. out[g] + 1 \in 1..n
    BY <1>1, <2>2
  <2>4. out[g] + 1 \in S
    BY <1>4, <1>9, <2>2, <2>3
  <2>5. PICK i \in 1..Len(out) : out[i] = out[g] + 1
    BY <2>4, <1>12
  <2>6. (i < g => out[i] < out[g]) /\ (g + 1 < i => out[g + 1] < out[i]) /\ i # g
    BY <1>12, <2>1, <2>2, <2>5
  <2>7. ~(i < g) /\ ~(g + 1 < i) /\ i # g
    BY <2>2, <2>5, <2>6
  <2>8. i = g + 1
    BY <2>7, <1>5
  <2>9. QED
    BY <2>5, <2>8
<1>10. ASSUME NEW g \in 1..Len(out), TabStep(steps, out[g]), ~(g < Len(out)) PROVE out[g] = n
  <2>1. g = Len(out) /\ out[g] \in 1..n
    BY <1>5, <1>10
  <2>2. ASSUME out[g] + 1 \in 1..n PROVE FALSE
    <3>1. out[g] + 1 \in S
      BY <1>4, <1>10, <2>1, <2>2
    <3>2. PICK i \in 1..Len(out) : out[i] = out[g] + 1
      BY <3>1, <1>12
    <3>3. (i < g => out[i] < out[g]) /\ i # g
      BY <1>12, <2>1, <3>2
    <3>4. QED
      BY <2>1, <3>2, <3>3, <1>5
  <2>3. QED
    BY <1>0, <2>1, <2>2
<1>11. QED
  BY <1>0, <1>5, <1>6, <1>8, <1>9, <1>10 DEF OneByOne

Steps == batch.steps
SegmentsRight == OneByOne(Steps, splitSegments)

LEMMA SplitUp ==
  /\ splitSegments = SegmentsOf(Steps) /\ splitSegments' = SegmentsOf(Steps')
  /\ \A i : IsTab(i) <=> TabStep(Steps, i)
BY DEF splitSegments, SegmentsOf, IsTab, TabStep, Steps

LEMMA SegmentPlace ==
  ASSUME SegmentsRight, Len(Steps) \in Nat, work.seg \in 1..Len(splitSegments)
  PROVE  /\ SegStart \in 1..Len(Steps) /\ SegEnd \in 1..Len(Steps) /\ SegStart <= SegEnd
         /\ IsTab(SegStart) => SegEnd = SegStart
         /\ work.seg < Len(splitSegments) => work.seg + 1 \in 1..Len(splitSegments) /\ splitSegments[work.seg + 1] = SegEnd + 1
         /\ work.seg = Len(splitSegments) => SegEnd = Len(Steps)
<1> DEFINE g == work.seg
           m == Len(splitSegments)
           n == Len(Steps)
<1>1. PICK S : S = splitSegments
  OBVIOUS
<1>2. m \in Nat \ {0} /\ g \in 1..m /\ n \in Nat
  BY DEF SegmentsRight, OneByOne
<1>3. SegStart = S[g] /\ SegEnd = IF g < m THEN S[g + 1] - 1 ELSE n
  BY <1>1 DEF SegStart, SegEnd, Steps
<1>4. /\ \A h \in 1..m : S[h] \in 1..n
      /\ \A h \in 1..(m - 1) : S[h] < S[h + 1]
      /\ \A h \in 1..m : IsTab(S[h]) => IF h < m THEN S[h + 1] = S[h] + 1 ELSE S[h] = n
  BY <1>1, SplitUp DEF SegmentsRight, OneByOne
<1>5. g < m => g + 1 \in 1..m /\ g \in 1..(m - 1)
  BY <1>2
<1> HIDE DEF g, m, n
<1>6. CASE g < m
  <2>1. S[g] \in 1..n /\ S[g + 1] \in 1..n /\ S[g] < S[g + 1] /\ SegEnd = S[g + 1] - 1 /\ SegStart = S[g]
    BY <1>2, <1>3, <1>4, <1>5, <1>6
  <2>2. IsTab(SegStart) => S[g + 1] = S[g] + 1
    BY <1>2, <1>4, <1>6, <2>1
  <2>3. SegEnd \in 1..n /\ SegStart <= SegEnd /\ S[g + 1] = SegEnd + 1 /\ (IsTab(SegStart) => SegEnd = SegStart)
    BY <1>2, <2>1, <2>2
  <2>4. g # m
    BY <1>2, <1>6
  <2>5. QED
    BY <1>1, <1>5, <1>6, <2>1, <2>3, <2>4 DEF g, m, n
<1>7. CASE ~(g < m)
  <2>1. S[g] \in 1..n /\ SegEnd = n /\ SegStart = S[g]
    BY <1>2, <1>3, <1>4, <1>7
  <2>2. IsTab(SegStart) => S[g] = n
    BY <1>2, <1>4, <1>7, <2>1
  <2>3. SegEnd \in 1..n /\ SegStart <= SegEnd /\ (IsTab(SegStart) => SegEnd = SegStart)
    BY <1>2, <2>1, <2>2
  <2>4. QED
    BY <1>7, <2>1, <2>3 DEF g, m, n
<1>8. QED
  BY <1>6, <1>7

LEMMA SegmentsStay ==
  ASSUME UNCHANGED batch
  PROVE  /\ splitSegments' = splitSegments /\ (SegmentsRight => SegmentsRight')
         /\ (\A i : IsTab(i)' <=> IsTab(i)) /\ Steps' = Steps
         /\ work'.seg = work.seg => SegStart' = SegStart /\ SegEnd' = SegEnd
<1>1. Steps' = Steps /\ \A i : IsTab(i)' <=> IsTab(i)
  BY DEF Steps, IsTab
<1>2. splitSegments' = splitSegments
  BY DEF splitSegments, IsTab
<1>3. SegmentsRight => SegmentsRight'
  BY <1>1, <1>2 DEF SegmentsRight
<1>4. work'.seg = work.seg => SegStart' = SegStart /\ SegEnd' = SegEnd
  BY <1>1, <1>2 DEF SegStart, SegEnd, Steps
<1>5. QED
  BY <1>1, <1>2, <1>3, <1>4

\* The codes of results that callers know.
Codes == Sentences \cup {"none"}
Outcomes == [ok : BOOLEAN, code : Codes]

LEMMA CodesKnown ==
  /\ "unset" \notin Codes /\ Unset.code = "unset" /\ Unset.ok
  /\ {"none", "no_page", "page_navigated", "navigation_timeout", "screenshot_failed", "stale_ref", "unsupported_verb",
      "wait_timeout", "no_grant", "origin_mismatch"} \subseteq Codes
  /\ \A o : Barred(o) \in Codes
<1>1. \A o : Barred(o) \in {"no_grant", "origin_mismatch", "none"}
  BY DEF Barred
<1>2. QED
  BY <1>1 DEF Codes, Sentences, Unset

\* Each slot is unset or has the result of its own step.
IsSet(i) == results[i].code # "unset"
SlotValues == [ok : BOOLEAN, code : Codes \cup {"unset"}, of : {"none"} \cup {Steps[i].verb : i \in 1..Len(Steps)}]
SlotsTyped ==
  /\ results \in [1..Len(Steps) -> SlotValues]
  /\ \A i \in 1..Len(Steps) : IF IsSet(i) THEN results[i].of = Steps[i].verb ELSE results[i].ok

\* The worker is in a segment, and in which step of it; of what was done in the page only the last was refused.
Inside ==
  {"segment", "tabStep", "script", "inject", "page", "loading", "waiting", "return", "fill", "torn", "opening", "opened"}
InPageNow == {"page", "loading", "waiting", "return", "fill"}
InASegment == work.at \in Inside => work.seg \in 1..Len(splitSegments)
OnTabs == work.at \in {"tabStep", "opening", "opened"} => IsTab(SegStart)
StepsDone ==
  /\ work.inPage \in Seq(Outcomes) /\ work.i = SegStart + Len(work.inPage) /\ work.i <= SegEnd + 1
  /\ \A j \in 1..Len(work.inPage) : ~work.inPage[j].ok => j = Len(work.inPage)
AllSucceeded == \A j \in 1..Len(work.inPage) : work.inPage[j].ok
InTheSteps ==
  /\ work.at \in InPageNow => StepsDone
  /\ work.at \in {"loading", "waiting"} => work.i <= SegEnd /\ AllSucceeded
  /\ work.at \in {"return", "fill"} => work.i = SegEnd + 1 \/ ~AllSucceeded
  /\ work.at = "return" => work.shot = SegStart
  /\ work.at = "fill" => work.shot \in SegStart..(SegEnd + 1)

\* Where no screenshot is asked for the slots are filled in turn, with what was done in the page.
UnseenSteps == \A i \in 1..Len(Steps) : Steps[i].verb # "screenshot"
FilledTo(k) == \A i \in 1..Len(Steps) : (IsSet(i) <=> i <= k) /\ results[i].ok
FilledIn ==
  /\ work.shot - SegStart <= Len(work.inPage)
  /\ \A i \in 1..Len(Steps) : IsSet(i) <=> i < work.shot
  /\ \A i \in 1..Len(Steps) : i < SegStart => results[i].ok
  /\ \A i \in SegStart..(work.shot - 1) : results[i].ok = work.inPage[i - SegStart + 1].ok
EndsIn(k) ==
  /\ \A i \in 1..Len(Steps) : IsSet(i) <=> i <= k
  /\ \A i \in 1..Len(Steps) : i < k => results[i].ok
  /\ results[k].ok => k = Len(Steps)
InTurn ==
  UnseenSteps =>
    /\ work.at \in Inside \ {"return", "fill"} => FilledTo(SegStart - 1)
    /\ work.at \in {"return", "fill"} => FilledIn
    /\ work.at = "send" => \E k \in 1..Len(Steps) : EndsIn(k)

BatchKnown == work.at # "idle" => Steps \in Seq(ToSet(Steps)) /\ Steps # <<>> /\ SlotsTyped
ToldInductive == WorkShape /\ BatchKnown /\ InASegment /\ OnTabs /\ InTheSteps /\ InTurn /\ ToldRight

LEMMA Known ==
  ASSUME ToldInductive, work.at # "idle"
  PROVE  /\ Len(Steps) \in Nat \ {0} /\ DOMAIN Steps = 1..Len(Steps) /\ SegmentsRight /\ SlotsTyped
         /\ work.at \in Inside =>
              /\ SegStart \in 1..Len(Steps) /\ SegEnd \in 1..Len(Steps) /\ SegStart <= SegEnd
              /\ IsTab(SegStart) => SegEnd = SegStart
              /\ work.seg \in Nat /\ work.seg <= Len(splitSegments) /\ Len(splitSegments) \in Nat
              /\ work.seg < Len(splitSegments) => work.seg + 1 \in 1..Len(splitSegments) /\ splitSegments[work.seg + 1] = SegEnd + 1
              /\ work.seg = Len(splitSegments) => SegEnd = Len(Steps)
<1>1. Steps \in Seq(ToSet(Steps)) /\ Steps # <<>> /\ SlotsTyped
  BY DEF ToldInductive, BatchKnown
<1>2. Len(Steps) \in Nat \ {0} /\ DOMAIN Steps = 1..Len(Steps)
  BY <1>1
<1>3. SegmentsRight
  BY <1>1, Segmented, SplitUp DEF SegmentsRight
<1>4. work.at \in Inside => work.seg \in 1..Len(splitSegments)
  BY DEF ToldInductive, InASegment
<1>5. Len(splitSegments) \in Nat
  BY <1>3 DEF SegmentsRight, OneByOne
<1>6. work.at \in Inside => work.seg \in Nat /\ work.seg <= Len(splitSegments)
  BY <1>4, <1>5
<1>7. QED
  BY <1>1, <1>2, <1>3, <1>4, <1>5, <1>6, SegmentPlace

\* What is sent when the slots are as InTurn says.
LEMMA Sent ==
  ASSUME ToldInductive, SendResults
  PROVE  ToldRight'
<1>1. PICK n : n = Len(Steps)
  OBVIOUS
<1>2. PICK c : c = Compact(results)
  OBVIOUS
<1> DEFINE S == {i \in 1..n : IsSet(i)}
           rs == [i \in DOMAIN c |-> results[c[i]]]
<1>3. work.at = "send" /\ told' = [steps |-> batch.steps, of |-> c, lost |-> FALSE, results |-> rs]
  BY <1>2 DEF SendResults
<1>4. n \in Nat \ {0} /\ DOMAIN Steps = 1..n /\ SlotsTyped
  BY <1>1, <1>3, Known
<1>5. results \in [1..n -> SlotValues] /\ \A i \in 1..n : IF IsSet(i) THEN results[i].of = Steps[i].verb ELSE results[i].ok
  BY <1>1, <1>4 DEF SlotsTyped
<1>6. ListOf(c, n, S)
  <2>1. c = OnlyIn([i \in 1..n |-> i], S)
    BY <1>2, <1>5 DEF Compact, IsSet
  <2> DEFINE T == S
  <2>2. T \subseteq 1..n
    OBVIOUS
  <2> HIDE DEF T
  <2>3. ListOf(OnlyIn([i \in 1..n |-> i], T), n, T)
    BY <1>4, <2>2, Chosen
  <2>4. QED
    BY <2>1, <2>3 DEF T
<1>7. c \in Seq(1..n)
  BY <1>6 DEF ListOf
<1>18. PICK m : m = Len(c)
  OBVIOUS
<1>8. m \in Nat /\ m = Len(c) /\ DOMAIN c = 1..m /\ \A i \in 1..m : c[i] \in 1..n
  <2> HIDE DEF S, rs
  <2>1. PICK T : T = 1..n
    OBVIOUS
  <2>2. c \in Seq(T)
    BY <1>7, <2>1
  <2>3. Len(c) \in Nat /\ DOMAIN c = 1..Len(c) /\ \A i \in 1..Len(c) : c[i] \in T
    BY <2>2
  <2>4. QED
    BY <1>18, <2>1, <2>3
<1>9. /\ \A i \in 1..m : IsSet(c[i])
      /\ \A i, j \in 1..m : i < j => c[i] < c[j]
      /\ \A k \in 1..n : IsSet(k) => \E i \in 1..m : c[i] = k
  <2>1. /\ \A i \in 1..m : c[i] \in S
        /\ \A i, j \in 1..m : i < j => c[i] < c[j]
        /\ \A k \in S : \E i \in 1..m : c[i] = k
    BY <1>6, <1>8 DEF ListOf
  <2>2. QED
    BY <2>1
<1>10. DOMAIN rs = 1..m /\ (\A i \in 1..m : rs[i] = results[c[i]]) /\ rs \in [1..m -> SlotValues]
  BY <1>5, <1>8
<1>11. Len(rs) = m
  <2> HIDE DEF S, rs
  <2>1. m \in Nat /\ DOMAIN rs = 1..m
    BY <1>8, <1>10
  <2>2. QED
    BY <2>1
<1> HIDE DEF S, rs
<1>12. told'.results = rs /\ told'.of = c /\ told'.steps = Steps
  BY <1>3 DEF Steps
<1>13. ASSUME \A s \in ToSet(Steps) : s.verb # "screenshot"
       PROVE  /\ c = [i \in DOMAIN rs |-> i] /\ \A i \in DOMAIN rs : ~rs[i].ok => i = Len(rs)
              /\ AnyRefused(rs) \/ Len(rs) = n
  <2>1. UnseenSteps
    BY <1>1, <1>4, <1>13 DEF ToSet, UnseenSteps
  <2>2. PICK k \in 1..n : EndsIn(k)
    BY <1>1, <1>3, <2>1 DEF ToldInductive, InTurn
  <2>3. /\ \A i \in 1..n : IsSet(i) <=> i <= k
        /\ \A i \in 1..n : i < k => results[i].ok
        /\ results[k].ok => k = n
    BY <1>1, <2>2 DEF EndsIn
  <2>4. \A i \in 1..m : c[i] \in 1..k
    BY <1>8, <1>9, <2>3
  <2>13. k \in Nat /\ m \in Nat /\ \A p \in 1..k : p \in 1..n
    BY <1>4, <1>8
  <2>5. \A p \in 1..k : \E i \in 1..m : c[i] = p
    BY <1>9, <2>3, <2>13
  <2>6. c \in [1..m -> 1..k]
    <3>1. c = [i \in 1..m |-> c[i]]
      BY <1>7, <1>8
    <3>2. QED
      BY <2>4, <3>1
  <2>14. OrderOnto(c, m, k)
    BY <1>9, <2>5, <2>6 DEF OrderOnto
  <2>7. m = k /\ \A i \in 1..m : c[i] = i
    BY <2>13, <2>14, InOrder
  <2>8. c = [i \in 1..m |-> i]
    <3>1. c = [i \in 1..m |-> c[i]]
      BY <2>6
    <3>2. QED
      BY <2>7, <3>1
  <2>9. \A i \in 1..m : rs[i] = results[i] /\ i \in 1..n
    BY <1>8, <1>10, <2>7
  <2>10. \A i \in 1..m : ~rs[i].ok => i = m
    BY <2>3, <2>7, <2>9
  <2>11. AnyRefused(rs) \/ m = n
    <3>1. k \in 1..m /\ rs[k] = results[k]
      BY <2>7, <2>9
    <3>2. QED
      BY <1>10, <2>3, <2>7, <3>1 DEF AnyRefused
  <2>12. QED
    BY <1>10, <1>11, <2>8, <2>10, <2>11
<1>14. ASSUME Steps = MarksSteps, Len(rs) >= 2 PROVE rs[2].of = "screenshot"
  <2>1. n = 2 /\ Steps[2].verb = "screenshot"
    BY <1>1, <1>14 DEF MarksSteps
  <2>2. 1 \in 1..m /\ 2 \in 1..m
    BY <1>11, <1>14
  <2>3. c[1] < c[2] /\ c[1] \in 1..2 /\ c[2] \in 1..2
    BY <1>8, <1>9, <2>1, <2>2
  <2>4. c[2] = 2
    BY <2>3
  <2>5. rs[2] = results[2] /\ IsSet(2)
    BY <1>9, <1>10, <2>2, <2>4
  <2>6. QED
    BY <1>5, <2>1, <2>5
<1>15. \A i \in DOMAIN rs : rs[i].code \in Codes
  <2> SUFFICES ASSUME NEW i \in 1..m PROVE rs[i].code \in Codes
    BY <1>10
  <2>1. rs[i] \in SlotValues /\ rs[i].code # "unset"
    BY <1>9, <1>10 DEF IsSet
  <2>2. QED
    BY <2>1 DEF SlotValues
<1>16. ToldRight'
  <2>1. ~told'.lost /\ (\A s \in ToSet(told'.steps) : s.verb # "screenshot") =>
          /\ told'.of = [i \in DOMAIN told'.results |-> i] /\ \A i \in DOMAIN told'.results : ~told'.results[i].ok => i = Len(told'.results)
          /\ AnyRefused(told'.results) \/ Len(told'.results) = Len(told'.steps)
    BY <1>1, <1>12, <1>13
  <2>2. told'.steps = MarksSteps /\ runMarks(told'.results) # <<>> => runMarks(told'.results) = <<"screenshot">>
    BY <1>12, <1>14 DEF runMarks
  <2>3. \A i \in DOMAIN told'.results : told'.results[i].code \in Sentences \cup {"none"}
    BY <1>12, <1>15 DEF Codes
  <2>4. QED
    BY <2>1, <2>2, <2>3 DEF ToldRight
<1>17. QED
  BY <1>16

\* Nothing but an error was sent.
LEMMA ThrownTold ==
  ASSUME Thrown
  PROVE  ToldRight'
<1> DEFINE rs == <<[ok |-> FALSE, code |-> "none", of |-> "none"]>>
<1>1. told'.lost /\ told'.results = rs
  BY DEF Thrown
<1>2. DOMAIN rs = {1} /\ Len(rs) = 1 /\ rs[1].code = "none"
  OBVIOUS
<1> HIDE DEF rs
<1>3. runMarks(told'.results) = <<>>
  BY <1>1, <1>2 DEF runMarks
<1>4. \A i \in DOMAIN told'.results : told'.results[i].code \in Sentences \cup {"none"}
  BY <1>1, <1>2
<1>5. QED
  BY <1>1, <1>3, <1>4 DEF ToldRight

-----------------------------------------------------------------------------
\* Nothing of the batch moves.
LEMMA ToldStays ==
  ASSUME ToldInductive, UNCHANGED <<batch, work, results, told>>
  PROVE  ToldInductive'
<1>1. Steps' = Steps /\ splitSegments' = splitSegments /\ (\A i : IsTab(i)' <=> IsTab(i)) /\ SegStart' = SegStart /\ SegEnd' = SegEnd
  BY SegmentsStay
<1>2. WorkShape' /\ ToldRight'
  BY DEF ToldInductive, WorkShape, ToldRight
<1>3. BatchKnown'
  BY <1>1 DEF ToldInductive, BatchKnown, SlotsTyped, SlotValues, IsSet
<1>4. InASegment' /\ OnTabs' /\ InTheSteps'
  BY <1>1 DEF ToldInductive, InASegment, OnTabs, InTheSteps, StepsDone, AllSucceeded
<1>5. InTurn'
  BY <1>1 DEF ToldInductive, InTurn, UnseenSteps, FilledTo, FilledIn, EndsIn, IsSet
<1>6. QED
  BY <1>2, <1>3, <1>4, <1>5 DEF ToldInductive

\* The worker goes on in its segment, and no slot is filled.
LEMMA ToldGoesOn ==
  ASSUME ToldInductive, UNCHANGED <<batch, results, told>>, WorkShape', work.at # "idle", work'.seg = work.seg,
         work.at \in Inside,
         work'.at \in {"tabStep", "opening", "opened"} => IsTab(SegStart),
         SegStart' = SegStart /\ SegEnd' = SegEnd => InTheSteps' /\ InTurn'
  PROVE  ToldInductive'
<1>1. Steps' = Steps /\ splitSegments' = splitSegments /\ (\A i : IsTab(i)' <=> IsTab(i)) /\ SegStart' = SegStart /\ SegEnd' = SegEnd
  BY SegmentsStay
<1>2. ToldRight'
  BY DEF ToldInductive, ToldRight
<1>3. BatchKnown'
  BY <1>1 DEF ToldInductive, BatchKnown, SlotsTyped, SlotValues, IsSet
<1>4. InASegment' /\ OnTabs'
  BY <1>1 DEF ToldInductive, InASegment, OnTabs
<1>5. QED
  BY <1>1, <1>2, <1>3, <1>4 DEF ToldInductive

\* It is not among the steps of the page then.
LEMMA ToldElsewhere ==
  ASSUME ToldInductive, UNCHANGED <<batch, results, told>>, WorkShape', work'.seg = work.seg,
         work.at \in Inside, work.at # "fill", work'.at \in (Inside \ InPageNow) \cup {"thrown"},
         work'.at \in {"tabStep", "opening", "opened"} => IsTab(SegStart)
  PROVE  ToldInductive'
<1>0. work.at # "idle" /\ work'.at # "send" /\ work'.at \notin InPageNow
  BY DEF Inside, InPageNow
<1>1. ASSUME SegStart' = SegStart, SegEnd' = SegEnd PROVE InTheSteps' /\ InTurn'
  <2>1. InTheSteps'
    BY <1>0 DEF InTheSteps, InPageNow
  <2>2. ASSUME UnseenSteps PROVE FilledTo(SegStart - 1)
    <3>1. SegStart \in 1..Len(Steps) /\ Len(Steps) \in Nat /\ SlotsTyped
      BY <1>0, Known
    <3>2. CASE work.at # "return"
      BY <3>2, <2>2 DEF ToldInductive, InTurn
    <3>3. CASE work.at = "return"
      <4>1. FilledIn /\ work.shot = SegStart
        BY <3>3, <2>2 DEF ToldInductive, InTurn, InTheSteps
      <4>2. \A i \in 1..Len(Steps) : IsSet(i) <=> i < SegStart
        BY <4>1 DEF FilledIn
      <4>3. \A i \in 1..Len(Steps) : results[i].ok
        BY <4>1, <4>2, <3>1 DEF FilledIn, SlotsTyped
      <4>4. QED
        BY <4>2, <4>3, <3>1 DEF FilledTo
    <3>4. QED
      BY <3>2, <3>3
  <2>3. (UnseenSteps' <=> UnseenSteps) /\ (FilledTo(SegStart - 1) => FilledTo(SegStart - 1)')
    BY <1>1 DEF UnseenSteps, FilledTo, IsSet, Steps
  <2>4. InTurn'
    BY <1>0, <2>2, <2>3 DEF InTurn, InPageNow
  <2>5. QED
    BY <2>1, <2>4
<1>2. QED
  BY <1>0, <1>1, ToldGoesOn

\* The steps of a segment start in the page.
LEMMA ToldStarts ==
  ASSUME ToldInductive, UNCHANGED <<batch, results, told>>, WorkShape', work'.seg = work.seg,
         work.at = "inject", work'.at = "page", work'.i = SegStart, work'.inPage = <<>>
  PROVE  ToldInductive'
<1>0. work.at # "idle" /\ work.at \in Inside /\ work.at \notin {"return", "fill"}
  BY DEF Inside
<1>1. ASSUME SegStart' = SegStart, SegEnd' = SegEnd PROVE InTheSteps' /\ InTurn'
  <2>1. SegStart \in 1..Len(Steps) /\ SegEnd \in 1..Len(Steps) /\ Len(Steps) \in Nat /\ SegStart <= SegEnd
    BY <1>0, Known
  <2>2. <<>> \in Seq(Outcomes) /\ Len(<<>>) = 0
    OBVIOUS
  <2>3. StepsDone'
    BY <1>1, <2>1, <2>2 DEF StepsDone, Outcomes
  <2>4. InTheSteps'
    BY <2>3 DEF InTheSteps
  <2>5. UnseenSteps => FilledTo(SegStart - 1)
    BY <1>0 DEF ToldInductive, InTurn
  <2>6. (UnseenSteps' <=> UnseenSteps) /\ (FilledTo(SegStart - 1) => FilledTo(SegStart - 1)')
    BY <1>1 DEF UnseenSteps, FilledTo, IsSet, Steps
  <2>7. InTurn'
    BY <2>5, <2>6 DEF InTurn
  <2>8. QED
    BY <2>4, <2>7
<1>2. QED
  BY <1>0, <1>1, ToldGoesOn

\* Where a step may be done all before it in the page succeeded; where none may, the segment is over or one was refused.
LEMMA AtAStep ==
  ASSUME ToldInductive, work.at = "page"
  PROVE  IF AtStep THEN work.i <= SegEnd /\ AllSucceeded ELSE work.i = SegEnd + 1 \/ ~AllSucceeded
<1>0. work.at # "idle" /\ work.at \in Inside
  BY DEF Inside
<1>1. SegEnd \in Nat /\ SegStart \in Nat
  <2>1. SegStart \in 1..Len(Steps) /\ SegEnd \in 1..Len(Steps) /\ Len(Steps) \in Nat
    BY <1>0, Known
  <2>2. QED
    BY <2>1
<1>2. StepsDone
  BY DEF ToldInductive, InTheSteps, InPageNow
<1>3. PICK d : d = work.inPage
  OBVIOUS
<1>4. d \in Seq(Outcomes) /\ \A j \in 1..Len(d) : ~d[j].ok => j = Len(d)
  BY <1>2, <1>3 DEF StepsDone
<1>5. Len(d) \in Nat /\ (d = <<>> <=> Len(d) = 0) /\ Last(d) = d[Len(d)]
  BY <1>4 DEF Last
<1>6. work.i = SegStart + Len(d) /\ work.i <= SegEnd + 1
  BY <1>2, <1>3 DEF StepsDone
<1>7. AllSucceeded <=> (d # <<>> => Last(d).ok)
  <2>1. Len(d) # 0 => Len(d) \in 1..Len(d)
    BY <1>5
  <2>2. AllSucceeded <=> \A j \in 1..Len(d) : d[j].ok
    BY <1>3 DEF AllSucceeded
  <2>3. QED
    BY <1>4, <1>5, <2>1, <2>2
<1>8. AtStep <=> work.i <= SegEnd /\ (d # <<>> => Last(d).ok)
  BY <1>3 DEF AtStep
<1>9. QED
  BY <1>1, <1>5, <1>6, <1>7, <1>8

\* It waits for a load or for a text.
LEMMA ToldWaits ==
  ASSUME ToldInductive, UNCHANGED <<batch, results, told>>, WorkShape', work'.seg = work.seg, work'.i = work.i,
         work'.inPage = work.inPage, AtStep, work'.at \in {"loading", "waiting"}
  PROVE  ToldInductive'
<1>0. work.at = "page" /\ work.at # "idle" /\ work.at \in Inside
  BY DEF AtStep, Inside
<1>1. ASSUME SegStart' = SegStart, SegEnd' = SegEnd PROVE InTheSteps' /\ InTurn'
  <2>1. StepsDone /\ work.i <= SegEnd /\ AllSucceeded
    BY <1>0, AtAStep DEF ToldInductive, InTheSteps, InPageNow
  <2>2. InTheSteps'
    BY <1>1, <2>1 DEF InTheSteps, StepsDone, AllSucceeded, InPageNow
  <2>3. UnseenSteps => FilledTo(SegStart - 1)
    BY <1>0 DEF ToldInductive, InTurn
  <2>4. (UnseenSteps' <=> UnseenSteps) /\ (FilledTo(SegStart - 1) => FilledTo(SegStart - 1)')
    BY <1>1 DEF UnseenSteps, FilledTo, IsSet, Steps
  <2>5. InTurn'
    BY <2>3, <2>4 DEF InTurn
  <2>6. QED
    BY <2>2, <2>5
<1>2. QED
  BY <1>0, <1>1, ToldGoesOn

\* It has done one more step in the page.
LEMMA ToldOneMore ==
  ASSUME ToldInductive, UNCHANGED <<batch, results, told>>, WorkShape', work'.seg = work.seg, AtStep \/ work.at \in {"loading", "waiting"},
         NEW ok \in BOOLEAN, NEW code \in Codes,
         work'.at = "page", work'.i = work.i + 1, work'.inPage = Append(work.inPage, [ok |-> ok, code |-> code])
  PROVE  ToldInductive'
<1>0. work.at # "idle" /\ work.at \in Inside /\ work.at \in InPageNow /\ work.at \notin {"return", "fill"}
  BY DEF AtStep, Inside, InPageNow
<1>1. ASSUME SegStart' = SegStart, SegEnd' = SegEnd PROVE InTheSteps' /\ InTurn'
  <2>1. StepsDone /\ work.i <= SegEnd /\ AllSucceeded
    BY <1>0, AtAStep DEF ToldInductive, InTheSteps, AtStep
  <2>2. SegEnd \in Nat /\ SegStart \in Nat
    <3>1. SegStart \in 1..Len(Steps) /\ SegEnd \in 1..Len(Steps) /\ Len(Steps) \in Nat
      BY <1>0, Known
    <3>2. QED
      BY <3>1
  <2>3. PICK d, o : d = work.inPage /\ o = [ok |-> ok, code |-> code]
    OBVIOUS
  <2>4. d \in Seq(Outcomes) /\ o \in Outcomes /\ (\A j \in 1..Len(d) : d[j].ok) /\ work.i = SegStart + Len(d)
    BY <2>1, <2>3 DEF StepsDone, AllSucceeded, Outcomes
  <2>5. PICK e : e = Append(d, o)
    OBVIOUS
  <2>6. Len(d) \in Nat /\ e \in Seq(Outcomes) /\ Len(e) = Len(d) + 1 /\ (\A j \in 1..Len(d) : e[j] = d[j]) /\ e[Len(d) + 1] = o
    BY <2>4, <2>5
  <2>7. \A j \in 1..Len(e) : ~e[j].ok => j = Len(e)
    BY <2>4, <2>6
  <2>8. work'.inPage = e /\ work'.i = SegStart + Len(e) /\ work'.i <= SegEnd + 1
    BY <2>1, <2>2, <2>3, <2>4, <2>5, <2>6
  <2>9. StepsDone'
    BY <1>1, <2>6, <2>7, <2>8 DEF StepsDone, Outcomes, Codes
  <2>10. InTheSteps'
    BY <2>9 DEF InTheSteps
  <2>11. UnseenSteps => FilledTo(SegStart - 1)
    BY <1>0 DEF ToldInductive, InTurn
  <2>12. (UnseenSteps' <=> UnseenSteps) /\ (FilledTo(SegStart - 1) => FilledTo(SegStart - 1)')
    BY <1>1 DEF UnseenSteps, FilledTo, IsSet, Steps
  <2>13. InTurn'
    BY <2>11, <2>12 DEF InTurn
  <2>14. QED
    BY <2>10, <2>13
<1>2. QED
  BY <1>0, <1>1, ToldGoesOn

\* The steps are over.
LEMMA ToldOver ==
  ASSUME ToldInductive, UNCHANGED <<batch, results, told>>, WorkShape', work'.seg = work.seg, work'.i = work.i,
         work'.inPage = work.inPage, work.at = "page", ~AtStep, work'.at = "return", work'.shot = SegStart
  PROVE  ToldInductive'
<1>0. work.at # "idle" /\ work.at \in Inside
  BY DEF Inside
<1>1. ASSUME SegStart' = SegStart, SegEnd' = SegEnd PROVE InTheSteps' /\ InTurn'
  <2>1. StepsDone /\ (work.i = SegEnd + 1 \/ ~AllSucceeded)
    BY <1>0, AtAStep DEF ToldInductive, InTheSteps, InPageNow
  <2>2. SegStart \in Nat /\ Len(Steps) \in Nat
    <3>1. SegStart \in 1..Len(Steps) /\ Len(Steps) \in Nat
      BY <1>0, Known
    <3>2. QED
      BY <3>1
  <2>3. InTheSteps'
    BY <1>1, <2>1 DEF InTheSteps, StepsDone, AllSucceeded, InPageNow
  <2>4. UnseenSteps => FilledTo(SegStart - 1)
    BY <1>0 DEF ToldInductive, InTurn
  <2>5. ASSUME FilledTo(SegStart - 1) PROVE FilledIn'
    <3>1. Len(work.inPage) \in Nat
      <4>1. work.inPage \in Seq(Outcomes)
        BY <2>1 DEF StepsDone
      <4>2. QED
        BY <4>1
    <3>2. \A i \in 1..Len(Steps) : (IsSet(i) <=> i <= SegStart - 1) /\ results[i].ok
      BY <2>5 DEF FilledTo
    <3>3. /\ work'.shot - SegStart <= Len(work.inPage)
          /\ \A i \in 1..Len(Steps) : IsSet(i) <=> i < work'.shot
          /\ \A i \in SegStart..(work'.shot - 1) : FALSE
      BY <2>2, <3>1, <3>2
    <3>4. QED
      BY <1>1, <3>2, <3>3 DEF FilledIn, IsSet, Steps
  <2>6. UnseenSteps' <=> UnseenSteps
    BY DEF UnseenSteps, Steps
  <2>7. InTurn'
    BY <2>4, <2>5, <2>6 DEF InTurn
  <2>8. QED
    BY <2>3, <2>7
<1>2. QED
  BY <1>0, <1>1, ToldGoesOn

\* One result put in its slot.
LEMMA SlotSet ==
  ASSUME SlotsTyped, Len(Steps) \in Nat, UNCHANGED batch, NEW i \in 1..Len(Steps), NEW ok \in BOOLEAN, NEW code \in Codes,
         results' = [results EXCEPT ![i] = Result(ok, code, i)]
  PROVE  /\ SlotsTyped' /\ (IsSet(i))' /\ results'[i].ok = ok
         /\ \A j \in 1..Len(Steps) : j # i => results'[j] = results[j] /\ ((IsSet(j))' <=> IsSet(j))
<1> DEFINE r == Result(ok, code, i)
<1>1. r.ok = ok /\ r.code = code /\ r.of = Steps[i].verb /\ r \in SlotValues /\ code # "unset"
  BY CodesKnown DEF Result, SlotValues, Steps
<1>2. Steps' = Steps
  BY DEF Steps
<1> HIDE DEF r
<1>3. results \in [1..Len(Steps) -> SlotValues] /\ results' = [results EXCEPT ![i] = r]
  BY DEF SlotsTyped, r
<1>4. results' \in [1..Len(Steps) -> SlotValues] /\ results'[i] = r /\ \A j \in 1..Len(Steps) : j # i => results'[j] = results[j]
  BY <1>1, <1>3
<1>5. (IsSet(i))' /\ \A j \in 1..Len(Steps) : j # i => ((IsSet(j))' <=> IsSet(j))
  BY <1>1, <1>4 DEF IsSet
<1>6. \A j \in 1..Len(Steps) : IF results'[j].code # "unset" THEN results'[j].of = Steps[j].verb ELSE results'[j].ok
  <2> SUFFICES ASSUME NEW j \in 1..Len(Steps) PROVE IF results'[j].code # "unset" THEN results'[j].of = Steps[j].verb ELSE results'[j].ok
    OBVIOUS
  <2>1. CASE j = i
    BY <2>1, <1>1, <1>4
  <2>2. CASE j # i
    BY <2>2, <1>4 DEF SlotsTyped, IsSet
  <2>3. QED
    BY <2>1, <2>2
<1>7. SlotValues' = SlotValues
  BY <1>2 DEF SlotValues
<1>8. SlotsTyped'
  BY <1>2, <1>4, <1>6, <1>7 DEF SlotsTyped, IsSet
<1>9. QED
  BY <1>1, <1>4, <1>5, <1>8

\* Where the worker goes when a segment is over, and which slots are filled then.
LEMMA ToldNext ==
  ASSUME ToldInductive, UNCHANGED <<batch, told>>, work.at \in Inside, SlotsTyped', WorkShape', NEW e, e = SegEnd,
         \/ work'.at = "send"
         \/ work'.at = "segment" /\ work'.seg = work.seg + 1 /\ work.seg # Len(splitSegments),
         UnseenSteps => \/ work'.at = "send" /\ \E k \in 1..Len(Steps) : (EndsIn(k))'
                        \/ work'.at = "segment" /\ (FilledTo(e))'
  PROVE  ToldInductive'
<1>0. work.at # "idle"
  BY DEF Inside
<1>1. Steps' = Steps /\ splitSegments' = splitSegments /\ \A i : IsTab(i)' <=> IsTab(i)
  BY SegmentsStay
<1>2. ToldRight'
  BY DEF ToldInductive, ToldRight
<1>3. BatchKnown'
  BY <1>0, <1>1 DEF ToldInductive, BatchKnown
<1>4. work'.at = "segment" => work'.seg \in 1..Len(splitSegments) /\ SegStart' = SegEnd + 1
  <2>1. /\ work.seg \in Nat /\ work.seg <= Len(splitSegments) /\ Len(splitSegments) \in Nat
        /\ work.seg < Len(splitSegments) => work.seg + 1 \in 1..Len(splitSegments) /\ splitSegments[work.seg + 1] = SegEnd + 1
    BY <1>0, Known
  <2>2. work'.at = "segment" => work'.seg = work.seg + 1 /\ work.seg < Len(splitSegments)
    BY <2>1
  <2>3. QED
    BY <1>1, <2>1, <2>2 DEF SegStart
<1>5. InASegment' /\ OnTabs' /\ InTheSteps'
  BY <1>1, <1>4 DEF InASegment, OnTabs, InTheSteps, Inside, InPageNow
<1>6. InTurn'
  <2>1. UnseenSteps' <=> UnseenSteps
    BY <1>1 DEF UnseenSteps
  <2>2. ASSUME UnseenSteps, work'.at = "send" PROVE \E k \in 1..Len(Steps') : (EndsIn(k))'
    BY <1>1, <2>2
  <2>3. ASSUME UnseenSteps, work'.at = "segment" PROVE (FilledTo(SegStart - 1))'
    <3>1. (FilledTo(e))'
      BY <2>3
    <3>2. SegEnd \in Nat
      <4>1. SegEnd \in 1..Len(Steps) /\ Len(Steps) \in Nat
        BY <1>0, Known
      <4>2. QED
        BY <4>1
    <3>3. SegStart' - 1 = e
      BY <1>4, <2>3, <3>2
    <3>4. QED
      BY <3>1, <3>3 DEF FilledTo, IsSet
  <2>4. CASE work'.at = "send"
    BY <2>1, <2>2, <2>4 DEF InTurn, Inside
  <2>5. CASE work'.at = "segment"
    BY <2>1, <2>3, <2>5 DEF InTurn
  <2>6. QED
    BY <2>4, <2>5
<1>7. QED
  BY <1>2, <1>3, <1>5, <1>6 DEF ToldInductive

\* A segment that leaves one result, in its first slot: a refusal, or that of a step on tabs.
LEMMA ToldOne ==
  ASSUME ToldInductive, UNCHANGED <<batch, told>>, work.at \in Inside \ {"return", "fill"}, WorkShape',
         NEW ok \in BOOLEAN, NEW code \in Codes, ok => IsTab(SegStart),
         results' = [results EXCEPT ![SegStart] = Result(ok, code, SegStart)],
         work' = NextSegment(results') \/ (~ok /\ work' = [work EXCEPT !.at = "send"])
  PROVE  ToldInductive'
<1>0. work.at # "idle" /\ work.at \in Inside
  BY DEF Inside
<1>1. PICK s, e, n : s = SegStart /\ e = SegEnd /\ n = Len(Steps)
  OBVIOUS
<1>2. n \in Nat /\ s \in 1..n /\ e \in 1..n /\ s <= e /\ SlotsTyped /\ (IsTab(s) => e = s) /\ (work.seg = Len(splitSegments) => e = n)
  BY <1>0, <1>1, Known
<1>3. /\ SlotsTyped' /\ (IsSet(s))' /\ results'[s].ok = ok
      /\ \A j \in 1..n : j # s => results'[j] = results[j] /\ ((IsSet(j))' <=> IsSet(j))
  BY <1>1, <1>2, SlotSet
<1>4. \/ work'.at = "send"
      \/ work'.at = "segment" /\ work'.seg = work.seg + 1 /\ work.seg # Len(splitSegments) /\ ~AnyRefused(results')
  BY DEF NextSegment, ToldInductive, WorkShape
<1>5. work'.at = "send" => AnyRefused(results') \/ work.seg = Len(splitSegments) \/ ~ok
  BY DEF NextSegment, ToldInductive, WorkShape
<1>6. DOMAIN results' = 1..n /\ Steps' = Steps
  BY <1>1, <1>3 DEF SlotsTyped, Steps
<1>7. AnyRefused(results') <=> \E i \in 1..n : ~results'[i].ok
  BY <1>6 DEF AnyRefused
<1>8. ASSUME UnseenSteps
      PROVE  \/ work'.at = "send" /\ \E k \in 1..Len(Steps) : (EndsIn(k))'
             \/ work'.at = "segment" /\ (FilledTo(e))'
  <2>1. \A i \in 1..n : (IsSet(i) <=> i <= s - 1) /\ results[i].ok
    BY <1>1, <1>8 DEF ToldInductive, InTurn, FilledTo
  <2>2. \A i \in 1..n : ((IsSet(i))' <=> i <= s) /\ (results'[i].ok <=> i # s \/ ok)
    <3> SUFFICES ASSUME NEW i \in 1..n PROVE ((IsSet(i))' <=> i <= s) /\ (results'[i].ok <=> i # s \/ ok)
      OBVIOUS
    <3>1. CASE i = s
      BY <3>1, <1>2, <1>3
    <3>2. CASE i # s
      BY <3>2, <1>2, <1>3, <2>1
    <3>3. QED
      BY <3>1, <3>2
  <2>3. CASE work'.at = "send"
    <3>1. ok => s = n
      BY <2>3, <2>2, <1>1, <1>2, <1>5, <1>7
    <3>2. (EndsIn(s))'
      BY <1>1, <1>2, <1>6, <2>2, <3>1 DEF EndsIn
    <3>3. QED
      BY <1>1, <1>2, <2>3, <3>2
  <2>4. CASE work'.at # "send"
    <3>1. work'.at = "segment" /\ ~AnyRefused(results')
      BY <1>4, <2>4
    <3>2. ok /\ e = s
      BY <1>1, <1>2, <1>7, <2>2, <3>1
    <3>3. (FilledTo(s))'
      BY <1>1, <1>6, <2>2, <3>2 DEF FilledTo
    <3>4. QED
      BY <3>1, <3>2, <3>3
  <2>5. QED
    BY <2>3, <2>4
<1>9. QED
  BY <1>0, <1>1, <1>3, <1>4, <1>8, ToldNext

\* The slots of a segment are filled one by one from what was done in the page.
LEMMA ToldFilling ==
  ASSUME ToldInductive, UNCHANGED <<batch, told>>, WorkShape', work.at \in {"return", "fill"}, work.shot <= SegEnd,
         NEW ok \in BOOLEAN, NEW code \in Codes,
         \/ Steps[work.shot].verb = "screenshot"
         \/ work.shot - SegStart + 1 \in 1..Len(work.inPage) /\ ok = work.inPage[work.shot - SegStart + 1].ok,
         results' = [results EXCEPT ![work.shot] = Result(ok, code, work.shot)],
         work' = [work EXCEPT !.shot = work.shot + 1, !.at = "fill"]
  PROVE  ToldInductive'
<1>0. work.at # "idle" /\ work.at \in Inside /\ work.at \in InPageNow
  BY DEF Inside, InPageNow
<1>1. PICK s, e, n, i : s = SegStart /\ e = SegEnd /\ n = Len(Steps) /\ i = work.shot
  OBVIOUS
<1>2. n \in Nat /\ s \in 1..n /\ e \in 1..n /\ s <= e /\ SlotsTyped
  BY <1>0, <1>1, Known
<1>3. i \in s..(e + 1) /\ StepsDone /\ (work.i = e + 1 \/ ~AllSucceeded)
  BY <1>0, <1>1, <1>2 DEF ToldInductive, InTheSteps
<1>4. i \in s..e /\ i \in 1..n /\ i + 1 \in s..(e + 1)
  BY <1>1, <1>2, <1>3
<1>5. /\ SlotsTyped' /\ (IsSet(i))' /\ results'[i].ok = ok
      /\ \A j \in 1..n : j # i => results'[j] = results[j] /\ ((IsSet(j))' <=> IsSet(j))
  BY <1>1, <1>2, <1>4, SlotSet
<1>6. work'.at = "fill" /\ work'.shot = i + 1 /\ work'.seg = work.seg /\ work'.i = work.i /\ work'.inPage = work.inPage
  BY <1>1 DEF ToldInductive, WorkShape
<1>7. Steps' = Steps /\ splitSegments' = splitSegments /\ (\A j : IsTab(j)' <=> IsTab(j)) /\ SegStart' = s /\ SegEnd' = e
  BY <1>1, <1>6, SegmentsStay
<1>8. ToldRight' /\ BatchKnown' /\ InASegment' /\ OnTabs'
  BY <1>0, <1>5, <1>6, <1>7 DEF ToldInductive, ToldRight, BatchKnown, InASegment, OnTabs
<1>9. InTheSteps'
  BY <1>1, <1>3, <1>4, <1>6, <1>7 DEF InTheSteps, StepsDone, AllSucceeded
<1>10. ASSUME UnseenSteps PROVE FilledIn'
  <2>1. PICK d : d = work.inPage
    OBVIOUS
  <2>2. /\ i - s <= Len(d) /\ Len(d) \in Nat
        /\ \A j \in 1..n : IsSet(j) <=> j < i
        /\ \A j \in 1..n : j < s => results[j].ok
        /\ \A j \in s..(i - 1) : results[j].ok = d[j - s + 1].ok
    <3>1. d \in Seq(Outcomes)
      BY <1>3, <2>1 DEF StepsDone
    <3>2. Len(d) \in Nat
      BY <3>1
    <3>3. FilledIn
      BY <1>0, <1>10 DEF ToldInductive, InTurn
    <3>4. QED
      BY <1>1, <2>1, <3>2, <3>3 DEF FilledIn
  <2>3. i - s + 1 \in 1..Len(d) /\ ok = d[i - s + 1].ok
    BY <1>1, <1>4, <1>10, <2>1 DEF UnseenSteps
  <2>4. (i + 1) - s <= Len(d)
    BY <1>2, <1>4, <2>2, <2>3
  <2>5. \A j \in 1..n : (IsSet(j))' <=> j < i + 1
    BY <1>4, <1>5, <2>2
  <2>6. \A j \in 1..n : j < s => results'[j].ok
    BY <1>2, <1>4, <1>5, <2>2
  <2>7. \A j \in s..((i + 1) - 1) : results'[j].ok = d[j - s + 1].ok
    <3> SUFFICES ASSUME NEW j \in s..((i + 1) - 1) PROVE results'[j].ok = d[j - s + 1].ok
      OBVIOUS
    <3>1. j \in 1..n /\ (j # i => j \in s..(i - 1))
      BY <1>2, <1>4
    <3>2. QED
      BY <1>5, <2>2, <2>3, <3>1
  <2>8. QED
    BY <1>1, <1>6, <1>7, <2>1, <2>4, <2>5, <2>6, <2>7 DEF FilledIn
<1>11. InTurn'
  BY <1>6, <1>7, <1>10 DEF InTurn, UnseenSteps
<1>12. QED
  BY <1>8, <1>9, <1>11 DEF ToldInductive

\* Or they are all filled that will be.
LEMMA ToldFilled ==
  ASSUME ToldInductive, UNCHANGED <<batch, told, results>>, WorkShape', work.at \in {"return", "fill"},
         \/ work.shot > SegEnd
         \/ work.shot - SegStart + 1 > Len(work.inPage) /\ Steps[work.shot].verb # "screenshot",
         work' = NextSegment(results)
  PROVE  ToldInductive'
<1>0. work.at # "idle" /\ work.at \in Inside /\ work.at \in InPageNow
  BY DEF Inside, InPageNow
<1>1. PICK s, e, n, i, d : s = SegStart /\ e = SegEnd /\ n = Len(Steps) /\ i = work.shot /\ d = work.inPage
  OBVIOUS
<1>2. n \in Nat /\ s \in 1..n /\ e \in 1..n /\ s <= e /\ SlotsTyped /\ (work.seg = Len(splitSegments) => e = n)
  BY <1>0, <1>1, Known
<1>3. i \in s..(e + 1) /\ (work.i = e + 1 \/ ~AllSucceeded)
  BY <1>0, <1>1, <1>2 DEF ToldInductive, InTheSteps
<1>4. /\ d \in Seq(Outcomes) /\ work.i = s + Len(d) /\ work.i <= e + 1
      /\ \A j \in 1..Len(d) : ~d[j].ok => j = Len(d)
  BY <1>0, <1>1 DEF ToldInductive, InTheSteps, StepsDone
<1>5. Len(d) \in Nat
  BY <1>4
<1>6. Steps' = Steps /\ SlotsTyped' /\ \A j : (IsSet(j))' <=> IsSet(j)
  BY <1>2 DEF Steps, SlotsTyped, SlotValues, IsSet
<1>7. \/ work'.at = "send" /\ (AnyRefused(results) \/ work.seg = Len(splitSegments))
      \/ work'.at = "segment" /\ work'.seg = work.seg + 1 /\ work.seg # Len(splitSegments) /\ ~AnyRefused(results)
  BY DEF NextSegment, ToldInductive, WorkShape
<1>8. AnyRefused(results) <=> \E j \in 1..n : ~results[j].ok
  BY <1>1, <1>2 DEF AnyRefused, SlotsTyped
<1>9. ASSUME UnseenSteps
      PROVE  \/ work'.at = "send" /\ \E k \in 1..Len(Steps) : (EndsIn(k))'
             \/ work'.at = "segment" /\ (FilledTo(e))'
  <2>1. /\ i - s <= Len(d)
        /\ \A j \in 1..n : IsSet(j) <=> j < i
        /\ \A j \in 1..n : j < s => results[j].ok
        /\ \A j \in s..(i - 1) : results[j].ok = d[j - s + 1].ok
    <3>1. FilledIn
      BY <1>0, <1>9 DEF ToldInductive, InTurn
    <3>2. QED
      BY <1>1, <3>1 DEF FilledIn
  <2>2. Len(d) = i - s
    <3>1. (i > e \/ i - s + 1 > Len(d)) /\ s \in Nat /\ e \in Nat /\ i \in Nat /\ s <= i /\ i <= e + 1
      BY <1>1, <1>2, <1>3
    <3>2. s + Len(d) <= e + 1 /\ i - s <= Len(d)
      BY <1>4, <2>1
    <3>3. QED
      BY <1>5, <3>1, <3>2
  <2>3. AllSucceeded <=> \A j \in 1..Len(d) : d[j].ok
    BY <1>1 DEF AllSucceeded
  <2>4. i # s /\ i - 1 \in 1..n /\ i - 1 \in s..(i - 1) /\ i - 1 \in s..e
    <3>1. i # s
      BY <1>2, <1>3, <1>4, <1>5, <2>2, <2>3
    <3>2. QED
      BY <1>2, <1>3, <3>1
  <2>5. \A j \in 1..n : (IsSet(j))' <=> j <= i - 1
    BY <1>2, <1>3, <1>6, <2>1
  <2>6. \A j \in 1..n : j < i - 1 => results[j].ok
    <3> SUFFICES ASSUME NEW j \in 1..n, j < i - 1 PROVE results[j].ok
      OBVIOUS
    <3>1. CASE j < s
      BY <3>1, <2>1
    <3>2. CASE ~(j < s)
      <4>1. j \in s..(i - 1) /\ j - s + 1 \in 1..Len(d) /\ j - s + 1 # Len(d)
        BY <1>2, <1>3, <1>5, <2>2, <3>2
      <4>2. d[j - s + 1].ok
        BY <1>4, <4>1
      <4>3. QED
        BY <2>1, <4>1, <4>2
    <3>3. QED
      BY <3>1, <3>2
  <2>7. results[i - 1].ok <=> d[Len(d)].ok
    <3>1. (i - 1) - s + 1 = Len(d)
      BY <1>2, <1>3, <2>2
    <3>2. QED
      BY <2>1, <2>4, <3>1
  <2>8. Len(d) \in 1..Len(d) /\ (AllSucceeded <=> d[Len(d)].ok)
    <3>1. Len(d) \in 1..Len(d)
      BY <1>2, <1>3, <1>5, <2>2, <2>4
    <3>2. QED
      BY <1>4, <2>3, <3>1
  <2>9. results[i - 1].ok => i - 1 = e
    BY <1>2, <1>3, <1>4, <1>5, <2>2, <2>7, <2>8
  <2>10. \A j \in 1..n : j > i - 1 => results[j].ok
    BY <1>1, <1>2, <1>3, <2>1 DEF SlotsTyped
  <2>11. AnyRefused(results) => ~results[i - 1].ok
    BY <1>2, <1>3, <1>8, <2>6, <2>10
  <2>12. CASE work'.at = "send"
    <3>1. results[i - 1].ok => i - 1 = n
      BY <1>2, <1>7, <2>9, <2>11, <2>12
    <3>2. (EndsIn(i - 1))'
      <4>1. PICK k : k = i - 1
        OBVIOUS
      <4>2. (EndsIn(k))'
        BY <4>1, <1>1, <1>6, <2>5, <2>6, <3>1 DEF EndsIn
      <4>3. QED
        BY <4>1, <4>2
    <3>3. QED
      BY <1>1, <2>4, <2>12, <3>2
  <2>13. CASE work'.at # "send"
    <3>1. work'.at = "segment" /\ ~AnyRefused(results)
      BY <1>7, <2>13
    <3>2. results[i - 1].ok /\ i - 1 = e
      BY <1>8, <2>4, <2>9, <3>1
    <3>3. (FilledTo(e))'
      BY <1>1, <1>6, <1>8, <2>5, <3>1, <3>2 DEF FilledTo
    <3>4. QED
      BY <3>1, <3>3
  <2>14. QED
    BY <2>12, <2>13
<1>10. QED
  BY <1>0, <1>1, <1>6, <1>7, <1>9, ToldNext

\* What a step in the page leaves of the worker.
LEMMA StepLeaves ==
  ASSUME WorkShape, NEW ok, NEW code, NEW a, NEW r, NEW f,
         \/ work' = InPage(ok, code) /\ a = work.at
         \/ work' = [InPage(ok, code) EXCEPT !.at = a]
         \/ work' = [InPage(ok, code) EXCEPT !.at = a, !.refs = r, !.fresh = f]
  PROVE  /\ WorkShape' /\ work'.at = a /\ work'.seg = work.seg /\ work'.i = work.i + 1
         /\ work'.inPage = Append(work.inPage, [ok |-> ok, code |-> code])
<1> DEFINE o == [ok |-> ok, code |-> code]
           w == [work EXCEPT !.i = work.i + 1, !.inPage = Append(work.inPage, o)]
<1>0. InPage(ok, code) = w
  BY DEF InPage
<1> HIDE DEF o
<1>1. DOMAIN w = DOMAIN work /\ w.at = work.at /\ w.seg = work.seg /\ w.i = work.i + 1 /\ w.inPage = Append(work.inPage, o)
  BY DEF WorkShape
<1> HIDE DEF w
<1>2. CASE work' = w /\ a = work.at
  BY <1>1, <1>2 DEF WorkShape, o
<1>3. CASE work' = [w EXCEPT !.at = a]
  BY <1>1, <1>3 DEF WorkShape, o
<1>4. CASE work' = [w EXCEPT !.at = a, !.refs = r, !.fresh = f]
  BY <1>1, <1>4 DEF WorkShape, o
<1>5. QED
  BY <1>0, <1>2, <1>3, <1>4

\* A batch comes.
LEMMA ToldAsked ==
  ASSUME ToldInductive, NEW b \in PageAsks, AskBatch(b)
  PROVE  ToldInductive'
<1>1. /\ batch'.steps = b.steps /\ b.steps # <<>> /\ work' = [NoWork EXCEPT !.at = "segment"]
      /\ results' = [i \in DOMAIN b.steps |-> Unset] /\ UNCHANGED told
  BY DEF AskBatch, validateSteps
<1>2. Steps' = b.steps
  BY <1>1 DEF Steps
<1>3. b.steps \in Seq(ToSet(b.steps))
  BY PageAssumption DEF PageAssumption
<1>4. WorkShape' /\ work'.at = "segment" /\ work'.seg = 1
  BY <1>1 DEF NoWork, WorkShape
<1>5. ToldRight'
  BY <1>1 DEF ToldInductive, ToldRight
<1>6. DOMAIN b.steps = 1..Len(b.steps)
  BY <1>3
<1>7. results' = [i \in 1..Len(Steps') |-> Unset] /\ Unset \in SlotValues' /\ Unset.code = "unset" /\ Unset.ok
  BY <1>1, <1>2, <1>6 DEF Unset, SlotValues
<1>8. \A i \in 1..Len(Steps') : ~(IsSet(i))' /\ results'[i].ok
  BY <1>7 DEF IsSet
<1>9. SlotsTyped'
  <2>1. results' \in [1..Len(Steps') -> SlotValues']
    BY <1>7
  <2>2. QED
    BY <1>8, <2>1 DEF SlotsTyped
<1>10. BatchKnown'
  BY <1>1, <1>2, <1>3, <1>9 DEF BatchKnown
<1>11. PICK S : S = SegmentsOf(b.steps) /\ OneByOne(b.steps, S)
  BY <1>1, <1>3, Segmented
<1>12. splitSegments' = S
  BY <1>2, <1>11, SplitUp
<1>13. Len(S) \in Nat \ {0} /\ S[1] = 1
  BY <1>11 DEF OneByOne
<1>14. InASegment' /\ OnTabs' /\ InTheSteps'
  BY <1>4, <1>12, <1>13 DEF InASegment, OnTabs, InTheSteps, InPageNow
<1>15. SegStart' = 1
  BY <1>4, <1>12, <1>13 DEF SegStart
<1>16. (FilledTo(SegStart - 1))'
  <2>1. \A i \in 1..Len(Steps') : ~(i <= SegStart' - 1)
    BY <1>15
  <2>2. QED
    BY <1>8, <2>1 DEF FilledTo
<1>17. InTurn'
  BY <1>4, <1>16 DEF InTurn
<1>18. QED
  BY <1>4, <1>5, <1>10, <1>14, <1>17 DEF ToldInductive

\* It is done with.
LEMMA ToldSent ==
  ASSUME ToldInductive, SendResults \/ Thrown
  PROVE  ToldInductive'
<1>1. ToldRight'
  BY Sent, ThrownTold
<1>2. work' = NoWork
  BY DEF SendResults, Thrown
<1>3. WorkShape' /\ work'.at = "idle"
  BY <1>2 DEF NoWork, WorkShape
<1>4. BatchKnown' /\ InASegment' /\ OnTabs' /\ InTheSteps' /\ InTurn'
  BY <1>3 DEF BatchKnown, InASegment, OnTabs, InTheSteps, InTurn, Inside, InPageNow
<1>5. QED
  BY <1>1, <1>3, <1>4 DEF ToldInductive

LEMMA ToldFirst == PageInit => ToldInductive
<1> SUFFICES ASSUME PageInit PROVE ToldInductive
  OBVIOUS
<1>1. work = NoWork /\ told = [steps |-> <<>>, results |-> <<>>, of |-> <<>>, lost |-> FALSE]
  BY DEF PageInit
<1>2. WorkShape /\ work.at = "idle"
  BY <1>1 DEF NoWork, WorkShape
<1>3. ToldRight
  <2>1. told.results = <<>> /\ told.of = <<>> /\ told.steps = <<>> /\ Len(<<>>) = 0 /\ DOMAIN <<>> = {}
    BY <1>1
  <2>2. <<>> = [i \in {} |-> i]
    OBVIOUS
  <2>3. runMarks(told.results) = <<>>
    BY <2>1 DEF runMarks
  <2>4. QED
    BY <2>1, <2>2, <2>3 DEF ToldRight
<1>4. BatchKnown /\ InASegment /\ OnTabs /\ InTheSteps /\ InTurn
  BY <1>2 DEF BatchKnown, InASegment, OnTabs, InTheSteps, InTurn, Inside, InPageNow
<1>5. QED
  BY <1>2, <1>3, <1>4 DEF ToldInductive

\* The worker in the script of a page.
LEMMA ToldInPage ==
  ASSUME ToldInductive,
         ScriptSent \/ executeSteps \/ runMutation \/ StepRefused \/ StepReads \/ navigateAndWait \/ waitForText \/ TextFound
           \/ WaitedOut \/ StepsOver
  PROVE  ToldInductive'
<1>0. WorkShape
  BY DEF ToldInductive
<1>a. ASSUME NEW ok \in BOOLEAN, NEW code \in Codes, NEW r, NEW f, UNCHANGED <<batch, results, told>>,
             \/ AtStep /\ work' = InPage(ok, code)
             \/ work.at \in {"loading", "waiting"} /\ work' = [InPage(ok, code) EXCEPT !.at = "page"]
             \/ work.at \in {"loading", "waiting"} /\ work' = [InPage(ok, code) EXCEPT !.at = "page", !.refs = r, !.fresh = f]
      PROVE  ToldInductive'
  <2>1. AtStep => work.at = "page"
    BY DEF AtStep
  <2>5. PICK a : a = "page"
    OBVIOUS
  <2>6. \/ work' = InPage(ok, code) /\ a = work.at
        \/ work' = [InPage(ok, code) EXCEPT !.at = a]
        \/ work' = [InPage(ok, code) EXCEPT !.at = a, !.refs = r, !.fresh = f]
    BY <1>a, <2>1, <2>5
  <2>2. /\ WorkShape' /\ work'.at = "page" /\ work'.seg = work.seg /\ work'.i = work.i + 1
        /\ work'.inPage = Append(work.inPage, [ok |-> ok, code |-> code])
    <3>1. CASE work' = InPage(ok, code) /\ a = work.at
      BY <1>0, <2>5, <3>1, StepLeaves
    <3>2. CASE work' = [InPage(ok, code) EXCEPT !.at = a]
      BY <1>0, <2>5, <3>2, StepLeaves
    <3>3. CASE work' = [InPage(ok, code) EXCEPT !.at = a, !.refs = r, !.fresh = f]
      BY <1>0, <2>5, <3>3, StepLeaves
    <3>4. QED
      BY <2>6, <3>1, <3>2, <3>3
  <2>3. AtStep \/ work.at \in {"loading", "waiting"}
    BY <1>a
  <2>4. QED
    BY <1>a, <2>2, <2>3, ToldOneMore
<1>b. "none" \in Codes /\ "stale_ref" \in Codes /\ "unsupported_verb" \in Codes /\ "wait_timeout" \in Codes /\ "navigation_timeout" \in Codes
      /\ \A o : Barred(o) \in Codes
  BY CodesKnown
<1>1. CASE ScriptSent
  <2>1. /\ work.at = "script" /\ UNCHANGED <<batch, results, told>> /\ WorkShape' /\ work'.seg = work.seg
        /\ work'.at \in {"thrown", "inject"}
    BY <1>0, <1>1 DEF ScriptSent, WorkShape
  <2>2. QED
    BY <2>1, ToldElsewhere DEF Inside, InPageNow
<1>2. CASE executeSteps
  <2>1. PICK s, r, f : s = SegStart /\ work' = [work EXCEPT !.at = "page", !.i = s, !.inPage = <<>>, !.refs = r, !.fresh = f]
    BY <1>2 DEF executeSteps
  <2>2. /\ work.at = "inject" /\ UNCHANGED <<batch, results, told>> /\ WorkShape' /\ work'.seg = work.seg
        /\ work'.at = "page" /\ work'.i = SegStart /\ work'.inPage = <<>>
    BY <1>0, <1>2, <2>1 DEF executeSteps, WorkShape
  <2>3. QED
    BY <2>2, ToldStarts
<1>3. CASE runMutation
  <2>1. AtStep /\ work' = InPage(TRUE, "none") /\ UNCHANGED <<batch, results, told>>
    BY <1>3 DEF runMutation
  <2>2. QED
    BY <2>1, <1>a, <1>b
<1>4. CASE StepRefused
  <2>1. AtStep /\ UNCHANGED <<batch, results, told>>
    BY <1>4 DEF StepRefused
  <2>2. \E code \in Codes : work' = InPage(FALSE, code)
    BY <1>4, <1>b DEF StepRefused
  <2>3. QED
    BY <2>1, <2>2, <1>a
<1>5. CASE StepReads
  <2>1. AtStep /\ work' = InPage(TRUE, "none") /\ UNCHANGED <<batch, results, told>>
    BY <1>5 DEF StepReads
  <2>2. QED
    BY <2>1, <1>a, <1>b
<1>6. CASE navigateAndWait \/ waitForText
  <2>1. /\ AtStep /\ UNCHANGED <<batch, results, told>>
        /\ (work' = [work EXCEPT !.at = "loading"] \/ work' = [work EXCEPT !.at = "waiting"])
    BY <1>6 DEF navigateAndWait, waitForText
  <2>2. /\ WorkShape' /\ work'.at \in {"loading", "waiting"} /\ work'.seg = work.seg /\ work'.i = work.i
        /\ work'.inPage = work.inPage
    BY <1>0, <2>1 DEF WorkShape
  <2>3. QED
    BY <2>1, <2>2, ToldWaits
<1>7. CASE TextFound
  <2>1. PICK r, f : work' = [InPage(TRUE, "none") EXCEPT !.at = "page", !.refs = r, !.fresh = f]
    BY <1>7 DEF TextFound
  <2>2. work.at = "waiting" /\ UNCHANGED <<batch, results, told>>
    BY <1>7 DEF TextFound
  <2>3. QED
    BY <2>1, <2>2, <1>a, <1>b
<1>8. CASE WaitedOut
  <2>1. PICK code : code = (IF work.at = "waiting" THEN "wait_timeout" ELSE "navigation_timeout")
    OBVIOUS
  <2>2. work.at \in {"loading", "waiting"} /\ UNCHANGED <<batch, results, told>> /\ work' = [InPage(FALSE, code) EXCEPT !.at = "page"]
    BY <1>8, <2>1 DEF WaitedOut
  <2>3. code \in Codes
    BY <2>1, <1>b
  <2>4. QED
    BY <2>2, <2>3, <1>a
<1>9. CASE StepsOver
  <2>1. PICK s : s = SegStart
    OBVIOUS
  <2>2. work.at = "page" /\ ~AtStep /\ UNCHANGED <<batch, results, told>> /\ work' = [work EXCEPT !.at = "return", !.shot = s]
    BY <1>9, <2>1 DEF StepsOver
  <2>3. /\ WorkShape' /\ work'.at = "return" /\ work'.seg = work.seg /\ work'.i = work.i
        /\ work'.inPage = work.inPage /\ work'.shot = SegStart
    BY <1>0, <2>1, <2>2 DEF WorkShape
  <2>4. QED
    BY <2>2, <2>3, ToldOver
<1>10. QED
  BY <1>1, <1>2, <1>3, <1>4, <1>5, <1>6, <1>7, <1>8, <1>9

\* Pages by themselves.
LEMMA ToldByPages ==
  ASSUME ToldInductive, NEW t \in 1..PageTabs, PageChanges(t) \/ PageLoads(t) \/ Arrives(t) \/ Closes(t)
  PROVE  ToldInductive'
<1>0. WorkShape
  BY DEF ToldInductive
<1>1. UNCHANGED <<batch, results, told>>
  BY DEF PageChanges, PageLoads, Arrives, Closes
<1>2. CASE work' = work
  BY <1>1, <1>2, ToldStays
<1>3. CASE PageLoads(t) /\ work' # work
  <2>1. PICK r, f : work' = [InPage(TRUE, "none") EXCEPT !.at = "page", !.refs = r, !.fresh = f]
    BY <1>3 DEF PageLoads
  <2>2. work.at = "loading"
    BY <1>3 DEF PageLoads
  <2>3. /\ WorkShape' /\ work'.at = "page" /\ work'.seg = work.seg /\ work'.i = work.i + 1
        /\ work'.inPage = Append(work.inPage, [ok |-> TRUE, code |-> "none"])
    BY <1>0, <2>1, StepLeaves
  <2>4. "none" \in Codes
    BY CodesKnown
  <2>5. QED
    BY <1>1, <2>2, <2>3, <2>4, ToldOneMore
<1>4. CASE Arrives(t) /\ work' # work
  <2>1. \/ work.at \in {"loading", "waiting", "return"} /\ work' = [work EXCEPT !.at = "torn"]
        \/ work.at = "opening" /\ work' = [work EXCEPT !.at = "opened"]
    BY <1>4 DEF Arrives
  <2>2. /\ WorkShape' /\ work'.seg = work.seg
        /\ \/ work.at \in {"loading", "waiting", "return"} /\ work'.at = "torn"
           \/ work.at = "opening" /\ work'.at = "opened"
    BY <1>0, <2>1 DEF WorkShape
  <2>3. work.at = "opening" => IsTab(SegStart)
    BY DEF ToldInductive, OnTabs
  <2>4. work.at \in Inside /\ work.at # "fill" /\ work'.at \in (Inside \ InPageNow) \cup {"thrown"}
    BY <2>2 DEF Inside, InPageNow
  <2>5. QED
    BY <1>1, <2>2, <2>3, <2>4, ToldElsewhere
<1>5. CASE Closes(t) /\ work' # work
  <2>1. work.at \in {"inject", "loading", "waiting", "return"} /\ work' = [work EXCEPT !.at = "thrown"]
    BY <1>5 DEF Closes
  <2>2. WorkShape' /\ work'.seg = work.seg /\ work'.at = "thrown"
    BY <1>0, <2>1 DEF WorkShape
  <2>4. work.at \in Inside /\ work.at # "fill" /\ work'.at \in (Inside \ InPageNow) \cup {"thrown"}
    BY <2>1, <2>2 DEF Inside, InPageNow
  <2>5. QED
    BY <1>1, <2>2, <2>4, ToldElsewhere
<1>6. PageChanges(t) => work' = work
  BY DEF PageChanges
<1>7. QED
  BY <1>2, <1>3, <1>4, <1>5, <1>6

\* The worker between the pages.
LEMMA ToldByWorker ==
  ASSUME ToldInductive, AgentTab \/ NoPageYet \/ FillSlot \/ Torn \/ runTabStep \/ TabLoaded \/ TabSlow
  PROVE  ToldInductive'
<1>0. WorkShape
  BY DEF ToldInductive
<1>a. "none" \in Codes /\ "no_page" \in Codes /\ "page_navigated" \in Codes /\ "navigation_timeout" \in Codes
      /\ "screenshot_failed" \in Codes /\ \A o : Barred(o) \in Codes
  BY CodesKnown
<1>b. ASSUME NEW rs, work' = NextSegment(rs) PROVE WorkShape'
  BY <1>0, <1>b DEF NextSegment, WorkShape
<1>c. ASSUME NEW ok \in BOOLEAN, NEW code \in Codes, UNCHANGED <<batch, told>>, TabStepDone(Result(ok, code, SegStart)),
             ok => IsTab(SegStart), work.at \in Inside \ {"return", "fill"}
      PROVE  ToldInductive'
  <2>1. results' = [results EXCEPT ![SegStart] = Result(ok, code, SegStart)] /\ work' = NextSegment(results')
    BY <1>c DEF TabStepDone
  <2>2. WorkShape'
    BY <1>0, <2>1 DEF NextSegment, WorkShape
  <2>3. QED
    BY <1>c, <2>1, <2>2, ToldOne
<1>1. CASE AgentTab
  <2>1. PICK u : work' = [work EXCEPT !.tab = u, !.at = IF IsTab(SegStart) THEN "tabStep" ELSE "script"]
    BY <1>1 DEF AgentTab
  <2>2. /\ work.at = "segment" /\ UNCHANGED <<batch, results, told>> /\ WorkShape' /\ work'.seg = work.seg
        /\ work'.at \in {"tabStep", "script"} /\ (work'.at = "tabStep" => IsTab(SegStart))
    BY <1>0, <1>1, <2>1 DEF AgentTab, WorkShape
  <2>3. work.at \in Inside /\ work.at # "fill" /\ work'.at \in (Inside \ InPageNow) \cup {"thrown"}
    BY <2>2 DEF Inside, InPageNow
  <2>4. QED
    BY <2>2, <2>3, ToldElsewhere
<1>2. CASE NoPageYet
  <2>1. /\ work.at = "script" /\ UNCHANGED <<batch, told>> /\ work' = [work EXCEPT !.at = "send"]
        /\ results' = [results EXCEPT ![SegStart] = Result(FALSE, "no_page", SegStart)]
    BY <1>2 DEF NoPageYet
  <2>2. WorkShape'
    BY <1>0, <2>1 DEF WorkShape
  <2>3. work.at \in Inside \ {"return", "fill"}
    BY <2>1 DEF Inside
  <2>4. QED
    BY <1>a, <2>1, <2>2, <2>3, ToldOne
<1>3. CASE Torn
  <2>1. /\ work.at = "torn" /\ UNCHANGED <<batch, told>> /\ TabStepDone(Result(FALSE, "page_navigated", SegStart))
    BY <1>3 DEF Torn, TabStepDone
  <2>2. work.at \in Inside \ {"return", "fill"}
    BY <2>1 DEF Inside
  <2>3. QED
    BY <1>a, <1>c, <2>1, <2>2
<1>4. CASE TabLoaded \/ TabSlow
  <2>1. /\ work.at \in {"opened", "opening"} /\ UNCHANGED <<batch, told>>
        /\ (TabStepDone(Result(TRUE, "none", SegStart)) \/ TabStepDone(Result(FALSE, "navigation_timeout", SegStart)))
    BY <1>4 DEF TabLoaded, TabSlow
  <2>2. work.at \in Inside \ {"return", "fill"} /\ IsTab(SegStart)
    BY <2>1 DEF Inside, ToldInductive, OnTabs
  <2>3. QED
    BY <1>a, <1>c, <2>1, <2>2
<1>5. CASE runTabStep
  <2>1. work.at = "tabStep" /\ UNCHANGED <<batch, told>>
    BY <1>5 DEF runTabStep
  <2>2. work.at \in Inside \ {"return", "fill"} /\ work.at # "fill" /\ IsTab(SegStart)
    BY <2>1 DEF Inside, ToldInductive, OnTabs
  <2>3. \/ TabStepDone(Result(TRUE, "none", SegStart))
        \/ TabStepDone(Result(FALSE, "none", SegStart))
        \/ \E o : TabStepDone(Result(FALSE, Barred(o), SegStart))
        \/ work' = [work EXCEPT !.at = "opening", !.tab = FirstFree] /\ results' = results
    BY <1>5 DEF runTabStep
  <2>4. CASE work' = [work EXCEPT !.at = "opening", !.tab = FirstFree] /\ results' = results
    <3>1. WorkShape' /\ work'.seg = work.seg /\ work'.at = "opening"
      BY <1>0, <2>4 DEF WorkShape
    <3>2. work.at \in Inside /\ work'.at \in (Inside \ InPageNow) \cup {"thrown"}
      BY <3>1, <2>2 DEF Inside, InPageNow
    <3>3. QED
      BY <2>1, <2>2, <2>4, <3>1, <3>2, ToldElsewhere
  <2>5. CASE \E o : TabStepDone(Result(FALSE, Barred(o), SegStart))
    BY <1>a, <1>c, <2>1, <2>2, <2>5
  <2>6. QED
    BY <1>a, <1>c, <2>1, <2>2, <2>3, <2>4, <2>5
<1>6. CASE FillSlot
  <2>0. work.at \in {"return", "fill"} /\ UNCHANGED <<batch, told>> /\ work.at # "idle" /\ work.at \in Inside /\ work.at \in InPageNow
    BY <1>6 DEF FillSlot, Inside, InPageNow
  <2>1. PICK i, j : i = work.shot /\ j = i - SegStart + 1
    OBVIOUS
  <2>2. /\ SegStart \in Nat /\ SegEnd \in Nat /\ Steps = batch.steps
        /\ i \in Nat /\ SegStart <= i
    <3>1. SegStart \in 1..Len(Steps) /\ SegEnd \in 1..Len(Steps) /\ Len(Steps) \in Nat
      BY <2>0, Known
    <3>5. SegStart <= SegEnd
      BY <2>0, Known
    <3>2. SegStart \in Nat /\ SegEnd \in Nat /\ SegStart <= SegEnd
      BY <3>1, <3>5
    <3>3. i \in SegStart..(SegEnd + 1)
      <4>1. /\ work.at = "return" => i = SegStart
            /\ work.at = "fill" => i \in SegStart..(SegEnd + 1)
        BY <2>1 DEF ToldInductive, InTheSteps
      <4>2. SegStart \in SegStart..(SegEnd + 1)
        BY <3>2
      <4>3. QED
        BY <2>0, <4>1, <4>2
    <3>4. QED
      BY <3>2, <3>3 DEF Steps
  <2>3. CASE i > SegEnd \/ (j > Len(work.inPage) /\ batch.steps[i].verb # "screenshot")
    <3>1. work' = NextSegment(results) /\ results' = results
      BY <1>6, <2>1, <2>3 DEF FillSlot
    <3>2. work.shot > SegEnd \/ (work.shot - SegStart + 1 > Len(work.inPage) /\ Steps[work.shot].verb # "screenshot")
      BY <2>1, <2>2, <2>3
    <3>3. QED
      BY <1>b, <2>0, <3>1, <3>2, ToldFilled
  <2>4. CASE ~(i > SegEnd \/ (j > Len(work.inPage) /\ batch.steps[i].verb # "screenshot"))
    <3>1. work' = [work EXCEPT !.shot = work.shot + 1, !.at = "fill"]
      BY <1>6, <2>1, <2>4 DEF FillSlot
    <3>2. WorkShape'
      BY <1>0, <3>1 DEF WorkShape
    <3>3. work.shot <= SegEnd /\ (j > Len(work.inPage) => Steps[i].verb = "screenshot")
      BY <2>1, <2>2, <2>4
    <3>4. \/ /\ Steps[i].verb = "screenshot"
             /\ \E shown \in BOOLEAN : results' = [results EXCEPT ![i] = Result(shown, IF shown THEN "none" ELSE "screenshot_failed", i)]
          \/ /\ Steps[i].verb # "screenshot"
             /\ results' = [results EXCEPT ![i] = Result(work.inPage[j].ok, work.inPage[j].code, i)]
      BY <1>6, <2>1, <2>2, <2>4 DEF FillSlot
    <3>5. CASE Steps[i].verb = "screenshot"
      <4>1. PICK shown \in BOOLEAN : results' = [results EXCEPT ![i] = Result(shown, IF shown THEN "none" ELSE "screenshot_failed", i)]
        BY <3>4, <3>5
      <4>2. PICK code : code = IF shown THEN "none" ELSE "screenshot_failed"
        OBVIOUS
      <4>3. code \in Codes /\ results' = [results EXCEPT ![work.shot] = Result(shown, code, work.shot)] /\ Steps[work.shot].verb = "screenshot"
        BY <1>a, <2>1, <3>5, <4>1, <4>2
      <4>4. QED
        BY <2>0, <3>1, <3>2, <3>3, <4>3, ToldFilling
    <3>6. CASE Steps[i].verb # "screenshot"
      <4>1. work.inPage \in Seq(Outcomes)
        BY <2>0 DEF ToldInductive, InTheSteps, StepsDone
      <4>2. j \in 1..Len(work.inPage)
        <5>1. Len(work.inPage) \in Nat
          BY <4>1
        <5>2. QED
          BY <2>1, <2>2, <3>3, <3>6, <5>1
      <4>3. PICK ok \in BOOLEAN, code \in Codes : ok = work.inPage[j].ok /\ code = work.inPage[j].code
        <5>1. work.inPage[j] \in Outcomes
          BY <4>1, <4>2
        <5>2. QED
          BY <5>1 DEF Outcomes
      <4>4. /\ results' = [results EXCEPT ![work.shot] = Result(ok, code, work.shot)]
            /\ work.shot - SegStart + 1 \in 1..Len(work.inPage) /\ ok = work.inPage[work.shot - SegStart + 1].ok
        BY <2>1, <3>4, <3>6, <4>2, <4>3
      <4>5. QED
        BY <2>0, <3>1, <3>2, <3>3, <4>4, ToldFilling
    <3>7. QED
      BY <3>5, <3>6
  <2>5. QED
    BY <2>3, <2>4
<1>7. QED
  BY <1>1, <1>2, <1>3, <1>4, <1>5, <1>6

LEMMA ToldStep ==
  ASSUME ToldInductive, [PageNext]_pageVars
  PROVE  ToldInductive'
<1>1. CASE UNCHANGED pageVars
  BY <1>1, ToldStays DEF pageVars
<1>2. CASE PageNext
  BY <1>2, ToldAsked, ToldByPages, ToldInPage, ToldByWorker, ToldSent DEF PageNext
<1>3. QED
  BY <1>1, <1>2

-----------------------------------------------------------------------------
(* Roles, marks, names and anchors *)

HIDE ChannelAssumption DEF ChannelAssumption

\* Each control is listed under a role of its own.
LEMMA RolesGiven ==
  ASSUME TabsTyped
  PROVE  RolesRight
<1> SUFFICES ASSUME NEW t \in 1..PageTabs, NEW e \in ToSet(collectInteractive(tabs[t].els)) PROVE RoleGiven(e) \in RolesOf[e]
  BY DEF RolesRight
<1>1. tabs[t].els \in Seq(Elements)
  BY DEF TabsTyped, TabStates
<1>2. e \in {x \in DOMAIN RolesOf : RolesOf[x] # {}}
  BY <1>1, OnlyInKeeps DEF collectInteractive
<1>3. PICK r \in RolesOf[e] : r \in ToSet(RoleOrder)
  BY <1>2, PageAssumption DEF PageAssumption
<1>4. DOMAIN RoleOrder = 1..8
  BY DEF RoleOrder
<1> DEFINE I == {i \in DOMAIN RoleOrder : RoleOrder[i] \in RolesOf[e]}
<1>5. I \subseteq Nat /\ I # {}
  BY <1>3, <1>4 DEF ToSet
<1>6. PICK m \in I : \A i \in I : m <= i
  <2> HIDE DEF I
  <2>1. QED
    BY <1>5, LeastOf
<1>7. \A j \in 1..(m - 1) : RoleOrder[j] \notin RolesOf[e]
  <2> SUFFICES ASSUME NEW j \in 1..(m - 1), RoleOrder[j] \in RolesOf[e] PROVE FALSE
    OBVIOUS
  <2>1. m \in Nat /\ m \in 1..8
    BY <1>4, <1>6
  <2>2. j \in DOMAIN RoleOrder /\ j < m
    BY <1>4, <2>1
  <2>3. j \in I
    BY <2>2
  <2>4. QED
    BY <1>6, <2>1, <2>2, <2>3
<1>8. \E i \in DOMAIN RoleOrder : RoleOrder[i] \in RolesOf[e] /\ \A j \in 1..(i - 1) : RoleOrder[j] \notin RolesOf[e]
  BY <1>6, <1>7
<1>9. QED
  BY <1>8 DEF RoleGiven

\* A box shows exactly when a pixel of it is on the frame.
LEMMA BoxShows ==
  ASSUME NEW x \in Int, NEW w \in Int, NEW scroll \in Int, NEW size \in Int
  PROVE  (toDeviceBox([x |-> x, y |-> 0, w |-> w, h |-> 1], [dpr |-> 2, scrollX |-> scroll, scrollY |-> 0, viewportW |-> size, viewportH |-> 1]) # <<>>)
           <=> OnFrame(x, w, scroll, size)
<1> DEFINE box == toDeviceBox([x |-> x, y |-> 0, w |-> w, h |-> 1], [dpr |-> 2, scrollX |-> scroll, scrollY |-> 0, viewportW |-> size, viewportH |-> 1])
           out == w <= 0 \/ (x - scroll) + w <= 0 \/ (size > 0 /\ x - scroll >= size)
<1>1. box # <<>> <=> ~out
  <2>1. PICK d : \A r : <<r>> # <<>>
    OBVIOUS
  <2>2. QED
    BY <2>1 DEF toDeviceBox
<1>2. OnFrame(x, w, scroll, size) <=> ~out
  <2>1. ASSUME OnFrame(x, w, scroll, size) PROVE ~out
    <3>1. PICK p \in x .. x + w - 1 : p >= scroll /\ (size > 0 => p < scroll + size)
      BY <2>1 DEF OnFrame
    <3>2. QED
      BY <3>1
  <2>2. ASSUME ~out PROVE OnFrame(x, w, scroll, size)
    <3>1. CASE x >= scroll
      <4>1. x \in x .. x + w - 1 /\ x >= scroll /\ (size > 0 => x < scroll + size)
        BY <2>2, <3>1
      <4>2. QED
        BY <4>1 DEF OnFrame
    <3>2. CASE ~(x >= scroll)
      <4>1. scroll \in x .. x + w - 1 /\ scroll >= scroll /\ (size > 0 => scroll < scroll + size)
        BY <2>2, <3>2
      <4>2. QED
        BY <4>1 DEF OnFrame
    <3>3. QED
      BY <3>1, <3>2
  <2>3. QED
    BY <2>1, <2>2
<1>3. QED
  BY <1>1, <1>2

\* Of nodes numbered from 1 on those with a box at 1 are marked, and a mark stands for one of them.
LEMMA BoxesShow ==
  ASSUME NEW b, b = <<>> \/ \E x \in Int : b = BoxAt(x)
  PROVE  (b # <<>> /\ toDeviceBox(b[1], MarkFrame) # <<>>) <=> Shows(b)
<1>1. CASE b = <<>>
  BY <1>1 DEF Shows
<1>2. ASSUME NEW x \in Int, b = BoxAt(x) PROVE (b # <<>> /\ toDeviceBox(b[1], MarkFrame) # <<>>) <=> Shows(b)
  <2>1. b # <<>> /\ b[1] = [x |-> x, y |-> 0, w |-> 1, h |-> 1]
    BY <1>2 DEF BoxAt
  <2>2. toDeviceBox([x |-> x, y |-> 0, w |-> 1, h |-> 1], MarkFrame) # <<>> <=> ~((x - 1) + 1 <= 0 \/ x - 1 >= 1)
    BY DEF toDeviceBox, MarkFrame
  <2>3. QED
    BY <2>1, <2>2 DEF Shows
<1>3. QED
  BY <1>1, <1>2

LEMMA NodesMarked ==
  ASSUME NEW T, NEW nodes \in Seq(T), \A n \in DOMAIN nodes : nodes[n].ref = n,
         \A n \in DOMAIN nodes : nodes[n].rect = <<>> \/ \E x \in Int : nodes[n].rect = BoxAt(x)
  PROVE  MarkedRight(nodes)
<1> DEFINE S == {n \in ToSet(nodes) : n.rect # <<>> /\ toDeviceBox(n.rect[1], MarkFrame) # <<>>}
<1>1. DOMAIN nodes = 1..Len(nodes)
  OBVIOUS
<1>3. \A n \in DOMAIN nodes : nodes[n] \in S <=> Shows(nodes[n].rect)
  <2> SUFFICES ASSUME NEW n \in DOMAIN nodes PROVE nodes[n] \in S <=> Shows(nodes[n].rect)
    OBVIOUS
  <2>1. nodes[n] \in ToSet(nodes)
    BY DEF ToSet
  <2>2. PICK b : b = nodes[n].rect
    OBVIOUS
  <2>3. b = <<>> \/ \E x \in Int : b = BoxAt(x)
    BY <2>2
  <2>4. (b # <<>> /\ toDeviceBox(b[1], MarkFrame) # <<>>) <=> Shows(b)
    BY <2>3, BoxesShow
  <2>5. QED
    BY <2>1, <2>2, <2>4
<1>4. PICK kept, marks : kept = OnlyIn(nodes, S) /\ marks = composeMarks(nodes, MarkFrame)
  OBVIOUS
<1>5. markableNodes(nodes, MarkFrame) = kept
  BY <1>4 DEF markableNodes
<1>6. marks = [i \in DOMAIN kept |-> [mark |-> i, ref |-> kept[i].ref]]
  BY <1>4, <1>5 DEF composeMarks
<1> HIDE DEF S
<1>7. kept \in Seq(T) /\ ToSet(kept) = ToSet(nodes) \cap S
  BY <1>4, OnlyInKeeps
<1>8. Len(kept) \in Nat /\ DOMAIN kept = 1..Len(kept)
  BY <1>7
<1>9. DOMAIN marks = DOMAIN kept /\ Len(marks) = Len(kept) /\ \A i \in DOMAIN kept : marks[i].ref = kept[i].ref
  <2>1. DOMAIN marks = DOMAIN kept /\ \A i \in DOMAIN kept : marks[i].ref = kept[i].ref
    BY <1>6
  <2>2. DOMAIN marks = 1..Len(kept)
    BY <1>8, <2>1
  <2>3. Len(marks) = Len(kept)
    BY <1>8, <2>2
  <2>4. QED
    BY <2>1, <2>3
<1>10. ASSUME NEW m \in 0..4, resolveMark(marks, m) # <<>>
       PROVE  Shows(nodes[resolveMark(marks, m)[1]].rect)
  <2>1. m \in DOMAIN kept /\ resolveMark(marks, m)[1] = kept[m].ref
    BY <1>9, <1>10 DEF resolveMark
  <2>2. kept[m] \in ToSet(nodes) /\ kept[m] \in S
    BY <1>7, <2>1 DEF ToSet
  <2>3. PICK n \in DOMAIN nodes : kept[m] = nodes[n]
    BY <2>2 DEF ToSet
  <2>4. kept[m].ref = n /\ Shows(nodes[n].rect)
    BY <1>3, <2>2, <2>3
  <2>5. QED
    BY <2>1, <2>4
<1>11. Len(marks) = Cardinality({n \in DOMAIN nodes : Shows(nodes[n].rect)})
  <2>1. Len(kept) = Cardinality({n \in 1..Len(nodes) : nodes[n] \in S})
    BY <1>4, OnlyInCount
  <2>2. {n \in 1..Len(nodes) : nodes[n] \in S} = {n \in DOMAIN nodes : Shows(nodes[n].rect)}
    BY <1>1, <1>3
  <2>3. QED
    BY <1>9, <2>1, <2>2
<1>12. QED
  BY <1>4, <1>10, <1>11 DEF MarkedRight

LEMMA MarksAreRight == MarksRight
<1>1. Lengths \subseteq Int
  BY PageAssumption DEF PageAssumption
<1>2. \A x, w, scroll, size \in Lengths :
       (toDeviceBox([x |-> x, y |-> 0, w |-> w, h |-> 1], [dpr |-> 2, scrollX |-> scroll, scrollY |-> 0, viewportW |-> size, viewportH |-> 1]) # <<>>)
         <=> OnFrame(x, w, scroll, size)
  BY <1>1, BoxShows
<1> DEFINE boxes == {<<>>} \cup {BoxAt(x) : x \in Lengths}
<1>3. ASSUME NEW b1 \in boxes, NEW b2 \in boxes, NEW b3 \in boxes
      PROVE  MarkedRight(<<[ref |-> 1, rect |-> b1], [ref |-> 2, rect |-> b2], [ref |-> 3, rect |-> b3]>>)
  <2>1. \A b \in boxes : b = <<>> \/ \E x \in Int : b = BoxAt(x)
    BY <1>1
  <2> HIDE DEF boxes
  <2>2. PICK T : T = {[ref |-> 1, rect |-> b1], [ref |-> 2, rect |-> b2], [ref |-> 3, rect |-> b3]}
    OBVIOUS
  <2>3. PICK nodes : nodes = <<[ref |-> 1, rect |-> b1], [ref |-> 2, rect |-> b2], [ref |-> 3, rect |-> b3]>>
    OBVIOUS
  <2>4. nodes \in Seq(T) /\ DOMAIN nodes = 1..3
    BY <2>2, <2>3
  <2>5. \A n \in 1..3 : nodes[n].ref = n /\ nodes[n].rect \in boxes
    BY <2>3
  <2>6. \A n \in DOMAIN nodes : nodes[n].ref = n /\ (nodes[n].rect = <<>> \/ \E x \in Int : nodes[n].rect = BoxAt(x))
    BY <2>1, <2>4, <2>5
  <2>7. MarkedRight(nodes)
    BY <2>4, <2>6, NodesMarked
  <2>8. QED
    BY <2>3, <2>7
<1>4. QED
  BY <1>2, <1>3 DEF MarksRight

\* The name of a control is the first of its texts that says something.
LEMMA NamedRight ==
  ASSUME NEW c \in [aria : 0..1, labels : {<<>>, <<0, 2>>, << 2 >>}, around : {<<>>, <<0, 3>>, <<3, 4>>}, text : {0, 5}]
  PROVE  /\ AccessibleName(c) = 0 => c.aria = 0 /\ c.text = 0 /\ c.labels # <<2>> /\ c.around = <<>>
         /\ c.aria # 0 => AccessibleName(c) = c.aria
         /\ AccessibleName(c) = c.text \/ AccessibleName(c) \in {1, 2, 3}
<1>1. PICK pre : pre = <<c.aria>> \o (IF c.labels = <<>> THEN <<>> ELSE <<Head(c.labels)>>)
  OBVIOUS
<1>2. PICK a, around, n : a = c.aria /\ around = c.around /\ n = Len(pre)
  OBVIOUS
<1>3. a \in 0..1 /\ around \in {<<>>, <<0, 3>>, <<3, 4>>} /\ c.text \in {0, 5} /\ c.labels \in {<<>>, <<0, 2>>, <<2>>}
  BY <1>2
<1>4. /\ pre \in Seq(0..4) /\ n \in 1..2 /\ pre[1] = a /\ (n = 2 => pre[2] \in {0, 2})
      /\ c.labels = <<2>> => n = 2 /\ pre[2] = 2
  <2>1. CASE c.labels = <<>>
    <3>1. pre = <<a>>
      BY <1>1, <1>2, <2>1
    <3>2. QED
      BY <1>2, <1>3, <2>1, <3>1
  <2>2. CASE c.labels # <<>>
    <3>1. PICK h : h = Head(c.labels)
      OBVIOUS
    <3>2. h \in {0, 2} /\ (c.labels = <<2>> => h = 2)
      BY <1>3, <2>2, <3>1
    <3>3. PICK p, q : p = <<a>> /\ q = <<h>>
      OBVIOUS
    <3>4. pre = p \o q
      BY <1>1, <1>2, <2>2, <3>1, <3>3
    <3>5. p \in Seq(0..4) /\ q \in Seq(0..4) /\ Len(p) = 1 /\ Len(q) = 1 /\ p[1] = a /\ q[1] = h
      BY <1>3, <3>2, <3>3
    <3>6. pre \in Seq(0..4) /\ Len(pre) = 2 /\ pre[1] = a /\ pre[2] = h
      <4>1. pre \in Seq(0..4) /\ Len(pre) = Len(p) + Len(q)
        BY <3>4, <3>5, ConcatProperties
      <4>2. /\ \A i \in 1..Len(p) : pre[i] = p[i]
            /\ \A i \in 1..Len(q) : pre[Len(p) + i] = q[i]
        BY <3>4, <3>5, ConcatProperties
      <4>3. QED
        BY <3>5, <4>1, <4>2
    <3>7. QED
      BY <1>2, <3>2, <3>6
  <2>3. QED
    BY <2>1, <2>2
<1>5. around \in Seq(0..4) /\ Len(around) \in {0, 2}
  <2>1. <<>> \in Seq(0..4) /\ <<0, 3>> \in Seq(0..4) /\ <<3, 4>> \in Seq(0..4)
    OBVIOUS
  <2>2. Len(<<>>) = 0 /\ Len(<<0, 3>>) = 2 /\ Len(<<3, 4>>) = 2
    OBVIOUS
  <2>3. QED
    BY <1>3, <2>1, <2>2
<1>6. PICK s : s = pre \o around
  OBVIOUS
<1>7. /\ s \in Seq(0..4) /\ Len(s) = n + Len(around)
      /\ \A i \in 1..n : s[i] = pre[i]
      /\ \A i \in 1..Len(around) : s[n + i] = around[i]
  BY <1>2, <1>4, <1>5, <1>6
<1>8. PICK S, texts : S = Nat \ {0} /\ texts = OnlyIn(s, S)
  OBVIOUS
<1>9. <<c.aria>> \o (IF c.labels = <<>> THEN <<>> ELSE <<Head(c.labels)>>) \o c.around = s
  BY <1>1, <1>2, <1>6
<1>10. AccessibleName(c) = IF texts = <<>> THEN c.text ELSE texts[1]
  BY <1>8, <1>9 DEF AccessibleName
<1>11. texts = <<>> <=> ToSet(s) \cap S = {}
  BY <1>7, <1>8, OnlyInKeeps
<1>12. texts # <<>> => \E k \in 1..Len(s) : texts[1] = s[k] /\ s[k] \in S /\ \A j \in 1..(k - 1) : s[j] \notin S
  BY <1>7, <1>8, OnlyInFirst
<1>13. DOMAIN s = 1..Len(s) /\ \A k \in 1..Len(s) : s[k] \in 0..4
  BY <1>7
<1>14. texts = <<>> <=> \A k \in 1..Len(s) : s[k] = 0
  <2>1. texts = <<>> <=> \A k \in 1..Len(s) : s[k] \notin S
    BY <1>11, <1>13 DEF ToSet
  <2>2. \A k \in 1..Len(s) : s[k] \notin S <=> s[k] = 0
    BY <1>8, <1>13
  <2>3. QED
    BY <2>1, <2>2
<1>15. CASE texts = <<>>
  <2>1. s[1] = 0 /\ (n = 2 => s[2] = 0)
    BY <1>4, <1>5, <1>7, <1>14, <1>15
  <2>2. a = 0 /\ c.labels # <<2>>
    BY <1>4, <1>7, <2>1
  <2>3. around = <<>>
    <3> SUFFICES ASSUME around # <<>> PROVE FALSE
      OBVIOUS
    <3>1. Len(around) = 2 /\ around[2] \in {3, 4}
      BY <1>3
    <3>2. s[n + 2] \in {3, 4} /\ n + 2 \in 1..Len(s)
      BY <1>4, <1>7, <3>1
    <3>3. QED
      BY <1>14, <1>15, <3>2
  <2>4. QED
    BY <1>2, <1>3, <1>10, <1>15, <2>2, <2>3
<1>16. CASE texts # <<>>
  <2>1. PICK k \in 1..Len(s) : texts[1] = s[k] /\ s[k] \in S /\ \A j \in 1..(k - 1) : s[j] \notin S
    BY <1>12, <1>16
  <2>2. s[k] # 0 /\ (\A j \in 1..(k - 1) : j \in 1..Len(s) /\ s[j] = 0)
    <3>1. \A j \in 1..(k - 1) : j \in 1..Len(s)
      BY <1>4, <1>5, <1>7
    <3>2. QED
      BY <1>8, <1>13, <2>1, <3>1
  <2>3. a # 0 => k = 1
    <3>1. 1 \in 1..(k - 1) \/ k = 1
      BY <1>4, <1>5, <1>7
    <3>2. s[1] = a
      BY <1>4, <1>7
    <3>3. QED
      BY <2>2, <3>1, <3>2
  <2>4. a # 0 => texts[1] = a
    BY <1>4, <1>7, <2>1, <2>3
  <2>5. s[k] \in {1, 2, 3}
    <3>1. CASE k <= n
      <4>1. k \in 1..n /\ s[k] = pre[k] /\ (k = 1 \/ (k = 2 /\ n = 2))
        BY <1>4, <1>7, <3>1
      <4>2. s[k] \in {0, 1, 2}
        BY <1>3, <1>4, <4>1
      <4>3. QED
        BY <2>2, <4>2
    <3>2. CASE ~(k <= n)
      <4>1. PICK i : i = k - n
        OBVIOUS
      <4>2. i \in 1..Len(around) /\ s[k] = around[i] /\ Len(around) = 2 /\ k = n + i
        BY <1>4, <1>5, <1>7, <3>2, <4>1
      <4>3. around \in {<<0, 3>>, <<3, 4>>} /\ i \in 1..2
        BY <1>3, <4>2
      <4>4. CASE i = 1
        BY <2>2, <4>2, <4>3, <4>4
      <4>5. CASE i = 2
        <5>1. n + 1 \in 1..(k - 1)
          BY <1>4, <4>2, <4>5
        <5>2. s[n + 1] = 0 /\ s[n + 1] = around[1]
          BY <1>7, <2>2, <4>2, <5>1
        <5>3. around = <<0, 3>>
          BY <4>3, <5>2
        <5>4. QED
          BY <4>2, <4>5, <5>3
      <4>6. QED
        BY <4>3, <4>4, <4>5
    <3>3. QED
      BY <3>1, <3>2
  <2>6. QED
    BY <1>2, <1>10, <1>16, <2>1, <2>2, <2>4, <2>5
<1>17. QED
  BY <1>15, <1>16

\* An anchor is the landmarks around it, or the last heading before it.
LEMMA LandmarksKept ==
  ASSUME NEW out, out = OnlyIn(<<"main", "plain", "form">>, {"form", "main"})
  PROVE  out = <<"main", "form">>
<1>1. PICK s, S : s = <<"main", "plain", "form">> /\ S = {"form", "main"}
  OBVIOUS
<1>2. /\ s \in Seq({"main", "plain", "form"}) /\ Len(s) = 3 /\ s[1] = "main" /\ s[3] = "form"
      /\ s[1] \in S /\ s[2] \notin S /\ s[3] \in S
  <2>1. s = <<"main", "plain", "form">>
    BY <1>1
  <2>2. s \in Seq({"main", "plain", "form"}) /\ Len(s) = 3 /\ s[1] = "main" /\ s[2] = "plain" /\ s[3] = "form"
    BY <2>1
  <2>3. "main" \in S /\ "form" \in S /\ "plain" \notin S
    BY <1>1
  <2>4. QED
    BY <2>2, <2>3
<1>3. From(out, s, 3, S, {"main", "plain", "form"})
  BY <1>1, <1>2, OnlyInFrom
<1>4. PICK L : L = Len(out)
  OBVIOUS
<1>5. out \in Seq({"main", "plain", "form"}) /\ L \in Nat /\ DOMAIN out = 1..L
  BY <1>3, <1>4 DEF From
<1>6. PICK origin \in [1..L -> 1..3] :
       /\ \A i \in 1..L : out[i] = s[origin[i]] /\ out[i] \in S
       /\ \A i, j \in 1..L : i < j => origin[i] < origin[j]
       /\ \A k \in 1..3 : s[k] \in S => \E i \in 1..L : origin[i] = k
  BY <1>3, <1>4 DEF From
<1>7. \A i \in 1..L : origin[i] \in {1, 3}
  BY <1>2, <1>6
<1>8. PICK i1 \in 1..L, i3 \in 1..L : origin[i1] = 1 /\ origin[i3] = 3
  BY <1>2, <1>6
<1>9. L >= 2 /\ origin[1] = 1 /\ origin[2] = 3
  <2>1. i1 # i3 /\ 1 \in 1..L /\ 2 \in 1..L
    BY <1>5, <1>8
  <2>2. origin[1] < origin[2]
    BY <1>6, <2>1
  <2>3. QED
    BY <1>5, <1>7, <2>1, <2>2
<1>10. L = 2
  <2> SUFFICES ASSUME L # 2 PROVE FALSE
    OBVIOUS
  <2>1. 2 \in 1..L /\ 3 \in 1..L
    BY <1>5, <1>9
  <2>2. origin[2] < origin[3]
    BY <1>6, <2>1
  <2>3. QED
    BY <1>7, <1>9, <2>1, <2>2
<1>11. out[1] = "main" /\ out[2] = "form"
  BY <1>2, <1>6, <1>9, <1>10
<1>12. QED
  BY <1>5, <1>10, <1>11

LEMMA AnchoredRight ==
  ASSUME NEW around \in {<<>>, <<"plain">>, <<"form", "plain", "main">>}, NEW hs \in SUBSET (1..3), NEW place \in 1..4,
         NEW a, a = AnchorPath(around, hs, place)
  PROVE  /\ Len(around) = 3 => a = <<"main", "form">>
         /\ Len(around) < 3 => (a = <<>> <=> \A h \in hs : h >= place) /\ \A h \in ToSet(a) : h \in hs /\ h < place
<1>1. PICK marks, before : marks = OnlyIn(Reverse(around), ToSet(around) \ {"plain"}) /\ before = {h \in hs : h < place}
  OBVIOUS
<1>2. a = IF marks # <<>> THEN marks ELSE IF before = {} THEN <<>> ELSE <<CHOOSE h \in before : \A g \in before : g <= h>>
  BY <1>1 DEF AnchorPath
<1>3. CASE around = <<"form", "plain", "main">>
  <2>1. Reverse(around) = <<"main", "plain", "form">>
    BY <1>3 DEF Reverse
  <2>2. ToSet(around) \ {"plain"} = {"form", "main"}
    BY <1>3 DEF ToSet
  <2>3. marks = <<"main", "form">>
    BY <1>1, <2>1, <2>2, LandmarksKept
  <2>4. a = <<"main", "form">>
    BY <1>2, <2>3
  <2>5. Len(around) = 3
    BY <1>3
  <2>6. QED
    BY <2>4, <2>5
<1>4. CASE around # <<"form", "plain", "main">>
  <2>1. Len(around) < 3 /\ around \in Seq({"main", "plain", "form"}) /\ ToSet(around) \ {"plain"} = {}
    <3>1. CASE around = <<>>
      <4>1. DOMAIN around = {} /\ Len(around) = 0 /\ around \in Seq({"main", "plain", "form"})
        BY <3>1
      <4>2. QED
        BY <4>1 DEF ToSet
    <3>2. CASE around = <<"plain">>
      <4>1. DOMAIN around = {1} /\ Len(around) = 1 /\ around \in Seq({"main", "plain", "form"}) /\ around[1] = "plain"
        BY <3>2
      <4>2. QED
        BY <4>1 DEF ToSet
    <3>3. QED
      BY <1>4, <3>1, <3>2
  <2>2. Reverse(around) \in Seq({"main", "plain", "form"})
    BY <2>1 DEF Reverse
  <2>3. marks = <<>>
    BY <1>1, <2>1, <2>2, OnlyInKeeps
  <2>7. \A h \in hs : h \in 1..3 /\ (h < place \/ h >= place) /\ ~(h < place /\ h >= place)
    OBVIOUS
  <2>4. CASE before = {}
    <3>1. a = <<>> /\ \A h \in hs : h >= place
      BY <1>1, <1>2, <2>3, <2>4, <2>7
    <3>2. ToSet(<<>>) = {}
      BY DEF ToSet
    <3>3. QED
      BY <2>1, <3>1, <3>2
  <2>5. CASE before # {}
    <3>1. \E h \in before : \A g \in before : g <= h
      <4>1. \A g \in before : g = 1 \/ g = 2 \/ g = 3
        BY <1>1, <2>7
      <4>2. CASE 3 \in before
        BY <4>1, <4>2
      <4>3. CASE 3 \notin before /\ 2 \in before
        BY <4>1, <4>3
      <4>4. CASE 3 \notin before /\ 2 \notin before
        BY <2>5, <4>1, <4>4
      <4>5. QED
        BY <4>2, <4>3, <4>4
    <3>2. PICK h : h = CHOOSE k \in before : \A g \in before : g <= k
      OBVIOUS
    <3>3. h \in before
      BY <3>1, <3>2
    <3>7. a = <<h>>
      BY <1>2, <2>3, <2>5, <3>2
    <3>8. DOMAIN a = {1} /\ a[1] = h /\ a # <<>>
      BY <3>7
    <3>4. a # <<>> /\ ToSet(a) = {h}
      BY <3>8 DEF ToSet
    <3>5. h \in hs /\ h < place /\ ~(h >= place)
      BY <1>1, <2>7, <3>3
    <3>9. (Len(around) = 3 => a = <<"main", "form">>) /\ ~(a = <<>>) /\ ~(\A k \in hs : k >= place)
      BY <2>1, <3>4, <3>5
    <3>10. \A k \in ToSet(a) : k \in hs /\ k < place
      BY <3>4, <3>5
    <3>6. QED
      BY <3>9, <3>10
  <2>6. QED
    BY <2>4, <2>5
<1>5. QED
  BY <1>3, <1>4

LEMMA NodesAreRight == NodesRight
<1>1. \A c \in [aria : 0..1, labels : {<<>>, <<0, 2>>, <<2>>}, around : {<<>>, <<0, 3>>, <<3, 4>>}, text : {0, 5}] :
       /\ AccessibleName(c) = 0 => c.aria = 0 /\ c.text = 0 /\ c.labels # <<2>> /\ c.around = <<>>
       /\ c.aria # 0 => AccessibleName(c) = c.aria
       /\ AccessibleName(c) = c.text \/ AccessibleName(c) \in {1, 2, 3}
  BY NamedRight
<1>2. \A around \in {<<>>, <<"plain">>, <<"form", "plain", "main">>}, hs \in SUBSET (1..3), place \in 1..4 :
       LET a == AnchorPath(around, hs, place) IN
       /\ Len(around) = 3 => a = <<"main", "form">>
       /\ Len(around) < 3 => (a = <<>> <=> \A h \in hs : h >= place) /\ \A h \in ToSet(a) : h \in hs /\ h < place
  BY AnchoredRight
<1>3. QED
  BY <1>1, <1>2 DEF NodesRight

\* What a caller reads is what was there: the results of the steps that were done, in their order, the roles of its controls,
\* the marks on its screenshot, names and anchors.
THEOREM PageReads == PageSpec => []PageRead
<1>1. PageInit => PageInductive /\ ToldInductive
  BY PageStart, ToldFirst
<1>2. PageInductive /\ [PageNext]_pageVars => PageInductive'
  BY PageStep
<1>3. ToldInductive /\ [PageNext]_pageVars => ToldInductive'
  BY ToldStep
<1>4. PageInductive /\ ToldInductive => PageRead
  <2>1. PageInductive => RolesRight
    BY RolesGiven DEF PageInductive, PageTyped
  <2>2. QED
    BY <2>1, MarksAreRight, NodesAreRight DEF ToldInductive, PageRead
<1>5. QED
  BY <1>1, <1>2, <1>3, <1>4, PTL DEF PageSpec

-----------------------------------------------------------------------------
(* All of it together *)

\* Where one of the three acts at a time, each takes its own steps or none.
LEMMA OneOutsideActs ==
  [OutsideNext]_<<acting, vars, pageVars, callsVars>> => [Next]_vars /\ [PageNext]_pageVars /\ [CallsNext]_callsVars
BY DEF OutsideNext

\* The run in which they take turns is one of those that the theorems are about.
THEOREM OutsideTogether == OutsideSpec => [](ChannelInv /\ PageInv /\ PageRead /\ CallsInv)
<1>1. OutsideInit => Init /\ PageInit /\ CallsInit
  BY DEF OutsideInit
<1>2. OutsideSpec => Spec /\ PageSpec /\ CallsSpec
  BY <1>1, OneOutsideActs, PTL DEF OutsideSpec, Spec, PageSpec, CallsSpec
<1>3. QED
  BY <1>2, ChannelConsistent, PageHolds, PageReads, AgentCallsHold, PTL
=============================================================================

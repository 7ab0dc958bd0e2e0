------------------------------- MODULE Access -------------------------------
(* Who may call the API: the check of the key and its throttle (api/auth.ts), the cache of actors in
   front of the database (services/actor-cache.ts, ttl-cache.ts), and the routes that make and revoke
   actors (services/actors.ts).  The cache of allowed origins (services/settings-cache.ts) is another
   use of the same store, and setSetting invalidates it the way a revocation does.

   A request reads its throttle entry, may wait for the database, and writes the entry afterwards. *)
EXTENDS Naturals, Sequences, FiniteSets

CONSTANTS
  AccessKeys,     \* keys
  ActorKeys,      \* those of an actor; the others are made up
  AdminKeys,      \* those of an admin
  AccessRequests, \* requests at one time
  CacheTtl,       \* how long a cached actor is believed (10 s)
  FailWindow,     \* how long failures are remembered (60 s)
  MaxFailures,    \* failures of a key until it is turned away (20)
  MaxBuckets,     \* keys remembered until the memory is swept (10000)
  AccessCalls,    \* bound: requests
  AccessTime      \* bound: ticks

ASSUME AccessAssumption ==
  /\ ActorKeys \subseteq AccessKeys /\ AdminKeys \subseteq ActorKeys /\ CacheTtl \in Nat \ {0} /\ FailWindow \in Nat \ {0}
  /\ MaxFailures \in Nat \ {0} /\ MaxBuckets \in Nat \ {0} /\ AccessTime \in Nat

VARIABLES
  accessClock,
  calls,      \* requests so far
  actorRow,   \* the row of each key's actor: none, live, revoked
  actorCache, \* cached per key: [row, exp]
  failures,   \* per key: [count, until], count 0 for no entry
  access,     \* each request: [at, key, began, fail (the entry it read), row]
  revoking,   \* keys whose row is revoked and whose cached actor is not dropped yet
  revokedAt,  \* history: when a key was revoked
  failedSoFar,   \* history: how often requests of a key failed (to MaxFailures), and when last
  overlap     \* history: keys whose revocation met a request that was loading the row

accessVars == <<accessClock, calls, actorRow, actorCache, failures, access, revoking, revokedAt, failedSoFar, overlap>>

NotCached == [row |-> "none", exp |-> 0]
NoFailure == [count |-> 0, until |-> 0]
\* A request that is over, and what of it the properties look at.
Finished(how, k, began) == [at |-> how, key |-> k, began |-> began, fail |-> NoFailure, row |-> "none"]
Never == AccessTime + 1

AccessInit ==
  /\ accessClock = 0 /\ calls = 0 /\ actorRow = [k \in AccessKeys |-> IF k \in ActorKeys THEN "live" ELSE "none"]
  /\ actorCache = [k \in AccessKeys |-> NotCached] /\ failures = [k \in AccessKeys |-> NoFailure]
  /\ access = [r \in AccessRequests |-> Finished("idle", "", 0)]
  /\ revoking = {} /\ revokedAt = [k \in AccessKeys |-> Never] /\ failedSoFar = [k \in AccessKeys |-> [times |-> 0, last |-> 0]]
  /\ overlap = {}

AccessTick == accessClock < AccessTime /\ accessClock' = accessClock + 1
        /\ UNCHANGED <<calls, actorRow, actorCache, failures, access, revoking, revokedAt, failedSoFar, overlap>>

-----------------------------------------------------------------------------
(* A request *)

RequestOver == {"idle", "throttled", "unauthorized", "forbidden", "in", "in as admin"}

\* Its key is turned away while it has failed too often lately; an entry that has expired goes.  The
\* cached actor is taken while it is believed; else the row is loaded.
auth(r, k) ==
  LET f == failures[k]  c == actorCache[k]
      asked == [at |-> "loading", key |-> k, began |-> accessClock, fail |-> f, row |-> "none"] IN
  /\ access[r].at \in RequestOver /\ calls < AccessCalls /\ calls' = calls + 1
  /\ IF f.until > accessClock /\ f.count >= MaxFailures
     THEN access' = [access EXCEPT ![r] = Finished("throttled", k, accessClock)] /\ UNCHANGED failures
     ELSE /\ failures' = [failures EXCEPT ![k] = IF @.until <= accessClock THEN NoFailure ELSE @]
          /\ access' = [access EXCEPT ![r] = IF c.row # "none" /\ c.exp > accessClock THEN [asked EXCEPT !.at = "resolved", !.row = c.row]
                                             ELSE asked]
  /\ UNCHANGED <<accessClock, actorRow, actorCache, revoking, revokedAt, failedSoFar, overlap>>

\* The database answers.
resolveActor(r) ==
  /\ access[r].at = "loading"
  /\ access' = [access EXCEPT ![r].at = "loaded", ![r].row = actorRow[access[r].key]]
  /\ UNCHANGED <<accessClock, calls, actorRow, actorCache, failures, revoking, revokedAt, failedSoFar, overlap>>

(* Mutant of Expiry: the row is believed from when it came. *)
ExpiryFromNow(r) == accessClock + CacheTtl
\* A row is believed from when it was asked for.
Expiry(r) == access[r].began + CacheTtl

\* What was loaded is kept, whatever was dropped meanwhile; a key without an actor is not kept.
ttlCache(r) ==
  /\ access[r].at = "loaded"
  /\ actorCache' = IF access[r].row = "none" THEN actorCache
                   ELSE [actorCache EXCEPT ![access[r].key] = [row |-> access[r].row, exp |-> Expiry(r)]]
  /\ access' = [access EXCEPT ![r].at = "resolved"]
  /\ UNCHANGED <<accessClock, calls, actorRow, failures, revoking, revokedAt, failedSoFar, overlap>>

\* Before a failure is written, a full memory loses what has expired, or else everything.
purgeExpired ==
  LET live == {k \in AccessKeys : failures[k].count > 0}
      current == {k \in live : failures[k].until > accessClock} IN
  IF Cardinality(live) < MaxBuckets THEN failures
  ELSE [k \in AccessKeys |-> IF k \in current /\ Cardinality(current) < MaxBuckets THEN failures[k] ELSE NoFailure]

\* The count goes on from the entry the request read at first.
recordFailure(r) ==
  /\ access[r].at = "resolved" /\ access[r].row # "live"
  /\ LET f == access[r].fail IN
     failures' = [purgeExpired EXCEPT ![access[r].key] =
                    [count |-> (IF f.until > access[r].began THEN f.count ELSE 0) + 1, until |-> access[r].began + FailWindow]]
  /\ failedSoFar' = [failedSoFar EXCEPT ![access[r].key] =
                    [times |-> IF @.times < MaxFailures THEN @.times + 1 ELSE @.times,
                     last |-> IF access[r].began > @.last THEN access[r].began ELSE @.last]]
  /\ access' = [access EXCEPT ![r] = Finished("unauthorized", "", 0)]
  /\ UNCHANGED <<accessClock, calls, actorRow, actorCache, revoking, revokedAt, overlap>>

\* A key that is known is forgiven its failures; a route for admins asks for the role after that.
requireAdmin(r, admin) ==
  /\ access[r].at = "resolved" /\ access[r].row = "live"
  /\ failures' = [failures EXCEPT ![access[r].key] = NoFailure]
  /\ access' = [access EXCEPT ![r] = Finished(IF admin /\ @.key \notin AdminKeys THEN "forbidden" ELSE IF admin THEN "in as admin" ELSE "in", @.key, 0)]
  /\ UNCHANGED <<accessClock, calls, actorRow, actorCache, revoking, revokedAt, failedSoFar, overlap>>

-----------------------------------------------------------------------------
(* Revocation *)

revokeActor(k) ==
  /\ actorRow[k] = "live" /\ actorRow' = [actorRow EXCEPT ![k] = "revoked"]
  /\ revoking' = revoking \cup {k} /\ revokedAt' = [revokedAt EXCEPT ![k] = accessClock]
  /\ overlap' = IF \E r \in AccessRequests : access[r].key = k /\ access[r].at \notin RequestOver
                THEN overlap \cup {k} ELSE overlap
  /\ UNCHANGED <<accessClock, calls, actorCache, failures, access, failedSoFar>>

\* Mutant of CacheDropped: what is cached stays until it expires.
StillCached(k) == actorCache
CacheDropped(k) == [actorCache EXCEPT ![k] = NotCached]

invalidateActor(k) ==
  /\ k \in revoking /\ revoking' = revoking \ {k} /\ actorCache' = CacheDropped(k)
  /\ UNCHANGED <<accessClock, calls, actorRow, failures, access, revokedAt, failedSoFar, overlap>>

AccessNext ==
  \/ AccessTick
  \/ \E r \in AccessRequests :
       \/ \E k \in AccessKeys : auth(r, k)
       \/ resolveActor(r) \/ ttlCache(r) \/ recordFailure(r) \/ \E admin \in BOOLEAN : requireAdmin(r, admin)
  \/ \E k \in AccessKeys : revokeActor(k) \/ invalidateActor(k)

-----------------------------------------------------------------------------
(* Properties *)

\* A key is believed no longer than the cache's term after it was revoked, however the revocation and
\* the loading of its row met: what actor-cache.ts promises.
BelievedATerm ==
  \A k \in AccessKeys : actorRow[k] = "revoked" /\ actorCache[k].row = "live" => actorCache[k].exp <= revokedAt[k] + CacheTtl

\* A revocation that no request of the key met holds at once.
RevokedAtOnce ==
  \A k \in AccessKeys : actorRow[k] = "revoked" /\ k \notin revoking \cup overlap => actorCache[k].row # "live"

\* A key is turned away only after as many failures, the last of them within the window, and a request
\* without an actor or without the role is never let in.
ThrottleSound ==
  \A r \in AccessRequests :
    LET past == failedSoFar[access[r].key] IN
    /\ access[r].at = "throttled" =>
         past.times >= MaxFailures /\ past.last + FailWindow > access[r].began
    /\ access[r].at \in {"in", "in as admin"} => actorRow[access[r].key] # "none"
    /\ access[r].at = "in as admin" => access[r].key \in AdminKeys

\* Who calls is who may.
AccessInv == BelievedATerm /\ RevokedAtOnce /\ ThrottleSound
=============================================================================

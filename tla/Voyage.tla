-------------------------------- MODULE Voyage ---------------------------------
(***************************************************************************)
(* The queue of requests to the Voyage embeddings API, its throttle and    *)
(* its retries (src/knowledge/embedder.ts).                                *)
(*                                                                         *)
(* A promise chain embeds one batch at a time.  A refusal (429) sets the   *)
(* interval between requests, successes halve it, and the refused batch is *)
(* asked again after a back-off that the answer may fix.                   *)
(***************************************************************************)
EXTENDS Integers, SequencesExt

CONSTANTS
  EmbedBatches,  \* batches of texts to embed
  Retries,       \* how often a refused batch is asked again
  Throttled,     \* ticks between requests after a refusal, THROTTLED_INTERVAL_MS
  IntervalFloor, \* the least such interval, INTERVAL_FLOOR_MS
  HalveAfter     \* successes after which the interval is halved

ASSUME VoyageAssumption ==
  /\ Retries \in Nat /\ HalveAfter \in Nat \ {0}
  /\ IntervalFloor \in Nat \ {0} /\ Throttled \in Nat /\ IntervalFloor <= Throttled

VARIABLES
  voyage,     \* the batches in the queue, the first one being embedded
  batch,      \* per batch: unasked, queued, waiting, asked, refused, done or failed
  interval,   \* adaptiveIntervalMs
  successes,  \* successRun
  sinceStart, \* ticks since the last request began, up to Throttled
  attempt,    \* refusals of the batch being embedded
  gap,        \* history: ticks since any request began
  hasty       \* history: a request began less than Throttled ticks after one that was refused

voyageVars == <<voyage, batch, interval, successes, sinceStart, attempt, gap, hasty>>

VoyageInit ==
  /\ voyage = <<>> /\ batch = [b \in EmbedBatches |-> "unasked"]
  /\ interval = 0 /\ successes = 0 /\ sinceStart = Throttled /\ attempt = 0 /\ gap = Throttled /\ hasty = FALSE

-------------------------------------------------------------------------------
embed(b) ==
  /\ batch[b] = "unasked"
  /\ voyage' = Append(voyage, b)
  /\ batch' = [batch EXCEPT ![b] = IF voyage = <<>> THEN "waiting" ELSE "queued"]
  /\ UNCHANGED <<interval, successes, sinceStart, attempt, gap, hasty>>

embedWithRetry(b) ==
  /\ batch[b] = "waiting" /\ sinceStart >= interval
  /\ batch' = [batch EXCEPT ![b] = "asked"] /\ sinceStart' = 0 /\ gap' = 0
  /\ hasty' = (hasty \/ (attempt > 0 /\ gap < Throttled))
  /\ UNCHANGED <<voyage, interval, successes, attempt>>

\* The next in the queue begins whatever became of this one.
NextInQueue(b, s) ==
  /\ voyage' = Tail(voyage) /\ attempt' = 0
  /\ batch' = [x \in EmbedBatches |-> IF x = b THEN s
                                    ELSE IF Len(voyage) > 1 /\ x = voyage[2] THEN "waiting" ELSE batch[x]]

EmbedOk(b) ==
  /\ batch[b] = "asked" /\ NextInQueue(b, "done")
  /\ LET enough == interval > IntervalFloor /\ successes + 1 >= HalveAfter IN
       /\ interval' = IF enough THEN Max({IntervalFloor, interval \div 2}) ELSE interval
       /\ successes' = IF enough THEN 0 ELSE IF interval > IntervalFloor THEN successes + 1 ELSE successes
  /\ UNCHANGED <<sinceStart, gap, hasty>>

EmbedFails(b) ==
  /\ batch[b] = "asked" /\ NextInQueue(b, "failed")
  /\ UNCHANGED <<interval, successes, sinceStart, gap, hasty>>

\* 429: backs off for as long as the answer says, or as the table does.
Embed429(b) ==
  /\ batch[b] = "asked" /\ attempt < Retries
  /\ batch' = [batch EXCEPT ![b] = "refused"] /\ attempt' = attempt + 1
  /\ successes' = 0 /\ interval' = Max({interval, Throttled})
  /\ UNCHANGED <<voyage, sinceStart, gap, hasty>>

BackoffEnds(b) ==
  /\ batch[b] = "refused" /\ batch' = [batch EXCEPT ![b] = "waiting"]
  /\ UNCHANGED <<voyage, interval, successes, sinceStart, attempt, gap, hasty>>

VoyageTick ==
  /\ gap < Throttled /\ gap' = gap + 1
  /\ sinceStart' = IF sinceStart < Throttled THEN sinceStart + 1 ELSE sinceStart
  /\ UNCHANGED <<voyage, batch, interval, successes, attempt, hasty>>

VoyageNext ==
  \/ \E b \in EmbedBatches : embed(b) \/ embedWithRetry(b) \/ EmbedOk(b) \/ EmbedFails(b) \/ Embed429(b) \/ BackoffEnds(b)
  \/ VoyageTick

-------------------------------------------------------------------------------
VoyageTypeOK ==
  /\ batch \in [EmbedBatches -> {"unasked", "queued", "waiting", "asked", "refused", "done", "failed"}]
  /\ sinceStart \in 0..Throttled /\ attempt \in 0..Retries

\* A refused request is not repeated before the throttled interval is over, whatever the Retry-After of
\* the answer says (embedder.ts:184-208); the queue goes on after a batch that failed, and the interval stays
\* within its limits.
VoyagePatient ==
  /\ ~hasty
  /\ interval = 0 \/ interval \in IntervalFloor..Throttled
  /\ \A b \in EmbedBatches : batch[b] \in {"queued", "waiting", "asked", "refused"} <=> Contains(voyage, b)
  /\ voyage # <<>> => batch[Head(voyage)] # "queued"
  /\ \A i \in 2..Len(voyage) : batch[voyage[i]] = "queued"

VoyageInv == VoyageTypeOK /\ VoyagePatient
===============================================================================

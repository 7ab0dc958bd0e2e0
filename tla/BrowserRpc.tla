----------------------------- MODULE BrowserRpc -----------------------------
(***************************************************************************)
(* What a caller of the browser channel is promised (submitBatch of        *)
(* src/browser/channel.ts): a batch is executed at most once, the caller   *)
(* gets one answer, and a result only of the execution of its own batch.   *)
(* It is not promised that a batch without a result was not executed.      *)
(***************************************************************************)
EXTENDS Naturals

CONSTANT Batches

VARIABLES
  call,  \* per batch: "new", "open", "answered" with a result, or "failed"
  runs   \* per batch: how often the extension has executed it

rpcVars == <<call, runs>>

RpcInit ==
  /\ call = [b \in Batches |-> "new"]
  /\ runs = [b \in Batches |-> 0]

Open(b) ==
  /\ call[b] = "new"
  /\ call' = [call EXCEPT ![b] = "open"]
  /\ UNCHANGED runs

\* Also after the caller has given up.
Run(b) ==
  /\ call[b] # "new" /\ runs[b] = 0
  /\ runs' = [runs EXCEPT ![b] = 1]
  /\ UNCHANGED call

Answer(b) ==
  /\ call[b] = "open" /\ runs[b] = 1
  /\ call' = [call EXCEPT ![b] = "answered"]
  /\ UNCHANGED runs

\* Refused, perhaps at once, or timed out; or a dying server drops all calls.
Fail(S) ==
  /\ S # {} /\ \A b \in S : call[b] \in {"new", "open"}
  /\ call' = [b \in Batches |-> IF b \in S THEN "failed" ELSE call[b]]
  /\ UNCHANGED runs

RpcNext ==
  \/ \E b \in Batches : Open(b) \/ Run(b) \/ Answer(b)
  \/ \E S \in SUBSET Batches : Fail(S)

RpcSafe == RpcInit /\ [][RpcNext]_rpcVars

RpcSpec == RpcSafe /\ \A b \in Batches : WF_rpcVars(call[b] = "open" /\ (Answer(b) \/ Fail({b})))
=============================================================================

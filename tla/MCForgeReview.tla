---------------------------- MODULE MCForgeReview ----------------------------
(* What decides whether work lands (ForgePromote), what a review checks before it passes (Gate), what
   becomes of the sandboxes the work is in (Sandboxes) and what the operator is shown of a run (Console),
   each on an instance of its own: the first state chooses which of them acts, and the others stay as they
   are. *)
EXTENDS ForgePromote, TLC, Gate, Sandboxes, Console

\* The requests are interchangeable, the boot is not one of them; and so are the polls of a client.
Interchangeable == Permutations(Requests \ {Boot}) \cup Permutations(PollSlots)

VARIABLE acting   \* "promote", "gate", "sandboxes" or "console"

\* A source file, a document and a test, of which one or all changed.
SmallChanges ==
  {[s |-> "M", n |-> "A", t |-> "A"], [s |-> "M", n |-> "-", t |-> "A"], [s |-> "M", n |-> "A", t |-> "-"]}
LinesOfFiles == [s |-> 1, n |-> 2, t |-> 1]
TwoCitations == {[file |-> "n", start |-> 1, end |-> 2], [file |-> "s", start |-> 1, end |-> 2]}

\* Two tickets with a run each.
OneRunEach == <<"t1", "t2">>

ReviewInit ==
  /\ acting \in {"promote", "gate", "sandboxes", "console"} /\ Init /\ GateInit /\ SandInit /\ ConsoleInit

ReviewNext ==
  /\ UNCHANGED acting
  /\ \/ acting = "promote" /\ Next /\ UNCHANGED <<gateVars, sandVars, conVars>>
     \/ acting = "gate" /\ GateNext /\ UNCHANGED <<vars, sandVars, conVars>>
     \/ acting = "sandboxes" /\ SandNext /\ UNCHANGED <<vars, gateVars, conVars>>
     \/ acting = "console" /\ ConsoleNext /\ UNCHANGED <<vars, gateVars, sandVars>>

ReviewSpec == ReviewInit /\ [][ReviewNext]_<<acting, vars, gateVars, sandVars, conVars>>

\* What a reviewer goes by: the checks and probes of a change (Gate) and the output shown of a run (Console).
ReviewInv == GateInv /\ ConsoleInv
=============================================================================

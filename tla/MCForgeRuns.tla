---------------------------- MODULE MCForgeRuns ----------------------------
(* ForgeRuns for TLC. *)
EXTENDS ForgeRuns, TLC

CONSTANTS t1, t2, r1, r2, r3  \* tickets and requests

\* Every request is about the one ticket.
SameTicket == [r \in Runs |-> CHOOSE t \in Tickets : TRUE]

\* The requests about one ticket, except r3, which is about another.
TwoTickets == [r \in Runs |-> IF r = r3 THEN t2 ELSE t1]

Interchangeable == Permutations(Runs)
=============================================================================

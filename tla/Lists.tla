-------------------------------- MODULE Lists --------------------------------
(* What the code writes as a filter of an array.  SelectSeq takes an operator, about which no prover here
   can be told anything; this takes the set of what is kept. *)
EXTENDS Naturals, Sequences

\* The members of S in a sequence, in their order.
OnlyIn(s, S) ==
  LET kept[n \in 0..Len(s)] == IF n = 0 THEN <<>> ELSE IF s[n] \in S THEN Append(kept[n - 1], s[n]) ELSE kept[n - 1]
  IN kept[Len(s)]
=============================================================================

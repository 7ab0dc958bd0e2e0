------------------------------ MODULE ListProofs ------------------------------
(***************************************************************************)
(* What the other proofs use of numbers and of sequences: induction, over  *)
(* the set of the numbers for which something holds; functions defined by  *)
(* what they are at the number before; and what a filter of an array       *)
(* keeps, from where and in which order.                                   *)
(***************************************************************************)
EXTENDS Lists, SequencesExt, SequenceTheorems, FiniteSetTheorems, WellFoundedInduction, TLAPS

\* A nonempty set of naturals has a least element.
LEMMA LeastOf ==
  ASSUME NEW S, S \subseteq Nat, S # {}
  PROVE  \E m \in S : \A n \in S : m <= n
<1> DEFINE R == OpToRel(<, Nat)
<1>1. IsWellFoundedOn(R, Nat)
  BY NatLessThanWellFounded
<1>2. \E m \in S : \A n \in S : ~ (<<n, m>> \in R)
  <2> HIDE DEF R
  <2>1. QED
    BY <1>1, WFMin
<1>3. \A m, n \in Nat : m < n => <<m, n>> \in R
  BY DEF OpToRel
<1>4. PICK m \in S : \A n \in S : ~ (<<n, m>> \in R)
  BY <1>2
<1>5. ASSUME NEW n \in S PROVE m <= n
  <2> HIDE DEF R
  <2>1. m \in Nat /\ n \in Nat /\ ~(n < m)
    BY <1>3, <1>4
  <2>2. QED
    BY <2>1
<1>6. QED
  BY <1>5

\* Induction, over the set of the numbers for which it holds.
LEMMA UpFromZero ==
  ASSUME NEW N \in Nat, NEW S, 0 \in S, \A n \in 1..N : n - 1 \in S => n \in S
  PROVE  \A n \in 0..N : n \in S
<1> DEFINE out == {n \in 0..N : n \notin S}
<1>1. out \subseteq Nat
  OBVIOUS
<1>2. CASE out # {}
  <2>1. PICK m \in out : \A n \in out : m <= n
    <3> HIDE DEF out
    <3>1. QED
      BY <1>1, <1>2, LeastOf
  <2>2. m \in 0..N /\ m \notin S /\ m # 0
    OBVIOUS
  <2>3. m \in 1..N /\ m - 1 \in 0..N /\ ~(m <= m - 1)
    BY <2>2
  <2>4. m - 1 \in S
    BY <2>1, <2>3
  <2>5. QED
    BY <2>2, <2>3, <2>4
<1>3. QED
  BY <1>2

Walk(f, N, D, first, next) ==
  /\ f \in [0..N -> D] /\ f = [n \in 0..N |-> f[n]]
  /\ f[0] = first /\ \A n \in 1..N : f[n] = next[<<f[n - 1], n>>]

\* A function may be defined by what it is at the number before; the step is itself a function.
LEMMA WalkThere ==
  ASSUME NEW N \in Nat, NEW D, NEW first \in D, NEW next \in [D \X (1..N) -> D]
  PROVE  \E f : Walk(f, N, D, first, next)
<1> DEFINE Upto(f, m) == f \in [0..m -> D] /\ f[0] = first /\ \A n \in 1..m : f[n] = next[<<f[n - 1], n>>]
           good == {m \in 0..N : \E f : Upto(f, m)}
<1>1. 0 \in good
  <2> DEFINE f == [n \in 0..0 |-> first]
  <2>1. Upto(f, 0)
    OBVIOUS
  <2> HIDE DEF f, Upto
  <2>2. QED
    BY <2>1
<1>2. ASSUME NEW m \in 1..N, m - 1 \in good PROVE m \in good
  <2>1. PICK f : Upto(f, m - 1)
    BY <1>2
  <2>2. m - 1 \in 0..(m - 1) /\ f[m - 1] \in D /\ <<f[m - 1], m>> \in D \X (1..N)
    BY <2>1
  <2>3. next[<<f[m - 1], m>>] \in D
    BY <2>2
  <2> DEFINE g == [n \in 0..m |-> IF n = m THEN next[<<f[m - 1], m>>] ELSE f[n]]
  <2>4. \A n \in 0..m : n = m \/ n \in 0..(m - 1)
    OBVIOUS
  <2>5. g \in [0..m -> D]
    BY <2>1, <2>3, <2>4
  <2>6. g[m] = next[<<f[m - 1], m>>] /\ (\A n \in 0..(m - 1) : g[n] = f[n]) /\ m - 1 \in 0..(m - 1)
    OBVIOUS
  <2> HIDE DEF g
  <2>7. g[0] = first
    BY <2>1, <2>6
  <2>8. ASSUME NEW n \in 1..m PROVE g[n] = next[<<g[n - 1], n>>]
    <3>1. CASE n = m
      BY <3>1, <2>6
    <3>2. CASE n # m
      <4>1. n \in 1..(m - 1) /\ n \in 0..(m - 1) /\ n - 1 \in 0..(m - 1)
        BY <3>2
      <4>2. QED
        BY <4>1, <2>1, <2>6
    <3>3. QED
      BY <3>1, <3>2
  <2>9. Upto(g, m)
    BY <2>5, <2>7, <2>8
  <2> HIDE DEF Upto
  <2>10. QED
    BY <2>9
<1>3. N \in good
  <2> HIDE DEF good
  <2>1. QED
    BY <1>1, <1>2, UpFromZero
<1>4. PICK f : Upto(f, N)
  BY <1>3
<1>5. Walk(f, N, D, first, next)
  <2>1. f = [n \in 0..N |-> f[n]]
    BY <1>4
  <2>2. QED
    BY <1>4, <2>1 DEF Walk
<1>6. QED
  BY <1>5

\* What is kept of the first n of a sequence: where each comes from, in their order, and all of them.
From(out, s, n, S, T) ==
  /\ out \in Seq(T)
  /\ \E origin \in [1..Len(out) -> 1..n] :
       /\ \A i \in 1..Len(out) : out[i] = s[origin[i]] /\ out[i] \in S
       /\ \A i, j \in 1..Len(out) : i < j => origin[i] < origin[j]
       /\ \A k \in 1..n : s[k] \in S => \E i \in 1..Len(out) : origin[i] = k

LEMMA FromGrows ==
  ASSUME NEW T, NEW s \in Seq(T), NEW S, NEW n \in 1..Len(s), NEW out, From(out, s, n - 1, S, T)
  PROVE  From(IF s[n] \in S THEN Append(out, s[n]) ELSE out, s, n, S, T)
<1>1. out \in Seq(T) /\ Len(out) \in Nat /\ n \in Nat /\ n >= 1 /\ s[n] \in T
  BY DEF From
<1>2. PICK origin \in [1..Len(out) -> 1..(n - 1)] :
       /\ \A i \in 1..Len(out) : out[i] = s[origin[i]] /\ out[i] \in S
       /\ \A i, j \in 1..Len(out) : i < j => origin[i] < origin[j]
       /\ \A k \in 1..(n - 1) : s[k] \in S => \E i \in 1..Len(out) : origin[i] = k
  BY DEF From
<1>3. \A i \in 1..Len(out) : origin[i] \in 1..n /\ origin[i] < n
  BY <1>1
<1>4. \A k \in 1..n : k = n \/ k \in 1..(n - 1)
  BY <1>1
<1>5. CASE s[n] \notin S
  <2>1. origin \in [1..Len(out) -> 1..n]
    BY <1>3
  <2>2. \A k \in 1..n : s[k] \in S => \E i \in 1..Len(out) : origin[i] = k
    BY <1>2, <1>4, <1>5
  <2>3. From(out, s, n, S, T)
    BY <1>1, <1>2, <2>1, <2>2 DEF From
  <2>4. QED
    BY <2>3, <1>5
<1>6. CASE s[n] \in S
  <2> DEFINE more == Append(out, s[n])
             M == Len(out) + 1
             origins == [i \in 1..M |-> IF i = M THEN n ELSE origin[i]]
  <2>1. more \in Seq(T) /\ Len(more) = M /\ more[M] = s[n] /\ \A i \in 1..Len(out) : more[i] = out[i]
    BY <1>1
  <2>2. \A i \in 1..M : i = M \/ (i \in 1..Len(out) /\ i # M)
    BY <1>1
  <2>3. M \in 1..M /\ (\A i \in 1..Len(out) : i \in 1..M /\ i # M) /\ n \in 1..n
    BY <1>1
  <2>4. origins[M] = n /\ \A i \in 1..Len(out) : origins[i] = origin[i]
    BY <2>3
  <2>5. origins \in [1..M -> 1..n]
    BY <2>2, <2>3, <1>3
  <2> HIDE DEF more, M, origins
  <2>6. \A i \in 1..M : more[i] = s[origins[i]] /\ more[i] \in S
    BY <2>1, <2>2, <2>4, <1>2, <1>6
  <2>7. \A i, j \in 1..M : i < j => origins[i] < origins[j]
    <3> SUFFICES ASSUME NEW i \in 1..M, NEW j \in 1..M, i < j PROVE origins[i] < origins[j]
      OBVIOUS
    <3>1. i \in 1..Len(out)
      BY <1>1 DEF M
    <3>2. QED
      BY <3>1, <2>2, <2>4, <1>2, <1>3
  <2>8. \A k \in 1..n : s[k] \in S => \E i \in 1..M : origins[i] = k
    BY <1>2, <1>4, <2>3, <2>4
  <2>9. From(more, s, n, S, T)
    BY <2>1, <2>5, <2>6, <2>7, <2>8 DEF From
  <2>10. QED
    BY <2>9, <1>6 DEF more
<1>7. QED
  BY <1>5, <1>6

LEMMA OnlyInFrom ==
  ASSUME NEW T, NEW s \in Seq(T), NEW S
  PROVE  From(OnlyIn(s, S), s, Len(s), S, T)
<1> DEFINE N == Len(s)
           next == [x \in Seq(T) \X (1..N) |-> IF s[x[2]] \in S THEN Append(x[1], s[x[2]]) ELSE x[1]]
           Is(g) == g = [n \in 0..N |-> IF n = 0 THEN <<>> ELSE IF s[n] \in S THEN Append(g[n - 1], s[n]) ELSE g[n - 1]]
           kept == CHOOSE g : Is(g)
<1>1. N \in Nat /\ \A n \in 1..N : s[n] \in T
  OBVIOUS
<1>2. next \in [Seq(T) \X (1..N) -> Seq(T)]
  BY <1>1
<1>3. \A q \in Seq(T), n \in 1..N : next[<<q, n>>] = IF s[n] \in S THEN Append(q, s[n]) ELSE q
  OBVIOUS
<1>4. <<>> \in Seq(T)
  OBVIOUS
<1>5. PICK f : Walk(f, N, Seq(T), <<>>, next)
  <2> HIDE DEF next, N
  <2>1. QED
    BY <1>1, <1>2, <1>4, WalkThere
<1> HIDE DEF next
<1>6. Is(f)
  <2>1. \A n \in 1..N : n - 1 \in 0..N
    BY <1>1
  <2>2. \A n \in 1..N : f[n] = IF s[n] \in S THEN Append(f[n - 1], s[n]) ELSE f[n - 1]
    BY <1>3, <1>5, <2>1 DEF Walk
  <2>3. \A n \in 0..N : n = 0 \/ n \in 1..N
    BY <1>1
  <2>4. \A n \in 0..N : f[n] = IF n = 0 THEN <<>> ELSE IF s[n] \in S THEN Append(f[n - 1], s[n]) ELSE f[n - 1]
    BY <1>5, <2>2, <2>3 DEF Walk
  <2>5. f = [n \in 0..N |-> f[n]]
    BY <1>5 DEF Walk
  <2>6. QED
    BY <2>4, <2>5
<1>7. OnlyIn(s, S) = kept[N] /\ Is(kept)
  <2>1. OnlyIn(s, S) = kept[N]
    BY DEF OnlyIn
  <2> HIDE DEF Is
  <2>2. Is(kept)
    BY <1>6
  <2>3. QED
    BY <2>1, <2>2
<1>8. \A n \in 0..N : kept[n] = IF n = 0 THEN <<>> ELSE IF s[n] \in S THEN Append(kept[n - 1], s[n]) ELSE kept[n - 1]
  <2> HIDE DEF kept
  <2>1. QED
    BY <1>7
<1> HIDE DEF kept
<1> DEFINE G == {n \in 0..N : From(kept[n], s, n, S, T)}
<1>9. 0 \in G
  <2>1. 0 \in 0..N /\ kept[0] = <<>>
    BY <1>1, <1>8
  <2>2. From(<<>>, s, 0, S, T)
    <3>1. <<>> \in Seq(T) /\ Len(<<>>) = 0 /\ 1..0 = {}
      OBVIOUS
    <3>2. [i \in 1..0 |-> i] \in [1..0 -> 1..0]
      OBVIOUS
    <3>3. QED
      BY <3>1, <3>2 DEF From
  <2>3. QED
    BY <2>1, <2>2
<1>10. ASSUME NEW n \in 1..N, n - 1 \in G PROVE n \in G
  <2>1. n \in 0..N /\ n # 0
    BY <1>1
  <2>2. kept[n] = IF s[n] \in S THEN Append(kept[n - 1], s[n]) ELSE kept[n - 1]
    BY <1>8, <2>1
  <2>3. From(kept[n - 1], s, n - 1, S, T)
    BY <1>10
  <2>4. From(IF s[n] \in S THEN Append(kept[n - 1], s[n]) ELSE kept[n - 1], s, n, S, T)
    BY <2>3, FromGrows
  <2>5. QED
    BY <2>1, <2>2, <2>4
<1>11. N \in G
  <2> HIDE DEF G, N
  <2>1. \A n \in 0..N : n \in G
    BY <1>1, <1>9, <1>10, UpFromZero
  <2>2. QED
    BY <2>1, <1>1
<1>12. QED
  BY <1>7, <1>11


\* What is kept: a sequence of the same, whose members are those asked for.
LEMMA OnlyInKeeps ==
  ASSUME NEW T, NEW s \in Seq(T), NEW S
  PROVE  /\ OnlyIn(s, S) \in Seq(T) /\ ToSet(OnlyIn(s, S)) = ToSet(s) \cap S
         /\ OnlyIn(s, S) = <<>> <=> ToSet(s) \cap S = {}
         /\ OnlyIn(s, S) # <<>> => OnlyIn(s, S)[1] \in ToSet(s) \cap S
<1> PICK out : out = OnlyIn(s, S)
  OBVIOUS
<1>1. From(out, s, Len(s), S, T)
  BY OnlyInFrom
<1>2. out \in Seq(T) /\ Len(out) \in Nat /\ DOMAIN out = 1..Len(out) /\ DOMAIN s = 1..Len(s)
  BY <1>1 DEF From
<1>3. PICK origin \in [1..Len(out) -> 1..Len(s)] :
       /\ \A i \in 1..Len(out) : out[i] = s[origin[i]] /\ out[i] \in S
       /\ \A k \in 1..Len(s) : s[k] \in S => \E i \in 1..Len(out) : origin[i] = k
  BY <1>1 DEF From
<1>4. ToSet(out) = ToSet(s) \cap S
  <2>1. \A i \in DOMAIN out : out[i] \in S /\ origin[i] \in DOMAIN s /\ out[i] = s[origin[i]]
    BY <1>2, <1>3
  <2>2. ASSUME NEW k \in DOMAIN s, s[k] \in S PROVE \E i \in DOMAIN out : s[k] = out[i]
    <3>1. PICK i \in 1..Len(out) : origin[i] = k
      BY <1>2, <1>3, <2>2
    <3>2. i \in DOMAIN out /\ out[i] = s[k]
      BY <1>2, <1>3, <3>1
    <3>3. QED
      BY <3>2
  <2>3. QED
    BY <2>1, <2>2 DEF ToSet
<1>5. out # <<>> => 1 \in DOMAIN out
  BY <1>2
<1>6. out = <<>> => ToSet(out) = {}
  BY DEF ToSet
<1>7. out # <<>> => out[1] \in ToSet(out)
  BY <1>5 DEF ToSet
<1>8. QED
  BY <1>2, <1>4, <1>6, <1>7

\* Where no two of a sequence are the same in f, no two of what is kept are.
LEMMA OnlyInDistinct ==
  ASSUME NEW T, NEW s \in Seq(T), NEW S, NEW f, \A i, j \in DOMAIN s : f[s[i]] = f[s[j]] => i = j,
         NEW out, out = OnlyIn(s, S)
  PROVE  \A i, j \in DOMAIN out : f[out[i]] = f[out[j]] => i = j
<1>1. From(out, s, Len(s), S, T)
  BY OnlyInFrom
<1>2. out \in Seq(T) /\ Len(out) \in Nat /\ DOMAIN out = 1..Len(out) /\ DOMAIN s = 1..Len(s)
  BY <1>1 DEF From
<1>3. PICK origin \in [1..Len(out) -> 1..Len(s)] :
       /\ \A i \in 1..Len(out) : out[i] = s[origin[i]]
       /\ \A i, j \in 1..Len(out) : i < j => origin[i] < origin[j]
  BY <1>1 DEF From
<1>4. ASSUME NEW i \in 1..Len(out), NEW j \in 1..Len(out), f[out[i]] = f[out[j]] PROVE i = j
  <2>1. origin[i] = origin[j] /\ origin[i] \in Nat
    BY <1>2, <1>3, <1>4
  <2>2. ~(i < j) /\ ~(j < i)
    BY <2>1, <1>3
  <2>3. QED
    BY <2>2, <1>2
<1>5. QED
  BY <1>2, <1>4

\* One member only where one was kept.
LEMMA OnlyOne ==
  ASSUME NEW T, NEW s \in Seq(T), ~(Len(s) > 1), s # <<>>
  PROVE  ToSet(s) = {s[1]}
<1>1. Len(s) \in Nat /\ DOMAIN s = 1..Len(s) /\ Len(s) # 0
  OBVIOUS
<1>2. Len(s) = 1
  BY <1>1
<1>3. DOMAIN s = {1}
  BY <1>1, <1>2
<1>4. QED
  BY <1>3 DEF ToSet

\* The first of what is kept is the first there is to keep.
LEMMA OnlyInFirst ==
  ASSUME NEW T, NEW s \in Seq(T), NEW S, NEW out, out = OnlyIn(s, S), out # <<>>
  PROVE  \E k \in 1..Len(s) : out[1] = s[k] /\ s[k] \in S /\ \A j \in 1..(k - 1) : s[j] \notin S
<1>1. From(out, s, Len(s), S, T)
  BY OnlyInFrom
<1>2. out \in Seq(T) /\ Len(out) \in Nat /\ 1 \in 1..Len(out) /\ Len(s) \in Nat
  BY <1>1 DEF From
<1>3. PICK origin \in [1..Len(out) -> 1..Len(s)] :
       /\ \A i \in 1..Len(out) : out[i] = s[origin[i]] /\ out[i] \in S
       /\ \A i, j \in 1..Len(out) : i < j => origin[i] < origin[j]
       /\ \A k \in 1..Len(s) : s[k] \in S => \E i \in 1..Len(out) : origin[i] = k
  BY <1>1 DEF From
<1>4. PICK k \in 1..Len(s) : k = origin[1]
  BY <1>2, <1>3
<1>5. ASSUME NEW j \in 1..(k - 1), s[j] \in S PROVE FALSE
  <2>1. j \in 1..Len(s) /\ j < k
    BY <1>2
  <2>2. PICK i \in 1..Len(out) : origin[i] = j
    BY <1>3, <1>5, <2>1
  <2>3. i = 1 \/ 1 < i
    BY <1>2
  <2>4. QED
    BY <1>2, <1>3, <1>4, <2>1, <2>2, <2>3
<1>6. out[1] = s[k] /\ s[k] \in S
  BY <1>2, <1>3, <1>4
<1>7. QED
  BY <1>5, <1>6

\* As many are kept as there are places of something to keep.
LEMMA OnlyInCount ==
  ASSUME NEW T, NEW s \in Seq(T), NEW S, NEW out, out = OnlyIn(s, S)
  PROVE  Len(out) = Cardinality({k \in 1..Len(s) : s[k] \in S})
<1> DEFINE D == 1..Len(out)
           K == {k \in 1..Len(s) : s[k] \in S}
<1>1. From(out, s, Len(s), S, T)
  BY OnlyInFrom
<1>2. Len(out) \in Nat /\ Len(s) \in Nat
  BY <1>1 DEF From
<1>3. PICK origin \in [1..Len(out) -> 1..Len(s)] :
       /\ \A i \in 1..Len(out) : out[i] = s[origin[i]] /\ out[i] \in S
       /\ \A i, j \in 1..Len(out) : i < j => origin[i] < origin[j]
       /\ \A k \in 1..Len(s) : s[k] \in S => \E i \in 1..Len(out) : origin[i] = k
  BY <1>1 DEF From
<1>4. \A i \in D : origin[i] \in K
  BY <1>3
<1>5. \A k \in K : \E i \in D : origin[i] = k
  BY <1>3
<1>6. \A i, j \in D : origin[i] = origin[j] => i = j
  <2>1. \A i, j \in D : i < j \/ j < i \/ i = j
    BY <1>2
  <2>2. \A i \in D : origin[i] \in Int
    BY <1>2, <1>3
  <2>3. QED
    BY <1>3, <2>1, <2>2
<1>7. DOMAIN origin = D /\ origin = [i \in D |-> origin[i]]
  BY <1>3
<1> HIDE DEF K
<1>8. origin \in Surjection(D, K) /\ origin \in Injection(D, K)
  <2>1. origin \in [D -> K]
    BY <1>4, <1>7
  <2> HIDE DEF D
  <2>2. QED
    BY <1>5, <1>6, <1>7, <2>1 DEF Surjection, Injection, IsInjective
<1>9. IsFiniteSet(D) /\ Cardinality(D) = Len(out)
  <2>1. 1 \in Int /\ Len(out) \in Int
    BY <1>2
  <2>2. IsFiniteSet(1..Len(out)) /\ Cardinality(1..Len(out)) = IF 1 > Len(out) THEN 0 ELSE Len(out) - 1 + 1
    BY <2>1, FS_Interval
  <2>3. QED
    BY <1>2, <2>2
<1>10. Cardinality(K) = Cardinality(D)
  <2> HIDE DEF D
  <2>1. QED
    BY <1>8, <1>9, FS_Surjection
<1>11. QED
  BY <1>9, <1>10 DEF K

\* An order-preserving map onto 1..k moves nothing.
OrderOnto(f, m, k) ==
  /\ f \in [1..m -> 1..k]
  /\ \A i, j \in 1..m : i < j => f[i] < f[j]
  /\ \A p \in 1..k : \E i \in 1..m : f[i] = p

LEMMA InOrder ==
  ASSUME NEW m \in Nat, NEW k \in Nat, NEW f, OrderOnto(f, m, k)
  PROVE  m = k /\ \A i \in 1..m : f[i] = i
<1> USE DEF OrderOnto
<1> DEFINE S == {n \in 0..m : \A i \in 1..n : f[i] = i}
<1>1. 0 \in S
  OBVIOUS
<1>2. ASSUME NEW n \in 1..m, n - 1 \in S PROVE n \in S
  <2>1. \A i \in 1..(n - 1) : f[i] = i /\ i \in 1..m
    BY <1>2
  <2>2. n >= 1 /\ f[n] \in 1..k /\ n \in 1..m
    OBVIOUS
  <2>3. f[n] >= n
    <3>1. CASE n = 1
      BY <3>1, <2>2
    <3>2. CASE n # 1
      <4>1. n - 1 \in 1..(n - 1) /\ n - 1 \in 1..m /\ n - 1 < n
        BY <3>2
      <4>2. f[n - 1] = n - 1 /\ f[n - 1] < f[n]
        BY <4>1, <2>1
      <4>3. QED
        BY <4>2, <2>2
    <3>3. QED
      BY <3>1, <3>2
  <2>4. ~(f[n] > n)
    <3> SUFFICES ASSUME f[n] > n PROVE FALSE
      BY <2>2
    <3>1. n \in 1..k
      BY <2>2
    <3>2. PICK i \in 1..m : f[i] = n
      BY <3>1
    <3>3. ~(i < n)
      <4> SUFFICES ASSUME i < n PROVE FALSE
        OBVIOUS
      <4>1. i \in 1..(n - 1)
        OBVIOUS
      <4>2. QED
        BY <4>1, <2>1, <3>2
    <3>4. i # n
      BY <3>2
    <3>5. n < i
      BY <3>3, <3>4
    <3>6. f[n] < f[i]
      BY <3>5
    <3>7. QED
      BY <3>2, <3>6, <2>2
  <2>5. f[n] = n
    BY <2>2, <2>3, <2>4
  <2>6. \A i \in 1..n : i = n \/ i \in 1..(n - 1)
    OBVIOUS
  <2>7. QED
    BY <2>1, <2>5, <2>6
<1>3. \A n \in 0..m : n \in S
  <2> HIDE DEF S
  <2>1. QED
    BY <1>1, <1>2, UpFromZero
<1>4. \A i \in 1..m : f[i] = i
  <2>1. m \in 0..m
    OBVIOUS
  <2>2. QED
    BY <1>3, <2>1
<1>5. m <= k
  <2>1. m = 0 \/ m \in 1..m
    OBVIOUS
  <2>2. QED
    BY <1>4, <2>1
<1>6. k <= m
  <2>1. k = 0 \/ k \in 1..k
    OBVIOUS
  <2>2. ASSUME k \in 1..k PROVE k <= m
    <3>1. PICK i \in 1..m : f[i] = k
      BY <2>2
    <3>2. QED
      BY <1>4, <3>1
  <2>3. QED
    BY <2>1, <2>2
<1>7. QED
  BY <1>4, <1>5, <1>6

\* Of the numbers 1..n those in S, in their order.
ListOf(out, n, S) ==
  /\ out \in Seq(1..n) /\ \A i \in 1..Len(out) : out[i] \in S
  /\ \A i, j \in 1..Len(out) : i < j => out[i] < out[j]
  /\ \A k \in S : \E i \in 1..Len(out) : out[i] = k

LEMMA Chosen ==
  ASSUME NEW n \in Nat, NEW S, S \subseteq 1..n
  PROVE  ListOf(OnlyIn([i \in 1..n |-> i], S), n, S)
<1> DEFINE s == [i \in 1..n |-> i]
<1>1. s \in Seq(1..n) /\ Len(s) = n /\ \A i \in 1..n : s[i] = i
  OBVIOUS
<1>2. PICK out : out = OnlyIn(s, S)
  OBVIOUS
<1> HIDE DEF s
<1>3. From(out, s, n, S, 1..n)
  BY <1>1, <1>2, OnlyInFrom
<1>4. out \in Seq(1..n)
  BY <1>3 DEF From
<1>5. PICK origin \in [1..Len(out) -> 1..n] :
       /\ \A i \in 1..Len(out) : out[i] = s[origin[i]] /\ out[i] \in S
       /\ \A i, j \in 1..Len(out) : i < j => origin[i] < origin[j]
       /\ \A k \in 1..n : s[k] \in S => \E i \in 1..Len(out) : origin[i] = k
  BY <1>3 DEF From
<1>6. \A i \in 1..Len(out) : out[i] = origin[i]
  BY <1>1, <1>5
<1>7. \A k \in S : k \in 1..n /\ s[k] \in S
  BY <1>1
<1>8. \A k \in S : \E i \in 1..Len(out) : out[i] = k
  BY <1>5, <1>6, <1>7
<1>9. out = OnlyIn([i \in 1..n |-> i], S)
  BY <1>2 DEF s
<1>10. \A i, j \in 1..Len(out) : i < j => out[i] < out[j]
  BY <1>5, <1>6
<1>11. QED
  BY <1>4, <1>5, <1>8, <1>9, <1>10 DEF ListOf
=============================================================================

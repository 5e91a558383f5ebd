------------------------------ MODULE Induction ------------------------------
(* Induction over the natural numbers and the loops a recursive function     *)
(* stands for, in a first-order form: what is to be shown is put in a set    *)
(* rather than an operator.  Then what follows from it about sets of numbers *)
(* and about sequences that are joined or dealt out part by part.            *)
EXTENDS Naturals, SequencesExt, SequenceTheorems, FunctionTheorems, FiniteSetTheorems,
        WellFoundedInduction, TLAPS

(* A set that holds 0 and each successor holds every natural number: what   *)
(* is proved by induction below is proved of the set of good numbers.       *)
LEMMA SetInduction ==
    ASSUME NEW T, 0 \in T, \A n \in Nat : n \in T => n + 1 \in T
    PROVE  \A n \in Nat : n \in T
<1>. DEFINE Less == OpToRel(<, Nat)
            U == {n \in Nat : n \notin T}
<1>1. ASSUME U # {} PROVE \E m \in U : \A y \in U : ~(<<y, m>> \in Less)
    BY <1>1, NatLessThanWellFounded, WFMin
<1>2. ASSUME NEW m \in U, \A y \in U : ~(<<y, m>> \in Less) PROVE FALSE
  <2>1. m \in Nat /\ m # 0 /\ m \notin T
      OBVIOUS
  <2>2. m - 1 \in Nat /\ <<m - 1, m>> \in Less
      BY <2>1 DEF OpToRel
  <2>3. m - 1 \notin U
      BY <1>2, <2>2
  <2>4. m - 1 \in T
      BY <2>2, <2>3
  <2>5. (m - 1) + 1 \in T
      BY <2>2, <2>4
  <2>6. (m - 1) + 1 = m
      BY <2>1
  <2>. QED BY <2>1, <2>5, <2>6
<1>. QED BY <1>1, <1>2

(* f starts from b and takes step k with F[k]. *)
Iterates(f, F, b, N) == f[0] = b /\ \A k \in 1..N : f[k] = F[k][f[k - 1]]

(* A loop over 1..N has a run. *)
LEMMA FiniteRecursion ==
    ASSUME NEW S, NEW b \in S, NEW N \in Nat, NEW F \in [1..N -> [S -> S]]
    PROVE  \E f \in [0..N -> S] : Iterates(f, F, b, N)
<1>. USE DEF Iterates
<1>. DEFINE T == {n \in Nat : n <= N => \E f \in [0..n -> S] : Iterates(f, F, b, n)}
<1>1. 0 \in T
  <2>. DEFINE g == [k \in 0..0 |-> b]
  <2>1. g \in [0..0 -> S] /\ g[0] = b
    OBVIOUS
  <2>2. 1..0 = {}
    OBVIOUS
  <2>. HIDE DEF g
  <2>. QED BY <2>1, <2>2
<1>2. ASSUME NEW n \in Nat, n \in T PROVE n + 1 \in T
  <2>. SUFFICES ASSUME n + 1 <= N
                PROVE  \E f \in [0..(n+1) -> S] : f[0] = b /\ \A k \in 1..(n+1) : f[k] = F[k][f[k - 1]]
    OBVIOUS
  <2>1. PICK f \in [0..n -> S] : f[0] = b /\ \A k \in 1..n : f[k] = F[k][f[k - 1]]
    BY <1>2
  <2>. DEFINE g == [k \in 0..(n+1) |-> IF k = n + 1 THEN F[n + 1][f[n]] ELSE f[k]]
  <2>2. F[n + 1][f[n]] \in S
    BY <2>1
  <2>3. g \in [0..(n+1) -> S]
    BY <2>1, <2>2
  <2>4. g[0] = b
    BY <2>1
  <2>5. ASSUME NEW k \in 1..(n + 1) PROVE g[k] = F[k][g[k - 1]]
    <3>1. CASE k = n + 1
      BY <3>1, <2>1
    <3>2. CASE k \in 1..n
      BY <3>2, <2>1
    <3>. QED BY <3>1, <3>2
  <2>. QED BY <2>3, <2>4, <2>5
<1>. HIDE DEF T
<1>3. N \in T
  BY <1>1, <1>2, SetInduction
<1>. QED BY <1>3 DEF T

(* Among the numbers that are in a set there is a least. *)
LEMMA LeastOf ==
    ASSUME NEW T \in SUBSET Nat, NEW n \in T
    PROVE  \E m \in T : \A k \in T : m <= k
<1>. DEFINE Q == {k \in Nat : (\E j \in T : j <= k) => \E m \in T : \A i \in T : m <= i}
<1>1. 0 \in Q
  <2>1. \A j \in T : j <= 0 => \A i \in T : j <= i
      OBVIOUS
  <2>. QED BY <2>1
<1>2. ASSUME NEW k \in Nat, k \in Q PROVE k + 1 \in Q
  <2>. SUFFICES ASSUME NEW j \in T, j <= k + 1, ~\E i \in T : i <= k
                PROVE  \E m \in T : \A i \in T : m <= i
      BY <1>2
  <2>1. \A i \in T : i >= k + 1
      OBVIOUS
  <2>2. \A i \in T : j <= i
      BY <2>1
  <2>. QED BY <2>2
<1>. HIDE DEF Q
<1>3. n \in Q
    BY <1>1, <1>2, SetInduction
<1>4. n <= n /\ n \in Nat
    OBVIOUS
<1>. QED BY <1>3, <1>4 DEF Q

(* ---- Sets of numbers ----------------------------------------------------- *)

(* The members of a set of numbers up to one of them. *)
Upto(A, t) == {j \in A : j <= t}

(* They are counted one by one. *)
LEMMA CountUp ==
    ASSUME NEW n \in Nat, NEW A \in SUBSET (1..n)
    PROVE  /\ Cardinality(Upto(A, 0)) = 0 /\ Upto(A, n) = A
           /\ \A t \in Nat : Cardinality(Upto(A, t)) \in Nat
           /\ \A t \in Nat : Cardinality(Upto(A, t + 1))
                               = Cardinality(Upto(A, t)) + (IF t + 1 \in A THEN 1 ELSE 0)
<1>1. IsFiniteSet(A) /\ \A j \in A : j \in 1..n
  <2>1. IsFiniteSet(1..n)
      BY FS_Interval
  <2>. QED BY <2>1, FS_Subset
<1>2. ASSUME NEW t \in Nat PROVE IsFiniteSet(Upto(A, t))
  <2>1. Upto(A, t) \in SUBSET A
      BY DEF Upto
  <2>. QED BY <1>1, <2>1, FS_Subset
<1>3. \A t \in Nat : Cardinality(Upto(A, t)) \in Nat
    BY <1>2, FS_CardinalityType
<1>4. Cardinality(Upto(A, 0)) = 0
  <2>1. ASSUME NEW j \in Upto(A, 0) PROVE FALSE
    <3>1. j \in A /\ j <= 0
        BY DEF Upto
    <3>2. j \in 1..n
        BY <1>1, <3>1
    <3>. QED BY <3>1, <3>2
  <2>2. Upto(A, 0) = {}
      BY <2>1
  <2>. QED BY <2>2, FS_EmptySet
<1>5. ASSUME NEW t \in Nat
      PROVE  Cardinality(Upto(A, t + 1)) = Cardinality(Upto(A, t)) + (IF t + 1 \in A THEN 1 ELSE 0)
  <2>1. CASE t + 1 \in A
    <3>1. Upto(A, t + 1) = Upto(A, t) \cup {t + 1}
      <4>1. ASSUME NEW j \in A PROVE j <= t + 1 <=> j <= t \/ j = t + 1
          BY <1>1
      <4>. QED BY <2>1, <4>1 DEF Upto
    <3>2. t + 1 \notin Upto(A, t)
        BY DEF Upto
    <3>3. Cardinality(Upto(A, t) \cup {t + 1}) = Cardinality(Upto(A, t)) + 1
        BY <1>2, <3>2, FS_AddElement
    <3>. QED BY <2>1, <3>1, <3>3
  <2>2. CASE t + 1 \notin A
    <3>1. Upto(A, t + 1) = Upto(A, t)
      <4>1. ASSUME NEW j \in A PROVE j <= t + 1 <=> j <= t
        <5>1. j \in 1..n /\ j # t + 1
            BY <1>1, <2>2
        <5>. QED BY <5>1
      <4>. QED BY <4>1 DEF Upto
    <3>2. Cardinality(Upto(A, t)) \in Nat
        BY <1>3
    <3>. QED BY <2>2, <3>1, <3>2
  <2>. QED BY <2>1, <2>2
<1>6. Upto(A, n) = A
  <2>1. \A j \in A : j <= n
      BY <1>1
  <2>. QED BY <2>1 DEF Upto
<1>. QED BY <1>3, <1>4, <1>5, <1>6

(* Every rank up to the size of a set of numbers is taken. *)
LEMMA RankTaken ==
    ASSUME NEW n \in Nat, NEW A \in SUBSET (1..n), NEW k \in 1..Cardinality(A)
    PROVE  \E i \in A : Cardinality(Upto(A, i)) = k
<1>. DEFINE C(t) == Cardinality(Upto(A, t))
            T == {t \in Nat : C(t) < k \/ \E i \in A : C(i) = k}
<1>1. C(0) = 0 /\ C(n) = Cardinality(A) /\ Cardinality(A) \in Nat
    BY CountUp
<1>2. \A t \in Nat : C(t) \in Nat /\ C(t + 1) = C(t) + (IF t + 1 \in A THEN 1 ELSE 0)
    BY CountUp
<1>. HIDE DEF C
<1>3. 0 \in T
    BY <1>1
<1>4. ASSUME NEW t \in Nat, t \in T PROVE t + 1 \in T
  <2>1. CASE C(t) < k /\ t + 1 \in A
      BY <1>1, <1>2, <2>1
  <2>2. CASE C(t) < k /\ t + 1 \notin A
      BY <1>1, <1>2, <2>2
  <2>. QED BY <1>4, <2>1, <2>2
<1>. HIDE DEF T
<1>5. \A t \in Nat : t \in T
    BY <1>3, <1>4, SetInduction
<1>6. n \in T
    BY <1>5
<1>. QED BY <1>1, <1>6 DEF T, C

(* ---- Two sequences joined ------------------------------------------------ *)

(* The end of a concatenation, and its parts by position. *)
LEMMA Joined ==
    ASSUME NEW S, NEW a \in Seq(S), NEW b \in Seq(S)
    PROVE  /\ a \o b \in Seq(S) /\ Len(a \o b) = Len(a) + Len(b)
           /\ Len(a) \in Nat /\ Len(b) \in Nat
           /\ \A i \in 1..Len(a) : (a \o b)[i] = a[i]
           /\ \A i \in 1..Len(b) : (a \o b)[Len(a) + i] = b[i]
           /\ b = <<>> => a \o b = a
<1>1. /\ a \o b \in Seq(S) /\ Len(a \o b) = Len(a) + Len(b)
      /\ \A i \in 1..Len(a) + Len(b) : (a \o b)[i] = IF i <= Len(a) THEN a[i] ELSE b[i - Len(a)]
    BY ConcatProperties
<1>2. Len(a) \in Nat /\ Len(b) \in Nat
    OBVIOUS
<1>3. \A i \in 1..Len(a) : i \in 1..Len(a) + Len(b) /\ i <= Len(a)
    BY <1>2
<1>4. \A i \in 1..Len(b) : /\ Len(a) + i \in 1..Len(a) + Len(b) /\ ~(Len(a) + i <= Len(a))
                           /\ (Len(a) + i) - Len(a) = i
    BY <1>2
<1>5. b = <<>> => a \o b = a
    BY ConcatEmptySeq
<1>. DEFINE c == a \o b
<1>. HIDE DEF c
<1>6. \A i \in 1..Len(a) + Len(b) : c[i] = IF i <= Len(a) THEN a[i] ELSE b[i - Len(a)]
    BY <1>1 DEF c
<1>7. \A i \in 1..Len(b) : c[Len(a) + i] = b[i]
    BY <1>4, <1>6
<1>8. \A i \in 1..Len(a) : c[i] = a[i]
    BY <1>3, <1>6
<1>. QED BY <1>1, <1>2, <1>5, <1>7, <1>8 DEF c

(* A joined sequence, as its two parts. *)
Splice(w, a, b) ==
    /\ Len(w) = Len(a) + Len(b) /\ Len(a) \in Nat /\ Len(b) \in Nat
    /\ \A i \in 1..Len(a) : w[i] = a[i]
    /\ \A i \in 1..Len(b) : w[Len(a) + i] = b[i]
    /\ b = <<>> => w = a

(* Joining two sequences makes one. *)
LEMMA Spliced ==
    ASSUME NEW S, NEW a \in Seq(S), NEW b \in Seq(S), NEW w, w = a \o b
    PROVE  w \in Seq(S) /\ Splice(w, a, b)
BY Joined DEF Splice

(* What is left of a path once its front is taken off. *)
LEMMA RestOfPath ==
    ASSUME NEW S, NEW r \in Seq(S), NEW W \in Seq(S)
    PROVE  SubSeq(r \o W, Len(r) + 1, Len(r \o W)) = W
<1>. DEFINE F == r \o W
            s == SubSeq(F, Len(r) + 1, Len(F))
<1>1. /\ F \in Seq(S) /\ Len(F) = Len(r) + Len(W) /\ Len(r) \in Nat /\ Len(W) \in Nat
      /\ \A i \in 1..Len(W) : F[Len(r) + i] = W[i]
    BY Joined
<1>. HIDE DEF F
<1>2. \A i \in Len(r) + 1..Len(F) : F[i] \in S
    BY <1>1
<1>3. /\ s \in Seq(S)
      /\ Len(s) = IF Len(r) + 1 <= Len(F) THEN Len(F) - (Len(r) + 1) + 1 ELSE 0
      /\ \A i \in 1..Len(F) - (Len(r) + 1) + 1 : s[i] = F[(Len(r) + 1) + i - 1]
  <2>1. Len(r) + 1 \in Int /\ Len(F) \in Int
      BY <1>1
  <2>. QED BY <1>2, <2>1, SubSeqProperties
<1>. HIDE DEF s
<1>4. Len(s) = Len(W)
    BY <1>1, <1>3
<1>5. ASSUME NEW i \in 1..Len(W) PROVE s[i] = W[i]
  <2>1. (Len(r) + 1) + i - 1 = Len(r) + i /\ i \in 1..Len(F) - (Len(r) + 1) + 1
      BY <1>1
  <2>. QED BY <1>1, <1>3, <2>1
<1>6. s = W
    BY <1>3, <1>4, <1>5, SeqEqual
<1>. QED BY <1>6 DEF s, F

(* A sequence that is not empty and no longer than one. *)
LEMMA OneWord ==
    ASSUME NEW S, NEW v \in Seq(S), Len(v) <= 1, v # <<>>
    PROVE  Len(v) = 1 /\ v[1] \in S /\ v = <<v[1]>>
<1>1. Len(v) = 1 /\ v[1] \in S
  <2>1. Len(v) \in Nat /\ DOMAIN v = 1..Len(v) /\ \A i \in 1..Len(v) : v[i] \in S
      OBVIOUS
  <2>2. Len(v) # 0
      BY EmptySeq
  <2>3. Len(v) = 1
      BY <2>1, <2>2
  <2>. QED BY <2>1, <2>3
<1>2. <<v[1]>> \in Seq(S) /\ Len(<<v[1]>>) = 1 /\ <<v[1]>>[1] = v[1]
    BY <1>1
<1>. DEFINE o == <<v[1]>>
<1>3. o \in Seq(S) /\ Len(o) = 1 /\ o[1] = v[1]
    BY <1>2
<1>. HIDE DEF o
<1>4. \A i \in 1..Len(v) : v[i] = o[i]
    BY <1>1, <1>3
<1>5. v = o
    BY <1>1, <1>3, <1>4, SeqEqual
<1>. QED BY <1>1, <1>5 DEF o

(* ---- A sequence of sequences joined -------------------------------------- *)

(* What FlattenSeq holds after each part, and the function it defines. *)
Runs(seqs, g) == g[0] = <<>> /\ \A k \in 1..Len(seqs) : g[k] = g[k - 1] \o seqs[k]
Flattened(seqs, f) ==
    f = [i \in 1..Len(seqs) |-> IF i = 1 THEN seqs[i] ELSE f[i - 1] \o seqs[i]]

(* The recursive function of FlattenSeq takes the values of such a run. *)
LEMMA FlattenRuns ==
    ASSUME NEW S, NEW seqs \in Seq(Seq(S)), seqs # <<>>
    PROVE  \E g \in [0..Len(seqs) -> Seq(S)] : Runs(seqs, g) /\ FlattenSeq(seqs) = g[Len(seqs)]
<1>. DEFINE N == Len(seqs)
            I == Seq(S)
            F == [k \in 1..N |-> [s \in I |-> s \o seqs[k]]]
            b == <<>>
<1>1. N \in Nat /\ N # 0 /\ b \in I /\ (\A k \in 1..N : seqs[k] \in I) /\ DOMAIN seqs = 1..N
    OBVIOUS
<1>2. \A k \in 1..N : \A s \in I : s \o seqs[k] \in I
    BY <1>1
<1>3. b \o seqs[1] = seqs[1]
    BY <1>1, ConcatEmptySeq
<1>4. PICK g \in [0..N -> I] : Iterates(g, F, b, N)
  <2>1. F \in [1..N -> [I -> I]]
      BY <1>2
  <2>. HIDE DEF F, N, I, b
  <2>. QED BY <1>1, <2>1, FiniteRecursion
<1>5. \A k \in 1..N : g[k] = g[k - 1] \o seqs[k]
  <2>. SUFFICES ASSUME NEW k \in 1..N PROVE g[k] = g[k - 1] \o seqs[k]
      OBVIOUS
  <2>1. k - 1 \in 0..N
      BY <1>1
  <2>3. g[k - 1] \in I
      BY <2>1
  <2>2. g[k] = F[k][g[k - 1]]
      BY <1>4 DEF Iterates
  <2>. QED BY <2>3, <2>2
<1>. DEFINE h == [k \in 1..N |-> g[k]]
<1>6. h \in [1..N -> I]
    BY <1>1
<1>7. h[1] = seqs[1]
  <2>1. g[0] = b /\ 1 \in 1..N /\ 1 - 1 = 0
      BY <1>1, <1>4 DEF Iterates
  <2>. HIDE DEF b
  <2>. QED BY <1>3, <1>5, <2>1
<1>8. \A k \in 1..N : h[k] = IF k = 1 THEN seqs[k] ELSE h[k - 1] \o seqs[k]
  <2>. SUFFICES ASSUME NEW k \in 1..N, k # 1 PROVE h[k] = h[k - 1] \o seqs[k]
      BY <1>7
  <2>1. k - 1 \in 1..N
      BY <1>1
  <2>. QED BY <1>5, <2>1
<1>18. Runs(seqs, g)
    BY <1>4, <1>5 DEF Runs, Iterates
<1>19. h[N] = g[N]
    BY <1>1
<1>. HIDE DEF h, b, I
<1>9. h = [i \in 1..Len(seqs) |-> IF i = 1 THEN seqs[i] ELSE h[i - 1] \o seqs[i]]
    BY <1>6, <1>8
<1>. DEFINE L == CHOOSE f : Flattened(seqs, f)
<1>10. Flattened(seqs, L)
    BY <1>9 DEF Flattened
<1>11. FlattenSeq(seqs) = L[N]
    BY <1>1 DEF FlattenSeq, Flattened
<1>. HIDE DEF L
<1>12. \A k \in 1..N : L[k] = IF k = 1 THEN seqs[k] ELSE L[k - 1] \o seqs[k]
    BY <1>10 DEF Flattened
<1>. DEFINE T == {k \in Nat : k + 1 \in 1..N => L[k + 1] = h[k + 1]}
<1>13. 0 \in T
    BY <1>1, <1>8, <1>12
<1>14. ASSUME NEW k \in Nat, k \in T PROVE k + 1 \in T
  <2>. SUFFICES ASSUME (k + 1) + 1 \in 1..N PROVE L[(k + 1) + 1] = h[(k + 1) + 1]
      OBVIOUS
  <2>1. k + 1 \in 1..N /\ (k + 1) + 1 # 1 /\ ((k + 1) + 1) - 1 = k + 1
      BY <1>1
  <2>2. L[k + 1] = h[k + 1]
      BY <1>14, <2>1
  <2>. QED BY <2>1, <2>2, <1>8, <1>12
<1>. HIDE DEF T
<1>15. \A k \in Nat : k \in T
    BY <1>13, <1>14, SetInduction
<1>16. N - 1 \in T /\ (N - 1) + 1 = N /\ N \in 1..N
    BY <1>1, <1>15
<1>17. L[N] = h[N]
    BY <1>16 DEF T
<1>. QED BY <1>4, <1>11, <1>17, <1>18, <1>19 DEF I

(* The same for any sequence of sequences, the empty one too. *)
LEMMA FlattenRun ==
    ASSUME NEW S, NEW seqs \in Seq(Seq(S))
    PROVE  \E g \in [0..Len(seqs) -> Seq(S)] : Runs(seqs, g) /\ FlattenSeq(seqs) = g[Len(seqs)]
<1>1. CASE seqs = <<>>
  <2>. DEFINE g == [k \in 0..0 |-> <<>>]
  <2>1. g \in [0..Len(seqs) -> Seq(S)] /\ g[0] = <<>> /\ Len(seqs) = 0
      BY <1>1
  <2>2. FlattenSeq(seqs) = <<>>
      BY <1>1 DEF FlattenSeq
  <2>3. 1..0 = {}
      OBVIOUS
  <2>. HIDE DEF g
  <2>4. Runs(seqs, g)
      BY <2>1, <2>3 DEF Runs
  <2>. QED BY <2>1, <2>2, <2>4
<1>. QED BY <1>1, FlattenRuns

(* Flattening sequences over a set gives a sequence over it. *)
LEMMA FlattenType ==
    ASSUME NEW S, NEW seqs \in Seq(Seq(S))
    PROVE  FlattenSeq(seqs) \in Seq(S)
<1>1. PICK g \in [0..Len(seqs) -> Seq(S)] : FlattenSeq(seqs) = g[Len(seqs)]
    BY FlattenRun
<1>2. Len(seqs) \in 0..Len(seqs)
    OBVIOUS
<1>. QED BY <1>1, <1>2

(* A list of lists of one word each is the list of those words. *)
LEMMA Singles ==
    ASSUME NEW S, NEW v \in Seq(S), NEW seqs \in Seq(Seq(S)), Len(seqs) = Len(v),
           \A i \in 1..Len(v) : seqs[i] = <<v[i]>>
    PROVE  FlattenSeq(seqs) = v
<1>. DEFINE N == Len(v)
            Q == Seq(S)
<1>1. N \in Nat /\ \A i \in 1..N : v[i] \in S
    OBVIOUS
<1>2. PICK g \in [0..Len(seqs) -> Seq(S)] : Runs(seqs, g) /\ FlattenSeq(seqs) = g[Len(seqs)]
    BY FlattenRun
<1>3. g \in [0..N -> Q] /\ Runs(seqs, g) /\ FlattenSeq(seqs) = g[N] /\ Len(seqs) = N
    BY <1>2
<1>4. \A t \in 0..N : g[t] \in Q
  <2>. HIDE DEF N, Q
  <2>. QED BY <1>3
<1>. DEFINE P(t) == Len(g[t]) = t /\ \A i \in 1..t : g[t][i] = v[i]
            T == {t \in Nat : t <= N => P(t)}
<1>5. 0 \in T
    BY <1>3 DEF Runs
<1>6. ASSUME NEW t \in Nat, t \in T PROVE t + 1 \in T
  <2>. SUFFICES ASSUME t + 1 <= N PROVE P(t + 1)
      OBVIOUS
  <2>1. t + 1 \in 1..N /\ t \in 0..N /\ (t + 1) - 1 = t /\ t <= N
      BY <1>1
  <2>2. P(t)
      BY <1>6, <2>1
  <2>. DEFINE x == v[t + 1]
              a == g[t]
              e == g[t + 1]
  <2>3. x \in S /\ a \in Seq(S) /\ e = a \o <<x>>
      BY <1>1, <1>3, <1>4, <2>1 DEF Runs
  <2>4. Len(a) = t /\ \A i \in 1..t : a[i] = v[i]
      BY <2>2
  <2>. HIDE DEF a, e, x
  <2>5. <<x>> \in Seq(S) /\ Len(<<x>>) = 1 /\ <<x>>[1] = x
      BY <2>3
  <2>6. Len(e) = t + 1 /\ (\A i \in 1..t : e[i] = a[i]) /\ e[t + 1] = x
    <3>. DEFINE o == <<x>>
    <3>1. o \in Seq(S) /\ Len(o) = 1 /\ o[1] = x /\ e = a \o o
        BY <2>3, <2>5
    <3>. HIDE DEF o
    <3>2. /\ Len(e) = Len(a) + Len(o) /\ \A i \in 1..Len(a) : e[i] = a[i]
          /\ \A i \in 1..Len(o) : e[Len(a) + i] = o[i]
        BY <2>3, <3>1, Joined
    <3>3. 1 \in 1..Len(o)
        BY <3>1
    <3>4. e[Len(a) + 1] = o[1]
        BY <3>2, <3>3
    <3>. QED BY <2>4, <3>1, <3>2, <3>4
  <2>7. \A i \in 1..t + 1 : i \in 1..t \/ i = t + 1
      BY <1>1
  <2>8. P(t + 1)
      BY <2>4, <2>6, <2>7 DEF e, x
  <2>. QED BY <2>8
<1>. HIDE DEF T
<1>7. \A t \in Nat : t \in T
    BY <1>5, <1>6, SetInduction
<1>8. N <= N /\ N \in 0..N
    BY <1>1
<1>9. P(N)
    BY <1>1, <1>7, <1>8 DEF T
<1>10. g[N] \in Seq(S)
    BY <1>4, <1>8
<1>. HIDE DEF N
<1>11. g[N] = v
  <2>1. Len(g[N]) = Len(v) /\ \A i \in 1..Len(g[N]) : g[N][i] = v[i]
      BY <1>9 DEF N
  <2>. QED BY <1>10, <2>1, SeqEqual
<1>. QED BY <1>3, <1>11

(* A list of one list is that list. *)
LEMMA OnlyPart ==
    ASSUME NEW S, NEW s \in Seq(S), NEW seqs \in Seq(Seq(S)), Len(seqs) = 1, seqs[1] = s
    PROVE  FlattenSeq(seqs) = s
<1>1. PICK g \in [0..Len(seqs) -> Seq(S)] : Runs(seqs, g) /\ FlattenSeq(seqs) = g[Len(seqs)]
    BY FlattenRun
<1>2. g[0] = <<>> /\ g[1] = g[1 - 1] \o s /\ FlattenSeq(seqs) = g[1]
    BY <1>1 DEF Runs
<1>3. g[1] = <<>> \o s
    BY <1>2
<1>. QED BY <1>2, <1>3, ConcatEmptySeq

(* Empty parts may be left out of a flattening. *)
LEMMA Packed ==
    ASSUME NEW S, NEW P \in Seq(Seq(S)), NEW D \in Seq(Seq(S)),
           NEW A \in SUBSET (1..Len(P)), \A j \in 1..Len(P) : j \notin A => P[j] = <<>>,
           Len(D) = Cardinality(A), \A k \in A : D[Cardinality(Upto(A, k))] = P[k]
    PROVE  FlattenSeq(D) = FlattenSeq(P)
<1>. DEFINE N == Len(P)
            Q == Seq(S)
            C(t) == Cardinality(Upto(A, t))
<1>1. PICK g \in [0..Len(P) -> Seq(S)] : Runs(P, g) /\ FlattenSeq(P) = g[Len(P)]
    BY FlattenRun
<1>2. PICK d \in [0..Len(D) -> Seq(S)] : Runs(D, d) /\ FlattenSeq(D) = d[Len(D)]
    BY FlattenRun
<1>3. N \in Nat /\ Len(D) \in Nat /\ (\A t \in 0..N : g[t] \in Q) /\ \A t \in 0..Len(D) : d[t] \in Q
  <2>1. N \in Nat /\ Len(D) \in Nat
      OBVIOUS
  <2>. HIDE DEF Q
  <2>. QED BY <1>1, <1>2, <2>1 DEF Q
<1>4. C(0) = 0 /\ C(N) = Len(D)
      /\ \A t \in Nat : C(t) \in Nat /\ C(t + 1) = C(t) + (IF t + 1 \in A THEN 1 ELSE 0)
  <2>1. Upto(A, N) = A
      BY <1>3, CountUp
  <2>. QED BY <1>3, <2>1, CountUp
<1>5. \A t \in Nat : C(t) <= Len(D)
  <2>1. IsFiniteSet(A)
    <3>1. IsFiniteSet(1..N)
        BY <1>3, FS_Interval
    <3>. QED BY <3>1, FS_Subset
  <2>2. \A t : Upto(A, t) \in SUBSET A
      BY DEF Upto
  <2>. QED BY <2>1, <2>2, FS_Subset
<1>. DEFINE T == {t \in Nat : t <= N => g[t] = d[C(t)]}
<1>6. 0 \in T
  <2>1. g[0] = <<>> /\ d[0] = <<>>
      BY <1>1, <1>2 DEF Runs
  <2>. HIDE DEF C
  <2>. QED BY <1>4, <2>1
<1>7. ASSUME NEW t \in Nat, t \in T PROVE t + 1 \in T
  <2>. SUFFICES ASSUME t + 1 <= N PROVE g[t + 1] = d[C(t + 1)]
      OBVIOUS
  <2>. DEFINE b == t + 1
  <2>1. b \in 1..N /\ t \in 0..N /\ t = b - 1 /\ b \in Nat
      BY <1>3
  <2>2. g[t] = d[C(t)]
      BY <1>3, <1>7, <2>1
  <2>3. g[b] = g[t] \o P[b]
      BY <1>1, <2>1 DEF Runs
  <2>4. C(t) \in Nat /\ C(b) = C(t) + (IF b \in A THEN 1 ELSE 0) /\ C(b) <= Len(D)
      BY <1>4, <1>5, <2>1
  <2>. HIDE DEF b
  <2>5. CASE b \in A
    <3>1. D[C(b)] = P[b]
        BY <2>5
    <3>. HIDE DEF C
    <3>2. C(b) \in 1..Len(D) /\ C(b) - 1 = C(t)
      <4>1. \A x, y, M \in Nat : y = x + 1 /\ y <= M => y \in 1..M /\ y - 1 = x
          OBVIOUS
      <4>2. C(b) \in Nat /\ C(b) = C(t) + 1
          BY <2>4, <2>5
      <4>. QED BY <1>3, <2>4, <4>1, <4>2
    <3>3. d[C(b)] = d[C(t)] \o D[C(b)]
        BY <1>2, <3>2 DEF Runs
    <3>. QED BY <2>2, <2>3, <3>1, <3>3 DEF b
  <2>6. CASE b \notin A
    <3>1. P[b] = <<>>
        BY <2>1, <2>6
    <3>2. g[t] \o <<>> = g[t]
        BY <1>3, <2>1, ConcatEmptySeq
    <3>3. C(b) = C(t)
      <4>. HIDE DEF C
      <4>. QED BY <2>4, <2>6
    <3>. QED BY <2>2, <2>3, <3>1, <3>2, <3>3 DEF b
  <2>. QED BY <2>5, <2>6
<1>. HIDE DEF T
<1>8. \A t \in Nat : t \in T
    BY <1>6, <1>7, SetInduction
<1>9. g[N] = d[C(N)]
  <2>1. N \in T /\ N <= N
      BY <1>3, <1>8
  <2>. HIDE DEF N, C
  <2>. QED BY <2>1 DEF T
<1>. QED BY <1>1, <1>2, <1>4, <1>9

(* What has been joined stays in front, and is all if the rest is empty. *)
Covers(whole, part) ==
    Len(part) <= Len(whole) /\ \A i \in 1..Len(part) : whole[i] = part[i]

(* So does each stage of a flattening stay in front of the whole. *)
LEMMA RunGrows ==
    ASSUME NEW S, NEW seqs \in Seq(Seq(S)), NEW g \in [0..Len(seqs) -> Seq(S)], Runs(seqs, g),
           NEW k \in 0..Len(seqs)
    PROVE  /\ Covers(g[Len(seqs)], g[k])
           /\ (\A j \in k + 1..Len(seqs) : seqs[j] = <<>>) => g[Len(seqs)] = g[k]
<1>. DEFINE N == Len(seqs)
            Q == Seq(S)
            Rest(t) == \A j \in t + 1..N : seqs[j] = <<>>
            P(t) == Covers(g[N], g[t]) /\ (Rest(t) => g[N] = g[t])
            T == {t \in Nat : t <= N => P(N - t)}
<1>1. N \in Nat /\ \A j \in 1..N : seqs[j] \in Q
    OBVIOUS
<1>2. \A t \in 1..N : g[t] = g[t - 1] \o seqs[t]
    BY DEF Runs
<1>0. \A t \in 0..N : g[t] \in Q
    OBVIOUS
<1>3. 0 \in T
  <2>1. N - 0 = N
      BY <1>1
  <2>2. Covers(g[N], g[N])
    <3>1. g[N] \in Seq(S)
        BY <1>1
    <3>. QED BY <3>1 DEF Covers
  <2>. QED BY <2>1, <2>2
<1>4. ASSUME NEW t \in Nat, t \in T PROVE t + 1 \in T
  <2>. SUFFICES ASSUME t + 1 <= N PROVE P(N - (t + 1))
      OBVIOUS
  <2>. DEFINE a == N - (t + 1)
              b == N - t
  <2>1. a \in Nat /\ b \in Nat /\ b = a + 1 /\ a = b - 1 /\ b \in 1..N /\ a \in 0..N /\ t <= N /\ b <= N
      BY <1>1
  <2>2. P(b)
      BY <1>4, <2>1
  <2>. HIDE DEF a, b, Rest
  <2>. DEFINE c == g[a]
              d == seqs[b]
              e == g[b]
              F == g[N]
  <2>3. c \in Seq(S) /\ d \in Seq(S) /\ e \in Seq(S) /\ F \in Seq(S) /\ e = c \o d
    <3>1. b \in 0..N /\ N \in 0..N
        BY <1>1, <2>1
    <3>2. c \in Q /\ d \in Q /\ e \in Q /\ F \in Q
      <4>. HIDE DEF Q, N
      <4>. QED BY <1>0, <1>1, <2>1, <3>1
    <3>3. e = c \o d
        BY <1>2, <2>1
    <3>. QED BY <3>2, <3>3
  <2>4. Covers(F, e)
      BY <2>2
  <2>. HIDE DEF c, d, e, F
  <2>5. /\ Len(e) = Len(c) + Len(d) /\ Len(c) \in Nat /\ Len(d) \in Nat
        /\ \A i \in 1..Len(c) : e[i] = c[i]
        /\ d = <<>> => e = c
      BY <2>3, Joined
  <2>6. Len(F) \in Nat
      BY <2>3
  <2>7. Covers(F, c)
    <3>1. Len(c) <= Len(F) /\ \A i \in 1..Len(c) : i \in 1..Len(e)
        BY <2>4, <2>5, <2>6 DEF Covers
    <3>. QED BY <2>4, <2>5, <3>1 DEF Covers
  <2>8. ASSUME Rest(a) PROVE F = c
    <3>1. d = <<>>
        BY <2>1, <2>8 DEF Rest, d
    <3>2. Rest(b)
        BY <2>1, <2>8 DEF Rest
    <3>3. F = e
        BY <2>2, <3>2 DEF F, e
    <3>. QED BY <2>5, <3>1, <3>3
  <2>. QED BY <2>7, <2>8 DEF F, c, a
<1>. HIDE DEF T
<1>5. \A t \in Nat : t \in T
    BY <1>3, <1>4, SetInduction
<1>6. N - k \in Nat /\ N - k <= N /\ N - (N - k) = k
    BY <1>1
<1>7. P(k)
    BY <1>5, <1>6 DEF T
<1>. QED BY <1>7

(* One word at most for each of the first parts: as many words as parts that *)
(* are not empty.                                                            *)
LEMMA RunCounts ==
    ASSUME NEW S, NEW seqs \in Seq(Seq(S)), NEW g \in [0..Len(seqs) -> Seq(S)], Runs(seqs, g),
           NEW A \in SUBSET (1..Len(seqs)), \A j \in 1..Len(seqs) : j \notin A => seqs[j] = <<>>,
           NEW k \in 0..Len(seqs), \A j \in A : j <= k => Len(seqs[j]) <= 1
    PROVE  /\ Len(g[k]) <= Cardinality(Upto(A, k))
           /\ (\A j \in A : j <= k => seqs[j] # <<>>) => Len(g[k]) = Cardinality(Upto(A, k))
<1>. DEFINE N == Len(seqs)
            Q == Seq(S)
            C(t) == Cardinality(Upto(A, t))
            L(t) == Len(g[t])
            Full(t) == \A j \in A : j <= t => seqs[j] # <<>>
            P(t) == L(t) <= C(t) /\ (Full(t) => L(t) = C(t))
            T == {t \in Nat : t <= k => P(t)}
<1>1. N \in Nat /\ (\A j \in 1..N : seqs[j] \in Q) /\ (\A t \in 0..N : g[t] \in Q) /\ k \in 0..N
  <2>1. N \in Nat /\ (\A j \in 1..N : seqs[j] \in Q)
      OBVIOUS
  <2>2. \A t \in 0..N : g[t] \in Q
    <3>. HIDE DEF N, Q
    <3>. QED BY DEF N, Q
  <2>. QED BY <2>1, <2>2
<1>2. C(0) = 0 /\ \A t \in Nat : C(t) \in Nat /\ C(t + 1) = C(t) + (IF t + 1 \in A THEN 1 ELSE 0)
    BY <1>1, CountUp
<1>3. 0 \in T
  <2>1. L(0) = 0
      BY DEF Runs
  <2>. HIDE DEF L, C
  <2>. QED BY <1>2, <2>1
<1>4. ASSUME NEW t \in Nat, t \in T PROVE t + 1 \in T
  <2>. SUFFICES ASSUME t + 1 <= k PROVE P(t + 1)
      OBVIOUS
  <2>. DEFINE b == t + 1
  <2>1. b \in 1..N /\ t \in 0..N /\ b \in 0..N /\ t = b - 1 /\ t <= k /\ b <= k
      BY <1>1
  <2>2. P(t)
      BY <1>4, <2>1
  <2>3. Full(b) => Full(t)
      BY <1>1, <2>1
  <2>4. Full(b) /\ b \in A => seqs[b] # <<>>
      BY <2>1
  <2>. HIDE DEF Full, C
  <2>5. g[b] = g[t] \o seqs[b] /\ g[t] \in Q /\ seqs[b] \in Q
      BY <1>1, <2>1 DEF Runs
  <2>. HIDE DEF b
  <2>6. L(b) = L(t) + Len(seqs[b]) /\ L(t) \in Nat /\ Len(seqs[b]) \in Nat
      BY <2>5, Joined
  <2>7. b \in A => Len(seqs[b]) <= 1 /\ (seqs[b] # <<>> => Len(seqs[b]) # 0)
      BY <2>1, <2>5
  <2>8. b \notin A => Len(seqs[b]) = 0
      BY <2>1
  <2>9. C(t) \in Nat /\ C(b) = C(t) + (IF b \in A THEN 1 ELSE 0)
      BY <1>2 DEF b
  <2>. HIDE DEF L
  <2>10. CASE b \in A
      BY <2>2, <2>3, <2>4, <2>6, <2>7, <2>9, <2>10 DEF b
  <2>11. CASE b \notin A
      BY <2>2, <2>3, <2>6, <2>8, <2>9, <2>11 DEF b
  <2>. QED BY <2>10, <2>11
<1>. HIDE DEF T
<1>5. \A t \in Nat : t \in T
    BY <1>3, <1>4, SetInduction
<1>6. k \in Nat /\ k <= k
    BY <1>1
<1>7. P(k)
    BY <1>5, <1>6 DEF T
<1>. QED BY <1>7

(* Where the words of part k are, when the parts before it have one word at *)
(* most and none after an empty one has any.                                *)
LEMMA Placed ==
    ASSUME NEW S, NEW seqs \in Seq(Seq(S)),
           NEW A \in SUBSET (1..Len(seqs)), \A j \in 1..Len(seqs) : j \notin A => seqs[j] = <<>>,
           NEW k \in A, \A j \in A : j < k => Len(seqs[j]) <= 1,
           \A j, l \in A : j < l /\ seqs[j] = <<>> => seqs[l] = <<>>
    PROVE  LET F == FlattenSeq(seqs)
               at == Cardinality(Upto(A, k - 1))
           IN  /\ F \in Seq(S) /\ at \in Nat
               /\ seqs[k] = <<>> => Len(F) <= at
               /\ seqs[k] # <<>> => at < Len(F) /\ F[at + 1] = seqs[k][1]
               /\ (\A j \in A : j <= k) => SubSeq(F, at + 1, Len(F)) = seqs[k]
<1>. DEFINE N == Len(seqs)
            F == FlattenSeq(seqs)
            h == k - 1
            at == Cardinality(Upto(A, h))
<1>1. PICK g \in [0..N -> Seq(S)] : Runs(seqs, g) /\ F = g[N]
    BY FlattenRun
<1>2. N \in Nat /\ k \in 1..N /\ h \in 0..N /\ k \in 0..N /\ h \in Nat /\ h + 1 = k
    OBVIOUS
<1>. DEFINE a == g[h]
            b == seqs[k]
            e == g[k]
<1>3. /\ a \in Seq(S) /\ b \in Seq(S) /\ e \in Seq(S) /\ F \in Seq(S) /\ e = a \o b
  <2>1. N \in 0..N
      BY <1>2
  <2>2. F \in Seq(S) /\ a \in Seq(S) /\ e \in Seq(S) /\ b \in Seq(S)
    <3>. HIDE DEF F, N, h
    <3>1. seqs[k] \in Seq(S)
        BY DEF N
    <3>. QED BY <1>1, <1>2, <2>1, <3>1
  <2>3. e = a \o b
      BY <1>1, <1>2 DEF Runs
  <2>. QED BY <2>2, <2>3
<1>4. at \in Nat
    BY <1>2, CountUp
<1>5. /\ Len(a) <= at
      /\ (\A j \in A : j <= h => seqs[j] # <<>>) => Len(a) = at
  <2>1. \A j \in A : j <= h => Len(seqs[j]) <= 1
      BY <1>2
  <2>. HIDE DEF h, F
  <2>. QED BY <1>1, <1>2, <2>1, RunCounts
<1>6. /\ Covers(F, e)
      /\ (\A j \in k + 1..N : seqs[j] = <<>>) => F = e
    BY <1>1, <1>2, RunGrows
<1>7. (\A j \in h + 1..N : seqs[j] = <<>>) => F = a
  <2>. HIDE DEF h, F
  <2>. QED BY <1>1, <1>2, RunGrows
<1>8. ASSUME b = <<>> PROVE F = a
  <2>1. ASSUME NEW j \in h + 1..N PROVE seqs[j] = <<>>
    <3>1. j = k \/ k < j
        BY <1>2
    <3>2. j \in 1..N
        BY <1>2
    <3>. QED BY <1>8, <3>1, <3>2
  <2>. QED BY <1>7, <2>1
<1>9. ASSUME b # <<>> PROVE Len(a) = at
  <2>1. ASSUME NEW j \in A, j <= h PROVE seqs[j] # <<>>
    <3>1. j < k
        BY <1>2, <2>1
    <3>. QED BY <1>9, <3>1
  <2>. QED BY <1>5, <2>1
<1>. HIDE DEF a, b, e, F, at
<1>10. /\ Len(e) = Len(a) + Len(b) /\ Len(a) \in Nat /\ Len(b) \in Nat /\ Len(F) \in Nat
       /\ \A i \in 1..Len(b) : e[Len(a) + i] = b[i]
       /\ b # <<>> => Len(b) # 0
    BY <1>3, Joined
<1>11. b # <<>> => at < Len(F) /\ F[at + 1] = b[1]
  <2>. SUFFICES ASSUME b # <<>> PROVE at < Len(F) /\ F[at + 1] = b[1]
      OBVIOUS
  <2>1. 1 \in 1..Len(b) /\ at + 1 \in 1..Len(e) /\ at + 1 <= Len(e) /\ Len(e) <= Len(F)
      BY <1>4, <1>6, <1>9, <1>10 DEF Covers
  <2>. QED BY <1>4, <1>6, <1>9, <1>10, <2>1 DEF Covers
<1>12. ASSUME \A j \in A : j <= k PROVE SubSeq(F, at + 1, Len(F)) = b
  <2>1. F = e
    <3>1. ASSUME NEW j \in k + 1..N PROVE seqs[j] = <<>>
      <4>1. j \in 1..N /\ ~(j <= k)
          BY <1>2
      <4>. QED BY <1>12, <4>1
    <3>. QED BY <1>6, <3>1
  <2>2. \A i \in at + 1..Len(F) : F[i] \in S
      BY <1>3, <1>4, <1>10
  <2>. DEFINE r == SubSeq(F, at + 1, Len(F))
  <2>3. /\ r \in Seq(S)
        /\ Len(r) = IF at + 1 <= Len(F) THEN Len(F) - (at + 1) + 1 ELSE 0
        /\ \A i \in 1..Len(F) - (at + 1) + 1 : r[i] = F[(at + 1) + i - 1]
    <3>1. at + 1 \in Int /\ Len(F) \in Int
        BY <1>4, <1>10
    <3>. QED BY <2>2, <3>1, SubSeqProperties
  <2>. HIDE DEF r
  <2>4. CASE b = <<>>
    <3>1. Len(F) <= at
        BY <1>5, <1>8, <2>4
    <3>2. Len(r) = 0
        BY <1>4, <1>10, <2>3, <3>1
    <3>. QED BY <2>3, <2>4, <3>2 DEF r
  <2>5. CASE b # <<>>
    <3>1. Len(a) = at
        BY <1>9, <2>5
    <3>2. Len(r) = Len(b)
        BY <1>4, <1>10, <2>1, <2>3, <2>5, <3>1
    <3>3. ASSUME NEW i \in 1..Len(b) PROVE r[i] = b[i]
      <4>1. (at + 1) + i - 1 = at + i /\ i \in 1..Len(F) - (at + 1) + 1
          BY <1>4, <1>10, <2>1, <3>1
      <4>. QED BY <1>10, <2>1, <2>3, <3>1, <4>1
    <3>4. r = b
      <4>1. r \in Seq(S) /\ b \in Seq(S)
          BY <1>3, <2>3
      <4>. QED BY <3>2, <3>3, <4>1, SeqEqual
    <3>. QED BY <3>4 DEF r
  <2>. QED BY <2>4, <2>5
<1>13. b = <<>> => Len(F) <= at
    BY <1>5, <1>8
<1>. QED BY <1>3, <1>4, <1>11, <1>12, <1>13 DEF F, at, b

(* ---- A sequence dealt out ------------------------------------------------ *)

(* Part k, of the parts A, is the next element if there is one. *)
Dealt(F, A, part, k) ==
    part = IF Cardinality(Upto(A, k - 1)) < Len(F) THEN <<F[Cardinality(Upto(A, k - 1)) + 1]>> ELSE <<>>

NoneElse(A, H) == \A j \in 1..Len(H) : j \notin A => H[j] = <<>>
AllDealt(F, A, H, K) == \A j \in A : j <= K => Dealt(F, A, H[j], j)

(* A front of a sequence, and the rest of it from there on. *)
LEMMA FrontAndRest ==
    ASSUME NEW S, NEW F \in Seq(S), NEW e \in Seq(S), NEW c \in Nat, Covers(F, e),
           Len(e) = IF c <= Len(F) THEN c ELSE Len(F)
    PROVE  SubSeq(F, c + 1, Len(F)) \in Seq(S) /\ e \o SubSeq(F, c + 1, Len(F)) = F
<1>. DEFINE r == SubSeq(F, c + 1, Len(F))
            w == e \o r
<1>1. Len(F) \in Nat /\ Len(e) \in Nat /\ c + 1 \in Int /\ \A i \in c + 1..Len(F) : F[i] \in S
    OBVIOUS
<1>2. /\ r \in Seq(S)
      /\ Len(r) = IF c + 1 <= Len(F) THEN Len(F) - (c + 1) + 1 ELSE 0
      /\ \A i \in 1..Len(F) - (c + 1) + 1 : r[i] = F[(c + 1) + i - 1]
    BY <1>1, SubSeqProperties
<1>. HIDE DEF r
<1>3. /\ w \in Seq(S) /\ Len(w) = Len(e) + Len(r)
      /\ \A i \in 1..Len(e) : w[i] = e[i]
      /\ \A i \in 1..Len(r) : w[Len(e) + i] = r[i]
  <2>1. r \in Seq(S) /\ w = e \o r
      BY <1>2
  <2>. HIDE DEF w
  <2>2. w \in Seq(S) /\ Splice(w, e, r)
      BY <2>1, Spliced
  <2>. QED BY <2>2 DEF Splice
<1>. HIDE DEF w
<1>. DEFINE f == Len(F)
            x == Len(e)
            y == Len(r)
<1>4. /\ Len(w) = x + y /\ f \in Nat /\ x \in Nat /\ y \in Nat
      /\ x = IF c <= f THEN c ELSE f
      /\ y = IF c + 1 <= f THEN f - (c + 1) + 1 ELSE 0
  <2>1. y \in Nat
      BY <1>2
  <2>. QED BY <1>1, <1>2, <1>3, <2>1
<1>. HIDE DEF f, x, y
<1>6. x + y = f
    BY <1>4
<1>5. ASSUME NEW i \in 1..Len(F) PROVE w[i] = F[i]
  <2>1. CASE i <= Len(e)
    <3>1. i \in 1..Len(e)
        BY <2>1
    <3>. QED BY <1>3, <3>1 DEF Covers
  <2>2. CASE ~(i <= Len(e))
    <3>. DEFINE z == i - x
    <3>1. i \in 1..f /\ ~(i <= x)
        BY <2>2 DEF f, x
    <3>2. x = c /\ z \in 1..y /\ z \in 1..f - (c + 1) + 1 /\ x + z = i /\ (c + 1) + z - 1 = i
        BY <1>4, <1>6, <3>1
    <3>. HIDE DEF z
    <3>3. r[z] = F[(c + 1) + z - 1]
        BY <1>2, <3>2 DEF f
    <3>4. w[x + z] = r[z]
        BY <1>3, <3>2 DEF x, y
    <3>. QED BY <3>2, <3>3, <3>4
  <2>. QED BY <2>1, <2>2
<1>7. w = F
  <2>1. Len(w) = Len(F)
      BY <1>4, <1>6 DEF f
  <2>. QED BY <1>3, <1>5, <2>1, SeqEqual
<1>. QED BY <1>2, <1>7 DEF w, r

(* Words dealt one to an argument are a front of them all. *)
LEMMA DealtInOrder ==
    ASSUME NEW S, NEW H \in Seq(Seq(S)), NEW h \in [0..Len(H) -> Seq(S)], Runs(H, h),
           NEW F \in Seq(S), NEW A \in SUBSET (1..Len(H)),
           NoneElse(A, H),
           NEW K \in 0..Len(H), AllDealt(F, A, H, K)
    PROVE  /\ Covers(F, h[K])
           /\ Len(h[K]) = IF Cardinality(Upto(A, K)) <= Len(F) THEN Cardinality(Upto(A, K)) ELSE Len(F)
<1>. DEFINE N == Len(H)
            Q == Seq(S)
            C(t) == Cardinality(Upto(A, t))
            P(t) == Covers(F, h[t]) /\ Len(h[t]) = IF C(t) <= Len(F) THEN C(t) ELSE Len(F)
            T == {t \in Nat : t <= K => P(t)}
<1>1. N \in Nat /\ (\A j \in 1..N : H[j] \in Q) /\ (\A t \in 0..N : h[t] \in Q) /\ K \in 0..N
      /\ Len(F) \in Nat
  <2>1. N \in Nat /\ (\A j \in 1..N : H[j] \in Q) /\ Len(F) \in Nat
      OBVIOUS
  <2>2. \A t \in 0..N : h[t] \in Q
    <3>. HIDE DEF N, Q
    <3>. QED BY DEF N, Q
  <2>. QED BY <2>1, <2>2
<1>2. C(0) = 0 /\ \A t \in Nat : C(t) \in Nat /\ C(t + 1) = C(t) + (IF t + 1 \in A THEN 1 ELSE 0)
    BY <1>1, CountUp
<1>3. 0 \in T
  <2>1. h[0] = <<>>
      BY DEF Runs
  <2>2. Len(h[0]) = 0 /\ \A i \in 1..0 : FALSE
      BY <2>1
  <2>. HIDE DEF C
  <2>3. Covers(F, h[0])
      BY <1>1, <2>2 DEF Covers
  <2>. QED BY <1>1, <1>2, <2>2, <2>3
<1>4. ASSUME NEW t \in Nat, t \in T PROVE t + 1 \in T
  <2>. SUFFICES ASSUME t + 1 <= K PROVE P(t + 1)
      OBVIOUS
  <2>. DEFINE b == t + 1
              a == h[t]
              d == H[b]
              e == h[b]
  <2>1. b \in 1..N /\ t \in 0..N /\ b \in 0..N /\ t = b - 1 /\ t <= K /\ b <= K
      BY <1>1
  <2>2. P(t)
      BY <1>4, <2>1
  <2>3. e = a \o d /\ a \in Seq(S) /\ d \in Seq(S)
    <3>1. e = a \o d
        BY <2>1 DEF Runs
    <3>2. a \in Q /\ d \in Q
      <4>. HIDE DEF Q
      <4>. QED BY <1>1, <2>1
    <3>. QED BY <3>1, <3>2
  <2>4. C(t) \in Nat /\ C(b) = C(t) + (IF b \in A THEN 1 ELSE 0)
      BY <1>2
  <2>5. b \in A => Dealt(F, A, d, b) /\ C(b - 1) = C(t)
      BY <2>1 DEF AllDealt
  <2>6. b \in A => d = IF C(t) < Len(F) THEN <<F[C(t) + 1]>> ELSE <<>>
    <3>. HIDE DEF b
    <3>. QED BY <2>5 DEF Dealt
  <2>7. b \notin A => d = <<>>
      BY <2>1 DEF NoneElse
  <2>8. Covers(F, a) /\ Len(a) = IF C(t) <= Len(F) THEN C(t) ELSE Len(F)
      BY <2>2
  <2>. HIDE DEF a, d, e, C, b
  <2>9. /\ Len(e) = Len(a) + Len(d) /\ Len(a) \in Nat /\ Len(d) \in Nat
        /\ \A i \in 1..Len(a) : e[i] = a[i]
        /\ \A i \in 1..Len(d) : e[Len(a) + i] = d[i]
        /\ d = <<>> => e = a
    <3>1. Splice(e, a, d)
        BY <2>3, Spliced
    <3>. QED BY <3>1 DEF Splice
  <2>10. CASE b \notin A \/ ~(C(t) < Len(F))
    <3>1. e = a
        BY <2>6, <2>7, <2>9, <2>10
    <3>2. Len(e) = IF C(b) <= Len(F) THEN C(b) ELSE Len(F)
        BY <1>1, <2>4, <2>8, <2>10, <3>1
    <3>. QED BY <2>8, <3>1, <3>2 DEF e, b
  <2>11. CASE b \in A /\ C(t) < Len(F)
    <3>. DEFINE x == F[C(t) + 1]
    <3>1. d = <<x>>
        BY <2>6, <2>11
    <3>. HIDE DEF x
    <3>2. Len(d) = 1 /\ d[1] = x
        BY <3>1
    <3>3. Len(a) = C(t) /\ Len(e) = C(t) + 1 /\ C(b) = C(t) + 1 /\ C(b) <= Len(F)
        BY <1>1, <2>4, <2>8, <2>9, <2>11, <3>2
    <3>4. e[C(t) + 1] = F[C(t) + 1]
      <4>1. 1 \in 1..Len(d)
          BY <3>2
      <4>2. e[Len(a) + 1] = d[1]
          BY <2>9, <4>1
      <4>. QED BY <3>2, <3>3, <4>2 DEF x
    <3>5. ASSUME NEW i \in 1..Len(e) PROVE F[i] = e[i]
      <4>1. i \in 1..Len(a) \/ i = C(t) + 1
          BY <2>4, <3>3
      <4>2. i \in 1..Len(a) => F[i] = e[i]
          BY <2>8, <2>9 DEF Covers
      <4>. QED BY <3>4, <4>1, <4>2
    <3>6. Covers(F, e)
        BY <3>3, <3>5 DEF Covers
    <3>. QED BY <3>3, <3>6 DEF e, b
  <2>. QED BY <2>10, <2>11
<1>. HIDE DEF T
<1>5. \A t \in Nat : t \in T
    BY <1>3, <1>4, SetInduction
<1>6. K \in Nat /\ K <= K
    BY <1>1
<1>7. P(K)
    BY <1>5, <1>6 DEF T
<1>. QED BY <1>7

(* Words are dealt to the arguments A, those of L taking what is left. *)
Shares(F, A, L, H) ==
    /\ NoneElse(A, H)
    /\ \A k \in L : \A j \in A : j <= k
    /\ \A j \in A \ L : Dealt(F, A, H[j], j)
    /\ \A k \in L : H[k] = SubSeq(F, Cardinality(Upto(A, k - 1)) + 1, Len(F))
    /\ L = {} => Len(F) <= Cardinality(A)

(* Dealt out to the arguments, the last of which may take what is left, the *)
(* words are all there and in order.                                        *)
LEMMA Regrouped ==
    ASSUME NEW S, NEW H \in Seq(Seq(S)), NEW F \in Seq(S), NEW A \in SUBSET (1..Len(H)),
           NEW L \in SUBSET A, Shares(F, A, L, H)
    PROVE  FlattenSeq(H) = F
<1>. DEFINE N == Len(H)
<1>1. PICK h \in [0..N -> Seq(S)] : Runs(H, h) /\ FlattenSeq(H) = h[N]
    BY FlattenRun
<1>2. N \in Nat /\ N \in 0..N /\ \A j \in A : j \in 1..N
    OBVIOUS
<1>5. NoneElse(A, H)
    BY DEF Shares
<1>6. ASSUME NEW K \in 0..N, AllDealt(F, A, H, K)
      PROVE  /\ Covers(F, h[K])
             /\ Len(h[K]) = IF Cardinality(Upto(A, K)) <= Len(F) THEN Cardinality(Upto(A, K)) ELSE Len(F)
    BY <1>1, <1>2, <1>5, <1>6, DealtInOrder
<1>3. CASE L = {}
  <2>1. AllDealt(F, A, H, N)
      BY <1>3 DEF Shares, AllDealt
  <2>2. /\ Covers(F, h[N])
        /\ Len(h[N]) = IF Cardinality(Upto(A, N)) <= Len(F) THEN Cardinality(Upto(A, N)) ELSE Len(F)
      BY <1>2, <1>6, <2>1
  <2>3. Cardinality(Upto(A, N)) = Cardinality(A) /\ Cardinality(Upto(A, N)) \in Nat
      BY <1>2, CountUp
  <2>4. h[N] \in Seq(S)
    <3>. HIDE DEF N
    <3>. QED BY <1>1, <1>2
  <2>. DEFINE e == h[N]
  <2>. HIDE DEF e, N
  <2>5. e \in Seq(S) /\ Covers(F, e) /\ Len(F) \in Nat /\ Len(e) = Len(F)
    <3>1. Len(F) \in Nat
        OBVIOUS
    <3>2. Len(F) <= Cardinality(Upto(A, N))
        BY <1>3, <2>3 DEF Shares
    <3>. QED BY <2>2, <2>3, <2>4, <3>1, <3>2 DEF e
  <2>6. \A i \in 1..Len(e) : e[i] = F[i]
      BY <2>5 DEF Covers
  <2>7. e = F
      BY <2>5, <2>6, SeqEqual
  <2>. QED BY <1>1, <2>7 DEF e
<1>4. ASSUME NEW k \in L PROVE FlattenSeq(H) = F
  <2>. DEFINE c == Cardinality(Upto(A, k - 1))
  <2>1. k \in A /\ k \in 1..N /\ k - 1 \in 0..N /\ k \in 0..N /\ k - 1 \in Nat
      BY <1>2
  <2>2. ASSUME NEW j \in A, j <= k - 1 PROVE Dealt(F, A, H[j], j)
    <3>1. j \notin L
        BY <1>2, <2>1, <2>2 DEF Shares
    <3>. QED BY <3>1 DEF Shares
  <2>3. /\ Covers(F, h[k - 1])
        /\ Len(h[k - 1]) = IF c <= Len(F) THEN c ELSE Len(F)
    <3>. DEFINE K == k - 1
    <3>1. K \in 0..N /\ AllDealt(F, A, H, K)
        BY <2>1, <2>2 DEF AllDealt
    <3>. HIDE DEF K
    <3>2. /\ Covers(F, h[K])
          /\ Len(h[K]) = IF Cardinality(Upto(A, K)) <= Len(F) THEN Cardinality(Upto(A, K)) ELSE Len(F)
        BY <1>6, <3>1
    <3>. QED BY <3>2 DEF K
  <2>4. c \in Nat
      BY <1>2, <2>1, CountUp
  <2>5. h[k - 1] \in Seq(S)
    <3>. HIDE DEF N
    <3>. QED BY <1>1, <2>1
  <2>6. h[k] = h[k - 1] \o SubSeq(F, c + 1, Len(F))
    <3>1. H[k] = SubSeq(F, c + 1, Len(F))
        BY DEF Shares
    <3>. HIDE DEF c
    <3>. QED BY <1>1, <2>1, <3>1 DEF Runs
  <2>7. h[k] = F
    <3>. DEFINE e == h[k - 1]
    <3>. HIDE DEF e, c
    <3>1. e \o SubSeq(F, c + 1, Len(F)) = F
        BY <2>3, <2>4, <2>5, FrontAndRest DEF e
    <3>. QED BY <2>6, <3>1 DEF e
  <2>8. ASSUME NEW j \in k + 1..N PROVE H[j] = <<>>
    <3>1. j \in 1..N /\ ~(j <= k)
        BY <1>2, <2>1
    <3>. QED BY <3>1 DEF Shares, NoneElse
  <2>9. h[N] = h[k]
      BY <1>1, <2>1, <2>8, RunGrows
  <2>. QED BY <1>1, <2>7, <2>9
<1>. QED BY <1>3, <1>4

(* ---- What a flattening holds --------------------------------------------- *)

(* Nothing stands twice in a sequence, nor in two parts of one. *)
Once(s) == \A i, j \in DOMAIN s : s[i] = s[j] => i = j
NoneShared(seqs) == \A i, j \in 1..Len(seqs) : i # j => Range(seqs[i]) \cap Range(seqs[j]) = {}

Unites(w, a, b) ==
    /\ Range(w) = Range(a) \cup Range(b)
    /\ Once(a) /\ Once(b) /\ Range(a) \cap Range(b) = {} => Once(w)

(* Two sequences joined hold what either does. *)
LEMMA JoinedHolds ==
    ASSUME NEW S, NEW a \in Seq(S), NEW b \in Seq(S), NEW w, w = a \o b
    PROVE  w \in Seq(S) /\ Unites(w, a, b)
<1>1. w \in Seq(S) /\ Splice(w, a, b)
    BY Spliced
<1>2. DOMAIN w = 1..Len(w) /\ DOMAIN a = 1..Len(a) /\ DOMAIN b = 1..Len(b) /\ Len(w) \in Nat
    BY <1>1
<1>3. /\ Len(w) = Len(a) + Len(b) /\ Len(a) \in Nat /\ Len(b) \in Nat
      /\ \A i \in 1..Len(a) : w[i] = a[i]
      /\ \A i \in 1..Len(b) : w[Len(a) + i] = b[i]
    BY <1>1 DEF Splice
<1>. DEFINE m == Len(a)
            n == Len(b)
<1>4. \A i \in 1..m + n : i \in 1..m \/ (i - m \in 1..n /\ m + (i - m) = i)
    BY <1>3
<1>5. (\A i \in 1..m : i \in 1..m + n) /\ (\A i \in 1..n : m + i \in 1..m + n)
    BY <1>3
<1>6. Len(w) = m + n
    BY <1>3
<1>7. \A i \in 1..m + n : (i \in 1..m /\ w[i] = a[i]) \/ (i - m \in 1..n /\ w[i] = b[i - m])
    BY <1>3, <1>4
<1>. HIDE DEF m, n
<1>8. Range(w) = Range(a) \cup Range(b)
  <2>1. ASSUME NEW x \in Range(w) PROVE x \in Range(a) \cup Range(b)
    <3>1. PICK i \in 1..m + n : w[i] = x
        BY <1>2, <1>6, <2>1 DEF Range
    <3>. QED BY <1>2, <1>7, <3>1 DEF Range, m, n
  <2>2. ASSUME NEW x \in Range(a) PROVE x \in Range(w)
    <3>1. PICK i \in 1..m : a[i] = x
        BY <1>2, <2>2 DEF Range, m
    <3>2. w[i] = x /\ i \in 1..Len(w)
        BY <1>3, <1>5, <1>6, <3>1 DEF m
    <3>. QED BY <1>2, <3>2 DEF Range
  <2>3. ASSUME NEW x \in Range(b) PROVE x \in Range(w)
    <3>1. PICK i \in 1..n : b[i] = x
        BY <1>2, <2>3 DEF Range, n
    <3>2. w[m + i] = x /\ m + i \in 1..Len(w)
        BY <1>3, <1>5, <1>6, <3>1 DEF m, n
    <3>. QED BY <1>2, <3>2 DEF Range
  <2>. QED BY <2>1, <2>2, <2>3
<1>9. ASSUME Once(a), Once(b), Range(a) \cap Range(b) = {} PROVE Once(w)
  <2>. SUFFICES ASSUME NEW i \in 1..m + n, NEW j \in 1..m + n, w[i] = w[j] PROVE i = j
      BY <1>2, <1>6 DEF Once
  <2>1. \A k \in 1..m : a[k] \in Range(a)
      BY <1>2 DEF Range, m
  <2>2. \A k \in 1..n : b[k] \in Range(b)
      BY <1>2 DEF Range, n
  <2>3. (\A k, l \in 1..m : a[k] = a[l] => k = l) /\ (\A k, l \in 1..n : b[k] = b[l] => k = l)
      BY <1>2, <1>9 DEF Once, m, n
  <2>4. (i \in 1..m /\ j \in 1..m) \/ (i - m \in 1..n /\ j - m \in 1..n /\ w[i] = b[i - m] /\ w[j] = b[j - m])
      BY <1>7, <1>9, <2>1, <2>2
  <2>5. i - m = j - m => i = j
      BY <1>3 DEF m
  <2>6. i \in 1..m /\ j \in 1..m => i = j
      BY <1>3, <2>3 DEF m
  <2>. QED BY <2>3, <2>4, <2>5, <2>6
<1>. QED BY <1>1, <1>8, <1>9 DEF Unites

(* A flattening holds what its parts hold, and nothing twice that stands in *)
(* one of them and there once.                                              *)
LEMMA FlattenHolds ==
    ASSUME NEW S, NEW seqs \in Seq(Seq(S)), NEW F, F = FlattenSeq(seqs)
    PROVE  /\ F \in Seq(S) /\ Range(F) = UNION {Range(seqs[i]) : i \in 1..Len(seqs)}
           /\ NoneShared(seqs) /\ (\A i \in 1..Len(seqs) : Once(seqs[i])) => Once(F)
<1>. DEFINE N == Len(seqs)
            Q == Seq(S)
            Held(k) == UNION {Range(seqs[i]) : i \in 1..k}
            Single == NoneShared(seqs) /\ \A i \in 1..N : Once(seqs[i])
<1>1. PICK g \in [0..N -> Q] : Runs(seqs, g) /\ F = g[N]
    BY FlattenRun
<1>2. N \in Nat /\ N \in 0..N /\ \A i \in 1..N : seqs[i] \in Q
    OBVIOUS
<1>3. g[0] = <<>> /\ \A k \in 1..N : g[k] = g[k - 1] \o seqs[k]
    BY <1>1 DEF Runs
<1>. DEFINE P(k) == Range(g[k]) = Held(k) /\ (Single => Once(g[k]))
            T == {k \in Nat : k <= N => P(k)}
<1>4. 0 \in T
  <2>1. Range(g[0]) = {} /\ Once(g[0])
      BY <1>3 DEF Range, Once
  <2>2. 1..0 = {}
      OBVIOUS
  <2>3. Held(0) = {}
      BY <2>2
  <2>. QED BY <2>1, <2>3
<1>5. ASSUME NEW k \in Nat, k \in T PROVE k + 1 \in T
  <2>. SUFFICES ASSUME k + 1 <= N PROVE P(k + 1)
      OBVIOUS
  <2>1. k + 1 \in 1..N /\ k \in 0..N /\ k + 1 \in 0..N /\ (k + 1) - 1 = k /\ k <= N
      BY <1>2
  <2>2. P(k)
      BY <1>5, <2>1
  <2>3. g[k] \in Q /\ seqs[k + 1] \in Q /\ g[k + 1] = g[k] \o seqs[k + 1]
    <3>. HIDE DEF Q, N
    <3>. QED BY <1>2, <1>3, <2>1
  <2>4. Held(k + 1) = Held(k) \cup Range(seqs[k + 1])
    <3>1. 1..k + 1 = (1..k) \cup {k + 1}
        OBVIOUS
    <3>. QED BY <3>1
  <2>5. /\ Range(g[k + 1]) = Range(g[k]) \cup Range(seqs[k + 1])
        /\ Once(g[k]) /\ Once(seqs[k + 1]) /\ Range(g[k]) \cap Range(seqs[k + 1]) = {} => Once(g[k + 1])
    <3>. DEFINE a == g[k]
                b == seqs[k + 1]
                w == g[k + 1]
    <3>1. a \in Seq(S) /\ b \in Seq(S) /\ w = a \o b
        BY <2>3
    <3>. HIDE DEF a, b, w
    <3>2. Unites(w, a, b)
        BY <3>1, JoinedHolds
    <3>. QED BY <3>2 DEF a, b, w, Unites
  <2>6. ASSUME Single PROVE Held(k) \cap Range(seqs[k + 1]) = {}
    <3>1. \A i \in 1..k : i \in 1..N /\ i # k + 1
        BY <2>1
    <3>2. \A i \in 1..k : Range(seqs[i]) \cap Range(seqs[k + 1]) = {}
        BY <2>1, <2>6, <3>1 DEF NoneShared
    <3>. QED BY <3>2
  <2>. QED BY <2>1, <2>2, <2>4, <2>5, <2>6
<1>. HIDE DEF T
<1>6. N \in T
    BY <1>2, <1>4, <1>5, SetInduction
<1>7. P(N)
    BY <1>2, <1>6 DEF T
<1>. QED BY <1>1, <1>2, <1>7

(* A part for each entry, the entry itself if it is kept. *)
Sifts(s, seqs) == /\ DOMAIN seqs = DOMAIN s /\ seqs = [i \in DOMAIN s |-> seqs[i]]
                  /\ \A i \in DOMAIN s : seqs[i] \in {<<>>, <<s[i]>>}
Kept(s, seqs) == {s[i] : i \in {j \in DOMAIN s : seqs[j] # <<>>}}

(* What is kept of a sequence stands in it no more often than before. *)
LEMMA Sifted ==
    ASSUME NEW S, NEW s \in Seq(S), NEW seqs, Sifts(s, seqs), NEW F, F = FlattenSeq(seqs)
    PROVE  /\ F \in Seq(S) /\ Range(F) = Kept(s, seqs)
           /\ Once(s) => Once(F)
<1>0. /\ DOMAIN seqs = DOMAIN s /\ seqs = [i \in DOMAIN s |-> seqs[i]]
      /\ \A i \in DOMAIN s : seqs[i] \in {<<>>, <<s[i]>>}
    BY DEF Sifts
<1>1. DOMAIN s = 1..Len(s) /\ \A i \in DOMAIN s : s[i] \in S
    OBVIOUS
<1>2. \A i \in DOMAIN s : <<s[i]>> \in Seq(S) /\ <<>> \in Seq(S)
    BY <1>1
<1>3. seqs \in Seq(Seq(S)) /\ Len(seqs) = Len(s)
  <2>. DEFINE Q == Seq(S)
  <2>1. \A i \in 1..Len(s) : seqs[i] \in Q
      BY <1>0, <1>1, <1>2
  <2>. HIDE DEF Q
  <2>2. seqs \in [1..Len(s) -> Q]
      BY <1>0, <1>1, <2>1
  <2>3. Len(s) \in Nat
      OBVIOUS
  <2>4. seqs \in Seq(Q) /\ Len(seqs) = Len(s)
      BY <2>2, <2>3
  <2>. QED BY <2>4 DEF Q
<1>4. /\ F \in Seq(S) /\ Range(F) = UNION {Range(seqs[i]) : i \in 1..Len(seqs)}
      /\ NoneShared(seqs) /\ (\A i \in 1..Len(seqs) : Once(seqs[i])) => Once(F)
    BY <1>3, FlattenHolds
<1>5. Range(<<>>) = {} /\ \A x : Range(<<x>>) = {x}
    BY DEF Range
<1>6. Range(F) = {s[i] : i \in {j \in DOMAIN s : seqs[j] # <<>>}}
  <2>. DEFINE Js == {j \in DOMAIN s : seqs[j] # <<>>}
  <2>1. \A i \in 1..Len(seqs) : Range(seqs[i]) = IF i \in Js THEN {s[i]} ELSE {}
      BY <1>0, <1>1, <1>3, <1>5
  <2>2. \A i \in Js : i \in 1..Len(seqs)
      BY <1>1, <1>3
  <2>. HIDE DEF Js
  <2>3. ASSUME NEW x PROVE x \in Range(F) <=> \E i \in Js : x = s[i]
    <3>1. x \in Range(F) <=> \E i \in 1..Len(seqs) : x \in Range(seqs[i])
        BY <1>4
    <3>. QED BY <2>1, <2>2, <3>1
  <2>4. Range(F) = {s[i] : i \in Js}
      BY <2>3
  <2>. QED BY <2>4 DEF Js
<1>7. ASSUME Once(s) PROVE Once(F)
  <2>1. \A i \in 1..Len(seqs) : Once(seqs[i])
      BY <1>0, <1>1, <1>3 DEF Once
  <2>2. \A i \in 1..Len(seqs) : Range(seqs[i]) \subseteq {s[i]}
      BY <1>0, <1>1, <1>3, <1>5
  <2>3. \A i, j \in 1..Len(seqs) : i # j => s[i] # s[j]
      BY <1>1, <1>3, <1>7 DEF Once
  <2>4. NoneShared(seqs)
    <3>. SUFFICES ASSUME NEW i \in 1..Len(seqs), NEW j \in 1..Len(seqs), i # j
                  PROVE  Range(seqs[i]) \cap Range(seqs[j]) = {}
        BY DEF NoneShared
    <3>1. /\ s[i] # s[j]
          /\ Range(seqs[i]) \subseteq {s[i]} /\ Range(seqs[j]) \subseteq {s[j]}
        BY <2>2, <2>3
    <3>. QED BY <3>1
  <2>. QED BY <1>4, <2>1, <2>4
<1>. QED BY <1>4, <1>6, <1>7 DEF Kept

(* A sequence that holds nothing twice is as long as what it holds. *)
LEMMA OnceCounts ==
    ASSUME NEW S, NEW s \in Seq(S), Once(s)
    PROVE  IsFiniteSet(Range(s)) /\ Cardinality(Range(s)) = Len(s)
<1>1. DOMAIN s = 1..Len(s) /\ Len(s) \in Nat
    OBVIOUS
<1>3. s \in Bijection(1..Len(s), Range(s))
  <2>1. s \in [1..Len(s) -> Range(s)] /\ IsInjective(s)
      BY <1>1 DEF Once, Range, IsInjective
  <2>2. \A x \in Range(s) : \E i \in 1..Len(s) : s[i] = x
      BY <1>1 DEF Range
  <2>. QED BY <2>1, <2>2 DEF Bijection, Injection, Surjection
<1>4. ExistsBijection(1..Len(s), Range(s))
    BY <1>3 DEF ExistsBijection
<1>. QED BY <1>1, <1>4, FS_CountingElements, FS_NatBijection
==============================================================================

--------------------------- MODULE RunnersProofs ---------------------------
(***************************************************************************)
(* Theorems about the runners for any domain, any mail hosts and any bound *)
(* on the answers: what a loop or a sort of the code returns for input of  *)
(* any length is proved by the smallest counterexample.                    *)
(***************************************************************************)
EXTENDS Runners, FiniteSetTheorems, SequenceTheorems, WellFoundedInduction, TLAPS

(***************************************************************************)
(* Induction, by the smallest counterexample.                              *)
(***************************************************************************)
LEMMA LeastNatural ==
  ASSUME NEW S \in SUBSET Nat, S # {}
  PROVE  \E m \in S : \A k \in S : m <= k
<1>1. PICK m \in S : \A k \in S : ~(<<k, m>> \in OpToRel(<, Nat))
  BY NatLessThanWellFounded, WFMin
<1>2. ASSUME NEW k \in S PROVE m <= k
  <2>1. ~(k < m)
    BY <1>1 DEF OpToRel
  <2> QED
    BY <2>1
<1> QED
  BY <1>2

(* What holds at 0, and from each step of a loop to the next, holds of all *)
(* its steps: H is the set of the steps it holds of.                       *)
LEMMA LoopInduction ==
  ASSUME NEW n \in Nat, NEW H, 0 \in H, \A k \in 1 .. n : k - 1 \in H => k \in H
  PROVE  \A k \in 0 .. n : k \in H
<1> DEFINE C == {k \in 0 .. n : k \notin H}
<1> SUFFICES ASSUME C # {} PROVE FALSE
  OBVIOUS
<1>0. C \in SUBSET Nat
  OBVIOUS
<1>1. PICK m \in C : \A k \in C : m <= k
  <2> HIDE DEF C
  <2> QED
    BY <1>0, LeastNatural
<1>2. m \in 1 .. n
  OBVIOUS
<1>3. m - 1 \in H
  BY <1>1, <1>2
<1> QED
  BY <1>1, <1>2, <1>3

(* A loop of n steps over states of S computes something.                  *)
Loops(f, m, S, start, step) ==
  /\ f \in [0 .. m -> S] /\ f[0] = start
  /\ \A k \in 1 .. m : f[k] = step[<<k, f[k - 1]>>]

LEMMA LoopExists ==
  ASSUME NEW n \in Nat, NEW S, NEW start \in S, NEW step \in [(1 .. n) \X S -> S]
  PROVE  \E f : Loops(f, n, S, start, step)
<1> DEFINE H == {m \in 0 .. n : \E f : Loops(f, m, S, start, step)}
<1>1. Loops([k \in 0 .. 0 |-> start], 0, S, start, step)
  BY DEF Loops
<1>2. ASSUME NEW m \in 1 .. n, NEW f, Loops(f, m - 1, S, start, step)
      PROVE  \E g : Loops(g, m, S, start, step)
  <2> DEFINE next == step[<<m, f[m - 1]>>]
             g == [k \in 0 .. m |-> IF k = m THEN next ELSE f[k]]
  <2>1. f \in [0 .. m - 1 -> S] /\ f[0] = start
    BY <1>2 DEF Loops
  <2>2. next \in S
    BY <2>1
  <2> HIDE DEF next
  <2>3. g \in [0 .. m -> S] /\ g[0] = start /\ g[m] = next
    BY <2>1, <2>2
  <2>4. \A k \in 0 .. m - 1 : g[k] = f[k]
    OBVIOUS
  <2> HIDE DEF g
  <2>5. ASSUME NEW k \in 1 .. m PROVE g[k] = step[<<k, g[k - 1]>>]
    <3>1. g[k - 1] = f[k - 1]
      BY <2>4
    <3>2. CASE k = m
      BY <2>3, <3>1, <3>2 DEF next
    <3>3. CASE k # m
      <4>1. k \in 1 .. m - 1
        BY <3>3
      <4>2. f[k] = step[<<k, f[k - 1]>>]
        BY <1>2, <4>1 DEF Loops
      <4> QED
        BY <2>4, <3>1, <4>1, <4>2
    <3> QED
      BY <3>2, <3>3
  <2>6. Loops(g, m, S, start, step)
    BY <2>3, <2>5 DEF Loops
  <2> QED
    BY <2>6
<1>3. 0 \in H
  BY <1>1
<1>4. \A m \in 1 .. n : m - 1 \in H => m \in H
  BY <1>2
<1>5. n \in H
  <2> HIDE DEF H
  <2> QED
    BY <1>3, <1>4, LoopInduction
<1> QED
  BY <1>5

-----------------------------------------------------------------------------
MxRecord == [preference : Preferences, exchange : Exchanges]

(* No record comes before itself, nor two before one another.              *)
LEMMA BeforeOrder ==
  ASSUME NEW r \in MxRecord, NEW s \in MxRecord
  PROVE  /\ ~Before(r, r)
         /\ Before(r, s) => ~Before(s, r)
<1>1. r.preference \in Nat /\ r.exchange \in Nat /\ s.preference \in Nat /\ s.exchange \in Nat
  BY ExchangesAssumption DEF MxRecord
<1> QED
  BY <1>1 DEF Before

LEMMA FirstRecord ==
  ASSUME NEW S \in SUBSET MxRecord, S # {}
  PROVE  \E m \in S : \A r \in S : r = m \/ Before(m, r)
<1> DEFINE P == {r.preference : r \in S}
<1>1. P \in SUBSET Nat /\ P # {}
  BY ExchangesAssumption DEF MxRecord
<1>2. PICK p \in P : \A q \in P : p <= q
  <2> HIDE DEF P
  <2> QED
    BY <1>1, LeastNatural
<1> DEFINE E == {r.exchange : r \in {s \in S : s.preference = p}}
<1>3. E \in SUBSET Nat /\ E # {}
  BY <1>2, ExchangesAssumption DEF MxRecord
<1>4. PICK e \in E : \A f \in E : e <= f
  <2> HIDE DEF E
  <2> QED
    BY <1>3, LeastNatural
<1>5. PICK m \in S : m.preference = p /\ m.exchange = e
  BY <1>4
<1>6. ASSUME NEW r \in S PROVE r = m \/ Before(m, r)
  <2>1. p <= r.preference
    BY <1>2
  <2>2. r.preference = p => e <= r.exchange
    BY <1>4
  <2>3. r \in MxRecord /\ m \in MxRecord
    OBVIOUS
  <2>4. p \in Nat /\ e \in Nat /\ r.preference \in Nat /\ r.exchange \in Nat
    BY <1>1, <1>2, <1>3, <1>4, <2>3, ExchangesAssumption DEF MxRecord
  <2>5. r.preference = m.preference /\ r.exchange = m.exchange => r = m
    BY <2>3 DEF MxRecord
  <2> QED
    BY <1>5, <2>1, <2>2, <2>4, <2>5 DEF Before
<1> QED
  BY <1>6

Ascending(q) == \A i, j \in DOMAIN q : i < j => Before(q[i], q[j])

(* A finite set of records has a sorted sequence.                          *)
LEMMA SortedExists ==
  ASSUME NEW S \in SUBSET MxRecord, IsFiniteSet(S)
  PROVE  \E q \in [1 .. Cardinality(S) -> S] : Ascending(q)
<1> DEFINE Sortable(T) == \E q \in [1 .. Cardinality(T) -> T] : Ascending(q)
           OfSize(k) == {T \in SUBSET MxRecord : IsFiniteSet(T) /\ Cardinality(T) = k}
           H == {k \in Nat : \A T \in OfSize(k) : Sortable(T)}
<1>1. 0 \in H
  <2> SUFFICES ASSUME NEW T \in OfSize(0) PROVE Sortable(T)
    OBVIOUS
  <2>1. T = {} /\ Cardinality(T) = 0
    BY FS_EmptySet
  <2>2. [i \in 1 .. 0 |-> 0] \in [1 .. 0 -> {}] /\ Ascending([i \in 1 .. 0 |-> 0])
    BY DEF Ascending
  <2> QED
    BY <2>1, <2>2
<1>2. ASSUME NEW k \in Nat, k \in H PROVE k + 1 \in H
  <2> SUFFICES ASSUME NEW T \in OfSize(k + 1) PROVE Sortable(T)
    OBVIOUS
  <2>1. T # {} /\ IsFiniteSet(T) /\ T \in SUBSET MxRecord /\ Cardinality(T) = k + 1
    BY FS_EmptySet
  <2>2. PICK m \in T : \A r \in T : r = m \/ Before(m, r)
    BY <2>1, FirstRecord
  <2>3. IsFiniteSet(T \ {m}) /\ Cardinality(T \ {m}) = k
    <3>1. (k + 1) - 1 = k
      OBVIOUS
    <3> QED
      BY <2>1, <3>1, FS_RemoveElement
  <2>4. PICK q \in [1 .. k -> T \ {m}] : Ascending(q)
    <3>1. T \ {m} \in OfSize(k)
      BY <2>1, <2>3
    <3>2. Sortable(T \ {m})
      BY <1>2, <3>1
    <3> QED
      BY <2>3, <3>2
  <2> DEFINE p == [i \in 1 .. k + 1 |-> IF i = 1 THEN m ELSE q[i - 1]]
  <2>5. p \in [1 .. k + 1 -> T]
    OBVIOUS
  <2>6. ASSUME NEW i \in 1 .. k + 1, NEW j \in 1 .. k + 1, i < j PROVE Before(p[i], p[j])
    <3>1. j - 1 \in 1 .. k /\ p[j] = q[j - 1] /\ q[j - 1] \in T \ {m}
      BY <2>6
    <3>2. CASE i = 1
      BY <2>2, <3>1, <3>2
    <3>3. CASE i # 1
      <4>1. i - 1 \in 1 .. k /\ p[i] = q[i - 1] /\ i - 1 < j - 1
        BY <2>6, <3>3
      <4> HIDE DEF p
      <4>2. Before(q[i - 1], q[j - 1])
        BY <2>4, <3>1, <4>1 DEF Ascending
      <4> QED
        BY <3>1, <4>1, <4>2
    <3> QED
      BY <3>2, <3>3
  <2>7. Ascending(p)
    <3> HIDE DEF p
    <3> QED
      BY <2>5, <2>6 DEF Ascending
  <2> HIDE DEF p
  <2> QED
    BY <2>1, <2>5, <2>7
<1>3. Cardinality(S) \in Nat
  BY FS_CardinalityType
<1>4. Cardinality(S) \in H
  <2> HIDE DEF H
  <2>1. \A k \in 1 .. Cardinality(S) : k - 1 \in H => k \in H
    <3> SUFFICES ASSUME NEW k \in 1 .. Cardinality(S), k - 1 \in H PROVE k \in H
      OBVIOUS
    <3>1. k - 1 \in Nat /\ (k - 1) + 1 = k
      BY <1>3
    <3> QED
      BY <1>2, <3>1
  <2> QED
    BY <1>1, <1>3, <2>1, LoopInduction
<1> QED
  BY <1>4

(* The sorted records are those of the answer, each once.                  *)
LEMMA BestFirstSorted ==
  ASSUME NEW S \in SUBSET MxRecord, IsFiniteSet(S)
  PROVE  LET q == BestFirst(S)
         IN  /\ q \in Seq(MxRecord) /\ Ascending(q)
             /\ {q[i] : i \in 1 .. Len(q)} = S
<1> DEFINE n == Cardinality(S)
           q == BestFirst(S)
<1>1. n \in Nat
  BY FS_CardinalityType
<1>2. q \in [1 .. n -> S] /\ Ascending(q)
  <2>1. \E p \in [1 .. n -> S] : Ascending(p)
    BY SortedExists
  <2> QED
    BY <2>1 DEF BestFirst, Ascending
<1> HIDE DEF q
<1>3. q \in Injection(1 .. n, S)
  <2>1. ASSUME NEW i \in 1 .. n, NEW j \in 1 .. n, q[i] = q[j] PROVE i = j
    <3>1. q[i] \in MxRecord /\ ~Before(q[i], q[i])
      BY <1>2, BeforeOrder
    <3>2. ~(i < j) /\ ~(j < i)
      BY <1>2, <2>1, <3>1 DEF Ascending
    <3> QED
      BY <3>2
  <2> QED
    BY <1>2, <2>1 DEF Injection, IsInjective
<1>4. Cardinality(1 .. n) = n
  BY <1>1, FS_Interval
<1>5. q \in Surjection(1 .. n, S)
  BY <1>3, <1>4, FS_Injection
<1>6. \A s \in S : \E i \in 1 .. n : q[i] = s
  BY <1>5 DEF Surjection
<1> HIDE DEF n
<1>7. q \in Seq(MxRecord) /\ Len(q) = n
  BY <1>1, <1>2
<1> QED
  BY <1>2, <1>6, <1>7 DEF q

-----------------------------------------------------------------------------
(* The loop over the sorted records that lists their bases.                *)
AddBase(list, b) == IF b \in Skipped \cup ToSet(list) THEN list ELSE Append(list, b)

(* The loop over the records, step by step.                                *)
LEMMA BasesLoop ==
  ASSUME NEW q, NEW n \in Nat, n = Len(q), NEW base \in [1 .. n -> STRING],
         \A k \in 1 .. n : base[k] = BaseOf[q[k].exchange]
  PROVE  \E f : /\ f \in [0 .. n -> Seq(STRING)] /\ f[0] = <<>>
                /\ \A k \in 1 .. n : f[k] = AddBase(f[k - 1], base[k])
                /\ Bases(q) = f[n]
<1> DEFINE D(g) == [k \in 0 .. Len(q) |->
                      IF k = 0 THEN <<>>
                      ELSE IF BaseOf[q[k].exchange] \in Skipped \cup ToSet(g[k - 1]) THEN g[k - 1]
                      ELSE Append(g[k - 1], BaseOf[q[k].exchange])]
           step == [x \in (1 .. n) \X Seq(STRING) |-> AddBase(x[2], base[x[1]])]
           at == CHOOSE g : g = D(g)
<1>1. ASSUME NEW k \in 1 .. n, NEW l \in Seq(STRING) PROVE AddBase(l, base[k]) \in Seq(STRING)
  BY AppendProperties DEF AddBase
<1>2. step \in [(1 .. n) \X Seq(STRING) -> Seq(STRING)]
  BY <1>1
<1>3. \A k \in 1 .. n, l \in Seq(STRING) : step[<<k, l>>] = AddBase(l, base[k])
  OBVIOUS
<1>4. <<>> \in Seq(STRING)
  BY EmptySeq
<1>5. PICK f : Loops(f, n, Seq(STRING), <<>>, step)
  <2> HIDE DEF step
  <2> QED
    BY <1>2, <1>4, LoopExists
<1> HIDE DEF step
<1>6. f \in [0 .. n -> Seq(STRING)] /\ f[0] = <<>>
  BY <1>5 DEF Loops
<1>7. ASSUME NEW k \in 1 .. n PROVE f[k] = AddBase(f[k - 1], base[k])
  <2>1. f[k] = step[<<k, f[k - 1]>>]
    BY <1>5 DEF Loops
  <2>2. f[k - 1] \in Seq(STRING)
    BY <1>6
  <2> QED
    BY <1>3, <2>1, <2>2
<1>8. ASSUME NEW g
      PROVE  /\ D(g)[0] = <<>>
             /\ \A k \in 1 .. n : D(g)[k] = AddBase(g[k - 1], base[k])
             /\ DOMAIN D(g) = 0 .. n
  BY DEF AddBase
<1>9. f = D(f)
  <2> DEFINE F == D(f)
  <2>1. F = [k \in 0 .. n |-> F[k]]
    OBVIOUS
  <2>2. f = [k \in 0 .. n |-> f[k]]
    BY <1>6
  <2>3. \A k \in 0 .. n : k = 0 \/ k \in 1 .. n
    OBVIOUS
  <2>4. F[0] = <<>> /\ \A k \in 1 .. n : F[k] = AddBase(f[k - 1], base[k])
    BY <1>8
  <2> HIDE DEF F
  <2>5. \A k \in 0 .. n : f[k] = F[k]
    BY <1>6, <1>7, <2>3, <2>4
  <2>6. f = F
    BY <2>1, <2>2, <2>5
  <2> QED
    BY <2>6 DEF F
<1>10. at = D(at)
  BY <1>9
<1>11. Bases(q) = at[n]
  BY DEF Bases
<1>12. /\ at[0] = <<>> /\ at = [k \in 0 .. n |-> at[k]]
       /\ \A k \in 1 .. n : at[k] = AddBase(at[k - 1], base[k])
  <2> HIDE DEF at
  <2> DEFINE F == D(at)
  <2>1. F = [k \in 0 .. n |-> F[k]]
    OBVIOUS
  <2>2. F[0] = <<>> /\ \A k \in 1 .. n : F[k] = AddBase(at[k - 1], base[k])
    BY <1>8
  <2>3. at = F
    BY <1>10
  <2> HIDE DEF F
  <2> QED
    BY <2>1, <2>2, <2>3
<1> HIDE DEF D, at
<1> DEFINE H == {k \in 0 .. n : at[k] \in Seq(STRING)}
<1>13. 0 \in H
  <2>1. 0 \in 0 .. n
    OBVIOUS
  <2> QED
    BY <1>4, <1>12, <2>1
<1>14. ASSUME NEW k \in 1 .. n, k - 1 \in H PROVE k \in H
  <2>1. at[k - 1] \in Seq(STRING) /\ k \in 0 .. n
    BY <1>14
  <2> QED
    BY <1>1, <1>12, <2>1
<1>15. \A k \in 0 .. n : k \in H
  <2> HIDE DEF H
  <2> QED
    BY <1>13, <1>14, LoopInduction
<1>16. at \in [0 .. n -> Seq(STRING)]
  BY <1>12, <1>15
<1> QED
  BY <1>11, <1>12, <1>16

(* The bases are those of the records, without the domain and without a    *)
(* public suffix, each once, in the order of the first record that names   *)
(* each of them.                                                           *)
LEMMA BasesOrder ==
  ASSUME NEW q, NEW n \in Nat, n = Len(q), NEW base \in [1 .. n -> STRING],
         \A k \in 1 .. n : base[k] = BaseOf[q[k].exchange]
  PROVE  LET b == Bases(q)
         IN  /\ b \in Seq(STRING)
             /\ ToSet(b) = {base[k] : k \in 1 .. n} \ {Domain, None}
             /\ \A i, j \in 1 .. Len(b) : i < j =>
                  \E k \in 1 .. n : base[k] = b[i] /\ \A l \in 1 .. n : base[l] = b[j] => k < l
<1> DEFINE Ordered(b, m) ==
             \A i, j \in 1 .. Len(b) : i < j =>
               \E k \in 1 .. m : base[k] = b[i] /\ \A l \in 1 .. m : base[l] = b[j] => k < l
           Of(b, m) == /\ \A i \in 1 .. Len(b) : b[i] \notin {Domain, None} /\ \E k \in 1 .. m : b[i] = base[k]
                       /\ \A k \in 1 .. m : base[k] \in {Domain, None} \/ \E i \in 1 .. Len(b) : b[i] = base[k]
<1>2. PICK f : /\ f \in [0 .. n -> Seq(STRING)] /\ f[0] = <<>>
               /\ \A k \in 1 .. n : f[k] = AddBase(f[k - 1], base[k])
               /\ Bases(q) = f[n]
  BY BasesLoop
<1> DEFINE H == {m \in 0 .. n : Of(f[m], m) /\ Ordered(f[m], m)}
<1>3. 0 \in H
  BY <1>2
<1>4. ASSUME NEW m \in 1 .. n, m - 1 \in H PROVE m \in H
  <2> DEFINE b == f[m - 1]
             new == base[m]
  <2>1. b \in Seq(STRING) /\ new \in STRING /\ f[m] = AddBase(b, new) /\ m - 1 \in 0 .. n
    BY <1>2
  <2>2. Of(b, m - 1) /\ Ordered(b, m - 1)
    BY <1>4
  <2>3. DOMAIN b = 1 .. Len(b) /\ Len(b) \in Nat
    BY <2>1
  <2>4. ToSet(b) = {b[i] : i \in 1 .. Len(b)}
    BY <2>3 DEF ToSet
  <2> HIDE DEF b
  <2>0. Of(f[m], m) /\ Ordered(f[m], m) => m \in H
    OBVIOUS
  <2>5. \A k \in 1 .. m : k \in 1 .. m - 1 \/ k = m
    OBVIOUS
  <2>6. \A k \in 1 .. m - 1 : k \in 1 .. m /\ k < m
    OBVIOUS
  <2>7. CASE new \in Skipped \cup ToSet(b)
    <3>1. f[m] = b
      BY <2>1, <2>7 DEF AddBase
    <3>2. Of(b, m)
      <4>1. new \in {Domain, None} \/ \E i \in 1 .. Len(b) : b[i] = new
        BY <2>4, <2>7 DEF Skipped
      <4> QED
        BY <2>2, <2>5, <2>6, <4>1
    <3>3. Ordered(b, m)
      <4> SUFFICES ASSUME NEW i \in 1 .. Len(b), NEW j \in 1 .. Len(b), i < j
                   PROVE  \E k \in 1 .. m : base[k] = b[i] /\ \A l \in 1 .. m : base[l] = b[j] => k < l
        OBVIOUS
      <4>1. PICK k \in 1 .. m - 1 : base[k] = b[i] /\ \A l \in 1 .. m - 1 : base[l] = b[j] => k < l
        BY <2>2
      <4> HIDE DEF new
      <4> QED
        BY <2>5, <2>6, <4>1
    <3> QED
      BY <2>0, <3>1, <3>2, <3>3
  <2>8. CASE new \notin Skipped \cup ToSet(b)
    <3> DEFINE c == Append(b, new)
    <3>1. f[m] = c
      BY <2>1, <2>8 DEF AddBase
    <3>2. /\ Len(c) = Len(b) + 1 /\ c[Len(c)] = new
          /\ \A i \in 1 .. Len(b) : c[i] = b[i]
          /\ \A i \in 1 .. Len(c) : i \in 1 .. Len(b) \/ i = Len(c)
          /\ \A i \in 1 .. Len(b) : i \in 1 .. Len(c)
          /\ Len(c) \in 1 .. Len(c)
      BY <2>1, <2>3, AppendProperties
    <3> HIDE DEF c
    <3>3. new \notin {Domain, None} /\ \A i \in 1 .. Len(b) : b[i] # new
      BY <2>4, <2>8 DEF Skipped
    <3>4. Of(c, m)
      <4>1. ASSUME NEW i \in 1 .. Len(c)
            PROVE  c[i] \notin {Domain, None} /\ \E k \in 1 .. m : c[i] = base[k]
        <5>1. m \in 1 .. m
          OBVIOUS
        <5> QED
          BY <2>2, <2>6, <3>2, <3>3, <5>1
      <4>2. ASSUME NEW k \in 1 .. m
            PROVE  base[k] \in {Domain, None} \/ \E i \in 1 .. Len(c) : c[i] = base[k]
        <5>1. CASE k = m
          BY <3>2, <5>1
        <5>2. CASE k \in 1 .. m - 1
          <6>1. base[k] \in {Domain, None} \/ \E i \in 1 .. Len(b) : b[i] = base[k]
            BY <2>2, <5>2
          <6> HIDE DEF new
          <6> QED
            BY <3>2, <6>1
        <5> QED
          BY <2>5, <5>1, <5>2
      <4> QED
        BY <4>1, <4>2
    <3>5. Ordered(c, m)
      <4> SUFFICES ASSUME NEW i \in 1 .. Len(c), NEW j \in 1 .. Len(c), i < j
                   PROVE  \E k \in 1 .. m : base[k] = c[i] /\ \A l \in 1 .. m : base[l] = c[j] => k < l
        OBVIOUS
      <4>1. i \in 1 .. Len(b) /\ c[i] = b[i]
        BY <2>3, <3>2
      <4>2. CASE j = Len(c)
        <5>1. PICK k \in 1 .. m - 1 : base[k] = b[i]
          BY <2>2, <4>1
        <5>2. ASSUME NEW l \in 1 .. m - 1, base[l] = new PROVE FALSE
          BY <2>2, <3>3, <5>2
        <5> QED
          BY <2>5, <2>6, <3>2, <4>1, <4>2, <5>1, <5>2
      <4>3. CASE j \in 1 .. Len(b)
        <5>1. PICK k \in 1 .. m - 1 : base[k] = b[i] /\ \A l \in 1 .. m - 1 : base[l] = b[j] => k < l
          BY <2>2, <4>1, <4>3
        <5>2. c[j] = b[j]
          BY <3>2, <4>3
        <5> HIDE DEF new
        <5> QED
          BY <2>5, <2>6, <4>1, <5>1, <5>2
      <4> QED
        BY <3>2, <4>2, <4>3
    <3> QED
      BY <2>0, <3>1, <3>4, <3>5
  <2> QED
    BY <2>7, <2>8
<1>5. n \in H
  <2> HIDE DEF H
  <2>1. \A m \in 0 .. n : m \in H
    BY <1>3, <1>4, LoopInduction
  <2> QED
    BY <2>1
<1> DEFINE b == Bases(q)
<1>6. b \in Seq(STRING) /\ Of(b, n) /\ Ordered(b, n)
  BY <1>2, <1>5
<1>7. ToSet(b) = {b[i] : i \in 1 .. Len(b)}
  BY <1>6 DEF ToSet
<1> HIDE DEF b
<1>8. ToSet(b) = {base[k] : k \in 1 .. n} \ {Domain, None}
  <2>1. ASSUME NEW i \in 1 .. Len(b) PROVE b[i] \in {base[k] : k \in 1 .. n} \ {Domain, None}
    BY <1>6
  <2>2. ASSUME NEW k \in 1 .. n, base[k] \notin {Domain, None} PROVE base[k] \in ToSet(b)
    BY <1>6, <1>7, <2>2
  <2> QED
    BY <1>7, <2>1, <2>2
<1> QED
  BY <1>6, <1>8 DEF b

(* a goes before b by some record of S.                                    *)
Leads(a, b, name, S) ==
  \E r \in S : name[r.exchange] = a /\ \A s \in S : name[s.exchange] = b => Before(r, s)

(* The bases of an answer, each once, a better one before a worse one.     *)
LEMMA BasesBest ==
  ASSUME NEW S \in SUBSET MxRecord, IsFiniteSet(S)
  PROVE  LET b == Bases(BestFirst(S))
         IN  /\ b \in Seq(STRING)
             /\ ToSet(b) = {BaseOf[r.exchange] : r \in S} \ {Domain, None}
             /\ \A i, j \in 1 .. Len(b) : Leads(b[i], b[j], BaseOf, S) => i < j
             /\ \A i, j \in 1 .. Len(b) : b[i] = b[j] => i = j
<1> DEFINE q == BestFirst(S)
           b == Bases(q)
           n == Len(q)
           base == [k \in 1 .. n |-> BaseOf[q[k].exchange]]
<1>1. q \in Seq(MxRecord) /\ Ascending(q) /\ {q[i] : i \in 1 .. n} = S
  BY BestFirstSorted
<1> HIDE DEF q
<1>2. n \in Nat /\ DOMAIN q = 1 .. n /\ \A i \in 1 .. n : q[i] \in S
  BY <1>1
<1>3. base \in [1 .. n -> STRING]
  BY <1>2, ExchangesAssumption DEF MxRecord
<1>4. \A k \in 1 .. n : base[k] = BaseOf[q[k].exchange]
  OBVIOUS
<1>5. /\ b \in Seq(STRING)
      /\ ToSet(b) = {base[k] : k \in 1 .. n} \ {Domain, None}
      /\ \A i, j \in 1 .. Len(b) : i < j =>
           \E k \in 1 .. n : base[k] = b[i] /\ \A l \in 1 .. n : base[l] = b[j] => k < l
  <2>1. n = Len(q) /\ n \in Nat
    BY <1>2
  <2> HIDE DEF base, n
  <2> QED
    BY <2>1, <1>3, <1>4, BasesOrder, SMTT(40)
<1> HIDE DEF b, base
<1>6. {base[k] : k \in 1 .. n} = {BaseOf[r.exchange] : r \in S}
  BY <1>1, <1>2, <1>4
<1> HIDE DEF n
<1>7. \A i, j \in 1 .. Len(b) : i < j => b[i] # b[j]
  BY <1>2, <1>5
<1>8. ASSUME NEW i \in 1 .. Len(b), NEW j \in 1 .. Len(b), b[i] = b[j] PROVE i = j
  <2>1. i < j \/ j < i \/ i = j
    OBVIOUS
  <2> QED
    BY <1>7, <1>8, <2>1
<1>9. ASSUME NEW i \in 1 .. Len(b), NEW j \in 1 .. Len(b), Leads(b[i], b[j], BaseOf, S)
      PROVE  i < j
  <2> SUFFICES ASSUME j <= i PROVE FALSE
    OBVIOUS
  <2>1. PICK r \in S : /\ BaseOf[r.exchange] = b[i]
                       /\ \A s \in S : BaseOf[s.exchange] = b[j] => Before(r, s)
    BY <1>9 DEF Leads
  <2>2. ~Before(r, r)
    BY BeforeOrder
  <2>3. j < i
    BY <2>1, <2>2
  <2>4. PICK k \in 1 .. n : base[k] = b[j] /\ \A l \in 1 .. n : base[l] = b[i] => k < l
    BY <1>5, <2>3
  <2>5. PICK l \in 1 .. n : q[l] = r
    BY <1>1 DEF n
  <2>6. Before(r, q[k]) /\ q[k] \in MxRecord /\ r \in MxRecord
    BY <1>2, <1>4, <2>1, <2>4
  <2>7. k < l
    BY <1>4, <2>1, <2>4, <2>5
  <2>8. Before(q[k], r)
    BY <1>1, <1>2, <2>5, <2>7 DEF Ascending
  <2> QED
    BY <2>6, <2>8, BeforeOrder
<1> QED
  BY <1>5, <1>6, <1>8, <1>9 DEF b, q

(* The provider detected is one that the records name, and no other leads  *)
(* it.                                                                     *)
LEMMA FirstProviderBest ==
  ASSUME NEW S \in SUBSET MxRecord, IsFiniteSet(S), NEW p \in FirstProvider(BestFirst(S))
  PROVE  /\ \E e \in Exchanges : p = ProviderOf[e]
         /\ \A o : o # None => ~Leads(o, p, ProviderOf, S)
<1> DEFINE q == BestFirst(S)
           matches == {i \in DOMAIN q : ProviderOf[q[i].exchange] # None}
<1>1. q \in Seq(MxRecord) /\ Ascending(q) /\ {q[i] : i \in 1 .. Len(q)} = S
  BY BestFirstSorted
<1>2. PICK j \in matches : p = ProviderOf[q[j].exchange] /\ \A k \in matches : j <= k
  BY DEF FirstProvider
<1> HIDE DEF q
<1>3. Len(q) \in Nat /\ DOMAIN q = 1 .. Len(q) /\ \A i \in 1 .. Len(q) : q[i] \in S
  BY <1>1
<1>4. \E e \in Exchanges : p = ProviderOf[e]
  BY <1>2, <1>3 DEF MxRecord
<1>5. ASSUME NEW o, o # None, Leads(o, p, ProviderOf, S) PROVE FALSE
  <2>1. PICK r \in S : ProviderOf[r.exchange] = o /\ \A s \in S : ProviderOf[s.exchange] = p => Before(r, s)
    BY <1>5 DEF Leads
  <2>2. PICK i \in 1 .. Len(q) : q[i] = r
    BY <1>1
  <2>3. j <= i /\ j \in 1 .. Len(q)
    BY <1>2, <1>3, <1>5, <2>1, <2>2
  <2>4. Before(r, q[j]) /\ q[j] \in MxRecord /\ r \in MxRecord
    BY <1>2, <1>3, <2>1, <2>3
  <2>5. j < i => Before(q[j], r)
    BY <1>1, <1>3, <2>2, <2>3 DEF Ascending
  <2>6. j = i => q[j] = r
    BY <2>2
  <2> QED
    BY <2>3, <2>4, <2>5, <2>6, BeforeOrder
<1> QED
  BY <1>4, <1>5

LEMMA MxAnswerRecords ==
  ASSUME NEW S \in MxAnswers
  PROVE  S \in SUBSET MxRecord /\ IsFiniteSet(S)
<1>1. PICK m \in 0 .. MaxMx : \E q \in [1 .. m -> MxRecord] : S = ToSet(q)
  BY DEF MxAnswers, SeqOf, MxRecord
<1>0. PICK q \in [1 .. m -> MxRecord] : S = ToSet(q)
  BY <1>1
<1>2. S = {q[i] : i \in 1 .. m}
  BY <1>0 DEF ToSet
<1>3. m \in Nat /\ IsFiniteSet(1 .. m)
  BY ExchangesAssumption, FS_Interval
<1>4. q \in Surjection(1 .. m, S)
  BY <1>2 DEF Surjection
<1>5. IsFiniteSet(S)
  BY <1>3, <1>4, FS_Surjection
<1> QED
  BY <1>2, <1>5

-----------------------------------------------------------------------------
LEMMA LocationsAre ==
  ASSUME NEW a
  PROVE  /\ Locations(a) = <<Get(MainUrl(Autoconfig(a))), Alias(Autoconfig(a)), Get(DbUrl(a))>>
         /\ DOMAIN Locations(a) = 1 .. 3
         /\ Locations(a)[1] = Get(MainUrl(Autoconfig(a)))
         /\ Locations(a)[2] = Alias(Autoconfig(a))
         /\ Locations(a)[3] = Get(DbUrl(a))
         /\ \A c : c \in ToSet(Locations(a)) <=>
              c \in {Get(MainUrl(Autoconfig(a))), Alias(Autoconfig(a)), Get(DbUrl(a))}
BY DEF Locations, ToSet

(* No two bases share a location, and a base has three.                    *)
LEMMA LocationsApart ==
  ASSUME NEW a, NEW b, NEW l \in 1 .. 3, NEW m \in 1 .. 3, Locations(a)[l] = Locations(b)[m]
  PROVE  a = b /\ l = m
<1> DEFINE main(x) == Get(MainUrl(Autoconfig(x)))
           db(x) == Get(DbUrl(x))
           alias(x) == Alias(Autoconfig(x))
<1>1. \A x : main(x).op = "get" /\ db(x).op = "get" /\ alias(x).op = "alias"
  BY DEF Get, Alias
<1>2. main(a) = main(b) => a = b
  <2>1. \A x : main(x).url.host[2] = x
    BY DEF Get, MainUrl, Url, Autoconfig
  <2> QED
    BY <2>1
<1>3. db(a) = db(b) => a = b
  <2>1. \A x : db(x).url.path = x
    BY DEF Get, DbUrl, Url
  <2> QED
    BY <2>1
<1>4. alias(a) = alias(b) => a = b
  <2>1. \A x : alias(x).host[2] = x
    BY DEF Alias, Autoconfig
  <2> QED
    BY <2>1
<1>5. \A x, y : main(x) # db(y)
  <2>1. \A x : main(x).url.host[1] = "autoconfig"
    BY DEF Get, MainUrl, Url, Autoconfig
  <2>2. \A x : db(x).url.host[1] = ""
    BY DEF Get, DbUrl, Url
  <2> QED
    BY <2>1, <2>2
<1>6. \A x : Locations(x)[1] = main(x) /\ Locations(x)[2] = alias(x) /\ Locations(x)[3] = db(x)
  BY LocationsAre
<1> HIDE DEF main, db, alias
<1>7. l \in {1, 2, 3} /\ m \in {1, 2, 3}
  OBVIOUS
<1>8. "get" # "alias"
  OBVIOUS
<1> QED
  BY <1>1, <1>2, <1>3, <1>4, <1>5, <1>6, <1>7, <1>8

(* The calls of the rounds: three for each base, base after base.          *)
LEMMA RoundsAre ==
  ASSUME NEW S, NEW b \in Seq(S)
  PROVE  LET r == Rounds(b)
         IN  /\ Len(b) \in Nat /\ Len(r) = 3 * Len(b)
             /\ r \in Seq(UNION {ToSet(Locations(b[i])) : i \in 1 .. Len(b)})
             /\ \A i \in 1 .. Len(b), l \in 1 .. 3 :
                  3 * (i - 1) + l \in 1 .. Len(r) /\ r[3 * (i - 1) + l] = Locations(b[i])[l]
             /\ \A k \in 1 .. Len(r) : \E i \in 1 .. Len(b), l \in 1 .. 3 : k = 3 * (i - 1) + l
<1> DEFINE n == Len(b)
           r == Rounds(b)
           T == UNION {ToSet(Locations(b[i])) : i \in 1 .. Len(b)}
<1>1. n \in Nat
  OBVIOUS
<1>2. r = [k \in 1 .. 3 * n |-> Locations(b[(k + 2) \div 3])[((k + 2) % 3) + 1]]
  BY DEF Rounds
<1> HIDE DEF r, n, T
<1>3. ASSUME NEW k \in 1 .. 3 * n
      PROVE  /\ (k + 2) \div 3 \in 1 .. n /\ ((k + 2) % 3) + 1 \in 1 .. 3
             /\ k = 3 * (((k + 2) \div 3) - 1) + (((k + 2) % 3) + 1)
  BY <1>1
<1>4. ASSUME NEW i \in 1 .. n, NEW l \in 1 .. 3
      PROVE  /\ 3 * (i - 1) + l \in 1 .. 3 * n
             /\ (3 * (i - 1) + l + 2) \div 3 = i /\ ((3 * (i - 1) + l + 2) % 3) + 1 = l
  BY <1>1
<1>5. ASSUME NEW k \in 1 .. 3 * n PROVE r[k] \in T
  <2> DEFINE i == (k + 2) \div 3
             l == ((k + 2) % 3) + 1
  <2>1. i \in 1 .. n /\ l \in 1 .. 3 /\ r[k] = Locations(b[i])[l]
    BY <1>2, <1>3
  <2> HIDE DEF i, l
  <2>2. Locations(b[i])[l] \in ToSet(Locations(b[i]))
    BY <2>1, LocationsAre DEF ToSet
  <2> QED
    BY <2>1, <2>2 DEF T, n
<1>6. r \in Seq(T) /\ Len(r) = 3 * n
  <2>1. 3 * n \in Nat
    BY <1>1
  <2>2. r \in [1 .. 3 * n -> T]
    BY <1>2, <1>5
  <2> QED
    BY <2>1, <2>2
<1>7. ASSUME NEW i \in 1 .. n, NEW l \in 1 .. 3
      PROVE  3 * (i - 1) + l \in 1 .. 3 * n /\ r[3 * (i - 1) + l] = Locations(b[i])[l]
  <2> DEFINE k == 3 * (i - 1) + l
  <2>1. k \in 1 .. 3 * n /\ (k + 2) \div 3 = i /\ ((k + 2) % 3) + 1 = l
    BY <1>4
  <2> HIDE DEF k
  <2>2. r[k] = Locations(b[i])[l]
    BY <1>2, <2>1
  <2> QED
    BY <2>1, <2>2 DEF k
<1>8. ASSUME NEW k \in 1 .. 3 * n PROVE \E i \in 1 .. n, l \in 1 .. 3 : k = 3 * (i - 1) + l
  BY <1>3
<1> QED
  BY <1>1, <1>6, <1>7, <1>8 DEF n, r, T

-----------------------------------------------------------------------------
(* The target of an alias is that of one of its records.                   *)
LEMMA TargetOfAlias ==
  ASSUME NEW S, NEW records \in Seq(S), NEW h, IsAlias(h, records)
  PROVE  \E i \in DOMAIN records : records[i].owner = h /\ TargetOf(h, records) = records[i].target
<1> DEFINE I == {i \in DOMAIN records : records[i].owner = h}
           First(i) == /\ records[i].owner = h
                       /\ \A j \in 1 .. i - 1 : records[j].owner # h
<1>1. I \in SUBSET Nat /\ I # {}
  BY DEF IsAlias
<1>2. PICK m \in I : \A i \in I : m <= i
  <2> HIDE DEF I
  <2> QED
    BY <1>1, LeastNatural
<1>3. \E i \in DOMAIN records : First(i)
  <2>1. DOMAIN records = 1 .. Len(records) /\ Len(records) \in Nat
    OBVIOUS
  <2>2. ASSUME NEW j \in 1 .. m - 1 PROVE records[j].owner # h
    BY <1>2, <2>1
  <2> QED
    BY <1>2, <2>2
<1>4. TargetOf(h, records) = records[CHOOSE i \in DOMAIN records : First(i)].target
  BY DEF TargetOf
<1> QED
  BY <1>3, <1>4

Hop(h, records) == IF IsAlias(h, records) THEN TargetOf(h, records) ELSE h

Hops(at, n, N, host, records) ==
  /\ at \in [0 .. n -> N] /\ at[0] = host
  /\ \A k \in 1 .. n : at[k] = Hop(at[k - 1], records)
  /\ Follow(host, records) = at[n]

(* The hops of a chain, one by one.                                        *)
LEMMA FollowLoop ==
  ASSUME NEW N, NEW host \in N, NEW S, NEW records \in Seq(S),
         \A i \in DOMAIN records : records[i].target \in N,
         NEW n \in Nat, n = Len(records)
  PROVE  \E at : Hops(at, n, N, host, records)
<1> DEFINE D(g) == [hop \in 0 .. Len(records) |->
                      IF hop = 0 THEN host
                      ELSE IF IsAlias(g[hop - 1], records) THEN TargetOf(g[hop - 1], records)
                      ELSE g[hop - 1]]
           step == [x \in (1 .. n) \X N |-> Hop(x[2], records)]
           at == CHOOSE g : g = D(g)
<1>1. ASSUME NEW h \in N PROVE Hop(h, records) \in N
  <2>1. CASE IsAlias(h, records)
    <3>1. TargetOf(h, records) \in N
      BY <2>1, TargetOfAlias
    <3> QED
      BY <2>1, <3>1 DEF Hop
  <2>2. CASE ~IsAlias(h, records)
    BY <2>2 DEF Hop
  <2> QED
    BY <2>1, <2>2
<1>2. step \in [(1 .. n) \X N -> N]
  BY <1>1
<1>3. \A k \in 1 .. n, h \in N : step[<<k, h>>] = Hop(h, records)
  OBVIOUS
<1>4. PICK f : Loops(f, n, N, host, step)
  <2> HIDE DEF step
  <2> QED
    BY <1>2, LoopExists
<1> HIDE DEF step
<1>5. f \in [0 .. n -> N] /\ f[0] = host
  BY <1>4 DEF Loops
<1>6. ASSUME NEW k \in 1 .. n PROVE f[k] = Hop(f[k - 1], records)
  <2>1. f[k] = step[<<k, f[k - 1]>>]
    BY <1>4 DEF Loops
  <2>2. f[k - 1] \in N
    BY <1>5
  <2> QED
    BY <1>3, <2>1, <2>2
<1>7. ASSUME NEW g
      PROVE  /\ D(g)[0] = host
             /\ \A k \in 1 .. n : D(g)[k] = Hop(g[k - 1], records)
  BY DEF Hop
<1>8. f = D(f)
  <2> DEFINE F == D(f)
  <2>1. F = [k \in 0 .. n |-> F[k]]
    OBVIOUS
  <2>2. f = [k \in 0 .. n |-> f[k]]
    BY <1>5
  <2>3. \A k \in 0 .. n : k = 0 \/ k \in 1 .. n
    OBVIOUS
  <2>4. F[0] = host /\ \A k \in 1 .. n : F[k] = Hop(f[k - 1], records)
    BY <1>7
  <2> HIDE DEF F
  <2>5. \A k \in 0 .. n : f[k] = F[k]
    BY <1>5, <1>6, <2>3, <2>4
  <2>6. f = F
    BY <2>1, <2>2, <2>5
  <2> QED
    BY <2>6 DEF F
<1>9. at = D(at)
  BY <1>8
<1>10. Follow(host, records) = at[n]
  BY DEF Follow
<1>11. /\ at[0] = host /\ at = [k \in 0 .. n |-> at[k]]
       /\ \A k \in 1 .. n : at[k] = Hop(at[k - 1], records)
  <2> HIDE DEF at
  <2> DEFINE F == D(at)
  <2>1. F = [k \in 0 .. n |-> F[k]]
    OBVIOUS
  <2>2. F[0] = host /\ \A k \in 1 .. n : F[k] = Hop(at[k - 1], records)
    BY <1>7
  <2>3. at = F
    BY <1>9
  <2> HIDE DEF F
  <2> QED
    BY <2>1, <2>2, <2>3
<1> HIDE DEF D, at
<1> DEFINE H == {k \in 0 .. n : at[k] \in N}
<1>12. 0 \in H
  <2>1. 0 \in 0 .. n
    OBVIOUS
  <2> QED
    BY <1>11, <2>1
<1>13. ASSUME NEW k \in 1 .. n, k - 1 \in H PROVE k \in H
  <2>1. at[k - 1] \in N /\ k \in 0 .. n
    BY <1>13
  <2> QED
    BY <1>1, <1>11, <2>1
<1>14. \A k \in 0 .. n : k \in H
  <2> HIDE DEF H
  <2> QED
    BY <1>12, <1>13, LoopInduction
<1>15. at \in [0 .. n -> N]
  BY <1>11, <1>14
<1> QED
  BY <1>10, <1>11, <1>15 DEF Hops

Closed(hosts, records) ==
  \A h \in hosts : IsAlias(h, records) /\ TargetOf(h, records) \in hosts

(* The host a chain is followed to is one of its names. The last target of *)
(* an alias is no alias itself, or the alias is on a loop or leads to one: *)
(* n hops from alias to alias visit n + 1 owners of n records.             *)
LEMMA FollowEnds ==
  ASSUME NEW N, NEW host \in N, NEW S, NEW records \in Seq(S),
         \A i \in DOMAIN records : records[i].target \in N
  PROVE  LET target == Follow(host, records)
         IN  /\ target \in N
             /\ IsAlias(host, records) => \E i \in DOMAIN records : records[i].target = target
             /\ ~IsAlias(target, records) \/
                  \E hosts \in SUBSET {r.owner : r \in ToSet(records)} :
                    host \in hosts /\ Closed(hosts, records)
<1> DEFINE n == Len(records)
           owners == {r.owner : r \in ToSet(records)}
<1>1. n \in Nat /\ DOMAIN records = 1 .. n
  OBVIOUS
<1>0. PICK at : Hops(at, n, N, host, records)
  <2>1. n = Len(records) /\ n \in Nat
    OBVIOUS
  <2> HIDE DEF n
  <2> QED
    BY <2>1, FollowLoop
<1>2. /\ at \in [0 .. n -> N] /\ at[0] = host
      /\ \A k \in 1 .. n : at[k] = Hop(at[k - 1], records)
      /\ Follow(host, records) = at[n]
  BY <1>0 DEF Hops
<1> HIDE DEF n
<1>3. at[n] \in N
  BY <1>1, <1>2
<1>4. ASSUME IsAlias(host, records) PROVE \E i \in DOMAIN records : records[i].target = at[n]
  <2> DEFINE H == {k \in 0 .. n : k = 0 \/ \E i \in DOMAIN records : records[i].target = at[k]}
  <2>1. 0 \in H
    BY <1>1
  <2>2. ASSUME NEW k \in 1 .. n, k - 1 \in H PROVE k \in H
    <3>1. at[k] = Hop(at[k - 1], records) /\ k \in 0 .. n
      BY <1>1, <1>2
    <3>2. CASE IsAlias(at[k - 1], records)
      BY <3>1, <3>2, TargetOfAlias DEF Hop
    <3>3. CASE ~IsAlias(at[k - 1], records)
      <4>1. k - 1 # 0
        BY <1>2, <1>4, <3>3
      <4> QED
        BY <2>2, <3>1, <3>3, <4>1 DEF Hop
    <3> QED
      BY <3>2, <3>3
  <2>3. \A k \in 0 .. n : k \in H
    <3> HIDE DEF H
    <3> QED
      BY <1>1, <2>1, <2>2, LoopInduction
  <2>4. n \in 0 .. n /\ n # 0
    BY <1>1, <1>4 DEF IsAlias
  <2> QED
    BY <2>3, <2>4
<1>5. ASSUME IsAlias(at[n], records)
      PROVE  \E hosts \in SUBSET owners : host \in hosts /\ Closed(hosts, records)
  <2>1. ASSUME NEW m \in 0 .. n, ~IsAlias(at[m], records) PROVE FALSE
    <3> DEFINE H == {k \in 0 .. n : k >= m => at[k] = at[m]}
    <3>1. 0 \in H
      BY <1>1
    <3>2. ASSUME NEW k \in 1 .. n, k - 1 \in H PROVE k \in H
      <4>1. at[k] = Hop(at[k - 1], records) /\ k \in 0 .. n
        BY <1>1, <1>2
      <4>2. CASE k - 1 >= m
        <5>1. at[k - 1] = at[m]
          BY <3>2, <4>2
        <5> QED
          BY <2>1, <4>1, <5>1 DEF Hop
      <4>3. CASE ~(k - 1 >= m)
        <5>1. k >= m => k = m
          BY <1>1, <4>3
        <5> QED
          BY <4>1, <5>1
      <4> QED
        BY <4>2, <4>3
    <3>3. \A k \in 0 .. n : k \in H
      <4> HIDE DEF H
      <4> QED
        BY <1>1, <3>1, <3>2, LoopInduction
    <3>4. at[n] = at[m]
      BY <1>1, <3>3
    <3> QED
      BY <1>5, <2>1, <3>4
  <2>2. \A k \in 1 .. n : at[k] = TargetOf(at[k - 1], records)
    <3>1. \A k \in 1 .. n : k - 1 \in 0 .. n
      BY <1>1
    <3> QED
      BY <1>2, <2>1, <3>1 DEF Hop
  <2>3. \A k \in 0 .. n : at[k] \in owners
    BY <1>1, <2>1 DEF IsAlias, ToSet
  <2>4. IsFiniteSet(owners) /\ Cardinality(owners) <= n
    <3> DEFINE own == [i \in 1 .. n |-> records[i].owner]
    <3>1. own \in Surjection(1 .. n, owners)
      BY <1>1 DEF Surjection, ToSet
    <3>2. IsFiniteSet(1 .. n) /\ Cardinality(1 .. n) = n
      BY <1>1, FS_Interval
    <3> HIDE DEF own, owners
    <3> QED
      BY <3>1, <3>2, FS_Surjection
  <2>5. IsFiniteSet(0 .. n) /\ Cardinality(0 .. n) = n + 1
    BY <1>1, FS_Interval
  <2>6. \E i, j \in 0 .. n : i # j /\ at[i] = at[j]
    <3>1. at \in [0 .. n -> owners]
      BY <1>2, <2>3
    <3>2. Cardinality(owners) < Cardinality(0 .. n)
      <4>1. Cardinality(owners) \in Nat
        BY <2>4, FS_CardinalityType
      <4> QED
        BY <1>1, <2>4, <2>5, <4>1
    <3> HIDE DEF owners
    <3> QED
      BY <2>4, <2>5, <3>1, <3>2, FS_PigeonHole
  <2>7. PICK i \in 0 .. n, j \in 0 .. n : i < j /\ at[i] = at[j]
    <3>1. \A i, j \in 0 .. n : i < j \/ j < i \/ i = j
      BY <1>1
    <3> QED
      BY <2>6, <3>1
  <2> DEFINE hosts == {at[k] : k \in 0 .. j - 1}
  <2>8. \A k \in 0 .. j - 1 : k \in 0 .. n
    BY <1>1
  <2>9. hosts \in SUBSET owners
    BY <2>3, <2>8
  <2>10. host \in hosts
    BY <1>2, <2>7
  <2>11. ASSUME NEW k \in 0 .. j - 1 PROVE TargetOf(at[k], records) \in hosts
    <3>1. k + 1 \in 1 .. n /\ (k + 1) - 1 = k
      BY <1>1
    <3>2. TargetOf(at[k], records) = at[k + 1]
      BY <2>2, <3>1
    <3>3. CASE k + 1 = j
      BY <2>7, <3>2, <3>3
    <3>4. CASE k + 1 # j
      <4>1. k + 1 \in 0 .. j - 1
        BY <3>4
      <4> QED
        BY <3>2, <4>1
    <3> QED
      BY <3>3, <3>4
  <2>12. Closed(hosts, records)
    BY <2>1, <2>8, <2>11 DEF Closed
  <2> QED
    BY <2>9, <2>10, <2>12
<1> QED
  BY <1>2, <1>3, <1>4, <1>5

-----------------------------------------------------------------------------
(* The stages of the PACC runner: before the document, with the document   *)
(* held back, and over. Nothing is found before the last.                  *)
PaccStages ==
  runner = "pacc" =>
    \/ log = <<>> /\ todo = <<Get(PaccUrl), Txt>> /\ found = {}
    \/ (\E entry : log = <<entry>>) /\ todo = <<Txt>> /\ found = {}
    \/ todo = <<>> /\ Verified

LEMMA PaccInit == Init => PaccStages
BY DEF Init, PaccStages, Calls

(* The calls of the two stages are told apart by what they ask.            *)
LEMMA PaccAsks ==
  ASSUME NEW op
  PROVE  /\ todo = <<>> => ~Asks(op)
         /\ todo = <<Txt>> => (Asks(op) <=> op = "txt") /\ Tail(todo) = <<>>
         /\ todo = <<Get(PaccUrl), Txt>> => (Asks(op) <=> op = "get") /\ Tail(todo) = <<Txt>>
<1>1. ASSUME NEW a PROVE <<a>> # <<>> /\ Head(<<a>>) = a /\ Tail(<<a>>) = <<>>
  OBVIOUS
<1>2. ASSUME NEW a, NEW b PROVE <<a, b>> # <<>> /\ Head(<<a, b>>) = a /\ Tail(<<a, b>>) = <<b>>
  OBVIOUS
<1>3. Txt.op = "txt" /\ \A u : Get(u).op = "get"
  BY DEF Txt, Get
<1>4. todo = <<>> => ~Asks(op)
  BY DEF Asks
<1>5. todo = <<Txt>> => (Asks(op) <=> op = "txt") /\ Tail(todo) = <<>>
  BY <1>1, <1>3 DEF Asks
<1>6. todo = <<Get(PaccUrl), Txt>> => (Asks(op) <=> op = "get") /\ Tail(todo) = <<Txt>>
  BY <1>2, <1>3 DEF Asks
<1> QED
  BY <1>4, <1>5, <1>6

(* A record that vouches for the document is one of the TXT answer.        *)
LEMMA PaccRecordsVouched ==
  ASSUME NEW records, NEW entry, PaccRecords(records), log = <<entry>>
  PROVE  todo' = <<>> /\ Verified'
<1>1. log'[1] = log[1] /\ txt' = records /\ todo' = <<>> /\ runner' = runner
  BY DEF PaccRecords, Logged, inputs
<1>2. ASSUME found' # {} PROVE \E i \in DOMAIN records : Vouches(records[i], log[1].doc)
  BY <1>2 DEF PaccRecords
<1> QED
  BY <1>1, <1>2 DEF Verified, Vouches, ToSet

LEMMA PaccInvariant == Spec => []PaccStages
<1>1. PaccStages /\ [Next]_vars => PaccStages'
  <2> SUFFICES ASSUME PaccStages, [Next]_vars PROVE PaccStages'
    OBVIOUS
  <2>1. CASE UNCHANGED vars
    BY <2>1 DEF vars, inputs, answers, PaccStages, Verified
  <2>2. CASE Next /\ runner # "pacc"
    <3>1. UNCHANGED inputs
      BY <2>2 DEF Next, Document, NoDocument, MxRecords, AliasRecords, Mailconf, NoRecords,
                  PaccDocument, PaccRecords
    <3> QED
      BY <2>2, <3>1 DEF PaccStages, inputs
  <2>3. CASE Next /\ runner = "pacc" /\ log = <<>> /\ todo = <<Get(PaccUrl), Txt>> /\ found = {}
    <3>1. NoDocument \/ \E doc \in Docs : PaccDocument(doc)
      BY <2>3, PaccAsks DEF Next, Document, MxRecords, AliasRecords, Mailconf, NoRecords, PaccRecords
    <3>2. CASE NoDocument
      <4>1. todo' = <<>> /\ found' = {}
        BY <2>3, <3>2 DEF NoDocument
      <4> QED
        BY <4>1 DEF PaccStages, Verified
    <3>3. ASSUME NEW doc \in Docs, PaccDocument(doc) PROVE PaccStages'
      <4>1. todo' = <<Txt>> /\ found' = {}
        BY <2>3, <3>3, PaccAsks DEF PaccDocument
      <4>2. log' = <<[call |-> Head(todo), doc |-> doc]>>
        BY <2>3, <3>3 DEF PaccDocument, Logged
      <4> QED
        BY <4>1, <4>2 DEF PaccStages
    <3> QED
      BY <3>1, <3>2, <3>3
  <2>4. CASE Next /\ runner = "pacc" /\ (\E entry : log = <<entry>>) /\ todo = <<Txt>> /\ found = {}
    <3>1. NoRecords \/ \E records \in PaccAnswers : PaccRecords(records)
      BY <2>4, PaccAsks DEF Next, Document, NoDocument, MxRecords, Mailconf, PaccDocument
    <3>2. CASE NoRecords
      <4>1. todo' = <<>> /\ found' = {}
        BY <2>4, <3>2, PaccAsks DEF NoRecords
      <4> QED
        BY <4>1 DEF PaccStages, Verified
    <3>3. ASSUME NEW records \in PaccAnswers, PaccRecords(records) PROVE PaccStages'
      BY <2>4, <3>3, PaccRecordsVouched DEF PaccStages
    <3> QED
      BY <3>1, <3>2, <3>3
  <2>5. CASE Next /\ todo = <<>>
    BY <2>5, PaccAsks DEF Next, Document, NoDocument, MxRecords, Mailconf, NoRecords,
                          PaccDocument, PaccRecords
  <2> QED
    BY <2>1, <2>2, <2>3, <2>4, <2>5 DEF PaccStages
<1> QED
  BY <1>1, PaccInit, PTL DEF Spec

(* PACC never hands out a document no record of the domain vouches for.    *)
THEOREM VerifiedCorrect == Spec => []Verified
<1>1. PaccStages => Verified
  BY DEF PaccStages, Verified
<1> QED
  BY <1>1, PaccInvariant, PTL

-----------------------------------------------------------------------------
(* A runner that has calls left has found nothing yet.                     *)
Searching ==
  /\ \E S : log \in Seq(S)
  /\ runner \notin {"pacc", "provider"} =>
       (todo # <<>> \/ log = <<>> => found = {})
  /\ FirstOfUse

LEMMA LoggedFacts ==
  ASSUME NEW doc, NEW S, log \in Seq(S), Logged(doc)
  PROVE  /\ \E T : log' \in Seq(T)
         /\ Len(log) \in Nat /\ Len(log') = Len(log) + 1
         /\ DOMAIN log = 1 .. Len(log) /\ DOMAIN log' = 1 .. Len(log) + 1
         /\ \A i \in DOMAIN log : log'[i] = log[i]
         /\ log'[Len(log')].doc = doc
<1>1. log' = Append(log, [call |-> Head(todo), doc |-> doc])
  BY DEF Logged
<1> HIDE DEF Logged
<1>2. log \in Seq(S \cup {[call |-> Head(todo), doc |-> doc]})
  OBVIOUS
<1>3. log' \in Seq(S \cup {[call |-> Head(todo), doc |-> doc]})
  BY <1>1, <1>2
<1> QED
  BY <1>1, <1>2, <1>3

(* One more call, after calls that found nothing.                          *)
LEMMA LoggedStep ==
  ASSUME Searching, todo # <<>>, NEW doc, Logged(doc), UNCHANGED inputs,
         runner \notin {"pacc", "provider"} =>
           /\ found' = Usable(doc)
           /\ todo' # <<>> => found' = {}
  PROVE  Searching'
<1>1. PICK S : log \in Seq(S)
  BY DEF Searching
<1>2. /\ \E T : log' \in Seq(T)
      /\ Len(log) \in Nat /\ Len(log') = Len(log) + 1
      /\ DOMAIN log = 1 .. Len(log) /\ DOMAIN log' = 1 .. Len(log) + 1
      /\ \A i \in DOMAIN log : log'[i] = log[i]
      /\ log'[Len(log')].doc = doc
  BY <1>1, LoggedFacts
<1>3. log' # <<>>
  BY <1>2
<1>4. \A d : Usable(d)' = Usable(d)
  BY DEF Usable, inputs
<1>5. ASSUME runner \notin {"pacc", "provider"}, NEW i \in DOMAIN log'
      PROVE  IF i = Len(log') THEN found' = Usable(log'[i].doc) ELSE Usable(log'[i].doc) = {}
  <2>1. CASE i = Len(log')
    BY <1>2, <1>5, <2>1
  <2>2. CASE i # Len(log')
    <3>1. i \in DOMAIN log
      BY <1>2, <2>2
    <3>2. Usable(log[i].doc) = {}
      BY <1>5, <3>1 DEF Searching, FirstOfUse
    <3> QED
      BY <1>2, <2>2, <3>1, <3>2
  <2> QED
    BY <2>1, <2>2
<1>6. FirstOfUse'
  BY <1>4, <1>5 DEF FirstOfUse, inputs
<1> QED
  BY <1>2, <1>3, <1>6 DEF Searching, inputs

LEMMA SearchInvariant == Spec => []Searching
<1>1. Init => Searching
  BY DEF Init, Searching, FirstOfUse
<1>2. Searching /\ [Next]_vars => Searching'
  <2> SUFFICES ASSUME Searching, [Next]_vars PROVE Searching'
    OBVIOUS
  <2>1. Usable({}) = {}
    BY DEF Usable
  <2>2. \A op : Asks(op) => todo # <<>>
    BY DEF Asks
  <2>3. \A op : Asks(op) /\ runner \notin {"pacc", "provider"} => found = {}
    BY <2>2 DEF Searching
  <2>4. ASSUME NEW doc, Document(doc) PROVE Searching'
    BY <2>2, <2>4, LoggedStep DEF Document
  <2>5. CASE NoDocument
    BY <2>1, <2>2, <2>3, <2>5, LoggedStep DEF NoDocument
  <2>6. ASSUME NEW records, MxRecords(records) PROVE Searching'
    <3>1. Asks("mx") /\ Logged({}) /\ UNCHANGED inputs /\ (runner # "provider" => found' = found)
      BY <2>6 DEF MxRecords
    <3> QED
      BY <2>1, <2>2, <2>3, <3>1, LoggedStep
  <2>7. ASSUME NEW records, AliasRecords(records) PROVE Searching'
    <3>1. Asks("alias") /\ Logged({}) /\ UNCHANGED inputs /\ found' = found
      BY <2>7 DEF AliasRecords
    <3> QED
      BY <2>1, <2>2, <2>3, <3>1, LoggedStep
  <2>8. ASSUME NEW url, Mailconf(url) PROVE Searching'
    BY <2>1, <2>2, <2>3, <2>8, LoggedStep DEF Mailconf
  <2>9. CASE NoRecords
    BY <2>1, <2>2, <2>3, <2>9, LoggedStep DEF NoRecords
  <2>10. ASSUME NEW doc, PaccDocument(doc) PROVE Searching'
    BY <2>2, <2>10, LoggedStep DEF PaccDocument
  <2>11. ASSUME NEW records, PaccRecords(records) PROVE Searching'
    <3>1. Asks("txt") /\ Logged({}) /\ UNCHANGED inputs /\ runner = "pacc"
      BY <2>11 DEF PaccRecords
    <3> QED
      BY <2>2, <3>1, LoggedStep
  <2>12. CASE UNCHANGED vars
    BY <2>12 DEF vars, inputs, Searching, FirstOfUse, Usable
  <2> QED
    BY <2>4, <2>5, <2>6, <2>7, <2>8, <2>9, <2>10, <2>11, <2>12 DEF Next
<1> QED
  BY <1>1, <1>2, PTL DEF Spec

-----------------------------------------------------------------------------
(* What a step does to the list of calls.                                  *)
LEMMA CallKinds ==
  ASSUME NEW u
  PROVE  /\ Get(u).op = "get" /\ Target(u).op = "get" /\ Alias(u).op = "alias"
         /\ Mx.op = "mx" /\ Txt.op = "txt"
         /\ Get(u).via = "list" /\ Target(u).via = "alias"
BY DEF Get, Target, Alias, Mx, Txt

(* The runners that ask about a URL they were given, whatever its scheme.  *)
Given == {"oauthServer", "oauthResource"} \cup Probes

(* The URLs a runner may know before any answer.                           *)
Known(r) == {u \in Urls : r \notin Given => u.scheme = "https"}

LEMMA CallsAre ==
  ASSUME NEW r \in Runners, NEW c \in Calls(r)
  PROVE  \/ r \in {"mxAutoconfig", "provider"} /\ c = <<Mx>>
         \/ r = "mailconf" /\ c = <<Txt>>
         \/ /\ r \notin {"mxAutoconfig", "provider", "mailconf"}
            /\ \E u \in Known(r) :
                 \/ c = <<Get(u)>>
                 \/ c = <<Get(u), Txt>>
                 \/ r = "ispMain" /\ c = <<Get(u), Alias(Autoconfig(Domain))>>
                 \/ \E v \in Known(r) : c = <<Get(u), Get(v)>>
<1> DEFINE Goal == \E u \in Known(r) :
                   \/ c = <<Get(u)>>
                   \/ c = <<Get(u), Txt>>
                   \/ r = "ispMain" /\ c = <<Get(u), Alias(Autoconfig(Domain))>>
                   \/ \E v \in Known(r) : c = <<Get(u), Get(v)>>
<1>0. ASSUME NEW u \in Known(r),
             \/ c = <<Get(u)>> \/ c = <<Get(u), Txt>>
             \/ r = "ispMain" /\ c = <<Get(u), Alias(Autoconfig(Domain))>>
             \/ \E v \in Known(r) : c = <<Get(u), Get(v)>>
      PROVE  Goal
  BY <1>0
<1> HIDE DEF Goal
<1>1. CASE r \in {"mxAutoconfig", "provider", "mailconf"}
  BY <1>1 DEF Calls
<1>2. ASSUME r = "ispMain" PROVE Goal
  <2>1. MainUrl(Autoconfig(Domain)) \in Known(r)
    BY DEF Known, Urls, AutoconfigHosts, MainUrl, Url
  <2> QED
    BY <1>0, <1>2, <2>1 DEF Calls
<1>3. ASSUME r \in {"ispFallback", "ispdb", "pacc"} PROVE Goal
  <2>1. FallbackUrl \in Known(r) /\ DbUrl(Domain) \in Known(r) /\ PaccUrl \in Known(r)
    <3>1. FallbackUrl \in Urls /\ DbUrl(Domain) \in Urls /\ PaccUrl \in Urls
      BY DEF Urls
    <3>2. FallbackUrl.scheme = "https" /\ DbUrl(Domain).scheme = "https" /\ PaccUrl.scheme = "https"
      BY DEF FallbackUrl, DbUrl, PaccUrl, Url
    <3> QED
      BY <3>1, <3>2 DEF Known
  <2>2. c \in {<<Get(FallbackUrl)>>, <<Get(DbUrl(Domain))>>, <<Get(PaccUrl), Txt>>}
    BY <1>3 DEF Calls
  <2> QED
    BY <1>0, <1>3, <2>1, <2>2
<1>4. ASSUME r \in {"oauthServer", "oauthResource"} PROVE Goal
  <2>1. ASSUME NEW s \in Factories, NEW p \in {"oauth", "openid", "resource"}
        PROVE  MetadataUrl(s, p) \in Known(r)
    <3>1. MetadataUrl(s, p) \in Urls
      BY DEF Urls
    <3> QED
      BY <1>4, <3>1 DEF Known, Given
  <2>2. PICK s \in Factories :
          c \in {<<Get(MetadataUrl(s, "oauth")), Get(MetadataUrl(s, "openid"))>>,
                 <<Get(MetadataUrl(s, "resource"))>>}
    BY <1>4 DEF Calls, Probes
  <2> QED
    BY <1>0, <1>4, <2>1, <2>2
<1>5. ASSUME r \in Probes PROVE Goal
  <2>1. ASSUME NEW s \in Factories, NEW p \in {"root"} \cup Probes
        PROVE  EndpointUrl(s, p) \in Known(r)
    <3>1. EndpointUrl(s, p) \in Urls
      BY DEF Urls
    <3> QED
      BY <1>5, <3>1 DEF Known, Given
  <2>2. PICK s \in Factories :
          c \in {<<Get(EndpointUrl(s, "root")), Get(EndpointUrl(s, r))>>,
                 <<Get(EndpointUrl(s, "root"))>>}
    BY <1>5 DEF Calls, Probes
  <2>4. EndpointUrl(s, "root") \in Known(r) /\ EndpointUrl(s, r) \in Known(r)
    BY <1>5, <2>1
  <2> QED
    BY <1>0, <2>2, <2>4
<1>6. r \notin {"mxAutoconfig", "provider", "mailconf"} => Goal
  BY <1>2, <1>3, <1>4, <1>5 DEF Runners
<1> QED
  BY <1>1, <1>6 DEF Goal

(* The first call of a runner tells the others.                            *)
LEMMA CallsApart ==
  ASSUME NEW r \in Runners, NEW c \in Calls(r), NEW d \in Calls(r), c[1] = d[1]
  PROVE  c = d
<1>1. \A s, t, p : MetadataUrl(s, p) = MetadataUrl(t, p) => s = t
  BY DEF MetadataUrl, Url
<1>2. \A s, t, p : EndpointUrl(s, p) = EndpointUrl(t, p) => s = t
  BY DEF EndpointUrl, Url
<1>3. \A u, v : Get(u) = Get(v) => u = v
  <2>1. \A u : Get(u).url = u
    BY DEF Get
  <2> QED
    BY <2>1
<1>4. CASE r \in {"oauthServer", "oauthResource"}
  <2>1. PICK s \in Factories, t \in Factories :
          \/ /\ c = <<Get(MetadataUrl(s, "oauth")), Get(MetadataUrl(s, "openid"))>>
             /\ d = <<Get(MetadataUrl(t, "oauth")), Get(MetadataUrl(t, "openid"))>>
          \/ /\ c = <<Get(MetadataUrl(s, "resource"))>>
             /\ d = <<Get(MetadataUrl(t, "resource"))>>
    BY <1>4 DEF Calls, Probes
  <2> QED
    BY <1>1, <1>3, <2>1
<1>5. CASE r \in Probes
  <2>1. PICK s \in Factories, t \in Factories :
          \/ /\ c = <<Get(EndpointUrl(s, "root")), Get(EndpointUrl(s, r))>>
             /\ d = <<Get(EndpointUrl(t, "root")), Get(EndpointUrl(t, r))>>
          \/ /\ c = <<Get(EndpointUrl(s, "root"))>>
             /\ d = <<Get(EndpointUrl(t, "root"))>>
    BY <1>5 DEF Calls, Probes
  <2> QED
    BY <1>2, <1>3, <2>1
<1>6. CASE r \notin {"oauthServer", "oauthResource"} \cup Probes
  BY <1>6 DEF Calls, Runners
<1> QED
  BY <1>4, <1>5, <1>6

(* The lookup of mail hosts comes first, and only it fills mx.             *)
Stages ==
  /\ log = <<>> => mx = {} /\ todo \in Calls(runner)
  /\ log # <<>> => \A i \in DOMAIN todo : todo[i] # Mx
  /\ mx # {} => runner \in {"mxAutoconfig", "provider"}
  /\ runner = "provider" => log = <<>> \/ todo = <<>>

(* The six ways a step changes the list.                                   *)
Dropped == todo' = Tail(todo) /\ UNCHANGED mx /\ (runner = "provider" => UNCHANGED found)
Ended ==
  /\ todo' = <<>> /\ UNCHANGED mx /\ runner # "provider"
  /\ found' # {} \/ runner = "pacc" \/ runner = "mailconf"
Detected ==
  /\ runner = "provider" /\ todo = <<Mx>> /\ todo' = <<>>
  /\ mx' \in MxAnswers /\ found' = FirstProvider(BestFirst(mx'))
Listed ==
  /\ runner = "mxAutoconfig" /\ todo = <<Mx>> /\ UNCHANGED found
  /\ mx' \in MxAnswers /\ todo' = Rounds(Bases(BestFirst(mx')))
FollowedBy(h, records) ==
  /\ Head(todo) = Alias(h) /\ IsAlias(h, records)
  /\ todo' = <<Target(MainUrl(Follow(h, records)))>> \o Tail(todo)
  /\ chain' = records /\ UNCHANGED <<mx, found>>
Followed == \E h \in AutoconfigHosts : \E records \in AliasAnswers(h) : FollowedBy(h, records)
Redirected ==
  /\ runner = "mailconf" /\ Head(todo) = Txt /\ UNCHANGED mx
  /\ \E url \in MailconfUrls : todo' = <<Get(url)>> /\ (secureOnly => url.scheme = "https")

(* What is asked is of the kind of the call.                               *)
LEMMA AskedKind ==
  ASSUME TypeOK, NEW op, Asks(op)
  PROVE  /\ todo # <<>> /\ Head(todo) \in CallSet /\ Head(todo) = todo[1] /\ 1 \in DOMAIN todo
         /\ op = "mx" => Head(todo) = Mx
         /\ op = "txt" => Head(todo) = Txt
         /\ op = "alias" => \E h \in AutoconfigHosts : Head(todo) = Alias(h)
         /\ op = "get" => \/ \E u \in Urls : Head(todo) = Get(u)
                          \/ \E h \in AutoconfigHosts \cup Aliases : Head(todo) = Target(MainUrl(h))
<1>1. todo # <<>> /\ todo \in Seq(CallSet) /\ Head(todo).op = op
  BY DEF Asks, TypeOK
<1>2. Head(todo) \in CallSet /\ Head(todo) = todo[1] /\ 1 \in DOMAIN todo
  BY <1>1
<1>3. \/ \E u \in Urls : Head(todo) = Get(u)
      \/ \E h \in AutoconfigHosts \cup Aliases : Head(todo) = Target(MainUrl(h))
      \/ \E h \in AutoconfigHosts : Head(todo) = Alias(h)
      \/ Head(todo) = Mx \/ Head(todo) = Txt
  BY <1>2 DEF CallSet
<1> QED
  BY <1>1, <1>2, <1>3, CallKinds

(* Mail hosts are asked for by two runners, before all else.               *)
LEMMA MxAsked ==
  ASSUME TypeOK, Stages, Asks("mx")
  PROVE  todo = <<Mx>> /\ runner \in {"mxAutoconfig", "provider"} /\ log = <<>>
<1>1. Head(todo) = Mx /\ Head(todo) = todo[1] /\ 1 \in DOMAIN todo
  BY AskedKind
<1>2. log = <<>> /\ todo \in Calls(runner) /\ runner \in Runners
  BY <1>1 DEF Stages, TypeOK
<1>3. \A u, v : /\ <<Get(u)>>[1] # Mx /\ <<Get(u), v>>[1] # Mx /\ <<Txt>>[1] # Mx
  <2>1. \A u : Get(u) # Mx /\ Txt # Mx
    BY CallKinds
  <2> QED
    BY <2>1
<1> QED
  BY <1>1, <1>2, <1>3, CallsAre

LEMMA EmptyDoc == {} \in Docs
BY DEF Docs

LEMMA Step ==
  ASSUME TypeOK, Stages, Next
  PROVE  /\ todo # <<>> /\ UNCHANGED inputs
         /\ \E doc \in Docs : Logged(doc)
         /\ Dropped \/ Ended \/ Detected \/ Listed \/ Followed \/ Redirected
<1> DEFINE Goal == /\ todo # <<>> /\ UNCHANGED inputs
                   /\ \E doc \in Docs : Logged(doc)
                   /\ Dropped \/ Ended \/ Detected \/ Listed \/ Followed \/ Redirected
<1> SUFFICES Goal
  OBVIOUS
<1>0. \A op : Asks(op) => todo # <<>>
  BY DEF Asks
<1>1. runner = "provider" => ~Asks("get")
  <2> SUFFICES ASSUME runner = "provider", Asks("get") PROVE FALSE
    OBVIOUS
  <2>1. todo \in Calls("provider")
    BY <1>0 DEF Stages
  <2>2. todo = <<Mx>>
    BY <2>1 DEF Calls
  <2> QED
    BY <2>2, CallKinds DEF Asks
<1>2. ASSUME NEW doc \in Docs, Document(doc) PROVE Goal
  <2>1. todo # <<>> /\ UNCHANGED inputs /\ Logged(doc) /\ UNCHANGED mx /\ runner # "provider"
    BY <1>0, <1>1, <1>2 DEF Document
  <2>2. CASE Usable(doc) = {}
    BY <1>2, <2>1, <2>2 DEF Document, Dropped
  <2>3. CASE Usable(doc) # {}
    BY <1>2, <2>1, <2>3 DEF Document, Ended
  <2> QED
    BY <2>2, <2>3
<1>3. CASE NoDocument
  <2>1. todo # <<>> /\ UNCHANGED inputs /\ Logged({}) /\ UNCHANGED <<mx, found>>
    BY <1>0, <1>3 DEF NoDocument
  <2>2. CASE runner = "pacc"
    BY <1>3, <2>1, <2>2, EmptyDoc DEF NoDocument, Ended
  <2>3. CASE runner # "pacc"
    BY <1>3, <2>1, <2>3, EmptyDoc DEF NoDocument, Dropped
  <2> QED
    BY <2>2, <2>3
<1>4. ASSUME NEW records \in MxAnswers, MxRecords(records) PROVE Goal
  <2>1. Asks("mx") /\ UNCHANGED inputs /\ Logged({}) /\ mx' = records
    BY <1>4 DEF MxRecords
  <2>2. todo = <<Mx>> /\ runner \in {"mxAutoconfig", "provider"} /\ todo # <<>>
    BY <1>0, <2>1, MxAsked
  <2>3. CASE runner = "provider"
    <3>1. Detected
      BY <1>4, <2>2, <2>3 DEF MxRecords, Detected
    <3> QED
      BY <2>1, <2>2, <3>1, EmptyDoc
  <2>4. CASE runner # "provider"
    <3>1. Listed
      BY <1>4, <2>2, <2>4 DEF MxRecords, Listed
    <3> QED
      BY <2>1, <2>2, <3>1, EmptyDoc
  <2> QED
    BY <2>3, <2>4
<1>5. ASSUME Asks("alias"), NEW records \in AliasAnswers(Head(todo).host), AliasRecords(records)
      PROVE  Goal
  <2>1. todo # <<>> /\ UNCHANGED inputs /\ Logged({}) /\ UNCHANGED <<mx, found>>
    BY <1>0, <1>5 DEF AliasRecords
  <2>2. PICK h \in AutoconfigHosts : Head(todo) = Alias(h)
    BY <1>5, AskedKind
  <2>3. Head(todo).host = h
    BY <2>2 DEF Alias
  <2>4. CASE IsAlias(h, records)
    <3>1. FollowedBy(h, records)
      BY <1>5, <2>1, <2>2, <2>3, <2>4 DEF AliasRecords, FollowedBy
    <3>2. Followed
      BY <1>5, <2>3, <3>1 DEF Followed
    <3> QED
      BY <2>1, <3>2, EmptyDoc
  <2>5. CASE ~IsAlias(h, records)
    <3>1. todo' = Tail(todo)
      BY <1>5, <2>3, <2>5 DEF AliasRecords
    <3>2. Dropped
      BY <2>1, <3>1 DEF Dropped
    <3> QED
      BY <2>1, <3>2, EmptyDoc
  <2> QED
    BY <2>4, <2>5
<1>6. ASSUME NEW url \in MailconfUrls, Mailconf(url) PROVE Goal
  <2>1. /\ todo # <<>> /\ UNCHANGED inputs /\ Logged({}) /\ UNCHANGED <<mx, found>>
        /\ runner = "mailconf" /\ Asks("txt")
    BY <1>0, <1>6 DEF Mailconf, answers
  <2>2. Head(todo) = Txt
    BY <2>1, AskedKind
  <2>3. CASE secureOnly /\ url.scheme # "https"
    <3>1. Ended
      BY <1>6, <2>1, <2>3 DEF Mailconf, Ended
    <3> QED
      BY <2>1, <3>1, EmptyDoc
  <2>4. CASE ~(secureOnly /\ url.scheme # "https")
    <3>1. Redirected
      BY <1>6, <2>1, <2>2, <2>4 DEF Mailconf, Redirected
    <3> QED
      BY <2>1, <3>1, EmptyDoc
  <2> QED
    BY <2>3, <2>4
<1>7. CASE NoRecords
  <2>1. todo # <<>> /\ UNCHANGED inputs /\ Logged({}) /\ Dropped
    BY <1>0, <1>7 DEF NoRecords, answers, Dropped
  <2> QED
    BY <2>1, EmptyDoc
<1>8. ASSUME NEW doc \in Docs, PaccDocument(doc) PROVE Goal
  <2>1. todo # <<>> /\ UNCHANGED inputs /\ Logged(doc) /\ Dropped
    BY <1>0, <1>8 DEF PaccDocument, answers, Dropped
  <2> QED
    BY <2>1
<1>9. ASSUME NEW records \in PaccAnswers, PaccRecords(records) PROVE Goal
  <2>1. todo # <<>> /\ UNCHANGED inputs /\ Logged({}) /\ Ended
    BY <1>0, <1>9 DEF PaccRecords, Ended
  <2> QED
    BY <2>1, EmptyDoc
<1> HIDE DEF Goal
<1> QED
  BY <1>2, <1>3, <1>4, <1>5, <1>6, <1>7, <1>8, <1>9 DEF Next

-----------------------------------------------------------------------------
LEMMA TailIs ==
  ASSUME NEW S, NEW q \in Seq(S), q # <<>>
  PROVE  /\ Tail(q) \in Seq(S) /\ Head(q) = q[1] /\ Len(q) \in Nat /\ Len(q) >= 1
         /\ Len(Tail(q)) = Len(q) - 1
         /\ \A i \in 1 .. Len(Tail(q)) : Tail(q)[i] = q[i + 1] /\ i + 1 \in 1 .. Len(q)
         /\ \A i \in 1 .. Len(q) : i = 1 \/ (i - 1 \in 1 .. Len(Tail(q)) /\ q[i] = Tail(q)[i - 1])
OBVIOUS

LEMMA ConsIs ==
  ASSUME NEW S, NEW q \in Seq(S), NEW c \in S
  PROVE  LET p == <<c>> \o q
         IN  /\ p \in Seq(S) /\ Len(q) \in Nat /\ Len(p) = Len(q) + 1 /\ p[1] = c /\ p # <<>>
             /\ \A i \in 1 .. Len(q) : p[i + 1] = q[i]
             /\ \A i \in 1 .. Len(p) : i = 1 \/ (i - 1 \in 1 .. Len(q) /\ p[i] = q[i - 1])
             /\ Head(p) = c /\ Tail(p) = q
OBVIOUS

LEMMA SeqInto ==
  ASSUME NEW S, NEW T, NEW q \in Seq(S), \A i \in 1 .. Len(q) : q[i] \in T
  PROVE  q \in Seq(T)
OBVIOUS

(* The bases grow from none to those of the answer, and the calls with     *)
(* them.                                                                   *)
LEMMA CallSetGrows ==
  ASSUME mx \subseteq mx'
  PROVE  CallSet \subseteq CallSet'
<1>1. BaseSet \subseteq BaseSet'
  BY DEF BaseSet
<1>2. AutoconfigHosts \subseteq AutoconfigHosts'
  BY <1>1 DEF AutoconfigHosts
<1>3. Urls \subseteq Urls'
  BY <1>1, <1>2 DEF Urls
<1> QED
  BY <1>2, <1>3 DEF CallSet

(* What the runner lists when the mail hosts are known.                    *)
LEMMA ListedIs ==
  ASSUME Listed
  PROVE  /\ \E b \in Seq(STRING) :
              /\ todo' = Rounds(b) /\ ToSet(b) = BaseSet'
              /\ \A i, j \in 1 .. Len(b) : Better(b[i], b[j], BaseOf)' => i < j
              /\ \A i, j \in 1 .. Len(b) : b[i] = b[j] => i = j
         /\ todo' \in Seq(CallSet')
         /\ \A i \in 1 .. Len(todo') : /\ todo'[i] # Mx
                                       /\ todo'[i].op = "get" => todo'[i].url.scheme = "https"
<1> DEFINE b == Bases(BestFirst(mx'))
<1>1. mx' \in SUBSET MxRecord /\ IsFiniteSet(mx') /\ todo' = Rounds(b)
  BY MxAnswerRecords DEF Listed
<1>2. /\ b \in Seq(STRING)
      /\ ToSet(b) = {BaseOf[r.exchange] : r \in mx'} \ {Domain, None}
      /\ \A i, j \in 1 .. Len(b) : Leads(b[i], b[j], BaseOf, mx') => i < j
      /\ \A i, j \in 1 .. Len(b) : b[i] = b[j] => i = j
  BY <1>1, BasesBest
<1> HIDE DEF b
<1>3. ToSet(b) = BaseSet'
  BY <1>2 DEF BaseSet
<1>4. \A x, y : Better(x, y, BaseOf)' <=> Leads(x, y, BaseOf, mx')
  BY DEF Better, Leads
<1> DEFINE T == UNION {ToSet(Locations(b[i])) : i \in 1 .. Len(b)}
<1>5. Rounds(b) \in Seq(T)
  BY <1>2, RoundsAre
<1>6. \A c \in T : c \in CallSet' /\ c # Mx /\ (c.op = "get" => c.url.scheme = "https")
  <2> SUFFICES ASSUME NEW i \in 1 .. Len(b), NEW c \in ToSet(Locations(b[i]))
               PROVE  c \in CallSet' /\ c # Mx /\ (c.op = "get" => c.url.scheme = "https")
    OBVIOUS
  <2>1. b[i] \in BaseSet'
    BY <1>2, <1>3 DEF ToSet
  <2>2. Autoconfig(b[i]) \in AutoconfigHosts'
    BY <2>1 DEF AutoconfigHosts
  <2>3. MainUrl(Autoconfig(b[i])) \in Urls' /\ DbUrl(b[i]) \in Urls'
    BY <2>1, <2>2 DEF Urls
  <2>4. c \in {Get(MainUrl(Autoconfig(b[i]))), Alias(Autoconfig(b[i])), Get(DbUrl(b[i]))}
    BY LocationsAre
  <2>5. c \in CallSet' /\ c # Mx
    BY <2>2, <2>3, <2>4, CallKinds DEF CallSet
  <2>6. Alias(Autoconfig(b[i])).op # "get"
    BY CallKinds
  <2>7. \A u : Get(u).url = u
    BY DEF Get
  <2>8. MainUrl(Autoconfig(b[i])).scheme = "https" /\ DbUrl(b[i]).scheme = "https"
    BY DEF MainUrl, DbUrl, Url
  <2> QED
    BY <2>4, <2>5, <2>6, <2>7, <2>8
<1> HIDE DEF T
<1>7. \A i \in 1 .. Len(todo') : todo'[i] \in T
  BY <1>1, <1>5
<1>8. todo' \in Seq(CallSet')
  BY <1>1, <1>5, <1>6
<1> QED
  BY <1>1, <1>2, <1>3, <1>4, <1>6, <1>7, <1>8

(* What an answer to an alias leads to.                                    *)
LEMMA AliasFollowed ==
  ASSUME NEW h \in AutoconfigHosts, NEW records \in AliasAnswers(h), IsAlias(h, records)
  PROVE  LET t == Follow(h, records)
         IN  /\ t \in AutoconfigHosts \cup Aliases
             /\ \E i \in DOMAIN records : records[i].target = t
             /\ ~IsAlias(t, records) \/
                  \E hosts \in SUBSET {r.owner : r \in ToSet(records)} :
                    h \in hosts /\ Closed(hosts, records)
<1> DEFINE N == {h} \cup Aliases
           R == [owner : N, target : N]
<1>1. PICK m \in 0 .. MaxRecords : records \in [1 .. m -> R]
  BY DEF AliasAnswers, SeqOf
<1>2. m \in Nat
  BY ExchangesAssumption
<1>3. records \in Seq(R)
  <2> HIDE DEF R
  <2> QED
    BY <1>1, <1>2
<1>4. \A i \in DOMAIN records : records[i].target \in N
  BY <1>1
<1>5. h \in N
  OBVIOUS
<1>6. N \subseteq AutoconfigHosts \cup Aliases
  OBVIOUS
<1> HIDE DEF N, R
<1> DEFINE t == Follow(h, records)
<1>7. /\ t \in N
      /\ IsAlias(h, records) => \E i \in DOMAIN records : records[i].target = t
      /\ ~IsAlias(t, records) \/
           \E hosts \in SUBSET {r.owner : r \in ToSet(records)} :
             h \in hosts /\ Closed(hosts, records)
  BY <1>3, <1>4, <1>5, FollowEnds
<1> HIDE DEF t
<1> QED
  BY <1>6, <1>7 DEF t

(* In secure-only mode a tcp stream, that DNS lookups need, is not asked   *)
(* for a document by a runner that builds or checks its URLs.              *)
Clear ==
  secureOnly /\ runner \notin Given =>
    \A i \in 1 .. Len(todo) : todo[i].op = "get" => todo[i].url.scheme # "tcp"

LEMMA StartClear ==
  ASSUME NEW r \in Runners, NEW c \in Calls(r)
  PROVE  /\ c \in Seq(CallSet) /\ c # <<>>
         /\ \A i \in 1 .. Len(c) : r \notin Given /\ c[i].op = "get" => c[i].url.scheme # "tcp"
         /\ \A i \in 1 .. Len(c) : c[i] = Mx => c = <<Mx>> /\ r \in {"mxAutoconfig", "provider"}
         /\ r = "provider" => c = <<Mx>>
<1>0. \A u : Get(u).url = u
  BY DEF Get
<1>1. CASE c = <<Mx>> /\ r \in {"mxAutoconfig", "provider"}
  BY <1>1, CallKinds DEF CallSet
<1>2. CASE r = "mailconf" /\ c = <<Txt>>
  BY <1>2, CallKinds DEF CallSet
<1>3. CASE r \notin {"mxAutoconfig", "provider", "mailconf"}
  <2>1. \A u \in Known(r) : /\ Get(u) \in CallSet
                            /\ r \notin Given => Get(u).url.scheme # "tcp"
                            /\ Get(u) # Mx
    BY <1>0, CallKinds DEF Known, CallSet
  <2>2. Txt \in CallSet /\ Alias(Autoconfig(Domain)) \in CallSet
    BY DEF CallSet, AutoconfigHosts
  <2>3. /\ Txt # Mx /\ Txt.op # "get"
        /\ Alias(Autoconfig(Domain)) # Mx /\ Alias(Autoconfig(Domain)).op # "get"
    BY CallKinds
  <2>4. PICK u \in Known(r) : \/ c = <<Get(u)>> \/ c = <<Get(u), Txt>>
                              \/ c = <<Get(u), Alias(Autoconfig(Domain))>>
                              \/ \E v \in Known(r) : c = <<Get(u), Get(v)>>
    BY <1>3, CallsAre
  <2>5. CASE c = <<Get(u)>>
    BY <1>3, <2>1, <2>5
  <2>6. CASE c = <<Get(u), Txt>>
    BY <1>3, <2>1, <2>2, <2>3, <2>6
  <2>7. CASE c = <<Get(u), Alias(Autoconfig(Domain))>>
    BY <1>3, <2>1, <2>2, <2>3, <2>7
  <2>8. ASSUME NEW v \in Known(r), c = <<Get(u), Get(v)>>
        PROVE  /\ c \in Seq(CallSet) /\ c # <<>>
               /\ \A i \in 1 .. Len(c) : r \notin Given /\ c[i].op = "get" => c[i].url.scheme # "tcp"
               /\ \A i \in 1 .. Len(c) : c[i] # Mx
    BY <2>1, <2>8
  <2> QED
    BY <1>3, <2>4, <2>5, <2>6, <2>7, <2>8
<1> QED
  BY <1>1, <1>2, <1>3, CallsAre

LEMMA StartsFirst ==
  ASSUME TypeOK, Stages, log = <<>>
  PROVE  /\ mx = {} /\ todo \in Calls(runner) /\ runner \in Runners
         /\ \A i \in 1 .. Len(todo) : todo[i] = Mx => todo = <<Mx>> /\ runner \in {"mxAutoconfig", "provider"}
         /\ runner = "provider" => todo = <<Mx>>
<1>1. mx = {} /\ todo \in Calls(runner) /\ runner \in Runners
  BY DEF Stages, TypeOK
<1> QED
  BY <1>1, StartClear

(* What a step does to the calls, however it changes their list.           *)
LEMMA CallsStep ==
  ASSUME TypeOK, Stages, Clear, Next
  PROVE  /\ todo' \in Seq(CallSet')
         /\ \A i \in 1 .. Len(todo') : /\ todo'[i] # Mx
                                       /\ secureOnly /\ runner \notin Given /\ todo'[i].op = "get" => todo'[i].url.scheme # "tcp"
         /\ runner = "provider" => todo' = <<>>
         /\ mx \subseteq mx' /\ (mx' # {} => runner \in {"mxAutoconfig", "provider"})
<1> DEFINE Good(c) == c # Mx /\ (secureOnly /\ runner \notin Given /\ c.op = "get" => c.url.scheme # "tcp")
<1>1. todo # <<>> /\ todo \in Seq(CallSet)
  BY Step DEF TypeOK
<1>2. /\ Tail(todo) \in Seq(CallSet) /\ Head(todo) = todo[1] /\ Len(todo) \in Nat /\ Len(todo) >= 1
      /\ Len(Tail(todo)) = Len(todo) - 1
      /\ \A i \in 1 .. Len(Tail(todo)) : Tail(todo)[i] = todo[i + 1] /\ i + 1 \in 1 .. Len(todo)
  BY <1>1, TailIs
<1>3. \A i \in 1 .. Len(Tail(todo)) : Good(Tail(todo)[i])
  <2> SUFFICES ASSUME NEW i \in 1 .. Len(Tail(todo)) PROVE Good(Tail(todo)[i])
    OBVIOUS
  <2>1. Tail(todo)[i] = todo[i + 1] /\ i + 1 \in 1 .. Len(todo)
    BY <1>2
  <2>2. todo[i + 1] # Mx
    <3>1. CASE log = <<>>
      <4>1. Len(<<Mx>>) = 1
        OBVIOUS
      <4>2. todo # <<Mx>>
        BY <1>2, <2>1, <4>1
      <4> QED
        BY <2>1, <3>1, <4>2, StartsFirst
    <3>2. CASE log # <<>>
      BY <1>1, <2>1, <3>2 DEF Stages
    <3> QED
      BY <3>1, <3>2
  <2> QED
    BY <2>1, <2>2 DEF Clear
<1>4. runner = "provider" => todo = <<Mx>> /\ Tail(todo) = <<>>
  <2>1. runner = "provider" => todo = <<Mx>>
    BY <1>1, StartsFirst DEF Stages
  <2>2. \A x : Tail(<<x>>) = <<>>
    OBVIOUS
  <2> QED
    BY <2>1, <2>2
<1>5. \A x : todo = <<x>> => log = <<>> \/ x # Mx
  <2> SUFFICES ASSUME NEW x, todo = <<x>>, x = Mx, log # <<>> PROVE FALSE
    OBVIOUS
  <2>1. todo[1] = Mx /\ 1 \in DOMAIN todo
    OBVIOUS
  <2> QED
    BY <2>1 DEF Stages
<1>6. todo = <<Mx>> => mx = {}
  BY <1>5, StartsFirst
<1>7. mx # {} => runner \in {"mxAutoconfig", "provider"}
  BY DEF Stages
<1>8. UNCHANGED mx => CallSet' = CallSet
  BY DEF CallSet, Urls, AutoconfigHosts, BaseSet
<1> DEFINE Goal == /\ todo' \in Seq(CallSet')
                   /\ \A i \in 1 .. Len(todo') : Good(todo'[i])
                   /\ runner = "provider" => todo' = <<>>
                   /\ mx \subseteq mx' /\ (mx' # {} => runner \in {"mxAutoconfig", "provider"})
<1>9. CASE Dropped
  BY <1>2, <1>3, <1>4, <1>7, <1>8, <1>9 DEF Dropped
<1>10. todo' = <<>> => todo' \in Seq(CallSet') /\ \A i \in 1 .. Len(todo') : Good(todo'[i])
  OBVIOUS
<1>11. CASE Ended
  BY <1>7, <1>10, <1>11 DEF Ended
<1>12. CASE Detected
  BY <1>6, <1>10, <1>12 DEF Detected
<1>13. CASE Listed
  <2>1. /\ todo' \in Seq(CallSet')
        /\ \A i \in 1 .. Len(todo') : /\ todo'[i] # Mx
                                      /\ todo'[i].op = "get" => todo'[i].url.scheme = "https"
    BY <1>13, ListedIs
  <2>2. runner = "mxAutoconfig" /\ mx = {}
    BY <1>6, <1>13 DEF Listed
  <2> QED
    BY <2>1, <2>2
<1>14. CASE Followed
  <2>1. PICK h \in AutoconfigHosts : \E records \in AliasAnswers(h) : FollowedBy(h, records)
    BY <1>14 DEF Followed
  <2>2. PICK records \in AliasAnswers(h) : FollowedBy(h, records)
    BY <2>1
  <2> DEFINE c == Target(MainUrl(Follow(h, records)))
  <2>3. todo' = <<c>> \o Tail(todo) /\ UNCHANGED mx
    BY <2>2 DEF FollowedBy
  <2>4. c \in CallSet
    <3>1. Follow(h, records) \in AutoconfigHosts \cup Aliases
      BY <2>2, AliasFollowed DEF FollowedBy
    <3> QED
      BY <3>1 DEF CallSet
  <2>5. Good(c)
    <3>1. \A u : Target(u).url = u
      BY DEF Target
    <3>2. \A host : MainUrl(host).scheme = "https"
      BY DEF MainUrl, Url
    <3> QED
      BY <3>1, <3>2, CallKinds
  <2>6. runner # "provider"
    <3>1. Head(todo) # Mx
      BY <2>2, CallKinds DEF FollowedBy
    <3>2. Head(<<Mx>>) = Mx
      OBVIOUS
    <3> QED
      BY <1>4, <3>1, <3>2
  <2> HIDE DEF c
  <2>7. /\ todo' \in Seq(CallSet) /\ todo'[1] = c
        /\ \A i \in 1 .. Len(todo') :
             i = 1 \/ (i - 1 \in 1 .. Len(Tail(todo)) /\ todo'[i] = Tail(todo)[i - 1])
    BY <1>2, <2>3, <2>4, ConsIs
  <2>8. \A i \in 1 .. Len(todo') : Good(todo'[i])
    <3> HIDE DEF Good
    <3> QED
      BY <1>3, <2>5, <2>7
  <2> QED
    BY <1>7, <1>8, <2>3, <2>6, <2>7, <2>8
<1>15. CASE Redirected
  <2>1. PICK url \in MailconfUrls : todo' = <<Get(url)>> /\ (secureOnly => url.scheme = "https")
    BY <1>15 DEF Redirected
  <2>2. Get(url) \in CallSet /\ Good(Get(url))
    <3>1. Get(url).url = url
      BY DEF Get
    <3> QED
      BY <2>1, <3>1, CallKinds DEF CallSet, Urls
  <2>3. todo' \in Seq(CallSet) /\ \A i \in 1 .. Len(todo') : Good(todo'[i])
    <3> HIDE DEF Good
    <3> QED
      BY <2>1, <2>2
  <2> QED
    BY <1>7, <1>8, <1>15, <2>3 DEF Redirected
<1> QED
  BY <1>9, <1>11, <1>12, <1>13, <1>14, <1>15, Step

(* The calls made and what they got.                                       *)
LEMMA LogStep ==
  ASSUME TypeOK, Stages, Clear, Next
  PROVE  log' \in Seq([call : CallSet', doc : Docs']) /\ log' # <<>> /\ UNCHANGED inputs
<1>1. PICK doc \in Docs : Logged(doc)
  BY Step
<1>2. UNCHANGED inputs /\ Docs' = Docs
  BY Step DEF inputs, Docs
<1>3. CallSet \subseteq CallSet'
  BY CallsStep, CallSetGrows
<1> DEFINE E == [call : CallSet', doc : Docs']
           e == [call |-> Head(todo), doc |-> doc]
<1>4. Head(todo) \in CallSet
  <2>1. todo \in Seq(CallSet) /\ todo # <<>>
    BY Step DEF TypeOK
  <2> QED
    BY <2>1
<1>5. e \in E
  BY <1>2, <1>3, <1>4
<1>6. log \in Seq(E)
  <2>1. log \in Seq([call : CallSet, doc : Docs])
    BY DEF TypeOK
  <2> DEFINE F == [call : CallSet, doc : Docs]
  <2>2. F \subseteq E
    BY <1>2, <1>3
  <2> HIDE DEF E, F
  <2>3. log \in Seq(F)
    BY <2>1 DEF F
  <2> QED
    BY <2>2, <2>3
<1>7. log' = Append(log, e)
  BY <1>1 DEF Logged
<1> HIDE DEF E, e
<1>8. log' \in Seq(E) /\ Len(log) \in Nat /\ Len(log') = Len(log) + 1
  BY <1>5, <1>6, <1>7, AppendProperties
<1>9. log' # <<>>
  BY <1>8
<1> QED
  BY <1>2, <1>8, <1>9 DEF E

FoundSet == {"tls", "plain", "metadata", "basic", "bearer"} \cup {ProviderOf[e] : e \in Exchanges}

LEMMA DocsTyped ==
  ASSUME NEW doc \in Docs
  PROVE  doc \subseteq FoundSet /\ Usable(doc) \subseteq FoundSet
<1>1. doc \subseteq {"tls", "plain", "metadata", "basic", "bearer"}
  <2>1. CASE runner \in {"oauthServer", "oauthResource"}
    BY <2>1 DEF Docs, Probes
  <2>2. CASE runner \in Probes
    BY <2>2 DEF Docs, Probes
  <2>3. CASE runner \notin {"oauthServer", "oauthResource"} \cup Probes
    BY <2>3 DEF Docs
  <2> QED
    BY <2>1, <2>2, <2>3
<1>2. Usable(doc) \subseteq doc
  BY DEF Usable
<1> QED
  BY <1>1, <1>2 DEF FoundSet

(* What is found and opened, action by action.                             *)
LEMMA FoundStep ==
  ASSUME TypeOK, PaccStages, Next
  PROVE  found' \subseteq FoundSet
<1>0. found \subseteq FoundSet
  BY DEF TypeOK, FoundSet
<1>1. ASSUME NEW doc \in Docs, Document(doc) PROVE found' \subseteq FoundSet
  BY <1>1, DocsTyped DEF Document
<1>2. CASE NoDocument
  BY <1>0, <1>2 DEF NoDocument
<1>3. ASSUME NEW records \in MxAnswers, MxRecords(records) PROVE found' \subseteq FoundSet
  <2>1. found' = FirstProvider(BestFirst(records)) \/ found' = found
    BY <1>3 DEF MxRecords
  <2>2. FirstProvider(BestFirst(records)) \subseteq FoundSet
    <3> SUFFICES ASSUME NEW p \in FirstProvider(BestFirst(records)) PROVE p \in FoundSet
      OBVIOUS
    <3>1. records \in SUBSET MxRecord /\ IsFiniteSet(records)
      BY MxAnswerRecords
    <3>2. \E e \in Exchanges : p = ProviderOf[e]
      BY <3>1, FirstProviderBest
    <3> QED
      BY <3>2 DEF FoundSet
  <2> QED
    BY <1>0, <2>1, <2>2
<1>4. ASSUME NEW records, AliasRecords(records) PROVE found' \subseteq FoundSet
  <2>1. found' = found
    BY <1>4 DEF AliasRecords
  <2> QED
    BY <1>0, <2>1
<1>5. ASSUME NEW url, Mailconf(url) PROVE found' \subseteq FoundSet
  BY <1>0, <1>5 DEF Mailconf
<1>6. CASE NoRecords
  BY <1>0, <1>6 DEF NoRecords
<1>7. ASSUME NEW doc, PaccDocument(doc) PROVE found' \subseteq FoundSet
  BY <1>0, <1>7 DEF PaccDocument
<1>8. ASSUME NEW records, PaccRecords(records) PROVE found' \subseteq FoundSet
  <2>1. Asks("txt") /\ runner = "pacc"
    BY <1>8 DEF PaccRecords
  <2>2. \E entry : log = <<entry>>
    BY <2>1, PaccAsks DEF PaccStages
  <2>3. log[1].doc \in Docs
    <3> DEFINE F == [call : CallSet, doc : Docs]
    <3>1. log \in Seq(F)
      BY DEF TypeOK
    <3> HIDE DEF F
    <3>2. 1 \in DOMAIN log
      BY <2>2
    <3>3. log[1] \in F
      BY <3>1, <3>2
    <3> QED
      BY <3>3 DEF F
  <2>4. found' = Usable(log[1].doc) \/ found' = {}
    BY <1>8 DEF PaccRecords
  <2> QED
    BY <2>3, <2>4, DocsTyped
<1> QED
  BY <1>1, <1>2, <1>3, <1>4, <1>5, <1>6, <1>7, <1>8 DEF Next

(* The streams a call opens.                                               *)
OpenedBy(hops) ==
  hops \in Redirects /\ opened' = opened \cup {Head(todo).url.scheme} \cup hops

LEMMA OpenedStep ==
  ASSUME TypeOK, Clear, Next
  PROVE  /\ opened' \subseteq Factories
         /\ secureOnly /\ "http" \notin opened => "http" \notin opened'
         /\ secureOnly /\ runner \notin Given /\ opened \subseteq {"https"} =>
              opened' \subseteq {"https"}
<1> DEFINE Goal == /\ opened' \subseteq Factories
                   /\ secureOnly /\ "http" \notin opened => "http" \notin opened'
                   /\ secureOnly /\ runner \notin Given /\ opened \subseteq {"https"} =>
                        opened' \subseteq {"https"}
<1> SUFFICES Goal
  OBVIOUS
<1>0. opened \subseteq Factories
  BY DEF TypeOK
<1>1. UNCHANGED opened => Goal
  BY <1>0
<1>2. ASSUME Asks("get"), Opens(Head(todo).url), NEW hops, OpenedBy(hops)
      PROVE  Goal
  <2>1. todo # <<>> /\ todo \in Seq(CallSet)
    BY <1>2 DEF Asks, TypeOK
  <2>2. Head(todo) = todo[1] /\ 1 \in 1 .. Len(todo)
    BY <2>1
  <2>3. secureOnly /\ runner \notin Given => Head(todo).url.scheme # "tcp"
    BY <1>2, <2>2 DEF Clear, Asks
  <2>4. /\ Head(todo).url.scheme \in Factories
        /\ secureOnly => Head(todo).url.scheme # "http"
    BY <1>2 DEF Opens, Pool
  <2>5. /\ hops \subseteq Factories /\ (secureOnly => "http" \notin hops)
        /\ runner \notin Given => hops = {}
    BY <1>2 DEF OpenedBy, Redirects, Pool, Given
  <2>6. opened' = opened \cup {Head(todo).url.scheme} \cup hops
    BY <1>2 DEF OpenedBy
  <2> QED
    BY <1>0, <2>3, <2>4, <2>5, <2>6 DEF Factories
<1>3. ASSUME NEW doc, Document(doc) PROVE Goal
  <2>1. Asks("get") /\ Opens(Head(todo).url)
    BY <1>3 DEF Document
  <2>2. PICK hops : OpenedBy(hops)
    BY <1>3 DEF Document, OpenedBy
  <2> HIDE DEF Goal
  <2> QED
    BY <1>2, <2>1, <2>2
<1>4. CASE NoDocument
  <2>1. CASE UNCHANGED opened
    BY <1>1, <2>1
  <2>2. CASE opened' # opened
    <3>1. Asks("get") /\ Opens(Head(todo).url)
      BY <1>4, <2>2 DEF NoDocument
    <3>2. PICK hops : OpenedBy(hops)
      BY <1>4, <2>2 DEF NoDocument, OpenedBy
    <3> HIDE DEF Goal
    <3> QED
      BY <1>2, <3>1, <3>2
  <2> QED
    BY <2>1, <2>2
<1>5. ASSUME NEW doc, PaccDocument(doc) PROVE Goal
  BY <1>0, <1>5 DEF PaccDocument, PaccUrl, Url, Factories
<1>6. ASSUME NEW records, MxRecords(records) PROVE Goal
  BY <1>1, <1>6 DEF MxRecords
<1>7. ASSUME NEW records, AliasRecords(records) PROVE Goal
  <2>1. UNCHANGED opened
    BY <1>7 DEF AliasRecords
  <2> QED
    BY <1>1, <2>1
<1>8. ASSUME NEW url, Mailconf(url) PROVE Goal
  BY <1>1, <1>8 DEF Mailconf
<1>9. CASE NoRecords
  BY <1>1, <1>9 DEF NoRecords
<1>10. ASSUME NEW records, PaccRecords(records) PROVE Goal
  BY <1>1, <1>10 DEF PaccRecords
<1> HIDE DEF Goal
<1> QED
  BY <1>3, <1>4, <1>5, <1>6, <1>7, <1>8, <1>9, <1>10 DEF Next

Kept == TypeOK /\ Stages /\ Clear /\ PaccStages

LEMMA KeptInit == Init => Kept
<1> SUFFICES ASSUME Init PROVE Kept
  OBVIOUS
<1>1. runner \in Runners /\ todo \in Calls(runner)
  BY DEF Init
<1>2. /\ todo \in Seq(CallSet) /\ todo # <<>>
      /\ \A i \in 1 .. Len(todo) :
           runner \notin Given /\ todo[i].op = "get" => todo[i].url.scheme # "tcp"
  BY <1>1, StartClear
<1>3. TypeOK
  BY <1>2 DEF Init, TypeOK
<1>4. Stages /\ Clear
  BY <1>2 DEF Init, Stages, Clear
<1> QED
  BY <1>3, <1>4, PaccInit DEF Kept

LEMMA KeptStep ==
  ASSUME Kept, Next, PaccStages'
  PROVE  Kept'
<1>1. TypeOK /\ Stages /\ Clear /\ PaccStages
  BY DEF Kept
<1>2. UNCHANGED inputs /\ log' \in Seq([call : CallSet', doc : Docs']) /\ log' # <<>>
  BY <1>1, LogStep
<1>3. /\ todo' \in Seq(CallSet')
      /\ \A i \in 1 .. Len(todo') : /\ todo'[i] # Mx
                                    /\ secureOnly /\ runner \notin Given /\ todo'[i].op = "get" => todo'[i].url.scheme # "tcp"
      /\ runner = "provider" => todo' = <<>>
      /\ mx' # {} => runner \in {"mxAutoconfig", "provider"}
  BY <1>1, CallsStep
<1>4. found' \subseteq FoundSet /\ opened' \subseteq Factories
  BY <1>1, FoundStep, OpenedStep
<1>5. runner' = runner /\ secureOnly' = secureOnly /\ runner \in Runners /\ secureOnly \in BOOLEAN
  BY <1>1, <1>2 DEF inputs, TypeOK
<1>6. TypeOK'
  BY <1>2, <1>3, <1>4, <1>5 DEF TypeOK, FoundSet, Factories
<1>7. Clear'
  BY <1>3, <1>5 DEF Clear
<1>8. Stages'
  <2>1. DOMAIN todo' = 1 .. Len(todo')
    BY <1>3
  <2> QED
    BY <1>2, <1>3, <1>5, <2>1 DEF Stages
<1> QED
  BY <1>6, <1>7, <1>8 DEF Kept

LEMMA KeptInvariant == Spec => []Kept
<1>1. Kept /\ UNCHANGED vars => Kept'
  <2> SUFFICES ASSUME Kept, UNCHANGED vars PROVE Kept'
    OBVIOUS
  <2>1. UNCHANGED <<runner, secureOnly, todo, log, found, opened, mx, txt, chain>>
    BY DEF vars, inputs, answers
  <2>2. CallSet' = CallSet /\ Docs' = Docs
    BY <2>1 DEF CallSet, Urls, AutoconfigHosts, BaseSet, Docs
  <2>3. TypeOK' /\ Stages' /\ Clear'
    BY <2>1, <2>2 DEF Kept, TypeOK, Stages, Clear
  <2>4. PaccStages'
    BY <2>1 DEF Kept, PaccStages, Verified
  <2> QED
    BY <2>3, <2>4 DEF Kept
<1>2. Kept /\ PaccStages' /\ [Next]_vars => Kept'
  BY <1>1, KeptStep
<1> QED
  BY <1>2, KeptInit, PaccInvariant, PTL DEF Spec

(* Whatever the records say, the calls go to the domain, to the bases of   *)
(* its mail hosts and to the targets of aliases: never to a public suffix. *)
THEOREM TypeCorrect == Spec => []TypeOK
<1>1. Kept => TypeOK
  BY DEF Kept
<1> QED
  BY <1>1, KeptInvariant, PTL

(* In secure-only mode no runner opens an http stream or hands out a plain *)
(* config, wherever records, issuers and redirects point, and a runner     *)
(* that builds or checks its URLs opens https streams only.                *)
THEOREM SecureOnlyCorrect == Spec => []SecureOnly
<1>1. Init => SecureOnly
  BY DEF Init, SecureOnly
<1>2. Kept /\ SecureOnly /\ [Next]_vars => SecureOnly'
  <2> SUFFICES ASSUME Kept, SecureOnly, [Next]_vars PROVE SecureOnly'
    OBVIOUS
  <2>1. CASE UNCHANGED vars
    BY <2>1 DEF vars, inputs, SecureOnly
  <2>2. CASE Next
    <3> SUFFICES ASSUME secureOnly'
                 PROVE  /\ "http" \notin opened'
                        /\ runner' \notin Given => opened' \subseteq {"https"}
                        /\ runner' # "provider" => "plain" \notin found'
      BY DEF SecureOnly, Given
    <3>1. TypeOK /\ Stages /\ Clear /\ UNCHANGED inputs
      BY <2>2, Step DEF Kept
    <3>2. secureOnly /\ runner' = runner
      BY <3>1 DEF inputs
    <3>3. "http" \notin opened' /\ (runner' \notin Given => opened' \subseteq {"https"})
      BY <2>2, <3>1, <3>2, OpenedStep DEF SecureOnly, Given
    <3>4. \A doc : "plain" \notin Usable(doc)
      BY <3>2 DEF Usable
    <3>5. runner # "provider" => "plain" \notin found
      BY <3>2 DEF SecureOnly
    <3>6. found' = found \/ runner = "provider" \/ "plain" \notin found'
      <4>1. ASSUME NEW doc, Document(doc) PROVE "plain" \notin found'
        BY <3>4, <4>1 DEF Document
      <4>2. ASSUME NEW records, MxRecords(records) PROVE found' = found \/ runner = "provider"
        BY <4>2 DEF MxRecords
      <4>3. ASSUME NEW records, AliasRecords(records) PROVE found' = found
        BY <4>3 DEF AliasRecords
      <4>4. ASSUME NEW records, PaccRecords(records) PROVE "plain" \notin found'
        BY <3>4, <4>4 DEF PaccRecords
      <4> QED
        BY <2>2, <4>1, <4>2, <4>3, <4>4 DEF Next, NoDocument, Mailconf, NoRecords, PaccDocument
    <3> QED
      BY <3>2, <3>3, <3>5, <3>6
  <2> QED
    BY <2>1, <2>2
<1> QED
  BY <1>1, <1>2, KeptInvariant, PTL DEF Spec

-----------------------------------------------------------------------------
(* A chain is followed by a document, and there is none for PACC.          *)
Chained == EndOfChain /\ (chain # <<>> => runner # "pacc" /\ Asks("get"))

LEMMA NoChain == chain = <<>> => Chained
BY DEF Chained, EndOfChain

LEMMA LastLogged ==
  ASSUME TypeOK, NEW doc, Logged(doc)
  PROVE  log'[Len(log')].call = Head(todo)
<1> DEFINE S == [call : CallSet, doc : Docs]
           e == [call |-> Head(todo), doc |-> doc]
<1>1. log \in Seq(S)
  BY DEF TypeOK
<1>2. log' = Append(log, e) /\ e.call = Head(todo)
  BY DEF Logged
<1> HIDE DEF S, e
<1>3. log' = Append(log, e) /\ log \in Seq(S \cup {e}) /\ e \in S \cup {e}
  BY <1>1, <1>2
<1>4. log'[Len(log')] = e
  BY <1>3, AppendProperties
<1> QED
  BY <1>2, <1>4

LEMMA AliasChained ==
  ASSUME Kept, Asks("alias"), NEW records \in AliasAnswers(Head(todo).host), AliasRecords(records)
  PROVE  Chained'
<1>1. TypeOK /\ PaccStages
  BY DEF Kept
<1>2. PICK h \in AutoconfigHosts : Head(todo) = Alias(h)
  BY <1>1, AskedKind
<1>3. Head(todo).host = h
  BY <1>2 DEF Alias
<1>4. CASE ~IsAlias(h, records)
  <2>1. chain' = <<>>
    BY <1>3, <1>4 DEF AliasRecords
  <2> QED
    BY <2>1 DEF Chained, EndOfChain
<1>5. CASE IsAlias(h, records)
  <2> DEFINE t == Follow(h, records)
  <2>1. chain' = records /\ todo' = <<Target(MainUrl(t))>> \o Tail(todo) /\ UNCHANGED inputs
    BY <1>3, <1>5 DEF AliasRecords
  <2>2. /\ \E i \in DOMAIN records : records[i].target = t
        /\ ~IsAlias(t, records) \/
             \E hosts \in SUBSET {r.owner : r \in ToSet(records)} :
               h \in hosts /\ Closed(hosts, records)
    BY <1>3, <1>5, AliasFollowed
  <2> HIDE DEF t
  <2>3. /\ Target(MainUrl(t)).op = "get" /\ Target(MainUrl(t)).url.host = t
    BY DEF Target, MainUrl, Url
  <2>4. todo' # <<>> /\ Head(todo') = Target(MainUrl(t))
    <3> DEFINE c == Target(MainUrl(t))
    <3>1. todo \in Seq(CallSet) /\ todo # <<>>
      BY <1>1 DEF TypeOK, Asks
    <3>2. Tail(todo) \in Seq(CallSet \cup {c}) /\ c \in CallSet \cup {c}
      BY <3>1
    <3> HIDE DEF c
    <3>3. todo' = <<c>> \o Tail(todo)
      BY <2>1 DEF c
    <3>4. todo' # <<>> /\ Head(todo') = c
      BY <3>2, <3>3, ConsIs
    <3> QED
      BY <3>4 DEF c
  <2>5. Asks("get")'
    BY <2>3, <2>4 DEF Asks
  <2>6. runner' # "pacc"
    <3>1. runner = "pacc" => ~Asks("alias")
      BY <1>1, PaccAsks DEF PaccStages
    <3> QED
      BY <2>1, <3>1 DEF inputs
  <2>7. log'[Len(log')].call.host = h
    <3>1. Logged({})
      BY DEF AliasRecords
    <3> QED
      BY <1>1, <1>3, <3>1, LastLogged
  <2>8. EndOfChain'
    <3>1. Head(todo').url.host = t
      BY <2>3, <2>4
    <3>2. CASE ~IsAlias(t, records)
      BY <2>1, <2>2, <3>1, <3>2 DEF EndOfChain
    <3>3. CASE IsAlias(t, records)
      <4>1. PICK hosts \in SUBSET {r.owner : r \in ToSet(records)} : h \in hosts /\ Closed(hosts, records)
        BY <2>2, <3>3
      <4>2. h \in hosts /\ \A o \in hosts : IsAlias(o, records) /\ TargetOf(o, records) \in hosts
        BY <4>1 DEF Closed
      <4> QED
        BY <2>1, <2>2, <2>7, <3>1, <4>2 DEF EndOfChain
    <3> QED
      BY <3>2, <3>3
  <2> QED
    BY <2>5, <2>6, <2>8 DEF Chained
<1> QED
  BY <1>4, <1>5

(* Whatever the order of the CNAME records, the host asked in place of an  *)
(* alias ends its chain, unless the chain is a loop or leads to one.       *)
THEOREM EndOfChainCorrect == Spec => []EndOfChain
<1>1. Init => Chained
  BY NoChain DEF Init
<1>2. Kept /\ Chained /\ [Next]_vars => Chained'
  <2> SUFFICES ASSUME Kept, Chained, [Next]_vars PROVE Chained'
    OBVIOUS
  <2>1. chain' = <<>> => Chained'
    BY DEF Chained, EndOfChain
  <2>2. \A op : op # "get" /\ Asks(op) => chain = <<>>
    BY DEF Chained, Asks
  <2>3. runner = "pacc" => chain = <<>>
    BY DEF Chained
  <2>4. CASE UNCHANGED vars
    BY <2>4 DEF vars, inputs, answers, Chained, EndOfChain, Asks
  <2>5. ASSUME NEW doc, Document(doc) PROVE Chained'
    BY <2>1, <2>5 DEF Document
  <2>6. CASE NoDocument
    BY <2>1, <2>6 DEF NoDocument
  <2>7. ASSUME NEW records, MxRecords(records) PROVE Chained'
    BY <2>1, <2>2, <2>7 DEF MxRecords
  <2>8. ASSUME Asks("alias"), NEW records \in AliasAnswers(Head(todo).host), AliasRecords(records)
        PROVE  Chained'
    BY <2>8, AliasChained
  <2>9. ASSUME NEW url, Mailconf(url) PROVE Chained'
    BY <2>1, <2>2, <2>9 DEF Mailconf, answers
  <2>10. CASE NoRecords
    BY <2>1, <2>2, <2>10 DEF NoRecords, answers
  <2>11. ASSUME NEW doc, PaccDocument(doc) PROVE Chained'
    BY <2>1, <2>3, <2>11 DEF PaccDocument, answers
  <2>12. ASSUME NEW records, PaccRecords(records) PROVE Chained'
    BY <2>1, <2>3, <2>12 DEF PaccRecords
  <2> QED
    BY <2>4, <2>5, <2>6, <2>7, <2>8, <2>9, <2>10, <2>11, <2>12 DEF Next
<1>3. Chained => EndOfChain
  BY DEF Chained
<1> QED
  BY <1>1, <1>2, <1>3, KeptInvariant, PTL DEF Spec

-----------------------------------------------------------------------------
(* The call under way joins those asked.                                   *)
LEMMA AskedStep ==
  ASSUME TypeOK, Stages, Next
  PROVE  /\ Asked' = Asked \cup {Head(todo)}
         /\ Len(log) \in Nat /\ Len(log') = Len(log) + 1
         /\ DOMAIN log = 1 .. Len(log) /\ DOMAIN log' = 1 .. Len(log) + 1
         /\ \A i \in 1 .. Len(log) : log'[i] = log[i]
         /\ log'[Len(log) + 1].call = Head(todo)
<1>1. PICK doc \in Docs : Logged(doc)
  BY Step
<1> DEFINE S == [call : CallSet, doc : Docs]
<1>2. log \in Seq(S)
  BY DEF TypeOK
<1> HIDE DEF S
<1>3. /\ Len(log) \in Nat /\ Len(log') = Len(log) + 1
      /\ DOMAIN log = 1 .. Len(log) /\ DOMAIN log' = 1 .. Len(log) + 1
      /\ \A i \in 1 .. Len(log) : log'[i] = log[i]
  BY <1>1, <1>2, LoggedFacts
<1>4. log'[Len(log) + 1].call = Head(todo)
  BY <1>1, <1>3, LastLogged
<1>5. \A i \in 1 .. Len(log) + 1 : i \in 1 .. Len(log) \/ i = Len(log) + 1
  BY <1>3
<1>6. \A i \in 1 .. Len(log) : i \in 1 .. Len(log) + 1
  BY <1>3
<1>7. Len(log) + 1 \in 1 .. Len(log) + 1
  BY <1>3
<1>8. Asked' = Asked \cup {Head(todo)}
  <2>1. ASSUME NEW c \in Asked' PROVE c \in Asked \cup {Head(todo)}
    BY <1>3, <1>4, <1>5, <2>1 DEF Asked
  <2>2. ASSUME NEW c \in Asked PROVE c \in Asked'
    BY <1>3, <1>6, <2>2 DEF Asked
  <2>3. Head(todo) \in Asked'
    BY <1>3, <1>4, <1>7 DEF Asked
  <2> QED
    BY <2>1, <2>2, <2>3
<1> QED
  BY <1>3, <1>4, <1>8

(* The list has all the locations of all the bases.                        *)
LEMMA RoundsCover ==
  ASSUME NEW S, NEW b \in Seq(S), NEW i \in 1 .. Len(b), NEW c \in ToSet(Locations(b[i]))
  PROVE  c \in ToSet(Rounds(b))
<1> DEFINE r == Rounds(b)
<1>1. PICK l \in 1 .. 3 : c = Locations(b[i])[l]
  <2>1. DOMAIN Locations(b[i]) = 1 .. 3
    BY LocationsAre
  <2> QED
    BY <2>1 DEF ToSet
<1>2. /\ r \in Seq(UNION {ToSet(Locations(b[j])) : j \in 1 .. Len(b)})
      /\ \A j \in 1 .. Len(b), m \in 1 .. 3 :
           3 * (j - 1) + m \in 1 .. Len(r) /\ r[3 * (j - 1) + m] = Locations(b[j])[m]
  BY RoundsAre
<1> DEFINE k == 3 * (i - 1) + l
<1>3. k \in 1 .. Len(r) /\ r[k] = c
  BY <1>1, <1>2
<1> HIDE DEF r, k
<1>4. DOMAIN r = 1 .. Len(r)
  BY <1>2
<1>5. c \in ToSet(r)
  BY <1>3, <1>4 DEF ToSet
<1> QED
  BY <1>5 DEF r

(* Where a runner must still look is on its list.                          *)
Unasked ==
  runner \notin {"pacc", "mailconf", "provider"} /\ found = {} /\ log # <<>> =>
    Places \subseteq Asked \cup ToSet(todo)

LEMMA FirstPlaces ==
  ASSUME Kept, Next, log = <<>>, UNCHANGED mx, runner \notin {"pacc", "mailconf", "provider"}
  PROVE  Places' \subseteq ToSet(todo)
<1>1. TypeOK /\ Stages /\ Clear /\ UNCHANGED inputs
  BY Step DEF Kept
<1>2. runner' = runner /\ mx = {} /\ todo \in Calls(runner) /\ runner \in Runners /\ todo # <<>>
  BY <1>1, StartsFirst, Step DEF inputs
<1>3. log' # <<>> /\ log'[1].call = todo[1]
  <2>1. Len(log) = 0
    OBVIOUS
  <2>2. Head(todo) = todo[1]
    <3>1. todo \in Seq(CallSet)
      BY <1>1 DEF TypeOK
    <3> QED
      BY <1>2, <3>1
  <2>3. log'[Len(log) + 1].call = Head(todo)
    BY <1>1, AskedStep
  <2>4. Len(log) + 1 = 1
    BY <2>1
  <2> QED
    BY <1>1, <2>2, <2>3, <2>4, LogStep
<1>4. CASE runner = "mxAutoconfig"
  <2>1. BaseSet' = {}
    BY <1>2 DEF BaseSet
  <2> QED
    BY <1>2, <1>4, <2>1 DEF Places
<1>5. CASE runner # "mxAutoconfig"
  <2>1. Places' = UNION {ToSet(calls) : calls \in
                           {c \in Calls(runner) : log' # <<>> => c[1] = log'[1].call}}
    BY <1>2, <1>5 DEF Places
  <2>2. ASSUME NEW c \in Calls(runner), c[1] = todo[1] PROVE c = todo
    BY <1>2, <2>2, CallsApart
  <2> QED
    BY <1>3, <2>1, <2>2
<1> QED
  BY <1>4, <1>5

LEMMA SamePlaces ==
  ASSUME Kept, Next, log # <<>>, UNCHANGED mx
  PROVE  Places' = Places
<1>1. TypeOK /\ Stages /\ Clear /\ UNCHANGED inputs
  BY Step DEF Kept
<1>2. runner' = runner /\ BaseSet' = BaseSet
  BY <1>1 DEF inputs, BaseSet
<1>3. log' # <<>>
  BY <1>1, LogStep
<1>4. log'[1] = log[1]
  <2>1. Len(log) \in Nat /\ \A i \in 1 .. Len(log) : log'[i] = log[i]
    BY <1>1, AskedStep
  <2>2. Len(log) # 0
    <3> DEFINE S == [call : CallSet, doc : Docs]
    <3>1. log \in Seq(S)
      BY <1>1 DEF TypeOK
    <3> HIDE DEF S
    <3> QED
      BY <3>1
  <2> QED
    BY <2>1, <2>2
<1> QED
  BY <1>2, <1>3, <1>4 DEF Places

LEMMA ListedPlaces ==
  ASSUME Kept, Next, Listed
  PROVE  Places' \subseteq ToSet(todo')
<1>1. UNCHANGED inputs
  BY Step DEF Kept
<1>2. Places' = UNION {ToSet(Locations(b)) : b \in BaseSet'}
  BY <1>1 DEF Places, Listed, inputs
<1>3. PICK b \in Seq(STRING) : todo' = Rounds(b) /\ ToSet(b) = BaseSet'
  BY ListedIs
<1>4. ASSUME NEW a \in BaseSet', NEW c \in ToSet(Locations(a)) PROVE c \in ToSet(todo')
  <2>1. PICK i \in 1 .. Len(b) : a = b[i]
    BY <1>3, <1>4 DEF ToSet
  <2> QED
    BY <1>3, <1>4, <2>1, RoundsCover
<1> QED
  BY <1>2, <1>4

LEMMA UnaskedStep ==
  ASSUME Kept, Searching, Unasked, Next
  PROVE  Unasked'
<1>1. TypeOK /\ Stages /\ Clear /\ UNCHANGED inputs /\ todo # <<>> /\ todo \in Seq(CallSet)
  BY Step DEF Kept, TypeOK
<1>2. runner' = runner
  BY <1>1 DEF inputs
<1> SUFFICES ASSUME runner \notin {"pacc", "mailconf", "provider"}, found' = {}
             PROVE  Places' \subseteq Asked' \cup ToSet(todo')
  BY <1>2 DEF Unasked
<1>3. found = {}
  BY <1>1 DEF Searching
<1>4. Asked' = Asked \cup {Head(todo)}
  BY <1>1, AskedStep
<1>5. ToSet(todo) \subseteq {Head(todo)} \cup ToSet(Tail(todo))
  <2>1. /\ Head(todo) = todo[1] /\ Tail(todo) \in Seq(CallSet)
        /\ \A i \in 1 .. Len(todo) : i = 1 \/ (i - 1 \in 1 .. Len(Tail(todo)) /\ todo[i] = Tail(todo)[i - 1])
    BY <1>1, TailIs
  <2>2. DOMAIN todo = 1 .. Len(todo) /\ DOMAIN Tail(todo) = 1 .. Len(Tail(todo))
    BY <1>1, <2>1
  <2> QED
    BY <2>1, <2>2 DEF ToSet
<1>6. UNCHANGED mx => Places' \subseteq Asked' \cup ToSet(Tail(todo))
  <2>1. CASE log = <<>>
    BY <1>4, <1>5, <2>1, FirstPlaces
  <2>2. CASE log # <<>>
    BY <1>3, <1>4, <1>5, <2>2, SamePlaces DEF Unasked
  <2> QED
    BY <2>1, <2>2
<1>7. CASE Dropped
  BY <1>6, <1>7 DEF Dropped
<1>8. CASE Listed
  BY <1>8, ListedPlaces
<1>9. CASE Followed
  <2>1. PICK c : todo' = <<c>> \o Tail(todo) /\ UNCHANGED mx
    BY <1>9 DEF Followed, FollowedBy
  <2>2. Tail(todo) \in Seq(CallSet \cup {c}) /\ c \in CallSet \cup {c}
    BY <1>1
  <2>3. todo' \in Seq(CallSet \cup {c}) /\ Len(Tail(todo)) \in Nat /\ Len(todo') = Len(Tail(todo)) + 1
        /\ \A i \in 1 .. Len(Tail(todo)) : todo'[i + 1] = Tail(todo)[i]
    BY <2>1, <2>2, ConsIs
  <2>4. DOMAIN todo' = 1 .. Len(todo') /\ DOMAIN Tail(todo) = 1 .. Len(Tail(todo))
    BY <2>2, <2>3
  <2>5. \A i \in 1 .. Len(Tail(todo)) : i + 1 \in 1 .. Len(todo')
    BY <2>3
  <2>6. ToSet(Tail(todo)) \subseteq ToSet(todo')
    BY <2>3, <2>4, <2>5 DEF ToSet
  <2> QED
    BY <1>6, <2>1, <2>6
<1>10. ~Ended /\ ~Detected /\ ~Redirected
  BY DEF Ended, Detected, Redirected
<1> QED
  BY <1>1, <1>7, <1>8, <1>9, <1>10, Step

(* First fit, whatever fails on the way: an early answer is not replaced   *)
(* by a later one, and a runner that finds nothing has looked everywhere.  *)
THEOREM FirstFitCorrect == Spec => []FirstFit
<1>1. Init => Unasked
  BY DEF Init, Unasked
<1>2. Kept /\ Searching /\ Unasked /\ [Next]_vars => Unasked'
  <2>1. UNCHANGED vars /\ Unasked => Unasked'
    BY DEF vars, inputs, answers, Unasked, Places, BaseSet, Asked
  <2> QED
    BY <2>1, UnaskedStep
<1>3. Kept /\ Searching /\ Unasked => FirstFit
  <2> SUFFICES ASSUME Kept, Searching, Unasked, todo = <<>>, found = {} PROVE Places \subseteq Asked
    BY DEF Searching, FirstFit
  <2>1. CASE runner \in {"pacc", "mailconf", "provider"}
    BY <2>1 DEF Places
  <2>2. CASE runner \notin {"pacc", "mailconf", "provider"}
    <3>1. log # <<>>
      <4> SUFFICES ASSUME log = <<>> PROVE FALSE
        OBVIOUS
      <4>1. todo \in Calls(runner) /\ runner \in Runners
        BY StartsFirst DEF Kept
      <4> QED
        BY <4>1, StartClear
    <3>2. ToSet(todo) = {}
      BY DEF ToSet
    <3> QED
      BY <2>2, <3>1, <3>2 DEF Unasked
  <2> QED
    BY <2>1, <2>2
<1> QED
  BY <1>1, <1>2, <1>3, KeptInvariant, SearchInvariant, PTL DEF Spec

-----------------------------------------------------------------------------
(* The locations of a better base are asked, or ahead on the list.         *)
Ahead ==
  \A a, b \in BaseSet : Better(a, b, BaseOf) =>
    \A k \in 1 .. Len(todo) : todo[k] \in ToSet(Locations(b)) =>
      \A c \in ToSet(Locations(a)) : c \in Asked \/ \E i \in 1 .. k - 1 : c = todo[i]

InOrder ==
  \A a, b \in BaseSet : Better(a, b, BaseOf) =>
    \A j \in DOMAIN log : log[j].call \in ToSet(Locations(b)) =>
      ToSet(Locations(a)) \subseteq {log[i].call : i \in 1 .. j - 1}

BestProvider ==
  runner = "provider" =>
    /\ log = <<>> => found = {}
    /\ \A p \in found : \A q \in {ProviderOf[e] : e \in Exchanges} \ {None, p} :
         ~Better(q, p, ProviderOf)

LEMMA NoLocation ==
  ASSUME NEW b, NEW u
  PROVE  Mx \notin ToSet(Locations(b)) /\ Target(u) \notin ToSet(Locations(b))
<1>1. \A c : c \in ToSet(Locations(b)) <=>
               c \in {Get(MainUrl(Autoconfig(b))), Alias(Autoconfig(b)), Get(DbUrl(b))}
  BY LocationsAre
<1>2. \A v : Get(v) # Mx /\ Alias(v) # Mx /\ Get(v) # Target(u) /\ Alias(v) # Target(u)
  BY CallKinds
<1> QED
  BY <1>1, <1>2

(* The list is in the order of the bases.                                  *)
LEMMA ListedAhead ==
  ASSUME Listed
  PROVE  Ahead'
<1>1. PICK bs \in Seq(STRING) :
        /\ todo' = Rounds(bs) /\ ToSet(bs) = BaseSet'
        /\ \A i, j \in 1 .. Len(bs) : Better(bs[i], bs[j], BaseOf)' => i < j
  BY ListedIs
<1>2. /\ Len(bs) \in Nat
      /\ \A i \in 1 .. Len(bs), l \in 1 .. 3 :
           3 * (i - 1) + l \in 1 .. Len(todo') /\ todo'[3 * (i - 1) + l] = Locations(bs[i])[l]
      /\ \A k \in 1 .. Len(todo') : \E i \in 1 .. Len(bs), l \in 1 .. 3 : k = 3 * (i - 1) + l
  BY <1>1, RoundsAre
<1>3. ASSUME NEW a \in BaseSet', NEW b \in BaseSet', Better(a, b, BaseOf)',
             NEW k \in 1 .. Len(todo'), todo'[k] \in ToSet(Locations(b)),
             NEW c \in ToSet(Locations(a))
      PROVE  \E i \in 1 .. k - 1 : c = todo'[i]
  <2>1. PICK i \in 1 .. Len(bs), l \in 1 .. 3 : k = 3 * (i - 1) + l
    BY <1>2, <1>3
  <2>2. \A x : DOMAIN Locations(x) = 1 .. 3
    BY LocationsAre
  <2>3. PICK n \in 1 .. 3 : todo'[k] = Locations(b)[n]
    BY <1>3, <2>2 DEF ToSet
  <2>4. b = bs[i]
    <3>1. Locations(bs[i])[l] = Locations(b)[n]
      BY <1>2, <2>1, <2>3
    <3> QED
      BY <3>1, LocationsApart
  <2>5. PICK j \in 1 .. Len(bs) : a = bs[j]
    BY <1>1 DEF ToSet
  <2>6. j < i
    BY <1>1, <1>3, <2>4, <2>5
  <2>7. PICK m \in 1 .. 3 : c = Locations(a)[m]
    BY <1>3, <2>2 DEF ToSet
  <2>8. todo'[3 * (j - 1) + m] = c
    BY <1>2, <2>5, <2>7
  <2>9. 3 * (j - 1) + m \in 1 .. k - 1
    <3>0. Len(bs) \in Nat
      BY <1>2
    <3>1. i \in Nat /\ j \in Nat /\ j >= 1 /\ l \in Nat /\ l >= 1 /\ m \in Nat /\ m >= 1 /\ m <= 3
      BY <3>0
    <3>2. k = 3 * (i - 1) + l /\ j + 1 <= i
      BY <2>1, <2>6, <3>1
    <3> QED
      BY <3>1, <3>2
  <2> QED
    BY <2>8, <2>9
<1> QED
  BY <1>3 DEF Ahead

(* One more call is made, and the rest stays in order.                     *)
LEMMA AheadStep ==
  ASSUME TypeOK, Stages, Next, Ahead, UNCHANGED mx,
         \/ todo' = Tail(todo) \/ todo' = <<>>
         \/ \E u : todo' = <<Target(u)>> \o Tail(todo)
  PROVE  Ahead'
<1>1. todo # <<>> /\ todo \in Seq(CallSet)
  BY Step DEF TypeOK
<1>2. /\ Tail(todo) \in Seq(CallSet) /\ Head(todo) = todo[1] /\ Len(todo) \in Nat
      /\ Len(Tail(todo)) = Len(todo) - 1
      /\ \A i \in 1 .. Len(Tail(todo)) : Tail(todo)[i] = todo[i + 1] /\ i + 1 \in 1 .. Len(todo)
  BY <1>1, TailIs
<1>3. Asked' = Asked \cup {Head(todo)}
  BY AskedStep
<1> SUFFICES ASSUME NEW a \in BaseSet, NEW b \in BaseSet, Better(a, b, BaseOf),
                    NEW k \in 1 .. Len(todo'), todo'[k] \in ToSet(Locations(b)),
                    NEW c \in ToSet(Locations(a))
             PROVE  c \in Asked' \/ \E i \in 1 .. k - 1 : c = todo'[i]
  <2>1. BaseSet' = BaseSet /\ \A a, b : Better(a, b, BaseOf)' <=> Better(a, b, BaseOf)
    BY DEF BaseSet, Better
  <2> QED
    BY <2>1 DEF Ahead
<1>4. ASSUME NEW n \in 1 .. Len(todo), todo[n] \in ToSet(Locations(b)), c \notin Asked'
      PROVE  \E i \in 2 .. n - 1 : c = todo[i]
  <2>1. c \in Asked \/ \E i \in 1 .. n - 1 : c = todo[i]
    BY <1>4 DEF Ahead
  <2>2. c # todo[1] /\ c \notin Asked
    BY <1>2, <1>3, <1>4
  <2> QED
    BY <2>1, <2>2
<1>5. CASE todo' = Tail(todo)
  <2>1. todo'[k] = todo[k + 1] /\ k + 1 \in 1 .. Len(todo)
    BY <1>2, <1>5
  <2>2. SUFFICES ASSUME c \notin Asked' PROVE \E i \in 1 .. k - 1 : c = todo'[i]
    OBVIOUS
  <2>3. PICK i \in 2 .. (k + 1) - 1 : c = todo[i]
    BY <1>4, <2>1, <2>2
  <2>4. i - 1 \in 1 .. k - 1 /\ i - 1 \in 1 .. Len(Tail(todo)) /\ (i - 1) + 1 = i
    BY <1>2, <2>1
  <2>5. todo'[i - 1] = c
    BY <1>2, <1>5, <2>3, <2>4
  <2> QED
    BY <2>4, <2>5
<1>6. CASE todo' = <<>>
  BY <1>6
<1>7. ASSUME NEW u, todo' = <<Target(u)>> \o Tail(todo)
      PROVE  c \in Asked' \/ \E i \in 1 .. k - 1 : c = todo'[i]
  <2> DEFINE t == Target(u)
  <2>1. Tail(todo) \in Seq(CallSet \cup {t}) /\ t \in CallSet \cup {t} /\ todo' = <<t>> \o Tail(todo)
    <3>1. todo' = <<t>> \o Tail(todo)
      BY <1>7
    <3> HIDE DEF t
    <3> QED
      BY <1>1, <3>1
  <2>2. t \notin ToSet(Locations(b))
    BY NoLocation
  <2> HIDE DEF t
  <2>3. /\ todo'[1] = t
        /\ \A i \in 1 .. Len(Tail(todo)) : todo'[i + 1] = Tail(todo)[i]
        /\ \A i \in 1 .. Len(todo') : i = 1 \/ (i - 1 \in 1 .. Len(Tail(todo)) /\ todo'[i] = Tail(todo)[i - 1])
    BY <2>1, ConsIs
  <2>4. ASSUME NEW i \in Nat, i - 1 \in 1 .. Len(Tail(todo))
        PROVE  todo'[i] = todo[i] /\ i \in 1 .. Len(todo)
    <3>1. todo'[(i - 1) + 1] = Tail(todo)[i - 1] /\ Tail(todo)[i - 1] = todo[(i - 1) + 1]
      BY <1>2, <2>3, <2>4
    <3>2. (i - 1) + 1 = i /\ (i - 1) + 1 \in 1 .. Len(todo)
      BY <1>2, <2>4
    <3> QED
      BY <3>1, <3>2
  <2>5. k # 1
    BY <2>2, <2>3
  <2>6. k \in Nat /\ k - 1 \in 1 .. Len(Tail(todo))
    BY <2>3, <2>5
  <2>7. todo'[k] = todo[k] /\ k \in 1 .. Len(todo)
    BY <2>4, <2>6
  <2>8. SUFFICES ASSUME c \notin Asked' PROVE \E i \in 1 .. k - 1 : c = todo'[i]
    OBVIOUS
  <2>9. PICK i \in 2 .. k - 1 : c = todo[i]
    BY <1>4, <2>7, <2>8
  <2>10. i \in Nat /\ i - 1 \in 1 .. Len(Tail(todo)) /\ i \in 1 .. k - 1
    BY <1>2, <2>7
  <2>11. todo'[i] = c
    BY <2>4, <2>9, <2>10
  <2> QED
    BY <2>10, <2>11
<1> QED
  BY <1>5, <1>6, <1>7

LEMMA InOrderStep ==
  ASSUME TypeOK, Stages, Next, Ahead, InOrder, UNCHANGED mx
  PROVE  InOrder'
<1>1. /\ Len(log) \in Nat
      /\ DOMAIN log = 1 .. Len(log) /\ DOMAIN log' = 1 .. Len(log) + 1
      /\ \A i \in 1 .. Len(log) : log'[i] = log[i]
      /\ log'[Len(log) + 1].call = Head(todo)
  BY AskedStep
<1> SUFFICES ASSUME NEW a \in BaseSet, NEW b \in BaseSet, Better(a, b, BaseOf),
                    NEW j \in DOMAIN log', log'[j].call \in ToSet(Locations(b)),
                    NEW c \in ToSet(Locations(a))
             PROVE  c \in {log'[i].call : i \in 1 .. j - 1}
  <2>1. BaseSet' = BaseSet /\ \A a, b : Better(a, b, BaseOf)' <=> Better(a, b, BaseOf)
    BY DEF BaseSet, Better
  <2> QED
    BY <2>1 DEF InOrder
<1>2. \A i \in 1 .. j - 1 : i \in 1 .. Len(log)
  BY <1>1
<1>3. c \in {log[i].call : i \in 1 .. j - 1}
  <2>1. CASE j \in 1 .. Len(log)
    BY <1>1, <2>1 DEF InOrder
  <2>2. CASE j = Len(log) + 1
    <3>1. Head(todo) = todo[1] /\ 1 \in 1 .. Len(todo)
      <4>1. todo # <<>> /\ todo \in Seq(CallSet)
        BY Step DEF TypeOK
      <4> QED
        BY <4>1
    <3>2. todo[1] \in ToSet(Locations(b))
      BY <1>1, <2>2, <3>1
    <3>3. c \in Asked \/ \E i \in 1 .. 1 - 1 : c = todo[i]
      BY <3>1, <3>2 DEF Ahead
    <3>4. c \in Asked
      BY <3>3
    <3>5. j - 1 = Len(log)
      BY <1>1, <2>2
    <3> QED
      BY <1>1, <3>4, <3>5 DEF Asked
  <2> QED
    BY <1>1, <2>1, <2>2
<1> QED
  BY <1>1, <1>2, <1>3

(* The lookup of mail hosts is the first call.                             *)
LEMMA MxInOrder ==
  ASSUME TypeOK, Stages, Next, todo = <<Mx>>
  PROVE  InOrder'
<1>1. log = <<>>
  <2>1. todo[1] = Mx /\ 1 \in DOMAIN todo
    OBVIOUS
  <2> QED
    BY <2>1 DEF Stages
<1>2. DOMAIN log' = 1 .. 1 /\ log'[1].call = Mx
  <2>1. Len(log) = 0 /\ Head(todo) = Mx
    BY <1>1
  <2>2. DOMAIN log' = 1 .. Len(log) + 1 /\ log'[Len(log) + 1].call = Head(todo)
    BY AskedStep
  <2>3. Len(log) + 1 = 1
    BY <2>1
  <2> QED
    BY <2>1, <2>2, <2>3
<1> QED
  BY <1>2, NoLocation DEF InOrder

LEMMA ProviderStep ==
  ASSUME TypeOK, Stages, BestProvider, Next
  PROVE  BestProvider'
<1>1. UNCHANGED inputs /\ todo # <<>> /\ log' # <<>>
  <2>1. \E doc \in Docs : Logged(doc)
    BY Step
  <2>2. Len(log) \in Nat /\ Len(log') = Len(log) + 1
    BY AskedStep
  <2> QED
    BY <2>2, Step
<1> SUFFICES ASSUME runner = "provider"
             PROVE  \A p \in found' : \A q \in {ProviderOf[e] : e \in Exchanges} \ {None, p} :
                      ~Better(q, p, ProviderOf)'
  BY <1>1 DEF BestProvider, inputs
<1>2. log = <<>> /\ found = {}
  BY <1>1 DEF Stages, BestProvider
<1>3. CASE Dropped
  BY <1>2, <1>3 DEF Dropped
<1>4. CASE Detected
  <2>1. found' = FirstProvider(BestFirst(mx')) /\ mx' \in SUBSET MxRecord /\ IsFiniteSet(mx')
    BY <1>4, MxAnswerRecords DEF Detected
  <2>2. ASSUME NEW p \in found', NEW q \in {ProviderOf[e] : e \in Exchanges} \ {None, p}
        PROVE  ~Better(q, p, ProviderOf)'
    <3>1. ~Leads(q, p, ProviderOf, mx')
      BY <2>1, FirstProviderBest
    <3> QED
      BY <3>1 DEF Leads, Better
  <2> QED
    BY <2>2
<1>5. CASE Followed
  BY <1>2, <1>5 DEF Followed, FollowedBy
<1>6. ~Ended /\ ~Listed /\ ~Redirected
  BY DEF Ended, Listed, Redirected
<1> QED
  BY <1>3, <1>4, <1>5, <1>6, Step

LEMMA PreferenceStep ==
  ASSUME Kept, Ahead, InOrder, BestProvider, Next
  PROVE  Ahead' /\ InOrder' /\ BestProvider'
<1>1. TypeOK /\ Stages
  BY DEF Kept
<1>2. BestProvider'
  BY <1>1, ProviderStep
<1>3. CASE Dropped \/ Ended \/ Followed
  <2>1. UNCHANGED mx
    BY <1>3 DEF Dropped, Ended, Followed, FollowedBy
  <2>2. \/ todo' = Tail(todo) \/ todo' = <<>>
        \/ \E u : todo' = <<Target(u)>> \o Tail(todo)
    <3>1. CASE Dropped \/ Ended
      BY <3>1 DEF Dropped, Ended
    <3>2. CASE Followed
      <4>1. PICK h, records : FollowedBy(h, records)
        BY <3>2 DEF Followed
      <4>2. todo' = <<Target(MainUrl(Follow(h, records)))>> \o Tail(todo)
        BY <4>1 DEF FollowedBy
      <4> QED
        BY <4>2
    <3> QED
      BY <1>3, <3>1, <3>2
  <2>3. Ahead'
    BY <1>1, <2>1, <2>2, AheadStep
  <2> QED
    BY <1>1, <1>2, <2>1, <2>3, InOrderStep
<1>4. CASE Detected
  <2>1. todo = <<Mx>> /\ todo' = <<>>
    BY <1>4 DEF Detected
  <2>2. Ahead'
    BY <2>1 DEF Ahead
  <2> QED
    BY <1>1, <1>2, <2>1, <2>2, MxInOrder
<1>5. CASE Listed
  <2>1. todo = <<Mx>>
    BY <1>5 DEF Listed
  <2> QED
    BY <1>1, <1>2, <1>5, <2>1, ListedAhead, MxInOrder
<1>6. CASE Redirected
  <2>1. UNCHANGED mx /\ runner = "mailconf"
    BY <1>6 DEF Redirected
  <2>2. BaseSet' = {}
    BY <1>1, <2>1 DEF Stages, BaseSet
  <2> QED
    BY <1>2, <2>2 DEF Ahead, InOrder
<1> QED
  BY <1>1, <1>3, <1>4, <1>5, <1>6, Step

(* Mail hosts are tried, and a provider is detected, in the order of       *)
(* preference of their records, whatever the order of the answer.          *)
THEOREM PreferenceCorrect == Spec => []Preference
<1> DEFINE I == Ahead /\ InOrder /\ BestProvider
<1>1. Init => I
  <2> SUFFICES ASSUME Init PROVE I
    OBVIOUS
  <2>1. mx = {} /\ log = <<>> /\ found = {}
    BY DEF Init
  <2>2. BaseSet = {}
    BY <2>1 DEF BaseSet
  <2> QED
    BY <2>1, <2>2 DEF Ahead, InOrder, BestProvider
<1>2. Kept /\ I /\ [Next]_vars => I'
  <2>1. I /\ UNCHANGED vars => I'
    <3> SUFFICES ASSUME I, UNCHANGED vars PROVE I'
      OBVIOUS
    <3>1. UNCHANGED <<runner, todo, log, found, mx>>
      BY DEF vars, inputs, answers
    <3>2. BaseSet' = BaseSet /\ Asked' = Asked
      BY <3>1 DEF BaseSet, Asked
    <3>3. \A a, b, name : Better(a, b, name)' <=> Better(a, b, name)
      BY <3>1 DEF Better
    <3>4. Ahead'
      BY <3>1, <3>2, <3>3 DEF Ahead
    <3>5. InOrder'
      BY <3>1, <3>2, <3>3 DEF InOrder
    <3>6. BestProvider'
      BY <3>1, <3>3 DEF BestProvider
    <3> QED
      BY <3>4, <3>5, <3>6
  <2> QED
    BY <2>1, PreferenceStep
<1>3. I => Preference
  BY DEF InOrder, BestProvider, Preference
<1> HIDE DEF I
<1> QED
  BY <1>1, <1>2, <1>3, KeptInvariant, PTL DEF Spec

-----------------------------------------------------------------------------
(* The calls that may put one more in front of the list: each counts for   *)
(* two.                                                                    *)
Opening(calls) == {i \in 1 .. Len(calls) : calls[i].op \in {"alias", "txt"}}

Weight(calls) == Len(calls) + Cardinality(Opening(calls))

LEMMA OpeningFinite ==
  ASSUME NEW S, NEW q \in Seq(S)
  PROVE  Len(q) \in Nat /\ IsFiniteSet(Opening(q)) /\ Cardinality(Opening(q)) \in Nat
<1>1. Len(q) \in Nat
  OBVIOUS
<1>2. IsFiniteSet(1 .. Len(q))
  BY <1>1, FS_Interval
<1>3. Opening(q) \in SUBSET (1 .. Len(q))
  BY DEF Opening
<1>4. IsFiniteSet(Opening(q))
  BY <1>2, <1>3, FS_Subset
<1> QED
  BY <1>1, <1>4, FS_CardinalityType

LEMMA TailWeight ==
  ASSUME NEW S, NEW q \in Seq(S), q # <<>>
  PROVE  Weight(Tail(q)) + 1 <= Weight(q)
<1>1. /\ Tail(q) \in Seq(S) /\ Len(q) \in Nat /\ Len(Tail(q)) = Len(q) - 1
      /\ \A i \in 1 .. Len(Tail(q)) : Tail(q)[i] = q[i + 1] /\ i + 1 \in 1 .. Len(q)
  BY TailIs
<1>2. IsFiniteSet(Opening(q)) /\ Cardinality(Opening(q)) \in Nat /\ Cardinality(Opening(Tail(q))) \in Nat
  BY <1>1, OpeningFinite
<1> DEFINE f == [i \in Opening(Tail(q)) |-> i + 1]
<1>3. f \in Injection(Opening(Tail(q)), Opening(q))
  <2>1. ASSUME NEW i \in Opening(Tail(q)) PROVE i \in Int /\ i + 1 \in Opening(q)
    <3>1. i \in 1 .. Len(Tail(q)) /\ Tail(q)[i].op \in {"alias", "txt"}
      BY DEF Opening
    <3>2. Tail(q)[i] = q[i + 1] /\ i + 1 \in 1 .. Len(q)
      BY <1>1, <3>1
    <3> QED
      BY <3>1, <3>2 DEF Opening
  <2>2. f \in [Opening(Tail(q)) -> Opening(q)]
    BY <2>1
  <2>3. \A i, j \in Opening(Tail(q)) : f[i] = f[j] => i = j
    BY <2>1
  <2> QED
    BY <2>2, <2>3 DEF Injection, IsInjective
<1>4. Cardinality(Opening(Tail(q))) <= Cardinality(Opening(q))
  <2> HIDE DEF f
  <2> QED
    BY <1>2, <1>3, FS_Injection
<1> QED
  BY <1>1, <1>2, <1>4 DEF Weight

(* A call that opens another is replaced by it.                            *)
LEMMA HeadWeight ==
  ASSUME NEW S, NEW q \in Seq(S), q # <<>>, Head(q).op \in {"alias", "txt"},
         NEW c \in S, c.op = "get"
  PROVE  Weight(<<c>> \o Tail(q)) + 1 <= Weight(q) /\ Weight(<<c>>) + 1 <= Weight(q)
<1> DEFINE p == <<c>> \o Tail(q)
<1>1. /\ Tail(q) \in Seq(S) /\ Head(q) = q[1] /\ Len(q) \in Nat /\ Len(q) >= 1 /\ Len(Tail(q)) = Len(q) - 1
      /\ \A i \in 1 .. Len(Tail(q)) : Tail(q)[i] = q[i + 1] /\ i + 1 \in 1 .. Len(q)
  BY TailIs
<1>2. /\ p \in Seq(S) /\ Len(p) = Len(Tail(q)) + 1 /\ p[1] = c
      /\ \A i \in 1 .. Len(p) : i = 1 \/ (i - 1 \in 1 .. Len(Tail(q)) /\ p[i] = Tail(q)[i - 1])
  BY <1>1, ConsIs
<1> HIDE DEF p
<1>3. Len(p) = Len(q)
  BY <1>1, <1>2
<1>4. 1 \in Opening(q)
  BY <1>1 DEF Opening
<1>5. IsFiniteSet(Opening(q)) /\ Cardinality(Opening(q)) \in Nat /\ Cardinality(Opening(p)) \in Nat
  BY <1>2, OpeningFinite
<1>6. /\ IsFiniteSet(Opening(q) \ {1})
      /\ Cardinality(Opening(q) \ {1}) = Cardinality(Opening(q)) - 1
      /\ Cardinality(Opening(q) \ {1}) \in Nat
  BY <1>4, <1>5, FS_RemoveElement, FS_CardinalityType
<1>7. Opening(p) \in SUBSET (Opening(q) \ {1})
  <2> SUFFICES ASSUME NEW i \in Opening(p) PROVE i \in Opening(q) \ {1}
    OBVIOUS
  <2>1. i \in 1 .. Len(p) /\ p[i].op \in {"alias", "txt"}
    BY DEF Opening
  <2>2. i # 1
    BY <1>2, <2>1
  <2>3. i - 1 \in 1 .. Len(Tail(q)) /\ p[i] = Tail(q)[i - 1]
    BY <1>2, <2>1, <2>2
  <2>4. (i - 1) + 1 = i
    BY <2>1
  <2>5. p[i] = q[i] /\ i \in 1 .. Len(q)
    BY <1>1, <2>3, <2>4
  <2> QED
    BY <2>1, <2>2, <2>5 DEF Opening
<1>8. Cardinality(Opening(p)) <= Cardinality(Opening(q)) - 1
  BY <1>6, <1>7, FS_Subset
<1>9. Weight(p) + 1 <= Weight(q)
  BY <1>1, <1>3, <1>5, <1>8 DEF Weight
<1>10. Weight(<<c>>) = 1
  <2>1. <<c>>[1] = c /\ Len(<<c>>) = 1
    OBVIOUS
  <2>2. Opening(<<c>>) = {}
    BY <2>1 DEF Opening
  <2> QED
    BY <2>1, <2>2, FS_EmptySet DEF Weight
<1>11. Cardinality(Opening(q)) >= 1
  BY <1>5, <1>6
<1> QED
  BY <1>1, <1>5, <1>9, <1>10, <1>11 DEF p, Weight

(* Four at most for a base.                                                *)
LEMMA RoundsWeight ==
  ASSUME NEW S, NEW b \in Seq(S)
  PROVE  Len(b) \in Nat /\ Weight(Rounds(b)) \in Nat /\ Weight(Rounds(b)) <= 4 * Len(b)
<1> DEFINE r == Rounds(b)
           n == Len(b)
           alias == {3 * (i - 1) + 2 : i \in 1 .. n}
<1>1. /\ n \in Nat /\ Len(r) = 3 * n
      /\ r \in Seq(UNION {ToSet(Locations(b[i])) : i \in 1 .. Len(b)})
      /\ \A i \in 1 .. Len(b), l \in 1 .. 3 :
           3 * (i - 1) + l \in 1 .. Len(r) /\ r[3 * (i - 1) + l] = Locations(b[i])[l]
      /\ \A k \in 1 .. Len(r) : \E i \in 1 .. Len(b), l \in 1 .. 3 : k = 3 * (i - 1) + l
  BY RoundsAre
<1> HIDE DEF r
<1>2. Opening(r) \in SUBSET alias
  <2> SUFFICES ASSUME NEW k \in Opening(r) PROVE k \in alias
    OBVIOUS
  <2>1. k \in 1 .. Len(r) /\ r[k].op # "get"
    BY DEF Opening
  <2>2. PICK i \in 1 .. Len(b), l \in 1 .. 3 : k = 3 * (i - 1) + l
    BY <1>1, <2>1
  <2>3. r[k] = Locations(b[i])[l]
    BY <1>1, <2>2
  <2>4. l = 2
    <3>1. Locations(b[i])[1].op = "get" /\ Locations(b[i])[3].op = "get"
      BY LocationsAre, CallKinds
    <3>2. l \in {1, 2, 3}
      OBVIOUS
    <3> QED
      BY <2>1, <2>3, <3>1, <3>2
  <2> QED
    BY <2>2, <2>4
<1>3. IsFiniteSet(alias) /\ Cardinality(alias) <= n
  <2> DEFINE f == [i \in 1 .. n |-> 3 * (i - 1) + 2]
  <2>1. f \in Surjection(1 .. n, alias)
    BY DEF Surjection
  <2>2. IsFiniteSet(1 .. n) /\ Cardinality(1 .. n) = n
    <3>1. n \in Nat
      BY <1>1
    <3> HIDE DEF n
    <3> QED
      BY <3>1, FS_Interval
  <2> HIDE DEF f, alias
  <2> QED
    BY <2>1, <2>2, FS_Surjection
<1>4. Cardinality(alias) \in Nat /\ Cardinality(Opening(r)) \in Nat
  BY <1>1, <1>3, FS_CardinalityType, OpeningFinite
<1>5. Cardinality(Opening(r)) <= Cardinality(alias)
  <2> HIDE DEF alias
  <2> QED
    BY <1>2, <1>3, FS_Subset
<1>6. Cardinality(Opening(r)) <= n
  <2> HIDE DEF alias
  <2> QED
    BY <1>1, <1>3, <1>4, <1>5
<1>7. Len(r) = 3 * n /\ n \in Nat
  BY <1>1
<1> HIDE DEF alias, n
<1>8. Len(r) + Cardinality(Opening(r)) \in Nat /\ Len(r) + Cardinality(Opening(r)) <= 4 * n
  BY <1>4, <1>6, <1>7
<1> QED
  BY <1>7, <1>8 DEF Weight, r, n

LEMMA StartWeight ==
  ASSUME NEW r \in Runners, NEW c \in Calls(r)
  PROVE  Weight(c) \in Nat /\ Weight(c) <= 3
<1>1. c \in Seq(CallSet)
  BY StartClear
<1>2. Len(c) = 1 \/ (Len(c) = 2 /\ c[1].op = "get")
  <2>1. \/ \E x : c = <<x>>
        \/ \E u, x : c = <<Get(u), x>>
    BY CallsAre
  <2>2. \A u : Get(u).op = "get"
    BY CallKinds
  <2> QED
    BY <2>1, <2>2
<1>3. Opening(c) \in SUBSET {Len(c)}
  <2> SUFFICES ASSUME NEW i \in Opening(c) PROVE i = Len(c)
    OBVIOUS
  <2>1. i \in 1 .. Len(c) /\ c[i].op # "get"
    BY DEF Opening
  <2>2. CASE Len(c) = 1
    <3>1. i \in 1 .. 1
      BY <2>1, <2>2
    <3> QED
      BY <2>2, <3>1
  <2>3. CASE Len(c) = 2 /\ c[1].op = "get"
    <3>1. i \in 1 .. 2 /\ i # 1
      BY <2>1, <2>3
    <3> QED
      BY <2>3, <3>1
  <2> QED
    BY <1>2, <2>2, <2>3
<1>4. Cardinality(Opening(c)) <= 1 /\ Cardinality(Opening(c)) \in Nat
  <2>1. IsFiniteSet({Len(c)}) /\ Cardinality({Len(c)}) = 1
    BY FS_Singleton
  <2>2. Cardinality(Opening(c)) <= Cardinality({Len(c)})
    BY <1>3, <2>1, FS_Subset
  <2> QED
    BY <1>1, <2>1, <2>2, OpeningFinite
<1>5. Len(c) \in Nat /\ Len(c) <= 2
  <2> DEFINE n == Len(c)
  <2>1. n = 1 \/ n = 2
    BY <1>2, Zenon
  <2> HIDE DEF n
  <2>2. n \in Nat /\ n <= 2
    BY <2>1
  <2> QED
    BY <2>2 DEF n
<1>6. Weight(c) = Len(c) + Cardinality(Opening(c))
  BY DEF Weight
<1> QED
  BY <1>4, <1>5, <1>6

LEMMA BasesFinite ==
  ASSUME mx' \in MxAnswers
  PROVE  IsFiniteSet(BaseSet')
<1> DEFINE f == [r \in mx' |-> BaseOf[r.exchange]]
           I == {BaseOf[r.exchange] : r \in mx'}
<1>1. IsFiniteSet(mx')
  BY MxAnswerRecords
<1>2. f \in Surjection(mx', I)
  BY DEF Surjection
<1>3. BaseSet' \in SUBSET I
  BY DEF BaseSet
<1> HIDE DEF f, I
<1> QED
  BY <1>1, <1>2, <1>3, FS_Surjection, FS_Subset

(* The calls made, and those the rest of the list may lead to.             *)
Bounded == IsFiniteSet(BaseSet) /\ Len(log) + Weight(todo) <= 3 + 4 * Cardinality(BaseSet)

LEMMA ListedBounded ==
  ASSUME Listed
  PROVE  /\ IsFiniteSet(BaseSet') /\ Cardinality(BaseSet') \in Nat
         /\ Weight(todo') \in Nat /\ Weight(todo') <= 4 * Cardinality(BaseSet')
<1>1. PICK b \in Seq(STRING) :
        /\ todo' = Rounds(b) /\ ToSet(b) = BaseSet'
        /\ \A i, j \in 1 .. Len(b) : b[i] = b[j] => i = j
  BY ListedIs
<1>2. Len(b) \in Nat /\ Weight(todo') \in Nat /\ Weight(todo') <= 4 * Len(b)
  BY <1>1, RoundsWeight
<1>3. b \in Surjection(1 .. Len(b), BaseSet') /\ b \in Injection(1 .. Len(b), BaseSet')
  BY <1>1 DEF Surjection, Injection, IsInjective, ToSet
<1>4. IsFiniteSet(1 .. Len(b)) /\ Cardinality(1 .. Len(b)) = Len(b)
  <2> DEFINE n == Len(b)
  <2>1. n \in Nat
    BY <1>2
  <2> HIDE DEF n
  <2>2. IsFiniteSet(1 .. n) /\ Cardinality(1 .. n) = n
    BY <2>1, FS_Interval
  <2> QED
    BY <2>2 DEF n
<1>5. IsFiniteSet(BaseSet') /\ Cardinality(BaseSet') = Len(b)
  BY <1>3, <1>4, FS_Surjection
<1> QED
  BY <1>2, <1>5

LEMMA BoundedStep ==
  ASSUME Kept, Bounded, Next
  PROVE  Bounded'
<1>1. TypeOK /\ Stages /\ Clear /\ todo # <<>> /\ todo \in Seq(CallSet)
  BY Step DEF Kept, TypeOK
<1>2. Len(log) \in Nat /\ Len(log') = Len(log) + 1
  BY <1>1, AskedStep
<1>3. /\ Len(todo) \in Nat /\ Len(todo) >= 1
      /\ Cardinality(Opening(todo)) \in Nat /\ Weight(todo) \in Nat
  BY <1>1, OpeningFinite DEF Weight
<1>4. Weight(todo) >= 1
  BY <1>3 DEF Weight
<1>5. Weight(<<>>) = 0
  <2>1. Opening(<<>>) = {} /\ Len(<<>>) = 0
    BY DEF Opening
  <2> QED
    BY <2>1, FS_EmptySet DEF Weight
<1>6. IsFiniteSet(BaseSet) /\ Cardinality(BaseSet) \in Nat /\ Len(log) + Weight(todo) <= 3 + 4 * Cardinality(BaseSet)
  BY FS_CardinalityType DEF Bounded
<1>7. ASSUME UNCHANGED mx, Weight(todo') \in Nat, Weight(todo') + 1 <= Weight(todo)
      PROVE  Bounded'
  <2>1. BaseSet' = BaseSet
    BY <1>7 DEF BaseSet
  <2>2. Len(log') + Weight(todo') <= Len(log) + Weight(todo)
    BY <1>2, <1>3, <1>7
  <2>3. Len(log') + Weight(todo') <= 3 + 4 * Cardinality(BaseSet)
    BY <1>2, <1>3, <1>6, <1>7, <2>2
  <2> QED
    BY <1>6, <2>1, <2>3 DEF Bounded
<1>8. \A q : q \in Seq(CallSet) => Weight(q) \in Nat
  BY OpeningFinite DEF Weight
<1>9. CASE Dropped
  <2>1. todo' = Tail(todo) /\ UNCHANGED mx
    BY <1>9 DEF Dropped
  <2>2. Tail(todo) \in Seq(CallSet)
    BY <1>1
  <2> QED
    BY <1>1, <1>7, <1>8, <2>1, <2>2, TailWeight
<1>10. CASE Ended
  <2>1. todo' = <<>> /\ UNCHANGED mx
    BY <1>10 DEF Ended
  <2> QED
    BY <1>4, <1>5, <1>7, <2>1
<1>11. todo = <<Mx>> => Len(log) = 0
  <2> SUFFICES ASSUME todo = <<Mx>> PROVE log = <<>>
    OBVIOUS
  <2>1. todo[1] = Mx /\ 1 \in DOMAIN todo
    OBVIOUS
  <2> QED
    BY <1>1, <2>1 DEF Stages
<1>12. CASE Detected
  <2>1. todo = <<Mx>> /\ todo' = <<>> /\ IsFiniteSet(BaseSet')
    BY <1>12, BasesFinite DEF Detected
  <2>2. Cardinality(BaseSet') \in Nat
    BY <2>1, FS_CardinalityType
  <2>3. Len(log') + Weight(todo') = 1
    BY <1>2, <1>5, <1>11, <2>1
  <2> QED
    BY <2>1, <2>2, <2>3 DEF Bounded
<1>13. CASE Listed
  <2>1. todo = <<Mx>>
    BY <1>13 DEF Listed
  <2>2. /\ IsFiniteSet(BaseSet') /\ Cardinality(BaseSet') \in Nat
        /\ Weight(todo') \in Nat /\ Weight(todo') <= 4 * Cardinality(BaseSet')
    BY <1>13, ListedBounded
  <2>3. Len(log') = 1
    BY <1>2, <1>11, <2>1
  <2> QED
    BY <2>2, <2>3 DEF Bounded
<1>14. CASE Followed
  <2>1. PICK h, c : Head(todo) = Alias(h) /\ todo' = <<Target(c)>> \o Tail(todo) /\ UNCHANGED mx
    BY <1>14 DEF Followed, FollowedBy
  <2>2. Head(todo).op \in {"alias", "txt"} /\ Target(c).op = "get"
    BY <2>1, CallKinds
  <2> DEFINE S == CallSet \cup {Target(c)}
             t == Target(c)
  <2>3. todo \in Seq(S) /\ t \in S
    <3> HIDE DEF t
    <3> QED
      BY <1>1 DEF t
  <2> HIDE DEF S, t
  <2>4. t.op = "get" /\ todo' = <<t>> \o Tail(todo)
    BY <2>1, <2>2 DEF t
  <2>5. Weight(todo') + 1 <= Weight(todo)
    BY <1>1, <2>2, <2>3, <2>4, HeadWeight
  <2>6. Tail(todo) \in Seq(S)
    BY <1>1, <2>3, TailIs
  <2>7. todo' \in Seq(S)
    BY <2>3, <2>4, <2>6, ConsIs
  <2>8. Weight(todo') \in Nat
    BY <2>7, OpeningFinite DEF Weight
  <2> QED
    BY <1>7, <2>1, <2>5, <2>8
<1>15. CASE Redirected
  <2>1. PICK url \in MailconfUrls : todo' = <<Get(url)>> /\ Head(todo) = Txt /\ UNCHANGED mx
    BY <1>15 DEF Redirected
  <2> DEFINE t == Get(url)
  <2>2. Head(todo).op \in {"alias", "txt"} /\ t.op = "get" /\ t \in CallSet
    BY <2>1, CallKinds DEF CallSet, Urls
  <2> HIDE DEF t
  <2>3. todo' = <<t>>
    BY <2>1 DEF t
  <2>4. Weight(todo') + 1 <= Weight(todo)
    BY <1>1, <2>2, <2>3, HeadWeight
  <2>5. todo' \in Seq(CallSet)
    BY <2>2, <2>3
  <2> QED
    BY <1>7, <1>8, <2>1, <2>4, <2>5
<1> QED
  BY <1>1, <1>9, <1>10, <1>12, <1>13, <1>14, <1>15, Step

(* The calls of a runner are bounded by the mail hosts, whatever the       *)
(* number of their records and whatever the aliases lead to.               *)
THEOREM BoundedCallsCorrect == Spec => []BoundedCalls
<1>1. Init => Bounded
  <2> SUFFICES ASSUME Init PROVE Bounded
    OBVIOUS
  <2>1. mx = {} /\ Len(log) = 0 /\ runner \in Runners /\ todo \in Calls(runner)
    BY DEF Init
  <2>2. BaseSet = {}
    BY <2>1 DEF BaseSet
  <2>3. IsFiniteSet(BaseSet) /\ Cardinality(BaseSet) = 0
    BY <2>2, FS_EmptySet
  <2>4. Weight(todo) \in Nat /\ Weight(todo) <= 3
    BY <2>1, StartWeight
  <2> QED
    BY <2>1, <2>3, <2>4 DEF Bounded
<1>2. Kept /\ Bounded /\ [Next]_vars => Bounded'
  <2>1. Bounded /\ UNCHANGED vars => Bounded'
    BY DEF vars, inputs, answers, Bounded, BaseSet, Weight, Opening
  <2> QED
    BY <2>1, BoundedStep
<1>3. Kept /\ Bounded => BoundedCalls
  <2> SUFFICES ASSUME Kept, Bounded PROVE BoundedCalls
    OBVIOUS
  <2>1. todo \in Seq(CallSet)
    BY DEF Kept, TypeOK
  <2>2. Len(todo) \in Nat /\ Cardinality(Opening(todo)) \in Nat
    BY <2>1, OpeningFinite
  <2>3. Len(log) \in Nat
    <3> DEFINE S == [call : CallSet, doc : Docs]
    <3>1. log \in Seq(S)
      BY DEF Kept, TypeOK
    <3> HIDE DEF S
    <3> QED
      BY <3>1
  <2>4. Cardinality(BaseSet) \in Nat
    BY FS_CardinalityType DEF Bounded
  <2> QED
    BY <2>2, <2>3, <2>4 DEF Bounded, BoundedCalls, Weight
<1> QED
  BY <1>1, <1>2, <1>3, KeptInvariant, PTL DEF Spec
====

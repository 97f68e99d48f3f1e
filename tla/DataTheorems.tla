---------------------------- MODULE DataTheorems ----------------------------
(***************************************************************************)
(* Facts about the data the models are built from: numbers, functions       *)
(* defined by recursion on them, sequences, and the queue of rq.cc.         *)
(*                                                                          *)
(* Induction over numbers, and the existence of functions defined by        *)
(* recursion on them, are stated over data so that they can be cited for    *)
(* any set and any step function.                                           *)
(*                                                                          *)
(* A queue is well-formed (Good) when its blocks are in sequence order, no  *)
(* two of them touch, and fifo and lifo list the same blocks.  add then     *)
(* returns a well-formed queue that covers what the old one covered and the *)
(* bytes of the new block, and nothing else (Extends), whichever of its     *)
(* cases it takes; the flag it returns is that of the block the new bytes   *)
(* are in, and it moves rcv_nxt_ only to the end of that block or of the    *)
(* first (Grows).                                                           *)
(***************************************************************************)
EXTENDS ReassemblyQueue, TLAPS, WellFoundedInduction, FiniteSetTheorems

-----------------------------------------------------------------------------
(* Numbers and recursion *)

\* Products that recursions and bounds need
LEMMA TimesNext ==
  ASSUME NEW a \in Int, NEW b \in Int
  PROVE  a * b = (a - 1) * b + b
  OBVIOUS

LEMMA TimesMonotone ==
  ASSUME NEW a \in Int, NEW b \in Int, NEW c \in Nat, a <= b
  PROVE  a * c <= b * c /\ c * a <= c * b
  OBVIOUS

\* Every set of natural numbers that is not empty has a least element
LEMMA LeastElement ==
  ASSUME NEW T \in SUBSET Nat, T # {}
  PROVE  \E n \in T : \A m \in T : n <= m
<1> DEFINE R == OpToRel(<, Nat)
<1>1. IsWellFoundedOn(R, Nat)
  BY NatLessThanWellFounded
<1>2. T \subseteq Nat
  OBVIOUS
<1>3. \E n \in T : \A m \in T : ~(<<m, n>> \in R)
  <2> HIDE DEF R
  <2> QED BY <1>1, <1>2, WFMin, Zenon
<1>4. PICK n \in T : \A m \in T : ~(<<m, n>> \in R)
  BY <1>3
<1>5. ASSUME NEW m \in T PROVE n <= m
  <2>1. /\ <<m, n>> \in Nat \X Nat /\ <<m, n>>[1] = m /\ <<m, n>>[2] = n
        /\ n \in Nat /\ m \in Nat
    OBVIOUS
  <2>2. ~(m < n)
    BY <1>4, <2>1 DEF OpToRel
  <2> QED BY <2>1, <2>2
<1> QED BY <1>5

\* A set of numbers that holds 0 and with every number below n the next one
\* holds all numbers up to n
LEMMA IntervalInduction ==
  ASSUME NEW n \in Nat, NEW T, 0 \in T,
         \A i \in 1..n : i - 1 \in T => i \in T
  PROVE  0..n \subseteq T
<1> SUFFICES ASSUME (0..n) \ T # {} PROVE FALSE
  OBVIOUS
<1>1. PICK k \in (0..n) \ T : \A m \in (0..n) \ T : k <= m
  <2> DEFINE U == (0..n) \ T
  <2>1. U \in SUBSET Nat /\ U # {}
    OBVIOUS
  <2>2. \E k \in U : \A m \in U : k <= m
    <3> HIDE DEF U
    <3> QED BY <2>1, LeastElement
  <2> QED BY <2>2
<1>2. k \in 1..n /\ k - 1 \in 0..n /\ ~(k <= k - 1)
  <2>1. k # 0
    BY <1>1
  <2> QED BY <2>1, <1>1
<1>3. k - 1 \in T
  BY <1>1, <1>2
<1> QED BY <1>1, <1>2, <1>3

\* g is defined by its value c at 0 and the step F from each number to the next
Recursive(g, c, n, F) == g[0] = c /\ \A i \in 1..n : g[i] = F[<<i, g[i - 1]>>]

\* There is such a function, of the type that F keeps
LEMMA PrimitiveRecursion ==
  ASSUME NEW V, NEW c \in V, NEW n \in Nat, NEW F \in [(1..n) \X V -> V]
  PROVE  \E g \in [0..n -> V] : Recursive(g, c, n, F)
<1> DEFINE Upto(k, g) == Recursive(g, c, k, F)
           T == {k \in 0..n : \E g \in [0..k -> V] : Upto(k, g)}
<1>1. 0 \in T
  <2> DEFINE z == [i \in 0..0 |-> c]
  <2>1. z \in [0..0 -> V] /\ z[0] = c /\ \A i \in 1..0 : FALSE
    OBVIOUS
  <2>2. Upto(0, z)
    <3> HIDE DEF z
    <3> QED BY <2>1 DEF Recursive
  <2>3. \E g \in [0..0 -> V] : Upto(0, g)
    <3> HIDE DEF z, Upto
    <3> QED BY <2>1, <2>2
  <2> QED BY <2>3
<1>2. ASSUME NEW k \in 1..n, k - 1 \in T
      PROVE  k \in T
  <2>1. PICK g \in [0..k - 1 -> V] : Upto(k - 1, g)
    BY <1>2
  <2> DEFINE h == [i \in 0..k |-> IF i = k THEN F[<<k, g[k - 1]>>] ELSE g[i]]
  <2>2. k - 1 \in 0..k - 1 /\ k \in 0..n /\ k \in Nat
    OBVIOUS
  <2>3. F[<<k, g[k - 1]>>] \in V
    BY <2>2
  <2>4. \A i \in 0..k : i # k => i \in 0..k - 1
    OBVIOUS
  <2>5. h \in [0..k -> V]
    BY <2>3, <2>4
  <2>6. \A i \in 0..k - 1 : h[i] = g[i]
    OBVIOUS
  <2>7. h[k] = F[<<k, g[k - 1]>>]
    BY <2>2
  <2>8. h[0] = c
    BY <2>1, <2>6 DEF Recursive
  <2>9. ASSUME NEW i \in 1..k PROVE h[i] = F[<<i, h[i - 1]>>]
    <3> HIDE DEF h
    <3>1. CASE i = k
      BY <3>1, <2>2, <2>6, <2>7
    <3>2. CASE i # k
      <4>1. i \in 1..k - 1 /\ i \in 0..k - 1 /\ i - 1 \in 0..k - 1
        BY <3>2
      <4> QED BY <4>1, <2>1, <2>6 DEF Recursive
    <3> QED BY <3>1, <3>2
  <2>10. Upto(k, h)
    <3> HIDE DEF h
    <3> QED BY <2>8, <2>9 DEF Recursive
  <2>11. \E f \in [0..k -> V] : Upto(k, f)
    <3> HIDE DEF h, Upto
    <3> QED BY <2>5, <2>10
  <2> QED BY <2>2, <2>11
<1>3. n \in T
  <2> HIDE DEF T
  <2>1. 0..n \subseteq T
    BY <1>1, <1>2, IntervalInduction
  <2> QED BY <2>1
<1> QED BY <1>3

-----------------------------------------------------------------------------
(* Sequences *)

LEMMA Joined ==
  ASSUME NEW S, NEW s \in Seq(S), NEW t \in Seq(S)
  PROVE  /\ s \o t \in Seq(S) /\ Len(s \o t) = Len(s) + Len(t)
         /\ \A k \in 1..Len(s) + Len(t) :
              (s \o t)[k] = IF k <= Len(s) THEN s[k] ELSE t[k - Len(s)]
  OBVIOUS

LEMMA PrefixOf ==
  ASSUME NEW S, NEW s \in Seq(S), NEW j \in 0..Len(s)
  PROVE  /\ SubSeq(s, 1, j) \in Seq(S) /\ Len(SubSeq(s, 1, j)) = j
         /\ \A k \in 1..j : SubSeq(s, 1, j)[k] = s[k]
  OBVIOUS

LEMMA SuffixOf ==
  ASSUME NEW S, NEW s \in Seq(S), NEW i \in 1..Len(s) + 1
  PROVE  /\ SubSeq(s, i, Len(s)) \in Seq(S)
         /\ Len(SubSeq(s, i, Len(s))) = Len(s) - i + 1
         /\ \A k \in 1..Len(s) - i + 1 : SubSeq(s, i, Len(s))[k] = s[k + i - 1]
  OBVIOUS

\* The elements after the i-th, which is removed, move one place down
Shortened(S, s, i, m) ==
  /\ m \in Seq(S) /\ Len(m) = Len(s) - 1
  /\ \A k \in 1..Len(s) - 1 : m[k] = IF k < i THEN s[k] ELSE s[k + 1]

LEMMA Removed ==
  ASSUME NEW S, NEW s \in Seq(S), NEW i \in 1..Len(s)
  PROVE  Shortened(S, s, i, RemoveAt(s, i))
<1>1. PICK a : a = SubSeq(s, 1, i - 1)
  OBVIOUS
<1>2. PICK b : b = SubSeq(s, i + 1, Len(s))
  OBVIOUS
<1>3. PICK c : c = a \o b
  OBVIOUS
<1>4. RemoveAt(s, i) = c
  BY <1>1, <1>2, <1>3, Zenon DEF RemoveAt
<1>5. i - 1 \in 0..Len(s) /\ i + 1 \in 1..Len(s) + 1 /\ Len(s) \in Nat
  OBVIOUS
<1>6. a \in Seq(S) /\ Len(a) = i - 1 /\ \A k \in 1..i - 1 : a[k] = s[k]
  BY <1>1, <1>5, PrefixOf, Zenon
<1>7. /\ b \in Seq(S) /\ Len(b) = Len(s) - (i + 1) + 1
      /\ \A k \in 1..Len(s) - (i + 1) + 1 : b[k] = s[k + (i + 1) - 1]
  BY <1>2, <1>5, SuffixOf, Zenon
<1>8. /\ c \in Seq(S) /\ Len(c) = Len(a) + Len(b)
      /\ \A k \in 1..Len(a) + Len(b) : c[k] = IF k <= Len(a) THEN a[k] ELSE b[k - Len(a)]
  BY <1>3, <1>6, <1>7, Joined, Zenon
<1>9. ASSUME NEW k \in 1..Len(s) - 1 PROVE c[k] = IF k < i THEN s[k] ELSE s[k + 1]
  <2>1. CASE k < i
    <3>1. k \in 1..i - 1 /\ k <= Len(a) /\ k \in 1..Len(a) + Len(b)
      BY <2>1, <1>5, <1>6, <1>7
    <3>2. c[k] = a[k] /\ a[k] = s[k]
      BY <3>1, <1>6, <1>8
    <3> QED BY <2>1, <3>2
  <2>2. CASE ~(k < i)
    <3>0. Len(b) = Len(s) - i /\ Len(a) = i - 1
      BY <1>5, <1>6, <1>7
    <3>1. k \in 1..Len(a) + Len(b) /\ ~(k <= Len(a)) /\ k - Len(a) = k - (i - 1)
      BY <2>2, <3>0
    <3>3. c[k] = b[k - (i - 1)]
      BY <3>1, <1>8
    <3>2. k - (i - 1) \in 1..Len(s) - (i + 1) + 1 /\ (k - (i - 1)) + (i + 1) - 1 = k + 1
      BY <2>2, <1>5
    <3> QED BY <2>2, <3>3, <3>2, <1>7
  <2> QED BY <2>1, <2>2
<1>10. Len(c) = Len(s) - 1 /\ c \in Seq(S)
  BY <1>5, <1>6, <1>7, <1>8
<1>11. Shortened(S, s, i, c)
  BY <1>9, <1>10, Zenon DEF Shortened
<1> QED BY <1>4, <1>11, Zenon

\* The elements from place i on, where e is inserted, move one place up
Lengthened(S, s, i, e, m) ==
  /\ m \in Seq(S) /\ Len(m) = Len(s) + 1
  /\ \A k \in 1..Len(s) + 1 :
       m[k] = IF k < i THEN s[k] ELSE IF k = i THEN e ELSE s[k - 1]

LEMMA Inserted ==
  ASSUME NEW S, NEW s \in Seq(S), NEW e \in S, NEW i \in 1..Len(s) + 1
  PROVE  Lengthened(S, s, i, e, InsertAt(s, i, e))
<1>1. PICK a : a = SubSeq(s, 1, i - 1)
  OBVIOUS
<1>2. PICK b : b = SubSeq(s, i, Len(s))
  OBVIOUS
<1>3. PICK d : d = a \o <<e>>
  OBVIOUS
<1>4. PICK c : c = d \o b
  OBVIOUS
<1>5. InsertAt(s, i, e) = c
  BY <1>1, <1>2, <1>3, <1>4, Zenon DEF InsertAt
<1>6. /\ i - 1 \in 0..Len(s) /\ Len(s) \in Nat
      /\ <<e>> \in Seq(S) /\ Len(<<e>>) = 1 /\ <<e>>[1] = e
  OBVIOUS
<1>7. a \in Seq(S) /\ Len(a) = i - 1 /\ \A k \in 1..i - 1 : a[k] = s[k]
  BY <1>1, <1>6, PrefixOf, Zenon
<1>8. /\ b \in Seq(S) /\ Len(b) = Len(s) - i + 1
      /\ \A k \in 1..Len(s) - i + 1 : b[k] = s[k + i - 1]
  BY <1>2, <1>6, SuffixOf, Zenon
<1>9. /\ d \in Seq(S) /\ Len(d) = Len(a) + 1
      /\ \A k \in 1..Len(a) + 1 : d[k] = IF k <= Len(a) THEN a[k] ELSE <<e>>[k - Len(a)]
  BY <1>3, <1>6, <1>7, Joined
<1>10. /\ c \in Seq(S) /\ Len(c) = Len(d) + Len(b)
       /\ \A k \in 1..Len(d) + Len(b) : c[k] = IF k <= Len(d) THEN d[k] ELSE b[k - Len(d)]
  BY <1>4, <1>8, <1>9, Joined, Zenon
<1>11. d[i] = e /\ \A k \in 1..i - 1 : d[k] = s[k]
  BY <1>6, <1>7, <1>9
<1>12. ASSUME NEW k \in 1..Len(s) + 1
       PROVE  c[k] = IF k < i THEN s[k] ELSE IF k = i THEN e ELSE s[k - 1]
  <2>1. CASE k < i
    BY <2>1, <1>7, <1>9, <1>10, <1>11
  <2>2. CASE k = i
    BY <2>2, <1>7, <1>9, <1>10, <1>11
  <2>3. CASE k > i
    <3>1. c[k] = b[k - i]
      BY <2>3, <1>6, <1>7, <1>8, <1>9, <1>10
    <3>2. k - i \in 1..Len(s) - i + 1 /\ (k - i) + i - 1 = k - 1
      BY <2>3, <1>6
    <3> QED BY <2>3, <3>1, <3>2, <1>8
  <2> QED BY <2>1, <2>2, <2>3
<1>13. Len(c) = Len(s) + 1 /\ c \in Seq(S)
  BY <1>6, <1>7, <1>8, <1>9, <1>10
<1>14. Lengthened(S, s, i, e, c)
  BY <1>12, <1>13, Zenon DEF Lengthened
<1> QED BY <1>5, <1>14, Zenon

LEMMA ToSetIs ==
  ASSUME NEW S, NEW s \in Seq(S), NEW x
  PROVE  x \in ToSet(s) <=> \E i \in 1..Len(s) : s[i] = x
  BY DEF ToSet

LEMMA MinIs ==
  ASSUME NEW T \in SUBSET Nat, T # {}
  PROVE  Min(T) \in T /\ \A m \in T : Min(T) <= m
<1>1. \E n \in T : \A m \in T : n <= m
  BY LeastElement
<1> QED BY <1>1, Zenon DEF Min

LEMMA MaxIs ==
  ASSUME NEW n \in Nat, NEW T \in SUBSET (1..n), T # {}
  PROVE  Max(T) \in T /\ \A m \in T : m <= Max(T)
<1> DEFINE U == {n - k : k \in T}
<1>1. U \in SUBSET Nat /\ U # {}
  <2>1. \A k \in T : n - k \in Nat
    OBVIOUS
  <2> QED BY <2>1
<1>2. PICK u \in U : \A m \in U : u <= m
  <2> HIDE DEF U
  <2> QED BY <1>1, LeastElement
<1>3. PICK k \in T : u = n - k
  BY <1>2
<1>4. \A m \in T : n - k <= n - m
  BY <1>2, <1>3
<1>5. \A m \in T : k >= m
  BY <1>4
<1>6. Max(T) \in T /\ \A m \in T : Max(T) >= m
  BY <1>5, Zenon DEF Max
<1> QED BY <1>6

\* The steps of Without
Kept(s, gone, g) ==
  [i \in 0..Len(s) |->
     IF i = 0 THEN <<>> ELSE IF s[i] \in gone THEN g[i - 1] ELSE Append(g[i - 1], s[i])]

\* w lists what s lists outside gone, in the same order
Sifted(s, gone, w) ==
  /\ ToSet(w) = ToSet(s) \ gone
  /\ \E g \in [1..Len(w) -> 1..Len(s)] :
       /\ \A i \in 1..Len(w) : w[i] = s[g[i]]
       /\ \A i, j \in 1..Len(w) : i < j => g[i] < g[j]

\* The same of the first n elements of s
SiftedUpto(s, gone, n, w) ==
  /\ ToSet(w) = {s[i] : i \in 1..n} \ gone
  /\ \E g \in [1..Len(w) -> 1..n] :
       /\ \A i \in 1..Len(w) : w[i] = s[g[i]]
       /\ \A i, j \in 1..Len(w) : i < j => g[i] < g[j]

LEMMA KeptExists ==
  ASSUME NEW S, NEW s \in Seq(S), NEW gone
  PROVE  \E g \in [0..Len(s) -> Seq(S)] : g = Kept(s, gone, g)
<1> DEFINE F == [p \in (1..Len(s)) \X Seq(S) |->
                   IF s[p[1]] \in gone THEN p[2] ELSE Append(p[2], s[p[1]])]
<1>1. F \in [(1..Len(s)) \X Seq(S) -> Seq(S)]
  <2>1. ASSUME NEW p \in (1..Len(s)) \X Seq(S)
        PROVE  (IF s[p[1]] \in gone THEN p[2] ELSE Append(p[2], s[p[1]])) \in Seq(S)
    <3>1. s[p[1]] \in S /\ p[2] \in Seq(S)
      OBVIOUS
    <3> QED BY <3>1
  <2> QED BY <2>1
<1>2. Len(s) \in Nat /\ <<>> \in Seq(S)
  OBVIOUS
<1>3. PICK g \in [0..Len(s) -> Seq(S)] : Recursive(g, <<>>, Len(s), F)
  <2> HIDE DEF F
  <2> QED BY <1>1, <1>2, PrimitiveRecursion
<1>4. ASSUME NEW i \in 1..Len(s)
      PROVE  g[i] = IF s[i] \in gone THEN g[i - 1] ELSE Append(g[i - 1], s[i])
  <2>1. i - 1 \in 0..Len(s) /\ g[i - 1] \in Seq(S)
    BY <1>2
  <2>2. /\ <<i, g[i - 1]>> \in (1..Len(s)) \X Seq(S)
        /\ <<i, g[i - 1]>>[1] = i /\ <<i, g[i - 1]>>[2] = g[i - 1]
    BY <2>1
  <2>3. g[i] = F[<<i, g[i - 1]>>]
    BY <1>3, Zenon DEF Recursive
  <2> QED BY <2>2, <2>3
<1>5. g[0] = <<>>
  BY <1>3 DEF Recursive
<1>6. ASSUME NEW i \in 0..Len(s)
      PROVE  g[i] = IF i = 0 THEN <<>>
                    ELSE IF s[i] \in gone THEN g[i - 1] ELSE Append(g[i - 1], s[i])
  <2>1. CASE i = 0
    BY <2>1, <1>5
  <2>2. CASE i # 0
    <3>1. i \in 1..Len(s)
      BY <2>2, <1>2
    <3> QED BY <2>2, <3>1, <1>4
  <2> QED BY <2>1, <2>2
<1>7. g = Kept(s, gone, g)
  BY <1>6, Zenon DEF Kept
<1> QED BY <1>7

LEMMA SiftedNext ==
  ASSUME NEW S, NEW s \in Seq(S), NEW gone, NEW n \in 1..Len(s), NEW v \in Seq(S),
         SiftedUpto(s, gone, n - 1, v)
  PROVE  SiftedUpto(s, gone, n, IF s[n] \in gone THEN v ELSE Append(v, s[n]))
<1>1. PICK g \in [1..Len(v) -> 1..n - 1] :
        /\ \A i \in 1..Len(v) : v[i] = s[g[i]]
        /\ \A i, j \in 1..Len(v) : i < j => g[i] < g[j]
  BY DEF SiftedUpto
<1>2. ToSet(v) = {s[i] : i \in 1..n - 1} \ gone
  BY DEF SiftedUpto
<1>3. n \in Nat /\ Len(v) \in Nat /\ s[n] \in S /\ Len(s) \in Nat
  OBVIOUS
<1>4. {s[i] : i \in 1..n} = {s[i] : i \in 1..n - 1} \cup {s[n]}
  <2>1. \A i \in 1..n : i \in 1..n - 1 \/ i = n
    BY <1>3
  <2>2. \A i \in 1..n - 1 : i \in 1..n
    BY <1>3
  <2> QED BY <1>3, <2>1, <2>2
<1>5. CASE s[n] \in gone
  <2>1. ToSet(v) = {s[i] : i \in 1..n} \ gone
    BY <1>2, <1>4, <1>5
  <2>2. g \in [1..Len(v) -> 1..n]
    BY <1>3
  <2> QED BY <1>1, <1>5, <2>1, <2>2, Zenon DEF SiftedUpto
<1>6. CASE s[n] \notin gone
  <2>1. PICK w : w = Append(v, s[n])
    OBVIOUS
  <2>2. /\ w \in Seq(S) /\ Len(w) = Len(v) + 1 /\ w[Len(v) + 1] = s[n]
        /\ \A i \in 1..Len(v) : w[i] = v[i]
    BY <1>3, <2>1
  <2> DEFINE h == [i \in 1..Len(w) |-> IF i = Len(w) THEN n ELSE g[i]]
  <2>3. h \in [1..Len(w) -> 1..n]
    <3>1. ASSUME NEW i \in 1..Len(w), i # Len(w) PROVE g[i] \in 1..n
      BY <3>1, <1>3, <2>2
    <3>2. n \in 1..n
      BY <1>3
    <3> QED BY <3>1, <3>2
  <2>4. ASSUME NEW i \in 1..Len(w) PROVE w[i] = s[h[i]]
    BY <1>1, <1>3, <2>2
  <2>5. ASSUME NEW i \in 1..Len(w), NEW j \in 1..Len(w), i < j PROVE h[i] < h[j]
    <3>1. i \in 1..Len(v) /\ h[i] = g[i] /\ g[i] \in 1..n - 1
      BY <1>3, <2>2, <2>5, SMTT(30)
    <3>2. CASE j = Len(w)
      BY <3>1, <3>2, <1>3
    <3>3. CASE j # Len(w)
      <4>1. j \in 1..Len(v) /\ h[j] = g[j]
        BY <3>3, <1>3, <2>2
      <4> QED BY <3>1, <4>1, <1>1, <2>5
    <3> QED BY <3>2, <3>3
  <2>6. ToSet(w) = {s[i] : i \in 1..n} \ gone
    <3>1. ASSUME NEW x PROVE x \in ToSet(w) <=> x \in ToSet(v) \/ x = s[n]
      <4>1. x \in ToSet(w) <=> \E i \in 1..Len(w) : w[i] = x
        BY <2>2, ToSetIs
      <4>2. x \in ToSet(v) <=> \E i \in 1..Len(v) : v[i] = x
        BY ToSetIs
      <4>3. \A i \in 1..Len(w) : i \in 1..Len(v) \/ i = Len(v) + 1
        BY <1>3, <2>2
      <4>4. Len(v) + 1 \in 1..Len(w) /\ \A i \in 1..Len(v) : i \in 1..Len(w)
        BY <1>3, <2>2
      <4> QED BY <2>2, <4>1, <4>2, <4>3, <4>4
    <3> QED BY <3>1, <1>2, <1>4, <1>6
  <2>7. SiftedUpto(s, gone, n, w)
    <3> HIDE DEF h
    <3> QED BY <2>3, <2>4, <2>5, <2>6, Zenon DEF SiftedUpto
  <2> QED BY <2>1, <2>7, <1>6
<1> QED BY <1>5, <1>6

LEMMA WithoutIs ==
  ASSUME NEW S, NEW s \in Seq(S), NEW gone
  PROVE  Without(s, gone) \in Seq(S) /\ Sifted(s, gone, Without(s, gone))
<1> DEFINE D(f) == [i \in 0..Len(s) |->
                      IF i = 0 THEN <<>>
                      ELSE IF s[i] \in gone THEN f[i - 1] ELSE Append(f[i - 1], s[i])]
           k == CHOOSE f : f = D(f)
<1>1. Without(s, gone) = k[Len(s)]
  BY Zenon DEF Without
<1>2. PICK g \in [0..Len(s) -> Seq(S)] : g = D(g)
  <2>1. PICK g \in [0..Len(s) -> Seq(S)] : g = Kept(s, gone, g)
    BY KeptExists
  <2> QED BY <2>1, Zenon DEF Kept
<1>3. k = D(k)
  <2> HIDE DEF D
  <2> QED BY <1>2, Zenon
<1> HIDE DEF k
<1>4. Len(s) \in Nat
  OBVIOUS
<1>5. \A i \in 0..Len(s) : k[i] = IF i = 0 THEN <<>>
         ELSE IF s[i] \in gone THEN k[i - 1] ELSE Append(k[i - 1], s[i])
  BY <1>3, Zenon
<1> HIDE DEF D
<1> DEFINE T == {i \in 0..Len(s) : k[i] \in Seq(S) /\ SiftedUpto(s, gone, i, k[i])}
<1>6. 0 \in T
  <2>1. k[0] = <<>>
    BY <1>4, <1>5
  <2>2. ToSet(<<>>) = {s[i] : i \in 1..0} \ gone
    BY DEF ToSet
  <2>3. <<>> \in [1..Len(<<>>) -> 1..0] /\ Len(<<>>) = 0 /\ \A i \in 1..0 : FALSE
    OBVIOUS
  <2>4. SiftedUpto(s, gone, 0, <<>>)
    BY <2>2, <2>3 DEF SiftedUpto
  <2>5. k[0] \in Seq(S) /\ SiftedUpto(s, gone, 0, k[0])
    <3>1. <<>> \in Seq(S)
      OBVIOUS
    <3> QED BY <2>1, <2>4, <3>1, Zenon
  <2> QED BY <1>4, <2>5
<1>7. ASSUME NEW i \in 1..Len(s), i - 1 \in T PROVE i \in T
  <2>1. k[i - 1] \in Seq(S) /\ SiftedUpto(s, gone, i - 1, k[i - 1])
    BY <1>7
  <2>2. k[i] = IF s[i] \in gone THEN k[i - 1] ELSE Append(k[i - 1], s[i])
    BY <1>4, <1>5
  <2>3. SiftedUpto(s, gone, i, k[i])
    <3>1. SiftedUpto(s, gone, i, IF s[i] \in gone THEN k[i - 1] ELSE Append(k[i - 1], s[i]))
      BY <2>1, SiftedNext
    <3> QED BY <2>2, <3>1, Zenon
  <2>4. s[i] \in S /\ k[i] \in Seq(S)
    BY <2>1, <2>2
  <2> QED BY <1>4, <2>3, <2>4
<1>8. Len(s) \in T
  <2> HIDE DEF T
  <2>1. 0..Len(s) \subseteq T
    BY <1>4, <1>6, <1>7, IntervalInduction
  <2> QED BY <1>4, <2>1
<1>9. ToSet(s) = {s[i] : i \in 1..Len(s)}
  BY DEF ToSet
<1>10. Sifted(s, gone, k[Len(s)])
  BY <1>8, <1>9 DEF Sifted, SiftedUpto
<1> QED BY <1>1, <1>8, <1>10

-----------------------------------------------------------------------------
(* Lists without duplicates *)

Distinct(s) == \A i, j \in 1..Len(s) : s[i] = s[j] => i = j

\* l and f list the same elements, each of them once
Listing(l, f) == Distinct(l) /\ Distinct(f) /\ ToSet(l) = ToSet(f)

LEMMA SameLength ==
  ASSUME NEW S, NEW l \in Seq(S), NEW f \in Seq(S), Listing(l, f)
  PROVE  Len(l) = Len(f)
<1>1. ASSUME NEW s \in Seq(S), Distinct(s)
      PROVE  Cardinality(ToSet(s)) = Len(s)
  <2>1. s \in [1..Len(s) -> ToSet(s)] /\ Len(s) \in Nat
    BY DEF ToSet
  <2>2. s \in Injection(1..Len(s), ToSet(s))
    BY <1>1, <2>1 DEF Distinct, Injection, IsInjective
  <2>3. s \in Surjection(1..Len(s), ToSet(s))
    <3>1. \A t \in ToSet(s) : \E i \in 1..Len(s) : s[i] = t
      BY ToSetIs
    <3> QED BY <2>1, <3>1 DEF Surjection
  <2>4. ExistsBijection(1..Len(s), ToSet(s))
    BY <2>2, <2>3 DEF ExistsBijection, Bijection
  <2> QED BY <2>1, <2>4, FS_CountingElements
<1> QED BY <1>1 DEF Listing

LEMMA ReplacedListing ==
  ASSUME NEW S, NEW l \in Seq(S), NEW f \in Seq(S), Listing(l, f),
         NEW i \in 1..Len(f), NEW b \in S, Distinct([f EXCEPT ![i] = b])
  PROVE  /\ ReplaceAll(l, f[i], b) \in Seq(S)
         /\ Listing(ReplaceAll(l, f[i], b), [f EXCEPT ![i] = b])
<1>1. PICK m : m = ReplaceAll(l, f[i], b)
  OBVIOUS
<1>2. PICK g : g = [f EXCEPT ![i] = b]
  OBVIOUS
<1>3. /\ m \in Seq(S) /\ Len(m) = Len(l)
      /\ \A j \in 1..Len(l) : m[j] = IF l[j] = f[i] THEN b ELSE l[j]
  <2>1. m = [j \in 1..Len(l) |-> IF l[j] = f[i] THEN b ELSE l[j]]
    BY <1>1 DEF ReplaceAll
  <2> QED BY <2>1
<1>4. /\ g \in Seq(S) /\ Len(g) = Len(f) /\ g[i] = b
      /\ \A j \in 1..Len(f) : j # i => g[j] = f[j]
  BY <1>2
<1>5. Distinct(g)
  BY <1>2
<1>6. /\ \A x : x \in ToSet(l) <=> \E j \in 1..Len(l) : l[j] = x
      /\ \A x : x \in ToSet(f) <=> \E j \in 1..Len(f) : f[j] = x
      /\ \A x : x \in ToSet(m) <=> \E j \in 1..Len(m) : m[j] = x
      /\ \A x : x \in ToSet(g) <=> \E j \in 1..Len(g) : g[j] = x
  BY <1>3, <1>4, ToSetIs, Zenon
<1>7. Distinct(l) /\ Distinct(f) /\ ToSet(l) = ToSet(f)
  BY DEF Listing
<1>8. ASSUME NEW x PROVE x \in ToSet(g) <=> (x \in ToSet(f) /\ x # f[i]) \/ x = b
  <2>1. CASE x = b
    BY <2>1, <1>4, <1>6
  <2>2. CASE x # b
    <3>1. \A j \in 1..Len(f) : g[j] = x => j # i
      BY <2>2, <1>4
    <3>2. \A j \in 1..Len(f) : f[j] = x /\ x # f[i] => j # i
      OBVIOUS
    <3>3. \A j \in 1..Len(f) : j # i => f[j] # f[i]
      BY <1>7 DEF Distinct
    <3> QED BY <2>2, <3>1, <3>2, <3>3, <1>4, <1>6, SMTT(30)
  <2> QED BY <2>1, <2>2
<1>9. ASSUME NEW x PROVE x \in ToSet(m) <=> (x \in ToSet(l) /\ x # f[i]) \/ x = b
  <2>1. PICK k \in 1..Len(l) : l[k] = f[i]
    BY <1>6, <1>7
  <2>2. CASE x = b
    BY <2>1, <2>2, <1>3, <1>6
  <2>3. CASE x # b
    BY <2>3, <1>3, <1>6
  <2> QED BY <2>2, <2>3
<1>10. b \notin ToSet(f) \/ b = f[i]
  <2>1. ASSUME NEW j \in 1..Len(f), f[j] = b PROVE b = f[i]
    <3>1. j # i => g[j] = g[i]
      BY <2>1, <1>4
    <3> QED BY <2>1, <3>1, <1>4, <1>5 DEF Distinct
  <2> QED BY <2>1, <1>6
<1>11. Distinct(m)
  <2>1. ASSUME NEW j \in 1..Len(l), NEW k \in 1..Len(l), m[j] = m[k] PROVE l[j] = l[k]
    <3>1. l[j] \in ToSet(f) /\ l[k] \in ToSet(f)
      BY <1>6, <1>7
    <3> QED BY <2>1, <3>1, <1>3, <1>10
  <2> QED BY <2>1, <1>3, <1>7 DEF Distinct
<1>12. ToSet(m) = ToSet(g)
  BY <1>7, <1>8, <1>9
<1> QED BY <1>1, <1>2, <1>3, <1>5, <1>11, <1>12 DEF Listing

LEMMA RemovedDistinct ==
  ASSUME NEW S, NEW s \in Seq(S), Distinct(s), NEW i \in 1..Len(s)
  PROVE  /\ Distinct(RemoveAt(s, i))
         /\ ToSet(RemoveAt(s, i)) = ToSet(s) \ {s[i]}
<1>1. PICK m : m = RemoveAt(s, i)
  OBVIOUS
<1>2. /\ m \in Seq(S) /\ Len(m) = Len(s) - 1 /\ Len(s) \in Nat
      /\ \A k \in 1..Len(s) - 1 : m[k] = IF k < i THEN s[k] ELSE s[k + 1]
  <2>1. Shortened(S, s, i, m)
    BY <1>1, Removed, Zenon
  <2> QED BY <2>1 DEF Shortened
<1>3. Distinct(m)
  <2>1. ASSUME NEW j \in 1..Len(m), NEW k \in 1..Len(m), m[j] = m[k] PROVE j = k
    <3>1. j \in 1..Len(s) /\ k \in 1..Len(s) /\ j + 1 \in 1..Len(s) /\ k + 1 \in 1..Len(s)
      BY <1>2
    <3> QED BY <2>1, <3>1, <1>2 DEF Distinct
  <2> QED BY <2>1 DEF Distinct
<1>4. ASSUME NEW x PROVE x \in ToSet(m) <=> x \in ToSet(s) /\ x # s[i]
  <2>1. /\ x \in ToSet(s) <=> \E j \in 1..Len(s) : s[j] = x
        /\ x \in ToSet(m) <=> \E j \in 1..Len(m) : m[j] = x
    BY <1>2, ToSetIs
  <2>2. ASSUME NEW j \in 1..Len(m), m[j] = x PROVE x \in ToSet(s) /\ x # s[i]
    <3>2. CASE j < i
      <4>1. j \in 1..Len(s) /\ j # i /\ s[j] = x
        BY <2>2, <3>2, <1>2
      <4> QED BY <2>1, <4>1 DEF Distinct
    <3>3. CASE ~(j < i)
      <4>1. j + 1 \in 1..Len(s) /\ j + 1 # i /\ s[j + 1] = x
        BY <2>2, <3>3, <1>2
      <4> QED BY <2>1, <4>1 DEF Distinct
    <3> QED BY <3>2, <3>3
  <2>3. ASSUME NEW j \in 1..Len(s), s[j] = x, x # s[i] PROVE x \in ToSet(m)
    <3>1. CASE j < i
      <4>1. j \in 1..Len(m) /\ m[j] = x
        BY <2>3, <3>1, <1>2
      <4> QED BY <2>1, <4>1
    <3>2. CASE ~(j < i)
      <4>1. j - 1 \in 1..Len(m) /\ ~(j - 1 < i) /\ (j - 1) + 1 = j
        BY <2>3, <3>2, <1>2
      <4>2. m[j - 1] = x
        BY <2>3, <4>1, <1>2
      <4> QED BY <2>1, <4>1, <4>2
    <3> QED BY <3>1, <3>2
  <2> QED BY <2>1, <2>2, <2>3
<1> QED BY <1>1, <1>3, <1>4

\* RemoveFirst removes the only occurrence
LEMMA RemovedFirst ==
  ASSUME NEW S, NEW s \in Seq(S), Distinct(s), NEW i \in 1..Len(s)
  PROVE  RemoveFirst(s, s[i]) = RemoveAt(s, i)
<1> DEFINE I == {k \in 1..Len(s) : s[k] = s[i]}
<1>1. I = {i}
  BY DEF Distinct
<1>2. I \in SUBSET Nat /\ I # {}
  BY <1>1
<1>3. Min(I) = i
  <2>1. Min(I) \in I
    <3> HIDE DEF I
    <3> QED BY <1>2, MinIs
  <2> QED BY <1>1, <2>1
<1>4. (\E k \in 1..Len(s) : s[k] = s[i]) /\ I # {}
  BY <1>1
<1>5. SelectInSeq(s, LAMBDA v : v = s[i]) = IF I # {} THEN Min(I) ELSE 0
  BY Zenon DEF SelectInSeq
<1> QED BY <1>3, <1>4, <1>5, Zenon DEF RemoveFirst

LEMMA RemovedListing ==
  ASSUME NEW S, NEW l \in Seq(S), NEW f \in Seq(S), Listing(l, f), NEW i \in 1..Len(f)
  PROVE  /\ RemoveFirst(l, f[i]) \in Seq(S)
         /\ RemoveFirst(f, f[i]) = RemoveAt(f, i)
         /\ Listing(RemoveFirst(l, f[i]), RemoveAt(f, i))
<1>1. Distinct(l) /\ Distinct(f) /\ ToSet(l) = ToSet(f)
  BY DEF Listing
<1>2. PICK k \in 1..Len(l) : l[k] = f[i]
  <2>1. f[i] \in ToSet(f)
    BY ToSetIs
  <2> QED BY <2>1, <1>1, ToSetIs
<1>3. RemoveFirst(l, f[i]) = RemoveAt(l, k) /\ RemoveFirst(f, f[i]) = RemoveAt(f, i)
  BY <1>1, <1>2, RemovedFirst
<1>4. /\ Distinct(RemoveAt(l, k)) /\ ToSet(RemoveAt(l, k)) = ToSet(l) \ {f[i]}
      /\ Distinct(RemoveAt(f, i)) /\ ToSet(RemoveAt(f, i)) = ToSet(f) \ {f[i]}
      /\ RemoveAt(l, k) \in Seq(S)
  <2>1. Distinct(RemoveAt(l, k)) /\ ToSet(RemoveAt(l, k)) = ToSet(l) \ {l[k]}
    BY <1>1, <1>2, RemovedDistinct, Zenon
  <2>2. Distinct(RemoveAt(f, i)) /\ ToSet(RemoveAt(f, i)) = ToSet(f) \ {f[i]}
    BY <1>1, RemovedDistinct, Zenon
  <2>3. RemoveAt(l, k) \in Seq(S)
    BY <1>2, Removed, Zenon DEF Shortened
  <2> QED BY <2>1, <2>2, <2>3, <1>2
<1> QED BY <1>1, <1>3, <1>4 DEF Listing

LEMMA InsertedListing ==
  ASSUME NEW S, NEW l \in Seq(S), NEW f \in Seq(S), Listing(l, f),
         NEW i \in 1..Len(f) + 1, NEW b \in S, b \notin ToSet(f)
  PROVE  /\ Cons(b, l) \in Seq(S)
         /\ Listing(Cons(b, l), InsertAt(f, i, b))
         /\ ToSet(InsertAt(f, i, b)) = ToSet(f) \cup {b}
<1>1. Distinct(l) /\ Distinct(f) /\ ToSet(l) = ToSet(f) /\ Len(f) \in Nat /\ Len(l) \in Nat
  BY DEF Listing
<1>2. PICK m : m = Cons(b, l)
  OBVIOUS
<1>3. PICK g : g = InsertAt(f, i, b)
  OBVIOUS
<1>4. /\ m \in Seq(S) /\ Len(m) = Len(l) + 1 /\ m[1] = b
      /\ \A k \in 2..Len(l) + 1 : m[k] = l[k - 1]
  <2>1. <<b>> \in Seq(S) /\ Len(<<b>>) = 1 /\ <<b>>[1] = b
    OBVIOUS
  <2>2. m = <<b>> \o l
    BY <1>2 DEF Cons
  <2>3. /\ m \in Seq(S) /\ Len(m) = Len(<<b>>) + Len(l)
        /\ \A k \in 1..Len(<<b>>) + Len(l) :
             m[k] = IF k <= Len(<<b>>) THEN <<b>>[k] ELSE l[k - Len(<<b>>)]
    BY <2>1, <2>2, Joined, Zenon
  <2> QED BY <2>1, <2>3, <1>1
<1>5. /\ g \in Seq(S) /\ Len(g) = Len(f) + 1
      /\ \A k \in 1..Len(f) + 1 : g[k] =
           IF k < i THEN f[k] ELSE IF k = i THEN b ELSE f[k - 1]
  <2>1. Lengthened(S, f, i, b, g)
    BY <1>3, Inserted, Zenon
  <2> QED BY <2>1 DEF Lengthened
<1>6. ASSUME NEW x PROVE x \in ToSet(m) <=> x \in ToSet(l) \/ x = b
  <2>1. /\ x \in ToSet(l) <=> \E j \in 1..Len(l) : l[j] = x
        /\ x \in ToSet(m) <=> \E j \in 1..Len(m) : m[j] = x
    BY <1>4, ToSetIs
  <2>2. ASSUME NEW j \in 1..Len(m), m[j] = x PROVE x \in ToSet(l) \/ x = b
    <3>1. CASE j = 1
      BY <2>2, <3>1, <1>4
    <3>2. CASE j # 1
      <4>1. j \in 2..Len(l) + 1 /\ j - 1 \in 1..Len(l)
        BY <3>2, <1>1, <1>4
      <4> QED BY <2>1, <2>2, <4>1, <1>4
    <3> QED BY <3>1, <3>2
  <2>3. ASSUME NEW j \in 1..Len(l), l[j] = x PROVE x \in ToSet(m)
    <3>1. j + 1 \in 1..Len(m) /\ j + 1 \in 2..Len(l) + 1 /\ (j + 1) - 1 = j
      BY <1>1, <1>4
    <3>2. m[j + 1] = x
      BY <2>3, <3>1, <1>4
    <3> QED BY <2>1, <3>1, <3>2
  <2>4. 1 \in 1..Len(m)
    BY <1>1, <1>4
  <2> QED BY <2>1, <2>2, <2>3, <2>4, <1>4
<1>7. ASSUME NEW x PROVE x \in ToSet(g) <=> x \in ToSet(f) \/ x = b
  <2>1. /\ x \in ToSet(f) <=> \E j \in 1..Len(f) : f[j] = x
        /\ x \in ToSet(g) <=> \E j \in 1..Len(g) : g[j] = x
    BY <1>5, ToSetIs
  <2>2. ASSUME NEW j \in 1..Len(g), g[j] = x PROVE x \in ToSet(f) \/ x = b
    <3>1. CASE j < i
      <4>1. j \in 1..Len(f) /\ f[j] = x
        BY <2>2, <3>1, <1>1, <1>5
      <4> QED BY <2>1, <4>1
    <3>2. CASE j > i
      <4>1. j - 1 \in 1..Len(f) /\ f[j - 1] = x
        BY <2>2, <3>2, <1>1, <1>5
      <4> QED BY <2>1, <4>1
    <3>3. CASE j = i
      BY <2>2, <3>3, <1>5
    <3> QED BY <3>1, <3>2, <3>3
  <2>3. ASSUME NEW j \in 1..Len(f), f[j] = x PROVE x \in ToSet(g)
    <3>1. CASE j < i
      <4>1. j \in 1..Len(g) /\ g[j] = x
        BY <2>3, <3>1, <1>1, <1>5
      <4> QED BY <2>1, <4>1
    <3>2. CASE ~(j < i)
      <4>1. /\ j + 1 \in 1..Len(g) /\ ~(j + 1 < i) /\ j + 1 # i
            /\ j + 1 \in 1..Len(f) + 1 /\ (j + 1) - 1 = j
        BY <3>2, <1>1, <1>5
      <4>2. g[j + 1] = x
        BY <2>3, <4>1, <1>5
      <4> QED BY <2>1, <4>1, <4>2
    <3> QED BY <3>1, <3>2
  <2>4. i \in 1..Len(g) /\ g[i] = b
    BY <1>1, <1>5
  <2> QED BY <2>1, <2>2, <2>3, <2>4
<1>8. Distinct(m)
  <2>1. ASSUME NEW j \in 1..Len(m), NEW k \in 1..Len(m), m[j] = m[k], j < k PROVE FALSE
    <3>1. k \in 2..Len(l) + 1 /\ k - 1 \in 1..Len(l) /\ l[k - 1] \in ToSet(l)
      BY <2>1, <1>1, <1>4, ToSetIs
    <3>2. CASE j = 1
      BY <2>1, <3>1, <3>2, <1>1, <1>4
    <3>3. CASE j # 1
      <4>1. j \in 2..Len(l) + 1 /\ j - 1 \in 1..Len(l)
        BY <3>3, <1>1, <1>4
      <4>2. l[j - 1] = l[k - 1] /\ j - 1 # k - 1
        BY <2>1, <3>1, <4>1, <1>4
      <4> QED BY <3>1, <4>1, <4>2, <1>1 DEF Distinct
    <3> QED BY <3>2, <3>3
  <2>2. \A j, k \in 1..Len(m) : m[j] = m[k] => ~(j < k) /\ ~(k < j)
    BY <2>1
  <2> QED BY <2>2, <1>1, <1>4 DEF Distinct
<1>9. Distinct(g)
  <2> DEFINE old(j) == IF j < i THEN j ELSE j - 1
  <2>1. ASSUME NEW j \in 1..Len(g), j # i
        PROVE  old(j) \in 1..Len(f) /\ g[j] = f[old(j)] /\ g[j] \in ToSet(f)
    <3>1. old(j) \in 1..Len(f) /\ g[j] = f[old(j)]
      BY <2>1, <1>1, <1>5
    <3> HIDE DEF old
    <3> QED BY <3>1, ToSetIs
  <2>2. i \in 1..Len(g) /\ g[i] = b
    BY <1>1, <1>5
  <2>3. ASSUME NEW j \in 1..Len(g), NEW k \in 1..Len(g), g[j] = g[k] PROVE j = k
    <3>1. CASE j = i \/ k = i
      <4> HIDE DEF old
      <4> QED BY <2>1, <2>2, <2>3, <3>1
    <3>2. CASE j # i /\ k # i
      <4>1. old(j) = old(k)
        <5> HIDE DEF old
        <5> QED BY <2>1, <2>3, <3>2, <1>1 DEF Distinct
      <4> QED BY <4>1, <3>2, <1>1, <1>5
    <3> QED BY <3>1, <3>2
  <2> QED BY <2>3 DEF Distinct
<1>10. ToSet(m) = ToSet(g) /\ ToSet(g) = ToSet(f) \cup {b}
  BY <1>1, <1>6, <1>7
<1> QED BY <1>2, <1>3, <1>4, <1>8, <1>9, <1>10 DEF Listing

LEMMA SiftedListing ==
  ASSUME NEW S, NEW l \in Seq(S), NEW f \in Seq(S), Listing(l, f), NEW gone
  PROVE  Listing(Without(l, gone), Without(f, gone))
<1>1. ASSUME NEW s \in Seq(S), Distinct(s)
      PROVE  Distinct(Without(s, gone)) /\ ToSet(Without(s, gone)) = ToSet(s) \ gone
  <2>1. PICK w : w = Without(s, gone)
    OBVIOUS
  <2>2. w \in Seq(S) /\ Sifted(s, gone, w)
    BY <2>1, WithoutIs
  <2>3. PICK g \in [1..Len(w) -> 1..Len(s)] :
          /\ \A i \in 1..Len(w) : w[i] = s[g[i]]
          /\ \A i, j \in 1..Len(w) : i < j => g[i] < g[j]
    BY <2>2 DEF Sifted
  <2>4. ASSUME NEW i \in 1..Len(w), NEW j \in 1..Len(w), w[i] = w[j] PROVE i = j
    <3>1. g[i] = g[j] /\ g[i] \in 1..Len(s) /\ g[j] \in 1..Len(s)
      BY <2>3, <2>4, <1>1 DEF Distinct
    <3>2. ~(g[i] < g[j]) /\ ~(g[j] < g[i])
      BY <3>1
    <3>3. ~(i < j) /\ ~(j < i)
      BY <2>3, <3>2
    <3> QED BY <3>3
  <2> QED BY <2>1, <2>2, <2>4 DEF Distinct, Sifted
<1> QED BY <1>1 DEF Listing

-----------------------------------------------------------------------------
(* Well-formed queues *)

Blk    == [s : Nat, e : Nat, f : BOOLEAN]
Queues == [fifo : Seq(Blk), lifo : Seq(Blk), nxt : Nat]

\* A block of bytes below top; only a FIN by itself, at top, has no bytes
Sound(x, top) == x.s <= x.e /\ x.e <= top /\ (x.s = x.e => x.s = top)

\* In sequence order, no two blocks touching
Apart(fifo, top) ==
  /\ \A i \in 1..Len(fifo) : Sound(fifo[i], top)
  /\ \A i, j \in 1..Len(fifo) : i < j => fifo[i].e < fifo[j].s

Good(q, top) == q \in Queues /\ Apart(q.fifo, top) /\ Listing(q.lifo, q.fifo)

Covers(fifo, y) == \E i \in 1..Len(fifo) : fifo[i].s <= y /\ y < fifo[i].e
HasFlag(fifo)   == \E i \in 1..Len(fifo) : fifo[i].f

\* Only the last byte of the stream is followed by a FIN
FlagsAtTop(fifo, top) == \A i \in 1..Len(fifo) : fifo[i].f => fifo[i].e = top

\* rcv_nxt_ after a look at the block x
Moved(n, x) == IF n >= x.s THEN x.e ELSE n

LEMMA BlkParts ==
  ASSUME NEW b \in Blk
  PROVE  b.s \in Nat /\ b.e \in Nat /\ b.f \in BOOLEAN
  BY DEF Blk

LEMMA BlocksAre ==
  ASSUME NEW f \in Seq(Blk)
  PROVE  /\ Len(f) \in Nat
         /\ \A i \in 1..Len(f) : /\ f[i] \in Blk /\ f[i].s \in Nat
                                /\ f[i].e \in Nat /\ f[i].f \in BOOLEAN
<1>1. Len(f) \in Nat /\ \A i \in 1..Len(f) : f[i] \in Blk
  OBVIOUS
<1> QED BY <1>1, BlkParts, Zenon

LEMMA QueueParts ==
  ASSUME NEW q \in Queues
  PROVE  /\ q.fifo \in Seq(Blk) /\ q.lifo \in Seq(Blk) /\ q.nxt \in Nat
         /\ Len(q.fifo) \in Nat
         /\ \A i \in 1..Len(q.fifo) :
              /\ q.fifo[i] \in Blk /\ q.fifo[i].s \in Nat /\ q.fifo[i].e \in Nat
              /\ q.fifo[i].f \in BOOLEAN
<1>1. q.fifo \in Seq(Blk) /\ q.lifo \in Seq(Blk) /\ q.nxt \in Nat
  BY DEF Queues
<1> QED BY <1>1, BlocksAre, Zenon

LEMMA BlockIs ==
  ASSUME NEW s \in Nat, NEW e \in Nat, NEW f \in BOOLEAN
  PROVE  /\ Block(s, e, f) \in Blk /\ Block(s, e, f).s = s
         /\ Block(s, e, f).e = e /\ Block(s, e, f).f = f
  BY DEF Block, Blk

LEMMA BlockEta ==
  ASSUME NEW b \in Blk
  PROVE  b = Block(b.s, b.e, b.f)
  BY DEF Block, Blk

\* Blocks that start one after the other are distinct
LEMMA StartsDistinct ==
  ASSUME NEW f \in Seq(Blk), \A i, j \in 1..Len(f) : i < j => f[i].s < f[j].s
  PROVE  Distinct(f)
<1>1. \A i \in 1..Len(f) : f[i].s \in Nat
  BY BlocksAre
<1>2. ASSUME NEW i \in 1..Len(f), NEW j \in 1..Len(f), f[i] = f[j] PROVE i = j
  <2>1. ~(f[i].s < f[j].s) /\ ~(f[j].s < f[i].s)
    BY <1>1, <1>2
  <2>2. ~(i < j) /\ ~(j < i)
    BY <2>1
  <2> QED BY <2>2
<1> QED BY <1>2 DEF Distinct

LEMMA ApartStarts ==
  ASSUME NEW f \in Seq(Blk), NEW top \in Nat, Apart(f, top)
  PROVE  /\ \A i, j \in 1..Len(f) : i < j => f[i].s < f[j].s
         /\ Distinct(f)
<1>1. \A i \in 1..Len(f) : f[i].s \in Nat /\ f[i].e \in Nat
  BY BlocksAre
<1>2. ASSUME NEW i \in 1..Len(f), NEW j \in 1..Len(f), i < j PROVE f[i].s < f[j].s
  <2>1. f[i].s <= f[i].e /\ f[i].e < f[j].s
    BY <1>2 DEF Apart, Sound
  <2> QED BY <2>1, <1>1
<1> QED BY <1>2, StartsDistinct

-----------------------------------------------------------------------------
(* Changing, removing and inserting a block *)

\* A block changed in place keeps the two lists together
LEMMA BecomeIs ==
  ASSUME NEW q \in Queues, Listing(q.lifo, q.fifo),
         NEW i \in 1..Len(q.fifo), NEW b \in Blk,
         NEW g, g = [q.fifo EXCEPT ![i] = b], Distinct(g)
  PROVE  /\ Become(q, i, b) \in Queues
         /\ Become(q, i, b).fifo = g
         /\ Become(q, i, b).nxt = q.nxt
         /\ Listing(Become(q, i, b).lifo, Become(q, i, b).fifo)
<1>1. q.fifo \in Seq(Blk) /\ q.lifo \in Seq(Blk) /\ q.nxt \in Nat
  BY QueueParts
<1>3. PICK l : l = ReplaceAll(q.lifo, q.fifo[i], b)
  OBVIOUS
<1>4. l \in Seq(Blk) /\ Listing(l, g)
  BY <1>1, <1>3, ReplacedListing, Zenon
<1>5. g \in Seq(Blk)
  BY <1>1
<1>6. q = [fifo |-> q.fifo, lifo |-> q.lifo, nxt |-> q.nxt]
  BY DEF Queues
<1>7. Become(q, i, b) = [q EXCEPT !.fifo = g, !.lifo = l]
  BY <1>3 DEF Become
<1>8. Become(q, i, b) = [fifo |-> g, lifo |-> l, nxt |-> q.nxt]
  BY <1>6, <1>7
<1> QED BY <1>1, <1>4, <1>5, <1>8 DEF Queues

LEMMA BecomeGood ==
  ASSUME NEW top \in Nat, NEW q, Good(q, top), NEW i \in 1..Len(q.fifo),
         NEW b \in Blk, Sound(b, top),
         \A j \in 1..Len(q.fifo) : j < i => q.fifo[j].e < b.s,
         \A j \in 1..Len(q.fifo) : i < j => b.e < q.fifo[j].s
  PROVE  /\ Good(Become(q, i, b), top)
         /\ Become(q, i, b).fifo = [q.fifo EXCEPT ![i] = b]
         /\ Become(q, i, b).nxt = q.nxt
<1>1. q \in Queues /\ Apart(q.fifo, top) /\ Listing(q.lifo, q.fifo)
  BY DEF Good
<1>2. q.fifo \in Seq(Blk)
  BY <1>1, QueueParts
<1>3. PICK g : g = [q.fifo EXCEPT ![i] = b]
  OBVIOUS
<1>4. /\ g \in Seq(Blk) /\ Len(g) = Len(q.fifo) /\ g[i] = b
      /\ \A j \in 1..Len(q.fifo) : j # i => g[j] = q.fifo[j]
  BY <1>2, <1>3
<1>5. Apart(g, top)
  <2>1. ASSUME NEW j \in 1..Len(g) PROVE Sound(g[j], top)
    BY <1>1, <1>4 DEF Apart
  <2>2. ASSUME NEW j \in 1..Len(g), NEW k \in 1..Len(g), j < k PROVE g[j].e < g[k].s
    <3>1. CASE j = i
      BY <2>2, <3>1, <1>4
    <3>2. CASE k = i
      BY <2>2, <3>2, <1>4
    <3>3. CASE j # i /\ k # i
      BY <2>2, <3>3, <1>1, <1>4 DEF Apart
    <3> QED BY <3>1, <3>2, <3>3
  <2> QED BY <2>1, <2>2 DEF Apart
<1>6. Distinct(g)
  BY <1>4, <1>5, ApartStarts
<1> QED BY <1>1, <1>3, <1>5, <1>6, BecomeIs DEF Good

\* Changing a block into itself, or twice
LEMMA BecomeSame ==
  ASSUME NEW q \in Queues, NEW i \in 1..Len(q.fifo)
  PROVE  Become(q, i, q.fifo[i]) = q
<1>1. q.fifo \in Seq(Blk) /\ q.lifo \in Seq(Blk)
  BY QueueParts
<1>2. [q.fifo EXCEPT ![i] = q.fifo[i]] = q.fifo
  BY <1>1
<1>3. ReplaceAll(q.lifo, q.fifo[i], q.fifo[i]) = q.lifo
  BY <1>1 DEF ReplaceAll
<1>4. Become(q, i, q.fifo[i]) = [q EXCEPT !.fifo = q.fifo, !.lifo = q.lifo]
  BY <1>2, <1>3 DEF Become
<1>5. q = [fifo |-> q.fifo, lifo |-> q.lifo, nxt |-> q.nxt]
  BY DEF Queues
<1> QED BY <1>4, <1>5

LEMMA BecomeTwice ==
  ASSUME NEW q \in Queues, Listing(q.lifo, q.fifo), NEW i \in 1..Len(q.fifo),
         NEW b \in Blk, NEW c \in Blk, Distinct([q.fifo EXCEPT ![i] = b])
  PROVE  Become(Become(q, i, b), i, c) = Become(q, i, c)
<1>1. q.fifo \in Seq(Blk) /\ q.lifo \in Seq(Blk)
  BY QueueParts
<1>2. PICK g : g = [q.fifo EXCEPT ![i] = b]
  OBVIOUS
<1>3. PICK l : l = ReplaceAll(q.lifo, q.fifo[i], b)
  OBVIOUS
<1>4. q = [fifo |-> q.fifo, lifo |-> q.lifo, nxt |-> q.nxt]
  BY DEF Queues
<1>5. Become(q, i, b) = [q EXCEPT !.fifo = g, !.lifo = l]
  BY <1>2, <1>3 DEF Become
<1>6. Become(q, i, b) = [fifo |-> g, lifo |-> l, nxt |-> q.nxt]
  BY <1>4, <1>5
<1>7. Distinct(q.lifo) /\ Distinct(q.fifo) /\ ToSet(q.lifo) = ToSet(q.fifo) /\ Distinct(g)
  BY <1>2 DEF Listing
<1>8. g[i] = b /\ [g EXCEPT ![i] = c] = [q.fifo EXCEPT ![i] = c]
  BY <1>1, <1>2
<1>9. ASSUME NEW j \in 1..Len(q.lifo), q.lifo[j] = b PROVE q.fifo[i] = b
  <2>1. q.lifo[j] \in ToSet(q.lifo)
    BY <1>1, ToSetIs
  <2>2. PICK k \in 1..Len(q.fifo) : q.fifo[k] = b
    BY <2>1, <1>1, <1>7, <1>9, ToSetIs
  <2>3. CASE k = i
    BY <2>2, <2>3
  <2>4. CASE k # i
    <3>1. g[k] = g[i] /\ i \in 1..Len(g) /\ k \in 1..Len(g)
      BY <2>2, <2>4, <1>1, <1>2
    <3> QED BY <2>4, <3>1, <1>7 DEF Distinct
  <2> QED BY <2>3, <2>4
<1>10. ReplaceAll(l, b, c) = ReplaceAll(q.lifo, q.fifo[i], c)
  <2>1. l = [j \in 1..Len(q.lifo) |-> IF q.lifo[j] = q.fifo[i] THEN b ELSE q.lifo[j]]
    BY <1>3 DEF ReplaceAll
  <2>2. Len(l) = Len(q.lifo)
    BY <2>1, <1>1
  <2>3. ASSUME NEW j \in 1..Len(q.lifo) PROVE l[j] = b <=> q.lifo[j] = q.fifo[i]
    BY <2>1, <1>9
  <2>4. \A j \in 1..Len(q.lifo) :
          (IF l[j] = b THEN c ELSE l[j]) = (IF q.lifo[j] = q.fifo[i] THEN c ELSE q.lifo[j])
    BY <2>1, <2>3
  <2> QED BY <2>2, <2>4, Zenon DEF ReplaceAll
<1>11. Become(Become(q, i, b), i, c)
         = [fifo |-> [q.fifo EXCEPT ![i] = c],
            lifo |-> ReplaceAll(q.lifo, q.fifo[i], c), nxt |-> q.nxt]
  <2>1. PICK p : p = Become(q, i, b)
    OBVIOUS
  <2>2. p.fifo = g /\ p.lifo = l /\ p = [fifo |-> g, lifo |-> l, nxt |-> q.nxt]
    BY <2>1, <1>6
  <2>3. Become(p, i, c) = [p EXCEPT !.fifo = [g EXCEPT ![i] = c], !.lifo = ReplaceAll(l, b, c)]
    BY <2>2, <1>8 DEF Become
  <2>4. Become(p, i, c) = [fifo |-> [q.fifo EXCEPT ![i] = c],
            lifo |-> ReplaceAll(q.lifo, q.fifo[i], c), nxt |-> q.nxt]
    <3>1. PICK u : u = [g EXCEPT ![i] = c]
      OBVIOUS
    <3>2. PICK v : v = ReplaceAll(l, b, c)
      OBVIOUS
    <3>3. Become(p, i, c) = [p EXCEPT !.fifo = u, !.lifo = v]
      BY <2>3, <3>1, <3>2, Zenon
    <3>5. p = [fifo |-> g, lifo |-> l, nxt |-> q.nxt]
      BY <2>2
    <3>6. PICK w : w = Become(p, i, c)
      OBVIOUS
    <3>7. w = [p EXCEPT !.fifo = u, !.lifo = v]
      BY <3>3, <3>6, Zenon
    <3>8. w = [fifo |-> u, lifo |-> v, nxt |-> q.nxt]
      BY <3>5, <3>7
    <3>4. Become(p, i, c) = [fifo |-> u, lifo |-> v, nxt |-> q.nxt]
      BY <3>6, <3>8, Zenon
    <3> QED BY <3>1, <3>2, <3>4, <1>8, <1>10, Zenon
  <2> QED BY <2>1, <2>4, Zenon
<1>12. Become(q, i, c) = [q EXCEPT !.fifo = [q.fifo EXCEPT ![i] = c],
                                   !.lifo = ReplaceAll(q.lifo, q.fifo[i], c)]
  BY DEF Become
<1>13. Become(q, i, c) = [fifo |-> [q.fifo EXCEPT ![i] = c],
            lifo |-> ReplaceAll(q.lifo, q.fifo[i], c), nxt |-> q.nxt]
  BY <1>4, <1>12
<1> QED BY <1>11, <1>13

LEMMA UnlinkIs ==
  ASSUME NEW q \in Queues, Listing(q.lifo, q.fifo), NEW i \in 1..Len(q.fifo)
  PROVE  /\ Unlink(q, q.fifo[i]) \in Queues
         /\ Unlink(q, q.fifo[i]).fifo = RemoveAt(q.fifo, i)
         /\ Unlink(q, q.fifo[i]).nxt = q.nxt
         /\ Listing(Unlink(q, q.fifo[i]).lifo, Unlink(q, q.fifo[i]).fifo)
<1>1. q.fifo \in Seq(Blk) /\ q.lifo \in Seq(Blk) /\ q.nxt \in Nat
  BY QueueParts
<1>2. PICK l : l = RemoveFirst(q.lifo, q.fifo[i])
  OBVIOUS
<1>3. PICK g : g = RemoveAt(q.fifo, i)
  OBVIOUS
<1>4. l \in Seq(Blk) /\ RemoveFirst(q.fifo, q.fifo[i]) = g /\ Listing(l, g)
  BY <1>1, <1>2, <1>3, RemovedListing, Zenon
<1>5. g \in Seq(Blk)
  BY <1>1, <1>3, Removed, Zenon DEF Shortened
<1>6. q = [fifo |-> q.fifo, lifo |-> q.lifo, nxt |-> q.nxt]
  BY DEF Queues
<1>7. Unlink(q, q.fifo[i]) = [q EXCEPT !.fifo = g, !.lifo = l]
  BY <1>2, <1>4 DEF Unlink
<1>8. Unlink(q, q.fifo[i]) = [fifo |-> g, lifo |-> l, nxt |-> q.nxt]
  BY <1>6, <1>7
<1> QED BY <1>1, <1>3, <1>4, <1>5, <1>8 DEF Queues

\* Advance changes only nxt
LEMMA AdvanceIs ==
  ASSUME NEW q \in Queues, NEW b \in Blk
  PROVE  /\ Advance(q, b) \in Queues
         /\ Advance(q, b).fifo = q.fifo /\ Advance(q, b).lifo = q.lifo
         /\ Advance(q, b).nxt = Moved(q.nxt, b)
<1>1. PICK n : n = IF q.nxt >= b.s THEN b.e ELSE q.nxt
  OBVIOUS
<1>2. n \in Nat
  BY <1>1 DEF Queues, Blk
<1>3. q = [fifo |-> q.fifo, lifo |-> q.lifo, nxt |-> q.nxt]
  BY DEF Queues
<1>4. Advance(q, b) = [q EXCEPT !.nxt = n]
  BY <1>1 DEF Advance
<1>5. Advance(q, b) = [fifo |-> q.fifo, lifo |-> q.lifo, nxt |-> n]
  BY <1>3, <1>4
<1>6. n = Moved(q.nxt, b)
  BY <1>1, Zenon DEF Moved
<1> QED BY <1>2, <1>5, <1>6, QueueParts DEF Queues

LEMMA DropIs ==
  ASSUME NEW q \in Queues, Listing(q.lifo, q.fifo), NEW gone
  PROVE  /\ Drop(q, gone) \in Queues
         /\ Drop(q, gone).nxt = q.nxt
         /\ Sifted(q.fifo, gone, Drop(q, gone).fifo)
         /\ Listing(Drop(q, gone).lifo, Drop(q, gone).fifo)
<1>1. q.fifo \in Seq(Blk) /\ q.lifo \in Seq(Blk) /\ q.nxt \in Nat
  BY QueueParts
<1>2. PICK l : l = Without(q.lifo, gone)
  OBVIOUS
<1>3. PICK g : g = Without(q.fifo, gone)
  OBVIOUS
<1>4. l \in Seq(Blk) /\ g \in Seq(Blk) /\ Sifted(q.fifo, gone, g)
  BY <1>1, <1>2, <1>3, WithoutIs, Zenon
<1>5. Listing(l, g)
  BY <1>1, <1>2, <1>3, SiftedListing, Zenon
<1>6. q = [fifo |-> q.fifo, lifo |-> q.lifo, nxt |-> q.nxt]
  BY DEF Queues
<1>7. Drop(q, gone) = [q EXCEPT !.fifo = g, !.lifo = l]
  BY <1>2, <1>3 DEF Drop
<1>8. Drop(q, gone) = [fifo |-> g, lifo |-> l, nxt |-> q.nxt]
  BY <1>6, <1>7
<1> QED BY <1>1, <1>4, <1>5, <1>8 DEF Queues

LEMMA DropGood ==
  ASSUME NEW top \in Nat, NEW q, Good(q, top), NEW gone
  PROVE  /\ Good(Drop(q, gone), top) /\ Drop(q, gone).nxt = q.nxt
         /\ ToSet(Drop(q, gone).fifo) = ToSet(q.fifo) \ gone
<1>1. q \in Queues /\ Apart(q.fifo, top) /\ Listing(q.lifo, q.fifo)
  BY DEF Good
<1>2. PICK r : r = Drop(q, gone)
  OBVIOUS
<1>3. /\ r \in Queues /\ r.nxt = q.nxt /\ Sifted(q.fifo, gone, r.fifo)
      /\ Listing(r.lifo, r.fifo)
  BY <1>1, <1>2, DropIs, Zenon
<1>4. PICK g \in [1..Len(r.fifo) -> 1..Len(q.fifo)] :
        /\ \A i \in 1..Len(r.fifo) : r.fifo[i] = q.fifo[g[i]]
        /\ \A i, j \in 1..Len(r.fifo) : i < j => g[i] < g[j]
  BY <1>3 DEF Sifted
<1>5. Apart(r.fifo, top)
  <2>1. ASSUME NEW i \in 1..Len(r.fifo) PROVE Sound(r.fifo[i], top)
    <3>1. g[i] \in 1..Len(q.fifo) /\ r.fifo[i] = q.fifo[g[i]]
      BY <1>4
    <3> QED BY <3>1, <1>1, Zenon DEF Apart
  <2>2. ASSUME NEW i \in 1..Len(r.fifo), NEW j \in 1..Len(r.fifo), i < j
        PROVE  r.fifo[i].e < r.fifo[j].s
    <3>1. /\ g[i] \in 1..Len(q.fifo) /\ r.fifo[i] = q.fifo[g[i]]
          /\ g[j] \in 1..Len(q.fifo) /\ r.fifo[j] = q.fifo[g[j]] /\ g[i] < g[j]
      BY <1>4, <2>2
    <3> QED BY <3>1, <1>1, Zenon DEF Apart
  <2> QED BY <2>1, <2>2, Zenon DEF Apart
<1> QED BY <1>2, <1>3, <1>5 DEF Good, Sifted

\* The first block that starts at or after "end"
LEMMA AfterIs ==
  ASSUME NEW f \in Seq(Blk), NEW end \in Nat
  PROVE  /\ After(f, end) \in 1..Len(f) + 1
         /\ \A i \in 1..Len(f) : i < After(f, end) => f[i].s < end
         /\ After(f, end) <= Len(f) => f[After(f, end)].s >= end
<1> DEFINE I == {i \in 1..Len(f) : f[i].s >= end}
<1>1. After(f, end) = LET i == IF I # {} THEN Min(I) ELSE 0
                      IN  IF i = 0 THEN Len(f) + 1 ELSE i
  BY Zenon DEF After, SelectInSeq
<1>2. Len(f) \in Nat /\ \A i \in 1..Len(f) : f[i].s \in Nat
  BY BlocksAre
<1>3. CASE I = {}
  <2>1. After(f, end) = Len(f) + 1
    BY <1>1, <1>3
  <2>2. \A i \in 1..Len(f) : f[i].s < end
    BY <1>2, <1>3
  <2> QED BY <1>2, <2>1, <2>2
<1>4. CASE I # {}
  <2>1. Min(I) \in I /\ \A m \in I : Min(I) <= m
    <3>1. I \in SUBSET Nat
      OBVIOUS
    <3> HIDE DEF I
    <3> QED BY <3>1, <1>4, MinIs
  <2>2. PICK k : k = Min(I)
    OBVIOUS
  <2>3. k \in 1..Len(f) /\ f[k].s >= end /\ \A m \in I : k <= m
    BY <2>1, <2>2
  <2>4. After(f, end) = k
    <3> HIDE DEF I
    <3> QED BY <1>1, <1>4, <2>2, <2>3
  <2>5. ASSUME NEW i \in 1..Len(f), i < k PROVE f[i].s < end
    BY <1>2, <2>3, <2>5
  <2> QED BY <2>3, <2>4, <2>5, <1>2
<1> QED BY <1>3, <1>4

\* The last block that ends at or before "start"
LEMMA BeforeIs ==
  ASSUME NEW f \in Seq(Blk), NEW start \in Nat
  PROVE  /\ Before(f, start) \in 0..Len(f)
         /\ \A i \in 1..Len(f) : i > Before(f, start) => f[i].e > start
         /\ Before(f, start) > 0 => f[Before(f, start)].e <= start
<1> DEFINE I == {i \in 1..Len(f) : f[i].e <= start}
<1>1. Before(f, start) = IF I # {} THEN Max(I) ELSE 0
  BY Zenon DEF Before, SelectLastInSeq
<1>2. Len(f) \in Nat /\ \A i \in 1..Len(f) : f[i].e \in Nat
  BY BlocksAre
<1>3. CASE I = {}
  <2>1. Before(f, start) = 0
    BY <1>1, <1>3
  <2>2. \A i \in 1..Len(f) : f[i].e > start
    BY <1>2, <1>3
  <2> QED BY <1>2, <2>1, <2>2
<1>4. CASE I # {}
  <2>1. Max(I) \in I /\ \A m \in I : m <= Max(I)
    <3>1. I \in SUBSET (1..Len(f))
      OBVIOUS
    <3> HIDE DEF I
    <3> QED BY <3>1, <1>2, <1>4, MaxIs
  <2>2. PICK k : k = Max(I)
    OBVIOUS
  <2>3. k \in 1..Len(f) /\ f[k].e <= start /\ \A m \in I : m <= k
    BY <2>1, <2>2
  <2>4. Before(f, start) = k
    BY <1>1, <1>4, <2>2
  <2>5. ASSUME NEW i \in 1..Len(f), i > k PROVE f[i].e > start
    BY <1>2, <2>3, <2>5
  <2> QED BY <2>3, <2>4, <2>5, <1>2
<1> QED BY <1>3, <1>4

-----------------------------------------------------------------------------
(* What add returns for the bytes of b *)

Holds(x, b)  == x.s <= b.s /\ b.e <= x.e
Within(y, b) == b.s <= y /\ y < b.e

\* The queue u holds the bytes of q and those of b and is well formed
Extends(q, u, b, top) ==
  /\ Good(u, top) /\ FlagsAtTop(u.fifo, top)
  /\ \A y \in Nat : Covers(u.fifo, y) <=> Covers(q.fifo, y) \/ Within(y, b)
  /\ HasFlag(u.fifo) => HasFlag(q.fifo) \/ b.f

\* The flag returned is that of the block b is in; rcv_nxt_ moves to the end of
\* that block or of the first, if one of them reaches back to it
Grows(q, r, b, top) ==
  /\ Extends(q, r.queue, b, top)
  /\ \E m \in 1..Len(r.queue.fifo) :
       Holds(r.queue.fifo[m], b) /\ (r.flag => r.queue.fifo[m].f)
  /\ \E k \in 1..Len(r.queue.fifo) :
       /\ k = 1 \/ Holds(r.queue.fifo[k], b)
       /\ r.queue.nxt = Moved(q.nxt, r.queue.fifo[k])

LEMMA Concluded ==
  ASSUME NEW top \in Nat, NEW q, NEW b, NEW u, Extends(q, u, b, top), u.nxt = q.nxt,
         NEW flag, NEW m \in 1..Len(u.fifo), Holds(u.fifo[m], b), flag => u.fifo[m].f,
         NEW k \in 1..Len(u.fifo), k = 1 \/ Holds(u.fifo[k], b),
         NEW a \in Blk, a.s = u.fifo[k].s, a.e = u.fifo[k].e
  PROVE  Grows(q, Result(Advance(u, a), flag), b, top)
<1>1. u \in Queues /\ Apart(u.fifo, top) /\ Listing(u.lifo, u.fifo)
  BY DEF Extends, Good
<1>2. PICK v : v = Advance(u, a)
  OBVIOUS
<1>3. v \in Queues /\ v.fifo = u.fifo /\ v.lifo = u.lifo
  BY <1>1, <1>2, AdvanceIs, Zenon
<1>4. v.nxt = Moved(q.nxt, u.fifo[k])
  <2>1. v.nxt = Moved(u.nxt, a)
    BY <1>1, <1>2, AdvanceIs, Zenon
  <2> QED BY <2>1, Zenon DEF Moved
<1>5. Good(v, top)
  BY <1>1, <1>3 DEF Good
<1>6. Extends(q, v, b, top)
  BY <1>3, <1>5 DEF Extends
<1>7. PICK r : r = Result(v, flag)
  OBVIOUS
<1>8. r.queue = v /\ r.flag = flag
  BY <1>7 DEF Result
<1>9. Grows(q, r, b, top)
  BY <1>3, <1>4, <1>6, <1>8, Zenon DEF Grows
<1> QED BY <1>2, <1>7, <1>9

\* The i-th block can become c, which takes in b
Widening(q, i, b, c, top) ==
  /\ b \in Blk /\ i \in 1..Len(q.fifo) /\ c \in Blk /\ Sound(c, top)
  /\ \A j \in 1..Len(q.fifo) : j < i => q.fifo[j].e < c.s
  /\ \A j \in 1..Len(q.fifo) : i < j => c.e < q.fifo[j].s
  /\ \A j \in 1..Len(q.fifo) : j # i /\ q.fifo[j].f => q.fifo[j].e = top
  /\ c.f => c.e = top
  /\ c.f => q.fifo[i].f \/ b.f
  /\ Holds(c, q.fifo[i]) /\ Holds(c, b)
  /\ \A y \in Nat : Within(y, c) => Within(y, q.fifo[i]) \/ Within(y, b)

\* u is q with c as the i-th block
InPlace(q, u, i, c) ==
  /\ u.nxt = q.nxt /\ Len(u.fifo) = Len(q.fifo) /\ i \in 1..Len(u.fifo) /\ u.fifo[i] = c
  /\ \A j \in 1..Len(q.fifo) : j # i => u.fifo[j] = q.fifo[j]

LEMMA Widened ==
  ASSUME NEW top \in Nat, NEW q, Good(q, top), NEW b, NEW i, NEW c,
         Widening(q, i, b, c, top)
  PROVE  Extends(q, Become(q, i, c), b, top) /\ InPlace(q, Become(q, i, c), i, c)
<1> USE DEF Widening
<1>1. q \in Queues /\ i \in 1..Len(q.fifo) /\ c \in Blk /\ b \in Blk
  BY DEF Good
<1>2. PICK u : u = Become(q, i, c)
  OBVIOUS
<1>3. Good(u, top) /\ u.fifo = [q.fifo EXCEPT ![i] = c] /\ u.nxt = q.nxt
  BY <1>2, BecomeGood
<1>4. PICK g : g = u.fifo
  OBVIOUS
<1>5. /\ g \in Seq(Blk) /\ Len(g) = Len(q.fifo) /\ g[i] = c
      /\ \A j \in 1..Len(q.fifo) : j # i => g[j] = q.fifo[j]
  <2>1. q.fifo \in Seq(Blk)
    BY <1>1, QueueParts
  <2> QED BY <2>1, <1>3, <1>4
<1>6. FlagsAtTop(g, top)
  BY <1>5 DEF FlagsAtTop
<1>7. HasFlag(g) => HasFlag(q.fifo) \/ b.f
  BY <1>5 DEF HasFlag
<1>8. ASSUME NEW y \in Nat
      PROVE  Covers(g, y) <=> Covers(q.fifo, y) \/ Within(y, b)
  <2>1. Within(y, c) <=> Within(y, q.fifo[i]) \/ Within(y, b)
    <3>1. Within(y, q.fifo[i]) \/ Within(y, b) => Within(y, c)
      <4>1. /\ c.s \in Nat /\ c.e \in Nat /\ b.s \in Nat /\ b.e \in Nat
            /\ q.fifo[i].s \in Nat /\ q.fifo[i].e \in Nat
        BY <1>1, BlkParts, QueueParts
      <4> QED BY <4>1 DEF Within, Holds
    <3> QED BY <3>1
  <2>2. /\ Covers(g, y) <=> \E j \in 1..Len(g) : Within(y, g[j])
        /\ Covers(q.fifo, y) <=> \E j \in 1..Len(q.fifo) : Within(y, q.fifo[j])
    BY DEF Covers, Within
  <2> QED BY <2>1, <2>2, <1>5
<1>9. Extends(q, u, b, top)
  BY <1>3, <1>4, <1>6, <1>7, <1>8 DEF Extends
<1>10. InPlace(q, u, i, c)
  BY <1>3, <1>4, <1>5 DEF InPlace
<1> QED BY <1>2, <1>9, <1>10, Zenon

\* g is f with b after its i-th element
Spliced(f, i, b, g) ==
  /\ Len(g) = Len(f) + 1 /\ i + 1 \in 1..Len(g) /\ g[i + 1] = b
  /\ \A k \in 1..Len(g) : k <= i \/ k = i + 1 \/ k > i + 1
  /\ \A k \in 1..Len(g) : k <= i => k \in 1..Len(f) /\ g[k] = f[k]
  /\ \A k \in 1..Len(g) : k > i + 1 =>
       k - 1 \in 1..Len(f) /\ i < k - 1 /\ g[k] = f[k - 1]
  /\ \A j \in 1..Len(f) : j <= i \/ j > i
  /\ \A j \in 1..Len(f) : j <= i => j \in 1..Len(g) /\ g[j] = f[j]
  /\ \A j \in 1..Len(f) : j > i => j + 1 \in 1..Len(g) /\ g[j + 1] = f[j]

LEMMA InsertedAfter ==
  ASSUME NEW S, NEW f \in Seq(S), NEW i \in 0..Len(f), NEW b \in S,
         NEW g, g = InsertAt(f, i + 1, b)
  PROVE  g \in Seq(S) /\ Spliced(f, i, b, g)
<1>1. Len(f) \in Nat /\ i + 1 \in 1..Len(f) + 1 /\ i \in Nat
  OBVIOUS
<1>2. PICK m \in 1..Len(f) + 1 : m = i + 1
  BY <1>1
<1>9. /\ g \in Seq(S) /\ Len(g) = Len(f) + 1
      /\ \A k \in 1..Len(f) + 1 : g[k] = IF k < m THEN f[k] ELSE IF k = m THEN b ELSE f[k - 1]
  <2>1. g = InsertAt(f, m, b)
    BY <1>2, Zenon
  <2>2. Lengthened(S, f, m, b, g)
    BY <2>1, Inserted, Zenon
  <2> QED BY <2>2 DEF Lengthened
<1>3. /\ g \in Seq(S) /\ Len(g) = Len(f) + 1
      /\ \A k \in 1..Len(f) + 1 : g[k] =
           IF k < i + 1 THEN f[k] ELSE IF k = i + 1 THEN b ELSE f[k - 1]
  BY <1>2, <1>9
<1>4. i + 1 \in 1..Len(g) /\ g[i + 1] = b
  BY <1>1, <1>3
<1>5. ASSUME NEW k \in 1..Len(g), k <= i PROVE k \in 1..Len(f) /\ g[k] = f[k]
  BY <1>1, <1>3, <1>5
<1>6. ASSUME NEW k \in 1..Len(g), k > i + 1
      PROVE  k - 1 \in 1..Len(f) /\ i < k - 1 /\ g[k] = f[k - 1]
  BY <1>1, <1>3, <1>6
<1>7. ASSUME NEW j \in 1..Len(f), j <= i PROVE j \in 1..Len(g) /\ g[j] = f[j]
  BY <1>1, <1>3, <1>7
<1>8. ASSUME NEW j \in 1..Len(f), j > i PROVE j + 1 \in 1..Len(g) /\ g[j + 1] = f[j]
  <2>1. j + 1 \in 1..Len(f) + 1 /\ ~(j + 1 < i + 1) /\ j + 1 # i + 1 /\ (j + 1) - 1 = j
    BY <1>1, <1>8
  <2> QED BY <2>1, <1>3
<1>10. /\ \A k \in 1..Len(g) : k <= i \/ k = i + 1 \/ k > i + 1
       /\ \A j \in 1..Len(f) : j <= i \/ j > i
  BY <1>1, <1>3
<1> QED BY <1>3, <1>4, <1>5, <1>6, <1>7, <1>8, <1>10 DEF Spliced

\* Link for a block that touches none
LEMMA LinkedAlone ==
  ASSUME NEW top \in Nat, NEW q, Good(q, top), FlagsAtTop(q.fifo, top),
         NEW b \in Blk, Sound(b, top), b.f => b.e = top, NEW i \in 0..Len(q.fifo),
         \A j \in 1..Len(q.fifo) : j <= i => q.fifo[j].e < b.s,
         \A j \in 1..Len(q.fifo) : i < j => b.e < q.fifo[j].s
  PROVE  Grows(q, Result(Advance([q EXCEPT !.fifo = InsertAt(q.fifo, i + 1, b),
                                           !.lifo = Cons(b, q.lifo)], b), b.f), b, top)
<1>1. q \in Queues /\ Apart(q.fifo, top) /\ Listing(q.lifo, q.fifo)
  BY DEF Good
<1>2. /\ q.fifo \in Seq(Blk) /\ q.lifo \in Seq(Blk) /\ q.nxt \in Nat /\ Len(q.fifo) \in Nat
      /\ \A j \in 1..Len(q.fifo) : q.fifo[j].s \in Nat /\ q.fifo[j].e \in Nat
  BY <1>1, QueueParts
<1>3. b.s \in Nat /\ b.e \in Nat /\ b.s <= b.e
  BY BlkParts DEF Sound
<1>4. PICK g : g = InsertAt(q.fifo, i + 1, b)
  OBVIOUS
<1>5. PICK l : l = Cons(b, q.lifo)
  OBVIOUS
<1>6. PICK u : u = [q EXCEPT !.fifo = g, !.lifo = l]
  OBVIOUS
<1>7. i + 1 \in 1..Len(q.fifo) + 1
  BY <1>2
<1>8. b \notin ToSet(q.fifo)
  <2>1. ASSUME NEW j \in 1..Len(q.fifo), q.fifo[j] = b PROVE FALSE
    <3>1. q.fifo[j].s <= q.fifo[j].e
      BY <1>1 DEF Apart, Sound
    <3>2. j <= i \/ i < j
      BY <1>2
    <3> QED BY <2>1, <3>1, <3>2, <1>2, <1>3
  <2> QED BY <2>1, <1>2, ToSetIs
<1>9. l \in Seq(Blk) /\ Listing(l, g)
  <2>1. /\ Cons(b, q.lifo) \in Seq(Blk)
        /\ Listing(Cons(b, q.lifo), InsertAt(q.fifo, i + 1, b))
    BY <1>1, <1>2, <1>7, <1>8, InsertedListing
  <2> QED BY <2>1, <1>4, <1>5, Zenon
<1>10. g \in Seq(Blk) /\ Spliced(q.fifo, i, b, g)
  BY <1>2, <1>4, InsertedAfter
<1>12. u \in Queues /\ u.fifo = g /\ u.lifo = l /\ u.nxt = q.nxt
  <2>1. q = [fifo |-> q.fifo, lifo |-> q.lifo, nxt |-> q.nxt]
    BY <1>1 DEF Queues
  <2>2. u = [fifo |-> g, lifo |-> l, nxt |-> q.nxt]
    BY <2>1, <1>6
  <2> QED BY <2>2, <1>2, <1>9, <1>10 DEF Queues
<1>13. Apart(g, top)
  <2>1. ASSUME NEW k \in 1..Len(g) PROVE Sound(g[k], top)
    BY <1>1, <1>10 DEF Apart, Spliced
  <2>2. ASSUME NEW j \in 1..Len(g), NEW k \in 1..Len(g), j < k PROVE g[j].e < g[k].s
    <3>1. CASE k <= i
      <4>1. j <= i
        BY <2>2, <3>1, <1>2
      <4> QED BY <2>2, <3>1, <4>1, <1>1, <1>10 DEF Apart, Spliced
    <3>2. CASE k = i + 1
      <4>1. j <= i
        BY <2>2, <3>2, <1>2
      <4> QED BY <3>2, <4>1, <1>10 DEF Spliced
    <3>3. CASE k > i + 1 /\ j = i + 1
      BY <3>3, <1>10 DEF Spliced
    <3>4. CASE k > i + 1 /\ j > i + 1
      <4>1. j - 1 < k - 1
        BY <2>2, <1>2
      <4> QED BY <4>1, <3>4, <1>1, <1>10 DEF Apart, Spliced
    <3>5. CASE k > i + 1 /\ j <= i
      <4>1. j < k - 1
        BY <3>5, <1>2
      <4> QED BY <4>1, <3>5, <1>1, <1>10 DEF Apart, Spliced
    <3> QED BY <3>1, <3>2, <3>3, <3>4, <3>5, <1>10 DEF Spliced
  <2> QED BY <2>1, <2>2 DEF Apart, Spliced
<1>14. FlagsAtTop(g, top)
  <2>1. ASSUME NEW k \in 1..Len(g)
        PROVE  g[k] = b \/ \E j \in 1..Len(q.fifo) : g[k] = q.fifo[j]
    BY <1>10 DEF Spliced
  <2>2. ASSUME NEW k \in 1..Len(g) PROVE g[k].f => g[k].e = top
    <3>1. CASE g[k] = b
      BY <3>1, Zenon
    <3>2. ASSUME NEW j \in 1..Len(q.fifo), g[k] = q.fifo[j] PROVE g[k].f => g[k].e = top
      <4>1. q.fifo[j].f => q.fifo[j].e = top
        BY DEF FlagsAtTop
      <4> QED BY <3>2, <4>1, Zenon
    <3> QED BY <2>1, <3>1, <3>2
  <2> QED BY <2>2 DEF FlagsAtTop
<1>15. HasFlag(g) => HasFlag(q.fifo) \/ b.f
  BY <1>10, Zenon DEF HasFlag, Spliced
<1>16. ASSUME NEW y \in Nat
       PROVE  Covers(g, y) <=> Covers(q.fifo, y) \/ Within(y, b)
  <2>1. /\ Covers(g, y) <=> \E j \in 1..Len(g) : Within(y, g[j])
        /\ Covers(q.fifo, y) <=> \E j \in 1..Len(q.fifo) : Within(y, q.fifo[j])
    BY DEF Covers, Within
  <2>2. ASSUME NEW j \in 1..Len(g), Within(y, g[j])
        PROVE  Covers(q.fifo, y) \/ Within(y, b)
    BY <2>1, <2>2, <1>10 DEF Spliced
  <2>3. ASSUME NEW j \in 1..Len(q.fifo), Within(y, q.fifo[j]) PROVE Covers(g, y)
    BY <2>1, <2>3, <1>10 DEF Spliced
  <2>4. Within(y, b) => Covers(g, y)
    BY <2>1, <1>10 DEF Spliced
  <2> QED BY <2>1, <2>2, <2>3, <2>4
<1>17. Extends(q, u, b, top)
  BY <1>9, <1>12, <1>13, <1>14, <1>15, <1>16 DEF Extends, Good
<1>18. Holds(b, b)
  BY <1>3 DEF Holds
<1>19. Grows(q, Result(Advance(u, b), b.f), b, top)
  BY <1>10, <1>12, <1>17, <1>18, Concluded DEF Spliced
<1> QED BY <1>4, <1>5, <1>6, <1>19

\* g is f without its element after the i-th, and with c in place of that one
Merged(f, i, c, g) ==
  /\ Len(g) = Len(f) - 1 /\ i \in 1..Len(g) /\ g[i] = c
  /\ \A k \in 1..Len(g) : k < i => k \in 1..Len(f) /\ g[k] = f[k]
  /\ \A k \in 1..Len(g) : k > i => k + 1 \in 1..Len(f) /\ k + 1 > i + 1 /\ g[k] = f[k + 1]
  /\ \A k \in 1..Len(g) : k < i \/ k = i \/ k > i
  /\ \A j \in 1..Len(f) : j < i \/ j = i \/ j = i + 1 \/ j > i + 1
  /\ \A j \in 1..Len(f) : j < i => j \in 1..Len(g) /\ g[j] = f[j]
  /\ \A j \in 1..Len(f) : j > i + 1 => j - 1 \in 1..Len(g) /\ g[j - 1] = f[j]

LEMMA MergedElements ==
  ASSUME NEW n \in Nat, NEW i \in Nat, 1 <= i, i + 1 <= n, NEW f, NEW g, NEW h, NEW c,
         Len(f) = n, Len(g) = n - 1, h[i] = c,
         \A k \in 1..n : k # i => h[k] = f[k],
         \A k \in 1..n - 1 : k < i + 1 => g[k] = h[k],
         \A k \in 1..n - 1 : ~(k < i + 1) => g[k] = h[k + 1]
  PROVE  Merged(f, i, c, g)
<1>1. i \in 1..n - 1 /\ g[i] = c
  OBVIOUS
<1>2. ASSUME NEW k \in 1..n - 1, k < i PROVE k \in 1..n /\ g[k] = f[k]
  <2>1. k \in 1..n /\ k < i + 1 /\ k # i
    BY <1>2
  <2> QED BY <2>1
<1>3. ASSUME NEW k \in 1..n - 1, k > i
      PROVE  k + 1 \in 1..n /\ k + 1 > i + 1 /\ g[k] = f[k + 1]
  <2>1. k + 1 \in 1..n /\ ~(k < i + 1) /\ k + 1 # i /\ k + 1 > i + 1
    BY <1>3
  <2> QED BY <2>1
<1>4. ASSUME NEW j \in 1..n, j < i PROVE j \in 1..n - 1 /\ g[j] = f[j]
  <2>1. j \in 1..n - 1 /\ j < i + 1 /\ j # i
    BY <1>4
  <2> QED BY <2>1
<1>5. ASSUME NEW j \in 1..n, j > i + 1 PROVE j - 1 \in 1..n - 1 /\ g[j - 1] = f[j]
  <2>1. PICK k \in 1..n - 1 : k = j - 1
    BY <1>5
  <2>2. ~(k < i + 1) /\ k + 1 = j /\ j # i
    BY <2>1, <1>5
  <2>3. g[k] = f[j]
    BY <2>2
  <2> QED BY <2>1, <2>3
<1>6. /\ \A k \in 1..n - 1 : k < i \/ k = i \/ k > i
      /\ \A j \in 1..n : j < i \/ j = i \/ j = i + 1 \/ j > i + 1
  OBVIOUS
<1> QED BY <1>1, <1>2, <1>3, <1>4, <1>5, <1>6 DEF Merged

LEMMA MergedIs ==
  ASSUME NEW S, NEW f \in Seq(S), NEW i \in 1..Len(f) - 1, NEW c \in S,
         NEW h, h = [f EXCEPT ![i] = c], NEW g, g = RemoveAt(h, i + 1)
  PROVE  g \in Seq(S) /\ Merged(f, i, c, g)
<1>1. /\ Len(f) \in Nat /\ i + 1 \in 1..Len(f) /\ i \in Nat /\ i \in 1..Len(f)
      /\ 1 <= i /\ i + 1 <= Len(f)
  OBVIOUS
<1>2. /\ h \in Seq(S) /\ Len(h) = Len(f) /\ h[i] = c
      /\ \A k \in 1..Len(f) : k # i => h[k] = f[k]
  BY <1>1
<1>3. PICK m \in 1..Len(h) : m = i + 1
  BY <1>1, <1>2
<1>4. /\ g \in Seq(S) /\ Len(g) = Len(h) - 1
      /\ \A k \in 1..Len(h) - 1 : g[k] = IF k < m THEN h[k] ELSE h[k + 1]
  <2>1. g = RemoveAt(h, m)
    BY <1>3, Zenon
  <2>2. Shortened(S, h, m, g)
    BY <1>2, <2>1, Removed, Zenon
  <2> QED BY <2>2 DEF Shortened
<1>5. /\ Len(g) = Len(f) - 1
      /\ \A k \in 1..Len(f) - 1 : k < i + 1 => g[k] = h[k]
      /\ \A k \in 1..Len(f) - 1 : ~(k < i + 1) => g[k] = h[k + 1]
  <2>1. Len(g) = Len(f) - 1
    BY <1>2, <1>4, Zenon
  <2>2. \A k \in 1..Len(f) - 1 : g[k] = IF k < i + 1 THEN h[k] ELSE h[k + 1]
    BY <1>2, <1>3, <1>4, Zenon
  <2>3. \A k \in 1..Len(f) - 1 : k < i + 1 => g[k] = h[k]
    BY <2>2, Zenon
  <2>4. \A k \in 1..Len(f) - 1 : ~(k < i + 1) => g[k] = h[k + 1]
    BY <2>2, Zenon
  <2> QED BY <2>1, <2>3, <2>4
<1>6. Merged(f, i, c, g)
  BY <1>1, <1>2, <1>5, MergedElements, ZenonT(40)
<1> QED BY <1>4, <1>6

\* Where b can be linked: after the i-th block.  Only a block that b touches may
\* already carry the FIN that follows b.
Linkable(q, i, b, top) ==
  /\ i \in 0..Len(q.fifo) /\ b \in Blk /\ Sound(b, top) /\ (b.f => b.e = top)
  /\ b.s < b.e \/ i = Len(q.fifo)
  /\ \A j \in 1..Len(q.fifo) : j <= i => q.fifo[j].e <= b.s
  /\ \A j \in 1..Len(q.fifo) : i < j => b.e <= q.fifo[j].s
  /\ \A j \in 1..Len(q.fifo) : q.fifo[j].f =>
       q.fifo[j].e = top \/ (j = i /\ q.fifo[i].e = b.s /\ b.e = top)

JoinsP(q, i, b) == i > 0 /\ q.fifo[i].e = b.s
JoinsQ(q, i, b) == i < Len(q.fifo) /\ b.e = q.fifo[i+1].s

LEMMA LinkableParts ==
  ASSUME NEW top \in Nat, NEW q, Good(q, top), NEW i, NEW b, Linkable(q, i, b, top)
  PROVE  /\ i \in 0..Len(q.fifo) /\ i \in Nat /\ Len(q.fifo) \in Nat
         /\ b \in Blk /\ b.s \in Nat /\ b.e \in Nat /\ b.f \in BOOLEAN
         /\ b.s <= b.e /\ b.e <= top
         /\ \A j \in 1..Len(q.fifo) :
              /\ q.fifo[j] \in Blk
              /\ q.fifo[j].s \in Nat /\ q.fifo[j].e \in Nat /\ q.fifo[j].f \in BOOLEAN
              /\ q.fifo[j].s <= q.fifo[j].e /\ q.fifo[j].e <= top
         /\ ~JoinsP(q, i, b) => \A j \in 1..Len(q.fifo) : j <= i => q.fifo[j].e < b.s
         /\ ~JoinsQ(q, i, b) => \A j \in 1..Len(q.fifo) : i < j => b.e < q.fifo[j].s
<1>1. q \in Queues /\ Apart(q.fifo, top)
  BY DEF Good
<1>2. /\ Len(q.fifo) \in Nat
      /\ \A j \in 1..Len(q.fifo) : /\ q.fifo[j] \in Blk
              /\ q.fifo[j].s \in Nat /\ q.fifo[j].e \in Nat /\ q.fifo[j].f \in BOOLEAN
  BY <1>1, QueueParts, Zenon
<1>3. i \in 0..Len(q.fifo) /\ b \in Blk /\ Sound(b, top)
  BY DEF Linkable
<1>4. b.s \in Nat /\ b.e \in Nat /\ b.f \in BOOLEAN /\ b.s <= b.e /\ b.e <= top
  BY <1>3, BlkParts DEF Sound
<1>5. i \in Nat
  BY <1>2, <1>3
<1>6. \A j \in 1..Len(q.fifo) : q.fifo[j].s <= q.fifo[j].e /\ q.fifo[j].e <= top
  BY <1>1 DEF Apart, Sound
<1>7. ASSUME ~JoinsP(q, i, b), NEW j \in 1..Len(q.fifo), j <= i PROVE q.fifo[j].e < b.s
  <2>1. i \in 1..Len(q.fifo) /\ i > 0
    BY <1>2, <1>3, <1>7
  <2>2. q.fifo[i].e <= b.s /\ q.fifo[i].e # b.s
    BY <2>1, <1>5, <1>7 DEF JoinsP, Linkable
  <2>3. CASE j = i
    BY <2>1, <2>2, <2>3, <1>2, <1>4
  <2>4. CASE j < i
    <3>1. q.fifo[j].e < q.fifo[i].s
      BY <2>1, <2>4, <1>1 DEF Apart
    <3> QED BY <3>1, <2>1, <2>2, <1>2, <1>4, <1>6
  <2> QED BY <2>3, <2>4, <1>2, <1>5, <1>7
<1>8. ASSUME ~JoinsQ(q, i, b), NEW j \in 1..Len(q.fifo), i < j PROVE b.e < q.fifo[j].s
  <2>1. i + 1 \in 1..Len(q.fifo) /\ i < Len(q.fifo) /\ i < i + 1
    BY <1>2, <1>5, <1>8
  <2>2. b.e <= q.fifo[i+1].s /\ b.e # q.fifo[i+1].s
    BY <2>1, <1>8 DEF JoinsQ, Linkable
  <2>3. CASE j = i + 1
    BY <2>1, <2>2, <2>3, <1>2, <1>4
  <2>4. CASE j # i + 1
    <3>0. i + 1 < j
      BY <2>4, <1>2, <1>5, <1>8
    <3>1. q.fifo[i+1].e < q.fifo[j].s
      BY <2>1, <3>0, <1>1 DEF Apart
    <3> QED BY <3>1, <2>1, <2>2, <1>2, <1>4, <1>6
  <2> QED BY <2>3, <2>4
<1> QED BY <1>2, <1>3, <1>4, <1>5, <1>6, <1>7, <1>8

\* The block before and the block after are joined by b
LEMMA LinkedBoth ==
  ASSUME NEW top \in Nat, NEW q, Good(q, top), NEW i, NEW b, Linkable(q, i, b, top),
         JoinsP(q, i, b), JoinsQ(q, i, b), NEW c,
         c = Block(q.fifo[i].s, q.fifo[i+1].e, q.fifo[i].f \/ b.f)
  PROVE  Grows(q, [Stretch(q, i, c) EXCEPT !.queue = Unlink(@, q.fifo[i+1])], b, top)
<1>1. q \in Queues /\ Apart(q.fifo, top) /\ Listing(q.lifo, q.fifo)
  BY DEF Good
<1>2. /\ i \in 0..Len(q.fifo) /\ i \in Nat /\ Len(q.fifo) \in Nat
      /\ b \in Blk /\ b.s \in Nat /\ b.e \in Nat /\ b.f \in BOOLEAN
      /\ b.s <= b.e /\ b.e <= top
      /\ \A j \in 1..Len(q.fifo) :
              /\ q.fifo[j] \in Blk
              /\ q.fifo[j].s \in Nat /\ q.fifo[j].e \in Nat /\ q.fifo[j].f \in BOOLEAN
              /\ q.fifo[j].s <= q.fifo[j].e /\ q.fifo[j].e <= top
  BY LinkableParts
<1>3. /\ i \in 1..Len(q.fifo) - 1 /\ i \in 1..Len(q.fifo) /\ i + 1 \in 1..Len(q.fifo)
      /\ i < i + 1 /\ i + 1 # i
  BY <1>2 DEF JoinsP, JoinsQ
<1>4. q.fifo[i].e = b.s /\ b.e = q.fifo[i+1].s /\ b.s < b.e
  BY <1>3 DEF JoinsP, JoinsQ, Linkable
<1>5. c \in Blk /\ c.s = q.fifo[i].s /\ c.e = q.fifo[i+1].e /\ c.f = (q.fifo[i].f \/ b.f)
  <2>1. q.fifo[i].s \in Nat /\ q.fifo[i+1].e \in Nat
    BY <1>2, <1>3
  <2>2. (q.fifo[i].f \/ b.f) \in BOOLEAN
    BY <1>2, <1>3
  <2>3. PICK s \in Nat : s = q.fifo[i].s
    BY <2>1
  <2>4. PICK e \in Nat : e = q.fifo[i+1].e
    BY <2>1
  <2>5. PICK fl \in BOOLEAN : fl = (q.fifo[i].f \/ b.f)
    BY <2>2
  <2>6. c = Block(s, e, fl)
    BY <2>3, <2>4, <2>5, Zenon
  <2>7. Block(s, e, fl) \in Blk /\ Block(s, e, fl).s = s
        /\ Block(s, e, fl).e = e /\ Block(s, e, fl).f = fl
    BY BlockIs
  <2> QED BY <2>3, <2>4, <2>5, <2>6, <2>7, Zenon
<1>6. PICK f : f = q.fifo
  OBVIOUS
<1>7. f \in Seq(Blk)
  BY <1>1, <1>6, QueueParts
<1>8. PICK h : h = [f EXCEPT ![i] = c]
  OBVIOUS
<1>9. /\ h \in Seq(Blk) /\ Len(h) = Len(f) /\ h[i] = c
      /\ \A j \in 1..Len(f) : j # i => h[j] = f[j]
  BY <1>3, <1>5, <1>6, <1>7, <1>8
<1>10. Distinct(h)
  <2>1. \A j, k \in 1..Len(f) : j < k => f[j].s < f[k].s
    BY <1>1, <1>6, <1>7, ApartStarts, Zenon
  <2>2. ASSUME NEW j \in 1..Len(h) PROVE h[j].s = f[j].s
    BY <1>5, <1>6, <1>9
  <2>3. \A j, k \in 1..Len(h) : j < k => h[j].s < h[k].s
    BY <2>1, <2>2, <1>9
  <2> QED BY <2>3, <1>9, StartsDistinct
<1>11. PICK p : p = Become(q, i, c)
  OBVIOUS
<1>12. p \in Queues /\ p.fifo = h /\ p.nxt = q.nxt /\ Listing(p.lifo, p.fifo)
  <2>1. h = [q.fifo EXCEPT ![i] = c]
    BY <1>6, <1>8, Zenon
  <2>2. /\ Become(q, i, c) \in Queues /\ Become(q, i, c).fifo = h
        /\ Become(q, i, c).nxt = q.nxt
        /\ Listing(Become(q, i, c).lifo, Become(q, i, c).fifo)
    BY <2>1, <1>1, <1>3, <1>5, <1>10, BecomeIs
  <2> QED BY <2>2, <1>11, Zenon
<1>13. PICK a : a = Advance(p, c)
  OBVIOUS
<1>14. /\ a \in Queues /\ a.fifo = h /\ a.lifo = p.lifo
       /\ a.nxt = Moved(q.nxt, c)
  <2>1. /\ Advance(p, c) \in Queues
        /\ Advance(p, c).fifo = p.fifo /\ Advance(p, c).lifo = p.lifo
        /\ Advance(p, c).nxt = Moved(p.nxt, c)
    BY <1>5, <1>12, AdvanceIs
  <2>2. Moved(p.nxt, c) = Moved(q.nxt, c)
    BY <1>12, Zenon
  <2> QED BY <2>1, <2>2, <1>12, <1>13, Zenon
<1>15. q.fifo[i+1] = a.fifo[i+1] /\ i + 1 \in 1..Len(a.fifo)
  BY <1>3, <1>6, <1>9, <1>14
<1>16. PICK u : u = Unlink(a, q.fifo[i+1])
  OBVIOUS
<1>17. PICK g : g = RemoveAt(h, i + 1)
  OBVIOUS
<1>18. u \in Queues /\ u.fifo = g /\ u.nxt = Moved(q.nxt, c) /\ Listing(u.lifo, u.fifo)
  <2>1. u = Unlink(a, a.fifo[i+1])
    BY <1>15, <1>16, Zenon
  <2>2. PICK k \in 1..Len(a.fifo) : k = i + 1
    BY <1>15
  <2>3. /\ Unlink(a, a.fifo[k]) \in Queues
        /\ Unlink(a, a.fifo[k]).fifo = RemoveAt(a.fifo, k)
        /\ Unlink(a, a.fifo[k]).nxt = a.nxt
        /\ Listing(Unlink(a, a.fifo[k]).lifo, Unlink(a, a.fifo[k]).fifo)
    BY <1>12, <1>14, UnlinkIs, Zenon
  <2> QED BY <2>1, <2>2, <2>3, <1>14, <1>17, Zenon
<1>19. g \in Seq(Blk) /\ Merged(f, i, c, g)
  BY <1>3, <1>5, <1>6, <1>7, <1>8, <1>17, MergedIs, ZenonT(40)
<1>20. Apart(g, top)
  <2>1. Sound(c, top)
    BY <1>2, <1>3, <1>4, <1>5, SMTT(30) DEF Sound
  <2>2. ASSUME NEW k \in 1..Len(g) PROVE Sound(g[k], top)
    BY <2>1, <1>1, <1>6, <1>19 DEF Apart, Merged
  <2>3. ASSUME NEW j \in 1..Len(g), NEW k \in 1..Len(g), j < k PROVE g[j].e < g[k].s
    <3>1. CASE k < i
      <4>1. j < i
        BY <2>3, <3>1, <1>2
      <4> QED BY <2>3, <3>1, <4>1, <1>1, <1>6, <1>19 DEF Apart, Merged
    <3>2. CASE k = i
      <4>1. j < i /\ j \in 1..Len(f) /\ g[j] = f[j]
        BY <2>3, <3>2, <1>2, <1>19 DEF Merged
      <4> QED BY <3>2, <4>1, <1>1, <1>3, <1>5, <1>6, <1>19 DEF Apart, Merged
    <3>3. CASE k > i
      <4>1. k + 1 \in 1..Len(f) /\ k + 1 > i + 1 /\ g[k] = f[k + 1]
        BY <3>3, <1>19 DEF Merged
      <4>2. CASE j < i
        <5>1. j < k + 1
          BY <2>3, <1>2
        <5> QED BY <4>1, <4>2, <5>1, <1>1, <1>6, <1>19 DEF Apart, Merged
      <4>3. CASE j = i
        <5>1. f[i+1].e < f[k + 1].s
          BY <4>1, <1>1, <1>3, <1>6 DEF Apart
        <5> QED BY <4>1, <4>3, <5>1, <1>5, <1>6, <1>19 DEF Merged
      <4>4. CASE j > i
        <5>1. j + 1 < k + 1
          BY <2>3, <1>2
        <5> QED BY <4>1, <4>4, <5>1, <1>1, <1>6, <1>19 DEF Apart, Merged
      <4> QED BY <4>2, <4>3, <4>4, <1>19 DEF Merged
    <3> QED BY <3>1, <3>2, <3>3, <1>19 DEF Merged
  <2> QED BY <2>2, <2>3 DEF Apart
<1>21. ASSUME NEW k \in 1..Len(g)
       PROVE  g[k] = c \/ \E j \in 1..Len(f) : j # i /\ g[k] = f[j]
  <2>1. CASE k < i
    BY <2>1, <1>19 DEF Merged
  <2>2. CASE k = i
    BY <2>2, <1>19 DEF Merged
  <2>3. CASE k > i
    <3>1. k + 1 \in 1..Len(f) /\ k + 1 > i + 1 /\ g[k] = f[k + 1]
      BY <2>3, <1>19 DEF Merged
    <3>2. k + 1 # i
      BY <3>1, <1>2
    <3> QED BY <3>1, <3>2
  <2> QED BY <2>1, <2>2, <2>3, <1>19 DEF Merged
<1>22. c.f => c.e = top
  <2>1. q.fifo[i].f => q.fifo[i].e = top \/ b.e = top
    BY <1>3 DEF Linkable
  <2>2. b.f => b.e = top
    BY DEF Linkable
  <2>3. q.fifo[i].e = top => b.e = top
    BY <1>2, <1>4
  <2>4. b.e = top => c.e = top
    <3>1. /\ q.fifo[i+1].s \in Nat /\ q.fifo[i+1].e \in Nat
          /\ q.fifo[i+1].s <= q.fifo[i+1].e /\ q.fifo[i+1].e <= top
      BY <1>2, <1>3
    <3> QED BY <3>1, <1>2, <1>4, <1>5
  <2> QED BY <2>1, <2>2, <2>3, <2>4, <1>5, Zenon
<1>23. FlagsAtTop(g, top)
  <2>1. ASSUME NEW k \in 1..Len(g) PROVE g[k].f => g[k].e = top
    <3>1. CASE g[k] = c
      BY <3>1, <1>22, Zenon
    <3>2. ASSUME NEW j \in 1..Len(f), j # i, g[k] = f[j] PROVE g[k].f => g[k].e = top
      <4>1. q.fifo[j].f => q.fifo[j].e = top
        BY <3>2, <1>6 DEF Linkable
      <4> QED BY <3>2, <4>1, <1>6, Zenon
    <3> QED BY <1>21, <3>1, <3>2
  <2> QED BY <2>1 DEF FlagsAtTop
<1>24. HasFlag(g) => HasFlag(q.fifo) \/ b.f
  <2>1. ASSUME NEW k \in 1..Len(g), g[k].f PROVE HasFlag(q.fifo) \/ b.f
    <3>1. CASE g[k] = c
      <4>1. q.fifo[i].f \/ b.f
        BY <2>1, <3>1, <1>5, Zenon
      <4> QED BY <4>1, <1>3, Zenon DEF HasFlag
    <3>2. ASSUME NEW j \in 1..Len(f), g[k] = f[j] PROVE HasFlag(q.fifo)
      BY <2>1, <3>2, <1>6, Zenon DEF HasFlag
    <3> QED BY <1>21, <3>1, <3>2
  <2> QED BY <2>1 DEF HasFlag
<1>25. ASSUME NEW y \in Nat
       PROVE  Covers(g, y) <=> Covers(f, y) \/ Within(y, b)
  <2>1. /\ Covers(g, y) <=> \E j \in 1..Len(g) : Within(y, g[j])
        /\ Covers(f, y) <=> \E j \in 1..Len(f) : Within(y, f[j])
    BY DEF Covers, Within
  <2>2. Within(y, c) <=> Within(y, f[i]) \/ Within(y, b) \/ Within(y, f[i+1])
    BY <1>2, <1>3, <1>4, <1>5, <1>6, SMTT(30) DEF Within
  <2>3. ASSUME NEW k \in 1..Len(g), Within(y, g[k])
        PROVE  Covers(f, y) \/ Within(y, b)
    <3>1. CASE g[k] = c
      BY <2>1, <2>2, <2>3, <3>1, <1>3, <1>6
    <3> QED BY <2>1, <2>3, <3>1, <1>21
  <2>4. ASSUME NEW j \in 1..Len(f), Within(y, f[j]) PROVE Covers(g, y)
    <3>1. CASE j = i \/ j = i + 1
      BY <2>1, <2>2, <2>4, <3>1, <1>19 DEF Merged
    <3>2. CASE j < i \/ j > i + 1
      BY <2>1, <2>4, <3>2, <1>19 DEF Merged
    <3> QED BY <3>1, <3>2, <1>19 DEF Merged
  <2>5. Within(y, b) => Covers(g, y)
    BY <2>1, <2>2, <1>19 DEF Merged
  <2> QED BY <2>1, <2>3, <2>4, <2>5
<1>26. Extends(q, u, b, top)
  BY <1>6, <1>18, <1>20, <1>23, <1>24, <1>25 DEF Extends, Good
<1>27. Holds(c, b)
  BY <1>2, <1>3, <1>4, <1>5 DEF Holds
<1>28. PICK r : r = [Stretch(q, i, c) EXCEPT !.queue = Unlink(@, q.fifo[i+1])]
  OBVIOUS
<1>29. r.queue = u /\ r.flag = c.f
  <2>1. Stretch(q, i, c) = [queue |-> a, flag |-> c.f]
    BY <1>11, <1>13, Zenon DEF Stretch, Result
  <2>2. PICK v : v = Unlink(a, q.fifo[i+1])
    OBVIOUS
  <2>3. PICK w : w = Stretch(q, i, c)
    OBVIOUS
  <2>4. w = [queue |-> a, flag |-> c.f]
    BY <2>1, <2>3
  <2>5. r = [w EXCEPT !.queue = Unlink(w.queue, q.fifo[i+1])]
    BY <1>28, <2>3, Zenon
  <2>6. w.queue = a
    BY <2>4
  <2>7. r = [w EXCEPT !.queue = v]
    BY <2>2, <2>5, <2>6, Zenon
  <2>8. r.queue = v /\ r.flag = c.f
    BY <2>4, <2>7
  <2> QED BY <2>2, <2>8, <1>16
<1>30. /\ i \in 1..Len(r.queue.fifo) /\ r.queue.fifo[i] = c
       /\ r.queue.nxt = Moved(q.nxt, r.queue.fifo[i]) /\ (r.flag => r.queue.fifo[i].f)
  <2>1. i \in 1..Len(g) /\ g[i] = c
    BY <1>19 DEF Merged
  <2> QED BY <2>1, <1>18, <1>29, Zenon
<1>31. Grows(q, r, b, top)
  BY <1>26, <1>27, <1>29, <1>30, Zenon DEF Grows
<1> QED BY <1>28, <1>31

\* A typed Block(...), spelled out
LEMMA BlockMade ==
  ASSUME NEW s, s \in Nat, NEW e, e \in Nat, NEW f, f \in BOOLEAN, NEW c, c = Block(s, e, f)
  PROVE  c \in Blk /\ c.s = s /\ c.e = e /\ c.f = f
<1>1. /\ Block(s, e, f) \in Blk /\ Block(s, e, f).s = s
      /\ Block(s, e, f).e = e /\ Block(s, e, f).f = f
  BY BlockIs
<1> QED BY <1>1, Zenon

\* The block before is stretched to the end of b
LEMMA LinkedBefore ==
  ASSUME NEW top \in Nat, NEW q, Good(q, top), NEW i, NEW b, Linkable(q, i, b, top),
         JoinsP(q, i, b), ~JoinsQ(q, i, b), NEW c,
         c = Block(q.fifo[i].s, b.e, q.fifo[i].f \/ b.f)
  PROVE  Grows(q, Stretch(q, i, c), b, top)
<1>1. q \in Queues /\ Apart(q.fifo, top)
  BY DEF Good
<1>2. /\ i \in 0..Len(q.fifo) /\ i \in Nat /\ Len(q.fifo) \in Nat
      /\ b \in Blk /\ b.s \in Nat /\ b.e \in Nat /\ b.f \in BOOLEAN
      /\ b.s <= b.e /\ b.e <= top
      /\ \A j \in 1..Len(q.fifo) :
              /\ q.fifo[j] \in Blk
              /\ q.fifo[j].s \in Nat /\ q.fifo[j].e \in Nat /\ q.fifo[j].f \in BOOLEAN
              /\ q.fifo[j].s <= q.fifo[j].e /\ q.fifo[j].e <= top
      /\ \A j \in 1..Len(q.fifo) : i < j => b.e < q.fifo[j].s
  BY LinkableParts
<1>3. i \in 1..Len(q.fifo) /\ q.fifo[i].e = b.s
  BY <1>2 DEF JoinsP
<1>4. /\ q.fifo[i] \in Blk /\ q.fifo[i].s \in Nat /\ q.fifo[i].e \in Nat
      /\ q.fifo[i].f \in BOOLEAN /\ q.fifo[i].s <= q.fifo[i].e /\ q.fifo[i].e <= top
  BY <1>2, <1>3, Zenon
<1>5. c \in Blk /\ c.s = q.fifo[i].s /\ c.e = b.e /\ c.f = (q.fifo[i].f \/ b.f)
  <2>1. (q.fifo[i].f \/ b.f) \in BOOLEAN
    BY <1>2, <1>4
  <2> QED BY <2>1, <1>2, <1>4, BlockMade
<1>6. Sound(c, top)
  <2>1. Sound(b, top)
    BY DEF Linkable
  <2> QED BY <2>1, <1>2, <1>3, <1>4, <1>5 DEF Sound
<1>7. \A j \in 1..Len(q.fifo) : j < i => q.fifo[j].e < c.s
  BY <1>1, <1>3, <1>5 DEF Apart
<1>8. \A j \in 1..Len(q.fifo) : i < j => c.e < q.fifo[j].s
  BY <1>2, <1>5
<1>9. \A j \in 1..Len(q.fifo) : j # i /\ q.fifo[j].f => q.fifo[j].e = top
  BY Zenon DEF Linkable
<1>10. c.f => c.e = top
  <2>1. q.fifo[i].f => q.fifo[i].e = top \/ b.e = top
    BY <1>3, Zenon DEF Linkable
  <2>2. b.f => b.e = top
    BY DEF Linkable
  <2>3. q.fifo[i].e = top => b.e = top
    BY <1>2, <1>3
  <2> QED BY <2>1, <2>2, <2>3, <1>5, Zenon
<1>11. Holds(c, q.fifo[i]) /\ Holds(c, b)
  BY <1>2, <1>3, <1>4, <1>5 DEF Holds
<1>12. \A y \in Nat : Within(y, c) => Within(y, q.fifo[i]) \/ Within(y, b)
  BY <1>2, <1>3, <1>4, <1>5 DEF Within
<1>13. c.f => q.fifo[i].f \/ b.f
  BY <1>5, Zenon
<1>14. PICK u : u = Become(q, i, c)
  OBVIOUS
<1>18. Widening(q, i, b, c, top)
  BY <1>2, <1>3, <1>5, <1>6, <1>7, <1>8, <1>9, <1>10, <1>11, <1>12, <1>13, Zenon DEF Widening
<1>15. Extends(q, u, b, top) /\ InPlace(q, u, i, c)
  BY <1>14, <1>18, Widened, Zenon
<1>16. i \in 1..Len(u.fifo) /\ u.fifo[i] = c /\ u.nxt = q.nxt
  BY <1>15 DEF InPlace
<1>17. Grows(q, Result(Advance(u, c), c.f), b, top)
  BY <1>5, <1>11, <1>15, <1>16, Concluded
<1> QED BY <1>14, <1>17, Zenon DEF Stretch

\* The block after is stretched back to the start of b
LEMMA LinkedAfter ==
  ASSUME NEW top \in Nat, NEW q, Good(q, top), NEW i, NEW b, Linkable(q, i, b, top),
         ~JoinsP(q, i, b), JoinsQ(q, i, b), NEW c,
         c = Block(b.s, q.fifo[i+1].e, q.fifo[i+1].f \/ b.f)
  PROVE  Grows(q, Stretch(q, i + 1, c), b, top)
<1>1. q \in Queues /\ Apart(q.fifo, top)
  BY DEF Good
<1>2. /\ i \in 0..Len(q.fifo) /\ i \in Nat /\ Len(q.fifo) \in Nat
      /\ b \in Blk /\ b.s \in Nat /\ b.e \in Nat /\ b.f \in BOOLEAN
      /\ b.s <= b.e /\ b.e <= top
      /\ \A j \in 1..Len(q.fifo) :
              /\ q.fifo[j] \in Blk
              /\ q.fifo[j].s \in Nat /\ q.fifo[j].e \in Nat /\ q.fifo[j].f \in BOOLEAN
              /\ q.fifo[j].s <= q.fifo[j].e /\ q.fifo[j].e <= top
      /\ \A j \in 1..Len(q.fifo) : j <= i => q.fifo[j].e < b.s
  BY LinkableParts
<1>3. PICK k \in 1..Len(q.fifo) : k = i + 1
  BY <1>2 DEF JoinsQ
<1>4. /\ q.fifo[k] \in Blk /\ q.fifo[k].s \in Nat /\ q.fifo[k].e \in Nat
      /\ q.fifo[k].f \in BOOLEAN /\ q.fifo[k].s <= q.fifo[k].e /\ q.fifo[k].e <= top
      /\ q.fifo[k].s = b.e
  <2>1. q.fifo[k].s = b.e
    BY <1>3, Zenon DEF JoinsQ
  <2> QED BY <2>1, <1>2, <1>3, Zenon
<1>5. c \in Blk /\ c.s = b.s /\ c.e = q.fifo[k].e /\ c.f = (q.fifo[k].f \/ b.f)
  <2>1. (q.fifo[k].f \/ b.f) \in BOOLEAN
    BY <1>2, <1>4
  <2>2. c = Block(b.s, q.fifo[k].e, q.fifo[k].f \/ b.f)
    BY <1>3, Zenon
  <2> QED BY <2>1, <2>2, <1>2, <1>4, BlockMade
<1>6. Sound(c, top)
  <2>1. Sound(b, top)
    BY DEF Linkable
  <2> QED BY <2>1, <1>2, <1>4, <1>5 DEF Sound
<1>7. \A j \in 1..Len(q.fifo) : j < k => q.fifo[j].e < c.s
  BY <1>2, <1>3, <1>5
<1>8. \A j \in 1..Len(q.fifo) : k < j => c.e < q.fifo[j].s
  BY <1>1, <1>5 DEF Apart
<1>9. \A j \in 1..Len(q.fifo) : q.fifo[j].f => q.fifo[j].e = top
  BY <1>2, <1>3 DEF Linkable, JoinsP
<1>10. c.f => c.e = top
  <2>1. q.fifo[k].f => q.fifo[k].e = top
    BY <1>9, Zenon
  <2>2. b.f => b.e = top
    BY DEF Linkable
  <2>3. b.e = top => q.fifo[k].e = top
    BY <1>2, <1>4
  <2> QED BY <2>1, <2>2, <2>3, <1>5, Zenon
<1>11. Holds(c, q.fifo[k]) /\ Holds(c, b)
  BY <1>2, <1>4, <1>5 DEF Holds
<1>12. \A y \in Nat : Within(y, c) => Within(y, q.fifo[k]) \/ Within(y, b)
  BY <1>2, <1>4, <1>5 DEF Within
<1>13. c.f => q.fifo[k].f \/ b.f
  BY <1>5, Zenon
<1>14. PICK u : u = Become(q, k, c)
  OBVIOUS
<1>18. Widening(q, k, b, c, top)
  BY <1>2, <1>3, <1>5, <1>6, <1>7, <1>8, <1>9, <1>10, <1>11, <1>12, <1>13, Zenon DEF Widening
<1>15. Extends(q, u, b, top) /\ InPlace(q, u, k, c)
  BY <1>14, <1>18, Widened, Zenon
<1>16. k \in 1..Len(u.fifo) /\ u.fifo[k] = c /\ u.nxt = q.nxt
  BY <1>15 DEF InPlace
<1>17. Grows(q, Result(Advance(u, c), c.f), b, top)
  BY <1>5, <1>11, <1>15, <1>16, Concluded
<1>19. Stretch(q, i + 1, c) = Result(Advance(u, c), c.f)
  BY <1>3, <1>14, Zenon DEF Stretch
<1> QED BY <1>17, <1>19, Zenon

\* Link adds b, whatever it touches
LEMMA Linked ==
  ASSUME NEW top \in Nat, NEW q, Good(q, top), NEW i, NEW b, Linkable(q, i, b, top)
  PROVE  Grows(q, Link(q, i, b), b, top)
<1>1. CASE JoinsP(q, i, b) /\ JoinsQ(q, i, b)
  <2>1. PICK c : c = Block(q.fifo[i].s, q.fifo[i+1].e, q.fifo[i].f \/ b.f)
    OBVIOUS
  <2>2. PICK r : r = [Stretch(q, i, c) EXCEPT !.queue = Unlink(@, q.fifo[i+1])]
    OBVIOUS
  <2>3. Grows(q, r, b, top)
    BY <1>1, <2>1, <2>2, LinkedBoth
  <2>4. Link(q, i, b) = [Stretch(q, i, Block(q.fifo[i].s, q.fifo[i+1].e, q.fifo[i].f \/ b.f))
              EXCEPT !.queue = Unlink(@, q.fifo[i+1])]
    BY <1>1 DEF Link, JoinsP, JoinsQ
  <2>5. Link(q, i, b) = r
    BY <2>1, <2>2, <2>4, Zenon
  <2> QED BY <2>3, <2>5
<1>2. CASE JoinsP(q, i, b) /\ ~JoinsQ(q, i, b)
  <2>1. PICK c : c = Block(q.fifo[i].s, b.e, q.fifo[i].f \/ b.f)
    OBVIOUS
  <2>2. Grows(q, Stretch(q, i, c), b, top)
    BY <1>2, <2>1, LinkedBefore
  <2>3. Link(q, i, b) = Stretch(q, i, c)
    BY <1>2, <2>1, Zenon DEF Link, JoinsP, JoinsQ
  <2> QED BY <2>2, <2>3
<1>3. CASE ~JoinsP(q, i, b) /\ JoinsQ(q, i, b)
  <2>1. PICK c : c = Block(b.s, q.fifo[i+1].e, q.fifo[i+1].f \/ b.f)
    OBVIOUS
  <2>2. Grows(q, Stretch(q, i + 1, c), b, top)
    BY <1>3, <2>1, LinkedAfter
  <2>3. Link(q, i, b) = Stretch(q, i + 1, c)
    BY <1>3, <2>1, Zenon DEF Link, JoinsP, JoinsQ
  <2> QED BY <2>2, <2>3
<1>4. CASE ~JoinsP(q, i, b) /\ ~JoinsQ(q, i, b)
  <2>1. /\ i \in 0..Len(q.fifo) /\ i \in Nat /\ b \in Blk
        /\ \A j \in 1..Len(q.fifo) : j <= i => q.fifo[j].e < b.s
        /\ \A j \in 1..Len(q.fifo) : i < j => b.e < q.fifo[j].s
    BY <1>4, LinkableParts
  <2>2. Sound(b, top) /\ (b.f => b.e = top)
    BY DEF Linkable
  <2>3. FlagsAtTop(q.fifo, top)
    BY <1>4, <2>1 DEF Linkable, JoinsP, FlagsAtTop
  <2>4. PICK r : r = Result(Advance([q EXCEPT !.fifo = InsertAt(q.fifo, i + 1, b),
                                              !.lifo = Cons(b, q.lifo)], b), b.f)
    OBVIOUS
  <2>5. Grows(q, r, b, top)
    BY <2>1, <2>2, <2>3, <2>4, LinkedAlone
  <2>6. Link(q, i, b) = Result(Advance([q EXCEPT !.fifo = InsertAt(q.fifo, i + 1, b),
                                              !.lifo = Cons(b, q.lifo)], b), b.f)
    BY <1>4, Zenon DEF Link, JoinsP, JoinsQ
  <2> QED BY <2>4, <2>5, <2>6, Zenon
<1> QED BY <1>1, <1>2, <1>3, <1>4

\* b can be added to q
Addable(q, b, top) ==
  /\ Good(q, top) /\ FlagsAtTop(q.fifo, top)
  /\ b \in Blk /\ Sound(b, top) /\ (b.f => b.e = top)

\* and covers no block of it (a FIN by itself after its end it may)
Uncovered(q, b) ==
  \A j \in 1..Len(q.fifo) :
    ~(b.s <= q.fifo[j].s /\ q.fifo[j].s < b.e /\ q.fifo[j].e <= b.e)

LEMMA AddableParts ==
  ASSUME NEW top \in Nat, NEW q, NEW b, Addable(q, b, top)
  PROVE  /\ q \in Queues /\ q.fifo \in Seq(Blk) /\ q.nxt \in Nat /\ Len(q.fifo) \in Nat
         /\ b \in Blk /\ b.s \in Nat /\ b.e \in Nat /\ b.f \in BOOLEAN
         /\ b.s <= b.e /\ b.e <= top /\ (b.s = b.e => b.s = top)
         /\ \A j \in 1..Len(q.fifo) :
              /\ q.fifo[j] \in Blk
              /\ q.fifo[j].s \in Nat /\ q.fifo[j].e \in Nat /\ q.fifo[j].f \in BOOLEAN
              /\ q.fifo[j].s <= q.fifo[j].e /\ q.fifo[j].e <= top
              /\ q.fifo[j].s = q.fifo[j].e => q.fifo[j].s = top
         /\ \A j, k \in 1..Len(q.fifo) : j < k => q.fifo[j].e < q.fifo[k].s
<1>1. q \in Queues /\ Apart(q.fifo, top) /\ b \in Blk /\ Sound(b, top)
  BY DEF Addable, Good
<1>2. /\ q.fifo \in Seq(Blk) /\ q.nxt \in Nat /\ Len(q.fifo) \in Nat
      /\ \A j \in 1..Len(q.fifo) : /\ q.fifo[j] \in Blk
              /\ q.fifo[j].s \in Nat /\ q.fifo[j].e \in Nat /\ q.fifo[j].f \in BOOLEAN
  BY <1>1, QueueParts, Zenon
<1>3. b.s \in Nat /\ b.e \in Nat /\ b.f \in BOOLEAN
  BY <1>1, BlkParts
<1>4. b.s <= b.e /\ b.e <= top /\ (b.s = b.e => b.s = top)
  BY <1>1 DEF Sound
<1>5. \A j \in 1..Len(q.fifo) : q.fifo[j].s <= q.fifo[j].e /\ q.fifo[j].e <= top
              /\ (q.fifo[j].s = q.fifo[j].e => q.fifo[j].s = top)
  BY <1>1 DEF Apart, Sound
<1>6. \A j, k \in 1..Len(q.fifo) : j < k => q.fifo[j].e < q.fifo[k].s
  BY <1>1 DEF Apart
<1> QED BY <1>1, <1>2, <1>3, <1>4, <1>5, <1>6

\* A block that holds a part of b holds all of it once all of b is covered
LEMMA HoldsAll ==
  ASSUME NEW top \in Nat, NEW g \in Seq(Blk), Apart(g, top), NEW m \in 1..Len(g),
         NEW b \in Blk, NEW c \in Blk, Holds(g[m], c),
         b.s <= c.s, c.s <= c.e, c.e <= b.e,
         \A y \in Nat : Within(y, b) => Covers(g, y)
  PROVE  Holds(g[m], b)
<1>1. b.s \in Nat /\ b.e \in Nat /\ c.s \in Nat /\ c.e \in Nat
  BY BlkParts
<1>2. \A j \in 1..Len(g) : g[j].s \in Nat /\ g[j].e \in Nat
  BY BlocksAre
<1>3. \A j \in 1..Len(g) : g[j].s <= g[j].e
  BY DEF Apart, Sound
<1>4. g[m].s <= c.s /\ c.e <= g[m].e
  BY DEF Holds
<1>5. ASSUME g[m].e < b.e PROVE FALSE
  <2>1. g[m].e \in Nat /\ Within(g[m].e, b)
    BY <1>1, <1>2, <1>4, <1>5 DEF Within
  <2>2. PICK j \in 1..Len(g) : g[j].s <= g[m].e /\ g[m].e < g[j].e
    BY <2>1 DEF Covers
  <2>3. j < m => g[j].e < g[m].s
    BY DEF Apart
  <2>4. m < j => g[m].e < g[j].s
    BY DEF Apart
  <2>5. j # m
    BY <2>2, <1>2
  <2> QED BY <2>2, <2>3, <2>4, <2>5, <1>2, <1>3
<1>6. ASSUME b.s < g[m].s PROVE FALSE
  <2>1. PICK y \in Nat : y = g[m].s - 1
    BY <1>1, <1>2, <1>6
  <2>2. Within(y, b)
    BY <2>1, <1>1, <1>2, <1>4, <1>6 DEF Within
  <2>3. PICK j \in 1..Len(g) : g[j].s <= y /\ y < g[j].e
    BY <2>2 DEF Covers
  <2>4. j < m => g[j].e < g[m].s
    BY DEF Apart
  <2>5. m < j => g[m].e < g[j].s
    BY DEF Apart
  <2>6. j # m
    BY <2>1, <2>3, <1>2
  <2> QED BY <2>1, <2>3, <2>4, <2>5, <2>6, <1>2, <1>3
<1> QED BY <1>1, <1>2, <1>5, <1>6 DEF Holds

\* Adding b to q is adding c to p, when p and c hold together what q and b hold
Shared(q, b, p, c) ==
  /\ b \in Blk /\ c \in Blk /\ p.nxt = q.nxt
  /\ b.s <= c.s /\ c.s <= c.e /\ c.e <= b.e
  /\ \A y \in Nat : Covers(p.fifo, y) \/ Within(y, c) <=> Covers(q.fifo, y) \/ Within(y, b)
  /\ HasFlag(p.fifo) \/ c.f => HasFlag(q.fifo) \/ b.f

LEMMA Transferred ==
  ASSUME NEW top \in Nat, NEW q, NEW b, NEW p, NEW c, Shared(q, b, p, c),
         NEW r, Grows(p, r, c, top)
  PROVE  Grows(q, r, b, top)
<1>1. Extends(p, r.queue, c, top)
  BY DEF Grows
<1>2. Extends(q, r.queue, b, top)
  BY <1>1, Zenon DEF Extends, Shared
<1>3. PICK g : g = r.queue.fifo
  OBVIOUS
<1>4. r.queue \in Queues /\ Apart(g, top)
  BY <1>1, <1>3 DEF Extends, Good
<1>5. g \in Seq(Blk)
  BY <1>3, <1>4, QueueParts
<1>6. \A y \in Nat : Within(y, b) => Covers(g, y)
  BY <1>2, <1>3 DEF Extends
<1>7. ASSUME NEW m \in 1..Len(g), Holds(g[m], c) PROVE Holds(g[m], b)
  <2>1. b \in Blk /\ c \in Blk /\ b.s <= c.s /\ c.s <= c.e /\ c.e <= b.e
    BY DEF Shared
  <2> QED BY <2>1, <1>4, <1>5, <1>6, <1>7, HoldsAll
<1>8. p.nxt = q.nxt
  BY DEF Shared
<1>9. \E m \in 1..Len(g) : Holds(g[m], c) /\ (r.flag => g[m].f)
  BY <1>3, Zenon DEF Grows
<1>10. \E k \in 1..Len(g) : (k = 1 \/ Holds(g[k], c)) /\ r.queue.nxt = Moved(p.nxt, g[k])
  BY <1>3, Zenon DEF Grows
<1>11. \E m \in 1..Len(g) : Holds(g[m], b) /\ (r.flag => g[m].f)
  BY <1>7, <1>9, Zenon
<1>12. \E k \in 1..Len(g) : (k = 1 \/ Holds(g[k], b)) /\ r.queue.nxt = Moved(q.nxt, g[k])
  BY <1>7, <1>8, <1>10, Zenon
<1> QED BY <1>2, <1>3, <1>11, <1>12, Zenon DEF Grows

\* Fill when the i-th block has taken in all of b
LEMMA FilledInPlace ==
  ASSUME NEW top \in Nat, NEW q, Good(q, top), NEW b, NEW i, NEW c,
         Widening(q, i, b, c, top), b.f => c.f,
         NEW u, u = Become(q, i, c), NEW d, d.f = b.f, d.e <= d.s
  PROVE  Grows(q, Fill(u, i, d), b, top)
<1>1. Extends(q, u, b, top) /\ InPlace(q, u, i, c)
  BY Widened
<1>2. u.nxt = q.nxt /\ i \in 1..Len(u.fifo) /\ u.fifo[i] = c
  BY <1>1 DEF InPlace
<1>3. Holds(c, b) /\ b \in Blk
  BY DEF Widening
<1>4. u \in Queues
  BY <1>1 DEF Extends, Good
<1>5. 1 \in 1..Len(u.fifo)
  <2>1. Len(u.fifo) \in Nat
    BY <1>4, QueueParts
  <2> QED BY <2>1, <1>2
<1>6. PICK a : a = Block(u.fifo[1].s, u.fifo[1].e, b.f)
  OBVIOUS
<1>7. a \in Blk /\ a.s = u.fifo[1].s /\ a.e = u.fifo[1].e
  <2>1. u.fifo[1].s \in Nat /\ u.fifo[1].e \in Nat
    BY <1>4, <1>5, QueueParts
  <2>2. b.f \in BOOLEAN
    BY <1>3, BlkParts
  <2> QED BY <2>1, <2>2, <1>6, BlockMade
<1>8. PICK v : v = Result(Advance(u, a), b.f)
  OBVIOUS
<1>9. Grows(q, v, b, top)
  BY <1>1, <1>2, <1>3, <1>5, <1>7, <1>8, Concluded
<1>10. Fill(u, i, d) = v
  BY <1>6, <1>8 DEF Fill
<1> QED BY <1>9, <1>10

\* r is the last block that starts before the end of b, the one at place last
Reaches(q, b, last, r) == last = After(q.fifo, b.e) - 1 /\ r = q.fifo[last]

LEMMA MergeRightEnds ==
  ASSUME NEW q, NEW i, NEW b, NEW last, NEW r, Reaches(q, b, last, r),
         last = Len(q.fifo) \/ r.e > b.e
  PROVE  MergeRight(q, i, b) =
           Fill(Become(q, last, Block(r.s, Greater(r.e, b.e), r.f \/ b.f)), i,
                Block(b.s, r.s, b.f))
  BY Zenon DEF MergeRight, Reaches

LEMMA MergeRightFills ==
  ASSUME NEW q, NEW i, NEW b, NEW last, NEW r, Reaches(q, b, last, r),
         ~(last = Len(q.fifo) \/ r.e > b.e)
  PROVE  MergeRight(q, i, b) = Fill(q, i, b)
  BY Zenon DEF MergeRight, Reaches

\* The number of blocks that start before "end"
LEMMA LastIs ==
  ASSUME NEW f \in Seq(Blk), NEW end \in Nat, NEW k \in 0..Len(f),
         \A j \in 1..Len(f) : j <= k => f[j].s < end,
         \A j \in 1..Len(f) : j > k => f[j].s >= end
  PROVE  After(f, end) - 1 = k
<1>1. Len(f) \in Nat /\ \A j \in 1..Len(f) : f[j].s \in Nat
  BY BlocksAre
<1>2. PICK a : a = After(f, end)
  OBVIOUS
<1>3. /\ a \in 1..Len(f) + 1
      /\ \A j \in 1..Len(f) : j < a => f[j].s < end
      /\ a <= Len(f) => f[a].s >= end
  BY <1>2, AfterIs
<1>4. ~(a <= k)
  BY <1>1, <1>3
<1>5. ~(a > k + 1)
  <2>1. SUFFICES ASSUME a > k + 1 PROVE FALSE
    OBVIOUS
  <2>2. k + 1 \in 1..Len(f) /\ k + 1 < a /\ k + 1 > k
    BY <2>1, <1>1, <1>3
  <2>3. f[k + 1].s < end /\ f[k + 1].s >= end /\ f[k + 1].s \in Nat
    BY <2>2, <1>1, <1>3
  <2> QED BY <2>3
<1> QED BY <1>1, <1>2, <1>3, <1>4, <1>5

\* b covers no block of q and ends inside or starts inside the i-th, the first
\* that ends after its start
Meeting(q, b, i, top) ==
  /\ Addable(q, b, top) /\ Uncovered(q, b)
  /\ i = Before(q.fifo, b.s) + 1 /\ i \in 1..Len(q.fifo)
  /\ b.s < q.fifo[i].e
  /\ \A j \in 1..Len(q.fifo) : j < i => q.fifo[j].e <= b.s

\* Merge stretches the i-th block to the left
ToLeft(q, b, i, top) ==
  /\ Meeting(q, b, i, top)
  /\ i = 1 \/ q.fifo[i].s < b.s
  /\ q.fifo[i].s < b.e

LEMMA Meets ==
  ASSUME NEW top \in Nat, NEW q, NEW b, Addable(q, b, top), Uncovered(q, b),
         Len(q.fifo) > 0, b.s < q.fifo[Len(q.fifo)].e
  PROVE  \E i \in 1..Len(q.fifo) : Meeting(q, b, i, top)
<1>1. /\ q.fifo \in Seq(Blk) /\ Len(q.fifo) \in Nat /\ b.s \in Nat
      /\ \A j \in 1..Len(q.fifo) : q.fifo[j].s \in Nat /\ q.fifo[j].e \in Nat
      /\ \A j, k \in 1..Len(q.fifo) : j < k => q.fifo[j].e < q.fifo[k].s
      /\ \A j \in 1..Len(q.fifo) : q.fifo[j].s <= q.fifo[j].e
  BY AddableParts
<1>2. PICK k : k = Before(q.fifo, b.s)
  OBVIOUS
<1>3. /\ k \in 0..Len(q.fifo)
      /\ \A j \in 1..Len(q.fifo) : j > k => q.fifo[j].e > b.s
      /\ k > 0 => q.fifo[k].e <= b.s
  BY <1>1, <1>2, BeforeIs
<1>4. PICK i : i = k + 1
  OBVIOUS
<1>5. k # Len(q.fifo)
  BY <1>1, <1>3
<1>6. i \in 1..Len(q.fifo) /\ i > k
  BY <1>1, <1>3, <1>4, <1>5
<1>7. ASSUME NEW j \in 1..Len(q.fifo), j < i PROVE q.fifo[j].e <= b.s
  <2>1. k \in 1..Len(q.fifo) /\ k > 0 /\ (j < k \/ j = k)
    BY <1>1, <1>3, <1>4, <1>7
  <2>2. CASE j < k
    <3>1. /\ q.fifo[j].e < q.fifo[k].s /\ q.fifo[k].s <= q.fifo[k].e /\ q.fifo[k].e <= b.s
          /\ q.fifo[k].s \in Nat /\ q.fifo[k].e \in Nat /\ q.fifo[j].e \in Nat
      BY <2>1, <2>2, <1>1, <1>3
    <3> QED BY <3>1, <1>1
  <2>3. CASE j = k
    BY <2>1, <2>3, <1>3
  <2> QED BY <2>1, <2>2, <2>3
<1>8. b.s < q.fifo[i].e
  <2>1. q.fifo[i].e > b.s
    BY <1>3, <1>6
  <2> QED BY <2>1, <1>1, <1>6
<1>9. i = Before(q.fifo, b.s) + 1
  BY <1>2, <1>4
<1> QED BY <1>6, <1>7, <1>8, <1>9, Zenon DEF Meeting

\* The values a comparison picks
LEMMA LesserIs ==
  ASSUME NEW a \in Nat, NEW b \in Nat
  PROVE  /\ Lesser(a, b) \in Nat /\ Lesser(a, b) <= a /\ Lesser(a, b) <= b
         /\ a < b => Lesser(a, b) = a
         /\ b <= a => Lesser(a, b) = b
  BY DEF Lesser

\* The i-th block stretched to the left
Leftward(q, b, i, c, p) ==
  /\ c = Block(Lesser(q.fifo[i].s, b.s), q.fifo[i].e, q.fifo[i].f \/ b.f)
  /\ p = Become(q, i, c)

LEMMA LeftBlock ==
  ASSUME NEW top \in Nat, NEW q, NEW b, NEW i, ToLeft(q, b, i, top),
         NEW c, NEW p, Leftward(q, b, i, c, p)
  PROVE  /\ c \in Blk /\ c.s = Lesser(q.fifo[i].s, b.s) /\ c.e = q.fifo[i].e
         /\ c.f = (q.fifo[i].f \/ b.f)
         /\ c.s <= b.s /\ c.s <= q.fifo[i].s /\ c.s < c.e /\ c.s < b.e
         /\ Good(p, top) /\ InPlace(q, p, i, c)
         /\ \A j \in 1..Len(q.fifo) : j < i => q.fifo[j].e < c.s
<1>1. /\ q.fifo \in Seq(Blk) /\ Len(q.fifo) \in Nat
      /\ b.s \in Nat /\ b.e \in Nat /\ b.f \in BOOLEAN /\ b.s <= b.e
      /\ \A j \in 1..Len(q.fifo) :
              /\ q.fifo[j].s \in Nat /\ q.fifo[j].e \in Nat /\ q.fifo[j].f \in BOOLEAN
              /\ q.fifo[j].s <= q.fifo[j].e /\ q.fifo[j].e <= top
      /\ \A j, k \in 1..Len(q.fifo) : j < k => q.fifo[j].e < q.fifo[k].s
  <2>1. Addable(q, b, top)
    BY DEF ToLeft, Meeting
  <2> QED BY <2>1, AddableParts
<1>2. /\ i \in 1..Len(q.fifo) /\ b.s < q.fifo[i].e /\ q.fifo[i].s < b.e
      /\ i = 1 \/ q.fifo[i].s < b.s
  BY DEF ToLeft, Meeting
<1>3. /\ q.fifo[i].s \in Nat /\ q.fifo[i].e \in Nat /\ q.fifo[i].f \in BOOLEAN
      /\ q.fifo[i].s <= q.fifo[i].e /\ q.fifo[i].e <= top
  BY <1>1, <1>2, Zenon
<1>4. PICK lo : lo = Lesser(q.fifo[i].s, b.s)
  OBVIOUS
<1>5. /\ lo \in Nat /\ lo <= q.fifo[i].s /\ lo <= b.s
      /\ q.fifo[i].s < b.s => lo = q.fifo[i].s
  BY <1>1, <1>3, <1>4, LesserIs
<1>6. c \in Blk /\ c.s = lo /\ c.e = q.fifo[i].e /\ c.f = (q.fifo[i].f \/ b.f)
  <2>1. (q.fifo[i].f \/ b.f) \in BOOLEAN
    BY <1>1, <1>3
  <2>2. PICK fl : fl = (q.fifo[i].f \/ b.f)
    OBVIOUS
  <2>3. fl \in BOOLEAN
    BY <2>1, <2>2, Zenon
  <2>4. PICK e : e = q.fifo[i].e
    OBVIOUS
  <2>5. e \in Nat /\ c = Block(lo, e, fl)
    BY <1>3, <1>4, <2>2, <2>4, Zenon DEF Leftward
  <2>6. /\ Block(lo, e, fl) \in Blk /\ Block(lo, e, fl).s = lo
        /\ Block(lo, e, fl).e = e /\ Block(lo, e, fl).f = fl
    BY <1>5, <2>3, <2>5, BlockIs
  <2> QED BY <2>2, <2>4, <2>5, <2>6, Zenon
<1>7. c.s < c.e /\ c.s < b.e
  BY <1>1, <1>2, <1>3, <1>5, <1>6
<1>8. \A j \in 1..Len(q.fifo) : j < i => q.fifo[j].e < c.s
  <2>1. CASE i = 1
    BY <2>1, <1>1
  <2>2. CASE q.fifo[i].s < b.s
    BY <2>2, <1>1, <1>2, <1>5, <1>6
  <2> QED BY <2>1, <2>2, <1>2
<1>9. \A j \in 1..Len(q.fifo) : i < j => c.e < q.fifo[j].s
  BY <1>1, <1>2, <1>6
<1>10. Sound(c, top)
  BY <1>3, <1>5, <1>6, <1>7 DEF Sound
<1>11. Good(q, top)
  BY DEF ToLeft, Meeting, Addable
<1>12. Good(p, top) /\ p.fifo = [q.fifo EXCEPT ![i] = c] /\ p.nxt = q.nxt
  <2>1. p = Become(q, i, c)
    BY DEF Leftward
  <2> QED BY <2>1, <1>2, <1>6, <1>8, <1>9, <1>10, <1>11, BecomeGood
<1>13. InPlace(q, p, i, c)
  BY <1>1, <1>2, <1>12 DEF InPlace
<1> QED BY <1>4, <1>5, <1>6, <1>7, <1>8, <1>12, <1>13

\* a is the place of the first element of g from "end" on, g being f but for its i-th
ChangedAt(n, i, f, g, c, end, a, k) ==
  /\ n \in Nat /\ i \in 1..n /\ end \in Nat /\ a \in 1..n + 1
  /\ g[i] = c /\ c.s \in Nat /\ c.s < end
  /\ \A j \in 1..n : j # i => g[j] = f[j]
  /\ \A j \in 1..n : j < i => f[j].e < c.s
  /\ \A j \in 1..n : f[j].s \in Nat /\ f[j].e \in Nat /\ f[j].s <= f[j].e
  /\ \A j, k1 \in 1..n : j < k1 => f[j].e < f[k1].s
  /\ \A j \in 1..n : j < a => g[j].s < end
  /\ a <= n => g[a].s >= end
  /\ k = a - 1

LEMMA ChangedLast ==
  ASSUME NEW n, NEW i, NEW f, NEW g, NEW c, NEW end, NEW a, NEW k,
         ChangedAt(n, i, f, g, c, end, a, k)
  PROVE  /\ k \in 1..n /\ i <= k
         /\ \A j \in 1..n : j # i /\ j <= k => f[j].s < end
         /\ \A j \in 1..n : k < j => end <= f[j].s
<1> USE DEF ChangedAt
<1>1. ~(a <= i)
  <2>1. SUFFICES ASSUME a <= i PROVE FALSE
    OBVIOUS
  <2>2. a \in 1..n /\ g[a].s >= end /\ (a = i \/ a < i)
    BY <2>1
  <2>3. a # i
    BY <2>2
  <2>4. g[a] = f[a] /\ f[a].e < c.s /\ f[a].s <= f[a].e /\ f[a].s \in Nat /\ f[a].e \in Nat
    BY <2>2, <2>3
  <2> QED BY <2>2, <2>4
<1>2. k \in 1..n /\ i <= k /\ a = k + 1
  BY <1>1
<1>3. ASSUME NEW j \in 1..n, j # i, j <= k PROVE f[j].s < end
  <2>1. j < a /\ g[j] = f[j]
    BY <1>2, <1>3
  <2>2. g[j].s < end
    BY <2>1
  <2> QED BY <2>1, <2>2
<1>4. ASSUME NEW j \in 1..n, k < j PROVE end <= f[j].s
  <2>1. a \in 1..n /\ (a = j \/ a < j) /\ a # i
    BY <1>2, <1>4
  <2>2. g[a].s >= end /\ g[a] = f[a]
    BY <2>1
  <2>3. f[a].s >= end
    BY <2>2
  <2>4. CASE a = j
    BY <2>3, <2>4, <2>1
  <2>5. CASE a < j
    <3>1. f[a].e < f[j].s /\ f[a].s <= f[a].e /\ f[a].s \in Nat /\ f[a].e \in Nat /\ f[j].s \in Nat
      BY <2>1, <2>5
    <3> QED BY <2>3, <3>1
  <2> QED BY <2>1, <2>4, <2>5
<1> QED BY <1>2, <1>3, <1>4

\* How many blocks of that queue start before the end of b
LEMMA LeftLast ==
  ASSUME NEW top \in Nat, NEW q, NEW b, NEW i, ToLeft(q, b, i, top),
         NEW c, NEW p, Leftward(q, b, i, c, p), NEW k, k = After(p.fifo, b.e) - 1
  PROVE  /\ k \in 1..Len(q.fifo) /\ i <= k
         /\ \A j \in 1..Len(q.fifo) : j # i /\ j <= k => q.fifo[j].s < b.e
         /\ \A j \in 1..Len(q.fifo) : k < j => b.e <= q.fifo[j].s
<1>1. /\ q.fifo \in Seq(Blk) /\ Len(q.fifo) \in Nat /\ b.e \in Nat
      /\ \A j \in 1..Len(q.fifo) : q.fifo[j].s \in Nat /\ q.fifo[j].e \in Nat
                                 /\ q.fifo[j].s <= q.fifo[j].e
      /\ \A j, k1 \in 1..Len(q.fifo) : j < k1 => q.fifo[j].e < q.fifo[k1].s
  <2>1. Addable(q, b, top)
    BY DEF ToLeft, Meeting
  <2> QED BY <2>1, AddableParts
<1>2. i \in 1..Len(q.fifo)
  BY DEF ToLeft, Meeting
<1>3. /\ Good(p, top) /\ c \in Blk /\ c.s < b.e
      /\ Len(p.fifo) = Len(q.fifo) /\ p.fifo[i] = c
      /\ \A j \in 1..Len(q.fifo) : j # i => p.fifo[j] = q.fifo[j]
      /\ \A j \in 1..Len(q.fifo) : j < i => q.fifo[j].e < c.s
  BY LeftBlock DEF InPlace
<1>4. p.fifo \in Seq(Blk)
  BY <1>3, QueueParts DEF Good
<1>5. PICK a : a = After(p.fifo, b.e)
  OBVIOUS
<1>6. /\ a \in 1..Len(p.fifo) + 1
      /\ \A j \in 1..Len(p.fifo) : j < a => p.fifo[j].s < b.e
      /\ a <= Len(p.fifo) => p.fifo[a].s >= b.e
  BY <1>1, <1>4, <1>5, AfterIs, Zenon
<1>7. k = a - 1
  BY <1>5, Zenon
<1>8. c.s \in Nat
  BY <1>3, BlkParts
<1>9. PICK n \in Nat : n = Len(q.fifo)
  BY <1>1
<1>10. PICK f : f = q.fifo
  OBVIOUS
<1>11. PICK g : g = p.fifo
  OBVIOUS
<1>12. PICK end \in Nat : end = b.e
  BY <1>1
<1>13. /\ i \in 1..n /\ g[i] = c /\ c.s \in Nat /\ c.s < end
       /\ \A j \in 1..n : j # i => g[j] = f[j]
       /\ \A j \in 1..n : j < i => f[j].e < c.s
  BY <1>2, <1>3, <1>8, <1>9, <1>10, <1>11, <1>12, Zenon
<1>14. /\ \A j \in 1..n : f[j].s \in Nat /\ f[j].e \in Nat /\ f[j].s <= f[j].e
       /\ \A j, k1 \in 1..n : j < k1 => f[j].e < f[k1].s
  BY <1>1, <1>9, <1>10, Zenon
<1>15. /\ a \in 1..n + 1
       /\ \A j \in 1..n : j < a => g[j].s < end
       /\ a <= n => g[a].s >= end
  BY <1>3, <1>6, <1>9, <1>11, <1>12, Zenon
<1>16. /\ k \in 1..n /\ i <= k
       /\ \A j \in 1..n : j # i /\ j <= k => f[j].s < end
       /\ \A j \in 1..n : k < j => end <= f[j].s
  <2>1. n \in Nat /\ end \in Nat
    OBVIOUS
  <2>2. ChangedAt(n, i, f, g, c, end, a, k)
    BY <2>1, <1>7, <1>13, <1>14, <1>15, Zenon DEF ChangedAt
  <2> QED BY <2>2, ChangedLast
<1> QED BY <1>9, <1>10, <1>12, <1>16, Zenon

\* b, the block it meets and those around, as numbers
LEMMA ToLeftParts ==
  ASSUME NEW top \in Nat, NEW q, NEW b, NEW i, ToLeft(q, b, i, top)
  PROVE  /\ Good(q, top) /\ q \in Queues /\ q.fifo \in Seq(Blk) /\ Len(q.fifo) \in Nat
         /\ i \in 1..Len(q.fifo) /\ b \in Blk
         /\ b.s \in Nat /\ b.e \in Nat /\ b.f \in BOOLEAN /\ b.s <= b.e /\ b.e <= top
         /\ b.f => b.e = top
         /\ q.fifo[i] \in Blk /\ q.fifo[i].s \in Nat /\ q.fifo[i].e \in Nat
         /\ q.fifo[i].f \in BOOLEAN /\ q.fifo[i].s <= q.fifo[i].e /\ q.fifo[i].e <= top
         /\ q.fifo[i].f => q.fifo[i].e = top
         /\ b.s < q.fifo[i].e /\ q.fifo[i].s < b.e
         /\ i = 1 \/ q.fifo[i].s < b.s
         /\ b.s <= q.fifo[i].s => b.e < q.fifo[i].e
         /\ \A j \in 1..Len(q.fifo) : i < j => q.fifo[i].e < q.fifo[j].s
         /\ \A j \in 1..Len(q.fifo) : q.fifo[j].f => q.fifo[j].e = top
<1>1. Addable(q, b, top) /\ Uncovered(q, b) /\ i \in 1..Len(q.fifo) /\ b.s < q.fifo[i].e
  BY DEF ToLeft, Meeting
<1>2. q.fifo[i].s < b.e /\ (i = 1 \/ q.fifo[i].s < b.s)
  BY DEF ToLeft
<1>3. Good(q, top) /\ FlagsAtTop(q.fifo, top) /\ (b.f => b.e = top)
  BY <1>1 DEF Addable
<1>4. /\ q \in Queues /\ q.fifo \in Seq(Blk) /\ Len(q.fifo) \in Nat
      /\ b \in Blk /\ b.s \in Nat /\ b.e \in Nat /\ b.f \in BOOLEAN
      /\ b.s <= b.e /\ b.e <= top
      /\ \A j \in 1..Len(q.fifo) :
              /\ q.fifo[j] \in Blk
              /\ q.fifo[j].s \in Nat /\ q.fifo[j].e \in Nat /\ q.fifo[j].f \in BOOLEAN
              /\ q.fifo[j].s <= q.fifo[j].e /\ q.fifo[j].e <= top
      /\ \A j, k \in 1..Len(q.fifo) : j < k => q.fifo[j].e < q.fifo[k].s
  BY <1>1, AddableParts
<1>5. /\ q.fifo[i] \in Blk /\ q.fifo[i].s \in Nat /\ q.fifo[i].e \in Nat
      /\ q.fifo[i].f \in BOOLEAN /\ q.fifo[i].s <= q.fifo[i].e /\ q.fifo[i].e <= top
  BY <1>1, <1>4, Zenon
<1>6. \A j \in 1..Len(q.fifo) : q.fifo[j].f => q.fifo[j].e = top
  BY <1>3 DEF FlagsAtTop
<1>7. b.s <= q.fifo[i].s => b.e < q.fifo[i].e
  <2>1. ~(b.s <= q.fifo[i].s /\ q.fifo[i].e <= b.e)
    BY <1>1, <1>2, Zenon DEF Uncovered
  <2> QED BY <2>1, <1>4, <1>5
<1> QED BY <1>1, <1>2, <1>3, <1>4, <1>5, <1>6, <1>7

\* A block that ends where the i-th or b ends takes in both
LEMMA WidensOver ==
  ASSUME NEW top \in Nat, NEW q, NEW b, NEW i, ToLeft(q, b, i, top),
         NEW w, w \in Blk, w.s <= q.fifo[i].s, w.s <= b.s, w.s = q.fifo[i].s \/ w.s = b.s,
         q.fifo[i].e <= w.e, b.e <= w.e, w.e = q.fifo[i].e \/ w.e = b.e,
         w.f <=> q.fifo[i].f \/ b.f,
         \A j \in 1..Len(q.fifo) : j < i => q.fifo[j].e < w.s,
         \A j \in 1..Len(q.fifo) : i < j => w.e < q.fifo[j].s
  PROVE  Widening(q, i, b, w, top)
<1>1. /\ i \in 1..Len(q.fifo) /\ b \in Blk
      /\ b.s \in Nat /\ b.e \in Nat /\ b.s <= b.e /\ b.e <= top /\ (b.f => b.e = top)
      /\ q.fifo[i].s \in Nat /\ q.fifo[i].e \in Nat
      /\ q.fifo[i].s <= q.fifo[i].e /\ q.fifo[i].e <= top
      /\ q.fifo[i].f => q.fifo[i].e = top
      /\ b.s < q.fifo[i].e /\ q.fifo[i].s < b.e
      /\ \A j \in 1..Len(q.fifo) : q.fifo[j].f => q.fifo[j].e = top
  BY ToLeftParts, Zenon
<1>2. w.s \in Nat /\ w.e \in Nat
  BY BlkParts
<1>3. PICK ls : ls = q.fifo[i].s
  OBVIOUS
<1>4. PICK le : le = q.fifo[i].e
  OBVIOUS
<1>5. /\ ls \in Nat /\ le \in Nat /\ ls <= le /\ le <= top /\ b.s < le /\ ls < b.e
      /\ w.s <= ls /\ w.s <= b.s /\ (w.s = ls \/ w.s = b.s)
      /\ le <= w.e /\ b.e <= w.e /\ (w.e = le \/ w.e = b.e)
  BY <1>1, <1>3, <1>4, Zenon
<1>6. Sound(w, top)
  BY <1>1, <1>2, <1>5 DEF Sound
<1>7. w.f => w.e = top
  <2>1. le = top => w.e = top
    BY <1>1, <1>2, <1>5
  <2>2. b.e = top => w.e = top
    BY <1>1, <1>2, <1>5
  <2> QED BY <2>1, <2>2, <1>1, <1>4, Zenon
<1>8. Holds(w, q.fifo[i]) /\ Holds(w, b)
  BY <1>3, <1>4, <1>5, Zenon DEF Holds
<1>9. ASSUME NEW y \in Nat, Within(y, w) PROVE Within(y, q.fifo[i]) \/ Within(y, b)
  <2>1. w.s <= y /\ y < w.e
    BY <1>9 DEF Within
  <2>2. (ls <= y /\ y < le) \/ (b.s <= y /\ y < b.e)
    BY <2>1, <1>1, <1>2, <1>5
  <2> QED BY <2>2, <1>3, <1>4, Zenon DEF Within
<1> QED BY <1>1, <1>6, <1>7, <1>8, <1>9, Zenon DEF Widening

\* Merge changes the i-th block twice, to the same effect as once
LEMMA LeftTwice ==
  ASSUME NEW top \in Nat, NEW q, NEW b, NEW i, ToLeft(q, b, i, top),
         NEW c, NEW p, Leftward(q, b, i, c, p), NEW w \in Blk
  PROVE  Become(p, i, w) = Become(q, i, w)
<1>1. Good(q, top) /\ q \in Queues /\ i \in 1..Len(q.fifo) /\ q.fifo \in Seq(Blk)
  BY ToLeftParts
<1>2. Good(p, top) /\ c \in Blk /\ p = Become(q, i, c)
  BY LeftBlock DEF Leftward
<1>3. PICK g : g = [q.fifo EXCEPT ![i] = c]
  OBVIOUS
<1>4. p.fifo = g
  <2>1. Become(q, i, c) = [q EXCEPT !.fifo = g, !.lifo = ReplaceAll(q.lifo, q.fifo[i], c)]
    BY <1>3 DEF Become
  <2>2. q = [fifo |-> q.fifo, lifo |-> q.lifo, nxt |-> q.nxt]
    BY <1>1 DEF Queues
  <2> QED BY <2>1, <2>2, <1>2
<1>5. Distinct(g)
  BY <1>2, <1>4 DEF Good, Listing
<1>6. Become(Become(q, i, c), i, w) = Become(q, i, w)
  <2>1. Listing(q.lifo, q.fifo)
    BY <1>1 DEF Good
  <2> QED BY <2>1, <1>1, <1>2, <1>3, <1>5, BecomeTwice
<1> QED BY <1>2, <1>6, Zenon

\* Only the i-th block meets b, and it ends beyond b or is the last
LEMMA LeftInside ==
  ASSUME NEW top \in Nat, NEW q, NEW b, NEW i, ToLeft(q, b, i, top),
         NEW c, NEW p, Leftward(q, b, i, c, p), i = After(p.fifo, b.e) - 1,
         i = Len(q.fifo) \/ q.fifo[i].e > b.e,
         NEW d, d.s = q.fifo[i].e, d.e = b.e, d.f = b.f
  PROVE  Grows(q, MergeRight(p, i, d), b, top)
<1>1. /\ Good(q, top) /\ Len(q.fifo) \in Nat
      /\ i \in 1..Len(q.fifo) /\ b \in Blk
      /\ b.s \in Nat /\ b.e \in Nat /\ b.f \in BOOLEAN /\ b.s <= b.e
      /\ q.fifo[i].s \in Nat /\ q.fifo[i].e \in Nat
      /\ q.fifo[i].f \in BOOLEAN /\ q.fifo[i].s <= q.fifo[i].e
      /\ \A j \in 1..Len(q.fifo) : i < j => q.fifo[i].e < q.fifo[j].s
  BY ToLeftParts, Zenon
<1>2. /\ c \in Blk /\ c.s = Lesser(q.fifo[i].s, b.s)
      /\ c.e = q.fifo[i].e /\ c.f = (q.fifo[i].f \/ b.f)
      /\ c.s <= b.s /\ c.s <= q.fifo[i].s
      /\ p.fifo[i] = c /\ Len(p.fifo) = Len(q.fifo)
      /\ \A j \in 1..Len(q.fifo) : j < i => q.fifo[j].e < c.s
  BY LeftBlock DEF InPlace
<1>4. c.s \in Nat /\ c.e \in Nat /\ c.f \in BOOLEAN /\ (c.s = q.fifo[i].s \/ c.s = b.s)
  BY <1>1, <1>2, BlkParts DEF Lesser
<1>5. PICK hi : hi = Greater(c.e, b.e)
  OBVIOUS
<1>6. /\ hi \in Nat /\ c.e <= hi /\ b.e <= hi /\ (hi = c.e \/ hi = b.e)
      /\ c.e > b.e => hi = c.e
  BY <1>1, <1>4, <1>5 DEF Greater
<1>7. PICK fl : fl = (c.f \/ b.f)
  OBVIOUS
<1>8. fl \in BOOLEAN /\ (fl <=> q.fifo[i].f \/ b.f)
  <2>1. fl = (q.fifo[i].f \/ b.f)
    BY <1>2, <1>7, Zenon
  <2>2. (q.fifo[i].f \/ b.f) \in BOOLEAN
    BY <1>1
  <2> QED BY <2>1, <2>2, Zenon
<1>9. PICK w : w = Block(c.s, hi, fl)
  OBVIOUS
<1>10. w \in Blk /\ w.s = c.s /\ w.e = hi /\ w.f = fl
  <2>1. PICK s : s = c.s
    OBVIOUS
  <2>2. /\ Block(s, hi, fl) \in Blk /\ Block(s, hi, fl).s = s
        /\ Block(s, hi, fl).e = hi /\ Block(s, hi, fl).f = fl
    BY <2>1, <1>4, <1>6, <1>8, BlockIs
  <2> QED BY <2>1, <2>2, <1>9, Zenon
<1>11. Widening(q, i, b, w, top)
  <2>1. w.s <= q.fifo[i].s /\ w.s <= b.s /\ (w.s = q.fifo[i].s \/ w.s = b.s)
    BY <1>2, <1>4, <1>10, Zenon
  <2>2. q.fifo[i].e <= w.e /\ b.e <= w.e /\ (w.e = q.fifo[i].e \/ w.e = b.e)
    BY <1>2, <1>6, <1>10, Zenon
  <2>3. \A j \in 1..Len(q.fifo) : j < i => q.fifo[j].e < w.s
    BY <1>2, <1>10, Zenon
  <2>4. ASSUME NEW j \in 1..Len(q.fifo), i < j PROVE w.e < q.fifo[j].s
    <3>1. c.e > b.e
      BY <2>4, <1>1, <1>2
    <3>2. w.e = q.fifo[i].e
      BY <3>1, <1>2, <1>6, <1>10, Zenon
    <3> QED BY <3>2, <2>4, <1>1, Zenon
  <2>5. w.f <=> q.fifo[i].f \/ b.f
    BY <1>8, <1>10, Zenon
  <2> QED BY <2>1, <2>2, <2>3, <2>4, <2>5, <1>10, WidensOver
<1>12. PICK u : u = Become(p, i, w)
  OBVIOUS
<1>13. u = Become(q, i, w)
  BY <1>10, <1>12, LeftTwice
<1>14. b.f => w.f
  BY <1>8, <1>10, Zenon
<1>16. PICK x : x = Block(d.s, c.s, d.f)
  OBVIOUS
<1>17. x.f = b.f /\ x.e <= x.s
  <2>1. x.s = d.s /\ x.e = c.s /\ x.f = d.f
    BY <1>16 DEF Block
  <2>2. c.s <= q.fifo[i].e
    BY <1>1, <1>2, <1>4
  <2> QED BY <2>1, <2>2, Zenon
<1>18. Grows(q, Fill(u, i, x), b, top)
  BY <1>1, <1>11, <1>13, <1>14, <1>17, FilledInPlace
<1>19. MergeRight(p, i, d) = Fill(u, i, x)
  <2>1. Reaches(p, d, i, c)
    BY <1>2, Zenon DEF Reaches
  <2>2. i = Len(p.fifo) \/ c.e > d.e
    BY <1>2, Zenon
  <2>3. MergeRight(p, i, d) = Fill(Become(p, i, Block(c.s, Greater(c.e, d.e), c.f \/ d.f)), i,
                     Block(d.s, c.s, d.f))
    BY <2>1, <2>2, MergeRightEnds
  <2>4. Block(c.s, Greater(c.e, d.e), c.f \/ d.f) = w
    BY <1>5, <1>7, <1>9, Zenon
  <2> QED BY <2>3, <2>4, <1>12, <1>16, Zenon
<1> QED BY <1>18, <1>19, Zenon

\* Only the i-th block meets b, which goes on after it
LEMMA LeftThrough ==
  ASSUME NEW top \in Nat, NEW q, NEW b, NEW i, ToLeft(q, b, i, top),
         NEW c, NEW p, Leftward(q, b, i, c, p), i = After(p.fifo, b.e) - 1,
         ~(i = Len(q.fifo) \/ q.fifo[i].e > b.e),
         NEW d \in Blk, d.s = q.fifo[i].e, d.e = b.e, d.f = b.f
  PROVE  Grows(q, MergeRight(p, i, d), b, top)
<1>1. /\ Good(q, top) /\ q.fifo \in Seq(Blk) /\ Len(q.fifo) \in Nat
      /\ i \in 1..Len(q.fifo) /\ b \in Blk
      /\ b.s \in Nat /\ b.e \in Nat /\ b.f \in BOOLEAN /\ b.s <= b.e /\ b.e <= top
      /\ b.f => b.e = top
      /\ q.fifo[i].s \in Nat /\ q.fifo[i].e \in Nat
      /\ q.fifo[i].f \in BOOLEAN /\ q.fifo[i].s <= q.fifo[i].e /\ q.fifo[i].e <= top
      /\ q.fifo[i].f => q.fifo[i].e = top
      /\ b.s < q.fifo[i].e /\ q.fifo[i].s < b.e
      /\ b.s <= q.fifo[i].s => b.e < q.fifo[i].e
      /\ \A j \in 1..Len(q.fifo) : i < j => q.fifo[i].e < q.fifo[j].s
      /\ \A j \in 1..Len(q.fifo) : q.fifo[j].f => q.fifo[j].e = top
  BY ToLeftParts, ZenonT(40)
<1>2. q.fifo[i].s < b.s /\ q.fifo[i].e <= b.e
  BY <1>1
<1>3. /\ c \in Blk /\ c.s = Lesser(q.fifo[i].s, b.s)
      /\ c.e = q.fifo[i].e /\ c.f = (q.fifo[i].f \/ b.f)
      /\ Good(p, top) /\ InPlace(q, p, i, c)
      /\ \A j \in 1..Len(q.fifo) : j < i => q.fifo[j].e < c.s
  BY LeftBlock
<1>4. c.s = q.fifo[i].s
  BY <1>1, <1>2, <1>3, LesserIs
<1>5. /\ p.fifo[i] = c /\ Len(p.fifo) = Len(q.fifo) /\ p.nxt = q.nxt
      /\ \A j \in 1..Len(q.fifo) : j # i => p.fifo[j] = q.fifo[j]
  BY <1>3 DEF InPlace
<1>6. MergeRight(p, i, d) = Fill(p, i, d)
  <2>1. Reaches(p, d, i, c)
    BY <1>5, Zenon DEF Reaches
  <2>2. ~(i = Len(p.fifo) \/ c.e > d.e)
    BY <1>3, <1>5, Zenon
  <2> QED BY <2>1, <2>2, MergeRightFills
<1>7. CASE d.e <= d.s
  <2>1. q.fifo[i].e = b.e
    BY <1>1, <1>2, <1>7
  <2>2. c.s <= q.fifo[i].s /\ c.s <= b.s /\ q.fifo[i].e <= c.e /\ b.e <= c.e
    BY <2>1, <1>1, <1>2, <1>3, <1>4
  <2>3. \A j \in 1..Len(q.fifo) : i < j => c.e < q.fifo[j].s
    BY <1>1, <1>3, Zenon
  <2>4. c.f <=> q.fifo[i].f \/ b.f
    BY <1>3, Zenon
  <2>5. Widening(q, i, b, c, top)
    BY <2>2, <2>3, <2>4, <1>3, <1>4, WidensOver
  <2>6. b.f => c.f
    BY <2>4, Zenon
  <2>7. p = Become(q, i, c)
    BY DEF Leftward
  <2>8. Grows(q, Fill(p, i, d), b, top)
    BY <2>5, <2>6, <2>7, <1>1, <1>7, FilledInPlace
  <2> QED BY <2>8, <1>6, Zenon
<1>8. CASE ~(d.e <= d.s)
  <2>1. q.fifo[i].e < b.e
    BY <1>1, <1>8
  <2>2. Linkable(p, i, d, top)
    <3>1. Sound(d, top) /\ (d.f => d.e = top) /\ d.s < d.e
      BY <2>1, <1>1 DEF Sound
    <3>2. i \in 0..Len(p.fifo)
      BY <1>1, <1>5
    <3>3. ASSUME NEW j \in 1..Len(q.fifo), j <= i PROVE p.fifo[j].e <= d.s
      <4>1. CASE j = i
        BY <4>1, <1>1, <1>3, <1>5
      <4>2. CASE j # i
        <5>1. q.fifo[j].e < c.s /\ p.fifo[j] = q.fifo[j] /\ q.fifo[j].e \in Nat
          BY <3>3, <4>2, <1>1, <1>3, <1>5, BlocksAre, SMTT(30)
        <5> QED BY <5>1, <1>1, <1>4
      <4> QED BY <4>1, <4>2
    <3>4. ASSUME NEW j \in 1..Len(q.fifo), i < j PROVE d.e <= p.fifo[j].s
      <4>1. \A m \in 1..Len(q.fifo) : i < m => b.e <= q.fifo[m].s
        BY LeftLast
      <4>2. p.fifo[j] = q.fifo[j] /\ b.e <= q.fifo[j].s
        BY <4>1, <3>4, <1>1, <1>5
      <4> QED BY <4>2, Zenon
    <3>5. ASSUME NEW j \in 1..Len(q.fifo), p.fifo[j].f
          PROVE  p.fifo[j].e = top \/ (j = i /\ p.fifo[i].e = d.s /\ d.e = top)
      <4>1. CASE j = i
        <5>1. q.fifo[i].f \/ b.f
          BY <3>5, <4>1, <1>3, <1>5, Zenon
        <5> QED BY <5>1, <4>1, <1>1, <1>3, <1>5, Zenon
      <4>2. CASE j # i
        BY <3>5, <4>2, <1>1, <1>5, Zenon
      <4> QED BY <4>1, <4>2
    <3> QED BY <3>1, <3>2, <3>3, <3>4, <3>5, <1>5 DEF Linkable
  <2>3. Grows(p, Link(p, i, d), d, top)
    BY <2>2, <1>3, Linked
  <2>4. Shared(q, b, p, d)
    <3>1. ASSUME NEW y \in Nat PROVE Covers(p.fifo, y) <=> Covers(q.fifo, y)
      <4>1. Within(y, c) <=> Within(y, q.fifo[i])
        BY <1>3, <1>4, Zenon DEF Within
      <4>2. \A j \in 1..Len(q.fifo) : Within(y, p.fifo[j]) <=> Within(y, q.fifo[j])
        BY <4>1, <1>5, Zenon
      <4>3. /\ Covers(p.fifo, y) <=> \E j \in 1..Len(q.fifo) : Within(y, p.fifo[j])
            /\ Covers(q.fifo, y) <=> \E j \in 1..Len(q.fifo) : Within(y, q.fifo[j])
        BY <1>5, Zenon DEF Covers, Within
      <4> QED BY <4>2, <4>3, Zenon
    <3>2. ASSUME NEW y \in Nat
          PROVE  Covers(q.fifo, y) \/ Within(y, d) <=> Covers(q.fifo, y) \/ Within(y, b)
      <4>1. Within(y, d) => Within(y, b)
        BY <1>1 DEF Within
      <4>2. Within(y, b) => Within(y, d) \/ Within(y, q.fifo[i])
        BY <1>1, <1>2 DEF Within
      <4>3. Within(y, q.fifo[i]) => Covers(q.fifo, y)
        BY <1>1, Zenon DEF Covers, Within
      <4> QED BY <4>1, <4>2, <4>3, Zenon
    <3>3. HasFlag(p.fifo) \/ d.f => HasFlag(q.fifo) \/ b.f
      <4>1. ASSUME NEW j \in 1..Len(q.fifo), p.fifo[j].f PROVE HasFlag(q.fifo) \/ b.f
        <5>1. CASE j = i
          <6>1. q.fifo[i].f \/ b.f
            BY <4>1, <5>1, <1>3, <1>5, Zenon
          <6> QED BY <6>1, <1>1, Zenon DEF HasFlag
        <5>2. CASE j # i
          <6>1. q.fifo[j].f
            BY <4>1, <5>2, <1>5, Zenon
          <6> QED BY <6>1, Zenon DEF HasFlag
        <5> QED BY <5>1, <5>2
      <4> QED BY <4>1, <1>5, Zenon DEF HasFlag
    <3>4. b.s <= d.s /\ d.s <= d.e /\ d.e <= b.e
      BY <1>1, <1>2
    <3> QED BY <3>1, <3>2, <3>3, <3>4, <1>1, <1>5, Zenon DEF Shared
  <2>5. Grows(q, Link(p, i, d), b, top)
    BY <2>3, <2>4, Transferred
  <2>6. Fill(p, i, d) = Link(p, i, d)
    BY <1>8, Zenon DEF Fill
  <2> QED BY <2>5, <2>6, <1>6, Zenon
<1> QED BY <1>7, <1>8

\* The part of b between two blocks, or before one
LEMMA LinkedWithin ==
  ASSUME NEW top \in Nat, NEW q, NEW b, Addable(q, b, top), ~b.f,
         NEW i, NEW x, Linkable(q, i, x, top), ~x.f,
         b.s <= x.s, x.e <= b.e,
         \A y \in Nat : Within(y, b) => Covers(q.fifo, y) \/ Within(y, x)
  PROVE  Grows(q, Link(q, i, x), b, top)
<1>1. Good(q, top) /\ b \in Blk
  BY DEF Addable
<1>2. Grows(q, Link(q, i, x), x, top)
  BY <1>1, Linked
<1>3. x \in Blk /\ x.s <= x.e
  BY DEF Linkable, Sound
<1>4. /\ b.s \in Nat /\ b.e \in Nat /\ x.s \in Nat /\ x.e \in Nat
  BY <1>1, <1>3, BlkParts
<1>5. ASSUME NEW y \in Nat, Within(y, x) PROVE Within(y, b)
  BY <1>4, <1>5 DEF Within
<1>6. Shared(q, b, q, x)
  BY <1>1, <1>3, <1>5, Zenon DEF Shared
<1> QED BY <1>2, <1>6, Transferred

\* A block that reaches beyond b, which brings no FIN, is stretched into itself
LEMMA NotStretched ==
  ASSUME NEW r \in Blk, NEW b \in Blk, b.e <= r.e, ~b.f
  PROVE  Block(r.s, Greater(r.e, b.e), r.f \/ b.f) = r
<1>1. r.e \in Nat /\ b.e \in Nat /\ r.f \in BOOLEAN
  BY BlkParts
<1>2. Greater(r.e, b.e) = r.e
  BY <1>1 DEF Greater
<1>3. (r.f \/ b.f) = r.f
  BY <1>1
<1>4. Block(r.s, Greater(r.e, b.e), r.f \/ b.f) = Block(r.s, r.e, r.f)
  BY <1>2, <1>3, Zenon
<1> QED BY <1>4, BlockEta, Zenon

\* The i-th block and the one after it meet b
LEMMA LeftToRight ==
  ASSUME NEW top \in Nat, NEW q, NEW b, NEW i, ToLeft(q, b, i, top),
         NEW c, NEW p, Leftward(q, b, i, c, p), NEW k, k = After(p.fifo, b.e) - 1,
         i # k, NEW d \in Blk, d.s = q.fifo[i].e, d.e = b.e, d.f = b.f
  PROVE  Grows(q, MergeRight(p, i, d), b, top)
<1>1. /\ Addable(q, b, top) /\ Uncovered(q, b)
  BY DEF ToLeft, Meeting
<1>2. /\ q \in Queues /\ q.fifo \in Seq(Blk) /\ Len(q.fifo) \in Nat
      /\ i \in 1..Len(q.fifo) /\ b \in Blk
      /\ b.s \in Nat /\ b.e \in Nat /\ b.f \in BOOLEAN /\ b.s <= b.e /\ b.e <= top
      /\ b.f => b.e = top
      /\ q.fifo[i] \in Blk /\ q.fifo[i].s \in Nat /\ q.fifo[i].e \in Nat
      /\ q.fifo[i].f \in BOOLEAN /\ q.fifo[i].s <= q.fifo[i].e /\ q.fifo[i].e <= top
      /\ b.s < q.fifo[i].e /\ q.fifo[i].s < b.e
      /\ b.s <= q.fifo[i].s => b.e < q.fifo[i].e
      /\ \A j \in 1..Len(q.fifo) : i < j => q.fifo[i].e < q.fifo[j].s
      /\ \A j \in 1..Len(q.fifo) : q.fifo[j].f => q.fifo[j].e = top
  BY ToLeftParts, Zenon
<1>3. /\ \A j \in 1..Len(q.fifo) : q.fifo[j] \in Blk /\ q.fifo[j].s \in Nat
              /\ q.fifo[j].e \in Nat /\ q.fifo[j].s <= q.fifo[j].e /\ q.fifo[j].e <= top
      /\ \A j, m \in 1..Len(q.fifo) : j < m => q.fifo[j].e < q.fifo[m].s
  BY <1>1, AddableParts
<1>4. k \in 1..Len(q.fifo) /\ i < k
  <2>1. k \in 1..Len(q.fifo) /\ i <= k
    BY LeftLast
  <2> QED BY <2>1, <1>2
<1>5. PICK r : r = q.fifo[k]
  OBVIOUS
<1>6. /\ r \in Blk /\ r.s \in Nat /\ r.e \in Nat /\ r.s <= r.e /\ r.e <= top
      /\ q.fifo[i].e < r.s
  BY <1>2, <1>3, <1>4, <1>5, Zenon
<1>7. r.s < b.e
  <2>1. \A j \in 1..Len(q.fifo) : j # i /\ j <= k => q.fifo[j].s < b.e
    BY LeftLast
  <2>2. k # i /\ k <= k
    BY <1>4
  <2> QED BY <2>1, <2>2, <1>4, <1>5, Zenon
<1>8. b.e < r.e
  <2>1. ~(b.s <= r.s /\ r.e <= b.e)
    BY <1>1, <1>4, <1>5, <1>7, Zenon DEF Uncovered
  <2> QED BY <2>1, <1>2, <1>6
<1>9. ~b.f /\ q.fifo[i].s < b.s /\ q.fifo[i].e < b.e
  BY <1>2, <1>6, <1>7, <1>8
<1>10. p = q
  <2>1. c = Block(Lesser(q.fifo[i].s, b.s), q.fifo[i].e, q.fifo[i].f \/ b.f)
        /\ p = Become(q, i, c)
    BY DEF Leftward
  <2>2. Lesser(q.fifo[i].s, b.s) = q.fifo[i].s
    BY <1>2, <1>9, LesserIs
  <2>3. (q.fifo[i].f \/ b.f) = q.fifo[i].f
    BY <1>2, <1>9
  <2>4. q.fifo[i] = Block(q.fifo[i].s, q.fifo[i].e, q.fifo[i].f)
    BY <1>2, BlockEta
  <2>5. c = q.fifo[i]
    BY <2>1, <2>2, <2>3, <2>4, Zenon
  <2>6. Become(q, i, q.fifo[i]) = q
    BY <1>2, BecomeSame
  <2> QED BY <2>1, <2>5, <2>6, Zenon
<1>11. PICK x : x = Block(d.s, r.s, d.f)
  OBVIOUS
<1>12. x \in Blk /\ x.s = q.fifo[i].e /\ x.e = r.s /\ ~x.f
  <2>1. PICK s \in Nat : s = d.s
    BY <1>2
  <2>2. PICK fl \in BOOLEAN : fl = d.f
    BY <1>2
  <2>3. PICK e \in Nat : e = r.s
    BY <1>6
  <2>4. x = Block(s, e, fl)
    BY <2>1, <2>2, <2>3, <1>11, Zenon
  <2>5. /\ Block(s, e, fl) \in Blk /\ Block(s, e, fl).s = s
        /\ Block(s, e, fl).e = e /\ Block(s, e, fl).f = fl
    BY BlockIs
  <2> QED BY <2>1, <2>2, <2>3, <2>4, <2>5, <1>9, Zenon
<1>13. MergeRight(p, i, d) = Fill(q, i, x)
  <2>1. Reaches(p, d, k, r)
    BY <1>5, <1>10, Zenon DEF Reaches
  <2>2. r.e > d.e
    BY <1>2, <1>6, <1>8
  <2>3. MergeRight(p, i, d) = Fill(Become(p, k, Block(r.s, Greater(r.e, d.e), r.f \/ d.f)), i,
                                   Block(d.s, r.s, d.f))
    BY <2>1, <2>2, MergeRightEnds
  <2>4. Block(r.s, Greater(r.e, d.e), r.f \/ d.f) = r
    BY <1>2, <1>6, <1>8, <1>9, NotStretched
  <2>5. Become(q, k, q.fifo[k]) = q
    BY <1>2, <1>4, BecomeSame
  <2>6. Become(p, k, r) = q
    BY <2>5, <1>5, <1>10, Zenon
  <2> QED BY <2>3, <2>4, <2>6, <1>11, Zenon
<1>14. Fill(q, i, x) = Link(q, i, x)
  <2>1. ~(x.e <= x.s)
    BY <1>2, <1>6, <1>12
  <2> QED BY <2>1, Zenon DEF Fill
<1>15. Linkable(q, i, x, top)
  <2>1. Sound(x, top) /\ x.s < x.e
    BY <1>2, <1>6, <1>12 DEF Sound
  <2>2. i \in 0..Len(q.fifo)
    BY <1>2
  <2>3. ASSUME NEW j \in 1..Len(q.fifo), j <= i PROVE q.fifo[j].e <= x.s
    <3>1. CASE j = i
      BY <3>1, <1>2, <1>12
    <3>2. CASE j < i
      <4>1. q.fifo[j].e < q.fifo[i].s /\ q.fifo[j].e \in Nat
        BY <3>2, <1>2, <1>3
      <4> QED BY <4>1, <1>2, <1>12, SMTT(30)
    <3> QED BY <2>3, <3>1, <3>2, <1>2
  <2>4. ASSUME NEW j \in 1..Len(q.fifo), i < j PROVE x.e <= q.fifo[j].s
    <3>1. CASE j = k
      BY <3>1, <1>5, <1>6, <1>12
    <3>2. CASE k < j
      <4>1. r.e < q.fifo[j].s /\ q.fifo[j].s \in Nat
        BY <3>2, <1>3, <1>4, <1>5
      <4> QED BY <4>1, <1>6, <1>12
    <3>3. CASE j < k
      <4>1. /\ q.fifo[i].e < q.fifo[j].s /\ q.fifo[j].e < r.s
            /\ q.fifo[j].s \in Nat /\ q.fifo[j].e \in Nat
        BY <3>3, <2>4, <1>2, <1>3, <1>4, <1>5
      <4>2. b.s <= q.fifo[j].s /\ q.fifo[j].s < b.e /\ q.fifo[j].e <= b.e
        <5>1. q.fifo[j].s <= q.fifo[j].e
          BY <1>3
        <5>2. PICK js : js = q.fifo[j].s
          OBVIOUS
        <5>3. PICK je : je = q.fifo[j].e
          OBVIOUS
        <5>4. PICK le : le = q.fifo[i].e
          OBVIOUS
        <5>5. /\ le \in Nat /\ js \in Nat /\ je \in Nat /\ b.s < le /\ le < js
              /\ js <= je /\ je < r.s
          BY <4>1, <5>1, <5>2, <5>3, <5>4, <1>2, Zenon
        <5>6. b.s <= js /\ js < b.e /\ je <= b.e
          BY <5>5, <1>2, <1>6, <1>7
        <5> QED BY <5>2, <5>3, <5>6, Zenon
      <4> QED BY <4>2, <1>1, Zenon DEF Uncovered
    <3> QED BY <3>1, <3>2, <3>3, <1>4
  <2>5. \A j \in 1..Len(q.fifo) : q.fifo[j].f =>
          q.fifo[j].e = top \/ (j = i /\ q.fifo[i].e = x.s /\ x.e = top)
    BY <1>2, Zenon
  <2> QED BY <2>1, <2>2, <2>3, <2>4, <2>5, <1>12, Zenon DEF Linkable
<1>16. ASSUME NEW y \in Nat, Within(y, b) PROVE Covers(q.fifo, y) \/ Within(y, x)
  <2>1. Within(y, q.fifo[i]) \/ Within(y, r) \/ Within(y, x)
    BY <1>2, <1>6, <1>8, <1>9, <1>12, <1>16, SMTT(30) DEF Within
  <2> QED BY <2>1, <1>2, <1>4, <1>5, Zenon DEF Covers, Within
<1>17. b.s <= x.s /\ x.e <= b.e
  BY <1>2, <1>6, <1>7, <1>12
<1>18. Grows(q, Link(q, i, x), b, top)
  BY <1>1, <1>9, <1>12, <1>15, <1>16, <1>17, LinkedWithin
<1> QED BY <1>13, <1>14, <1>18, Zenon

\* The i-th block starts at or after the start of b, and another lies before it
NotToLeft(q, b, i, top) == Meeting(q, b, i, top) /\ i # 1 /\ b.s <= q.fifo[i].s

LEMMA NotToLeftParts ==
  ASSUME NEW top \in Nat, NEW q, NEW b, NEW i, NotToLeft(q, b, i, top)
  PROVE  /\ Addable(q, b, top) /\ Good(q, top) /\ q \in Queues /\ q.fifo \in Seq(Blk)
         /\ Len(q.fifo) \in Nat /\ i \in 1..Len(q.fifo) /\ i - 1 \in 1..Len(q.fifo)
         /\ b \in Blk /\ b.s \in Nat /\ b.e \in Nat /\ b.s <= b.e /\ b.e <= top
         /\ b.s < b.e /\ b.s <= q.fifo[i].s
         /\ q.fifo[i].s < b.e => ~b.f /\ b.e < q.fifo[i].e
         /\ \A j \in 1..Len(q.fifo) : q.fifo[j] \in Blk /\ q.fifo[j].s \in Nat
                /\ q.fifo[j].e \in Nat /\ q.fifo[j].s <= q.fifo[j].e /\ q.fifo[j].e <= top
         /\ \A j, m \in 1..Len(q.fifo) : j < m => q.fifo[j].e < q.fifo[m].s
         /\ \A j \in 1..Len(q.fifo) : j < i => q.fifo[j].e <= b.s /\ q.fifo[j].s < b.s
         /\ \A j \in 1..Len(q.fifo) : q.fifo[j].f => q.fifo[j].e = top
<1>1. /\ Addable(q, b, top) /\ Uncovered(q, b) /\ i \in 1..Len(q.fifo) /\ i # 1
      /\ b.s < q.fifo[i].e /\ b.s <= q.fifo[i].s
      /\ \A j \in 1..Len(q.fifo) : j < i => q.fifo[j].e <= b.s
  BY DEF NotToLeft, Meeting
<1>2. Good(q, top) /\ FlagsAtTop(q.fifo, top) /\ (b.f => b.e = top)
  BY <1>1 DEF Addable
<1>3. /\ q \in Queues /\ q.fifo \in Seq(Blk) /\ Len(q.fifo) \in Nat
      /\ b \in Blk /\ b.s \in Nat /\ b.e \in Nat /\ b.f \in BOOLEAN
      /\ b.s <= b.e /\ b.e <= top /\ (b.s = b.e => b.s = top)
      /\ \A j \in 1..Len(q.fifo) :
              /\ q.fifo[j] \in Blk
              /\ q.fifo[j].s \in Nat /\ q.fifo[j].e \in Nat
              /\ q.fifo[j].s <= q.fifo[j].e /\ q.fifo[j].e <= top
              /\ q.fifo[j].s = q.fifo[j].e => q.fifo[j].s = top
      /\ \A j, m \in 1..Len(q.fifo) : j < m => q.fifo[j].e < q.fifo[m].s
  BY <1>1, AddableParts
<1>4. b.s < b.e
  BY <1>1, <1>3
<1>5. q.fifo[i].s < b.e => ~b.f /\ b.e < q.fifo[i].e
  <2>1. SUFFICES ASSUME q.fifo[i].s < b.e PROVE ~b.f /\ b.e < q.fifo[i].e
    OBVIOUS
  <2>2. ~(b.s <= q.fifo[i].s /\ q.fifo[i].e <= b.e)
    BY <2>1, <1>1, Zenon DEF Uncovered
  <2>3. b.e < q.fifo[i].e /\ q.fifo[i].e <= top
    BY <2>2, <1>1, <1>3
  <2> QED BY <2>3, <1>1, <1>2, <1>3
<1>6. ASSUME NEW j \in 1..Len(q.fifo), j < i PROVE q.fifo[j].s < b.s
  <2>1. q.fifo[j].e < q.fifo[i].s /\ q.fifo[i].s <= top /\ q.fifo[j].e <= b.s
    BY <1>1, <1>3, <1>6
  <2>2. /\ q.fifo[j].s \in Nat /\ q.fifo[j].e \in Nat /\ q.fifo[i].s \in Nat
        /\ q.fifo[j].s <= q.fifo[j].e /\ (q.fifo[j].s = q.fifo[j].e => q.fifo[j].s = top)
    BY <1>1, <1>3
  <2> QED BY <2>1, <2>2, <1>3
<1>7. \A j \in 1..Len(q.fifo) : q.fifo[j].f => q.fifo[j].e = top
  BY <1>2 DEF FlagsAtTop
<1>8. i - 1 \in 1..Len(q.fifo)
  BY <1>1, <1>3
<1> QED BY <1>1, <1>2, <1>3, <1>4, <1>5, <1>6, <1>7, <1>8

\* b lies between two blocks
LEMMA InGap ==
  ASSUME NEW top \in Nat, NEW q, NEW b, NEW i, NotToLeft(q, b, i, top),
         b.e <= q.fifo[i].s, NEW h, h = i - 1
  PROVE  Grows(q, MergeRight(q, h, b), b, top)
<1>1. /\ Addable(q, b, top) /\ Good(q, top) /\ q \in Queues /\ q.fifo \in Seq(Blk)
      /\ Len(q.fifo) \in Nat /\ i \in 1..Len(q.fifo) /\ i - 1 \in 1..Len(q.fifo)
      /\ b \in Blk /\ b.s \in Nat /\ b.e \in Nat /\ b.s <= b.e /\ b.e <= top
      /\ b.s < b.e
      /\ \A j \in 1..Len(q.fifo) : q.fifo[j] \in Blk /\ q.fifo[j].s \in Nat
                /\ q.fifo[j].e \in Nat /\ q.fifo[j].s <= q.fifo[j].e /\ q.fifo[j].e <= top
      /\ \A j, m \in 1..Len(q.fifo) : j < m => q.fifo[j].e < q.fifo[m].s
      /\ \A j \in 1..Len(q.fifo) : j < i => q.fifo[j].e <= b.s /\ q.fifo[j].s < b.s
      /\ \A j \in 1..Len(q.fifo) : q.fifo[j].f => q.fifo[j].e = top
  BY NotToLeftParts, Zenon
<1>2. h \in 1..Len(q.fifo) /\ h < i /\ i = h + 1 /\ h \in 0..Len(q.fifo) /\ h # Len(q.fifo)
  BY <1>1
<1>3. ASSUME NEW j \in 1..Len(q.fifo), j <= h PROVE q.fifo[j].e <= b.s /\ q.fifo[j].s < b.e
  <2>1. j < i
    BY <1>1, <1>2, <1>3
  <2>2. q.fifo[j].e <= b.s /\ q.fifo[j].s < b.s /\ q.fifo[j].s \in Nat
    BY <2>1, <1>1
  <2> QED BY <2>2, <1>1
<1>4. ASSUME NEW j \in 1..Len(q.fifo), j > h PROVE q.fifo[j].s >= b.e
  <2>1. j = i \/ i < j
    BY <1>1, <1>2, <1>4
  <2>2. CASE j = i
    BY <2>2, <1>1
  <2>3. CASE i < j
    <3>1. /\ q.fifo[i].e < q.fifo[j].s /\ q.fifo[i].s <= q.fifo[i].e
          /\ q.fifo[j].s \in Nat /\ q.fifo[i].s \in Nat /\ q.fifo[i].e \in Nat
      BY <2>3, <1>1
    <3> QED BY <3>1, <1>1, SMTT(30)
  <2> QED BY <2>1, <2>2, <2>3
<1>5. After(q.fifo, b.e) - 1 = h
  BY <1>1, <1>2, <1>3, <1>4, LastIs
<1>6. MergeRight(q, h, b) = Fill(q, h, b)
  <2>1. PICK r : r = q.fifo[h]
    OBVIOUS
  <2>2. Reaches(q, b, h, r)
    BY <2>1, <1>5, Zenon DEF Reaches
  <2>3. ~(r.e > b.e)
    <3>1. r.e <= b.s /\ r.e \in Nat
      BY <2>1, <1>1, <1>2
    <3> QED BY <3>1, <1>1
  <2> QED BY <2>2, <2>3, <1>2, MergeRightFills
<1>7. Fill(q, h, b) = Link(q, h, b)
  <2>1. ~(b.e <= b.s)
    BY <1>1
  <2> QED BY <2>1, Zenon DEF Fill
<1>8. Linkable(q, h, b, top)
  <2>1. Sound(b, top) /\ (b.f => b.e = top)
    BY <1>1 DEF Addable
  <2>2. \A j \in 1..Len(q.fifo) : h < j => b.e <= q.fifo[j].s
    BY <1>1, <1>2, <1>4
  <2> QED BY <2>1, <2>2, <1>1, <1>2, <1>3 DEF Linkable
<1>9. Grows(q, Link(q, h, b), b, top)
  BY <1>1, <1>8, Linked
<1> QED BY <1>6, <1>7, <1>9, Zenon

\* b ends inside the i-th block and starts before or with it
LEMMA RightInside ==
  ASSUME NEW top \in Nat, NEW q, NEW b, NEW i, NotToLeft(q, b, i, top),
         q.fifo[i].s < b.e, NEW h, h = i - 1
  PROVE  Grows(q, MergeRight(q, h, b), b, top)
<1>1. /\ Addable(q, b, top) /\ Good(q, top) /\ q \in Queues /\ q.fifo \in Seq(Blk)
      /\ Len(q.fifo) \in Nat /\ i \in 1..Len(q.fifo) /\ i - 1 \in 1..Len(q.fifo)
      /\ b \in Blk /\ b.s \in Nat /\ b.e \in Nat /\ b.s <= b.e /\ b.e <= top
      /\ ~b.f /\ b.s < b.e
      /\ b.s <= q.fifo[i].s /\ b.e < q.fifo[i].e
      /\ \A j \in 1..Len(q.fifo) : q.fifo[j] \in Blk /\ q.fifo[j].s \in Nat
                /\ q.fifo[j].e \in Nat /\ q.fifo[j].s <= q.fifo[j].e /\ q.fifo[j].e <= top
      /\ \A j, m \in 1..Len(q.fifo) : j < m => q.fifo[j].e < q.fifo[m].s
      /\ \A j \in 1..Len(q.fifo) : j < i => q.fifo[j].e <= b.s /\ q.fifo[j].s < b.s
      /\ \A j \in 1..Len(q.fifo) : q.fifo[j].f => q.fifo[j].e = top
  BY NotToLeftParts, Zenon
<1>2. h \in 0..Len(q.fifo) /\ i = h + 1 /\ i \in 0..Len(q.fifo)
  BY <1>1
<1>3. PICK r : r = q.fifo[i]
  OBVIOUS
<1>4. /\ r \in Blk /\ r.s \in Nat /\ r.e \in Nat /\ r.s <= r.e /\ r.e <= top
      /\ b.s <= r.s /\ r.s < b.e /\ b.e < r.e /\ (r.f => r.e = top)
  BY <1>1, <1>3, Zenon
<1>5. ASSUME NEW j \in 1..Len(q.fifo), j <= i PROVE q.fifo[j].s < b.e
  <2>1. CASE j = i
    BY <2>1, <1>3, <1>4
  <2>2. CASE j < i
    <3>1. q.fifo[j].s < b.s /\ q.fifo[j].s \in Nat
      BY <2>2, <1>1
    <3> QED BY <3>1, <1>1
  <2> QED BY <2>1, <2>2, <1>1, <1>5
<1>6. ASSUME NEW j \in 1..Len(q.fifo), j > i PROVE q.fifo[j].s >= b.e /\ r.e < q.fifo[j].s
  <2>1. r.e < q.fifo[j].s /\ q.fifo[j].s \in Nat
    BY <1>1, <1>3, <1>6
  <2> QED BY <2>1, <1>1, <1>4
<1>7. After(q.fifo, b.e) - 1 = i
  BY <1>1, <1>2, <1>5, <1>6, LastIs
<1>8. PICK x : x = Block(b.s, r.s, b.f)
  OBVIOUS
<1>9. x \in Blk /\ x.s = b.s /\ x.e = r.s /\ x.f = b.f
  <2>1. PICK s \in Nat : s = b.s
    BY <1>1
  <2>2. PICK fl \in BOOLEAN : fl = b.f
    BY <1>1, BlkParts
  <2>3. PICK e \in Nat : e = r.s
    BY <1>4
  <2>4. x = Block(s, e, fl)
    BY <2>1, <2>2, <2>3, <1>8, Zenon
  <2>5. /\ Block(s, e, fl) \in Blk /\ Block(s, e, fl).s = s
        /\ Block(s, e, fl).e = e /\ Block(s, e, fl).f = fl
    BY BlockIs
  <2> QED BY <2>1, <2>2, <2>3, <2>4, <2>5, Zenon
<1>10. Become(q, i, r) = q
  <2>1. Become(q, i, q.fifo[i]) = q
    BY <1>1, BecomeSame
  <2> QED BY <2>1, <1>3, Zenon
<1>11. MergeRight(q, h, b) = Fill(q, h, x)
  <2>1. Reaches(q, b, i, r)
    BY <1>3, <1>7, Zenon DEF Reaches
  <2>2. r.e > b.e
    BY <1>1, <1>4
  <2>3. MergeRight(q, h, b) = Fill(Become(q, i, Block(r.s, Greater(r.e, b.e), r.f \/ b.f)), h,
                                   Block(b.s, r.s, b.f))
    BY <2>1, <2>2, MergeRightEnds
  <2>4. Block(r.s, Greater(r.e, b.e), r.f \/ b.f) = r
    BY <1>1, <1>4, NotStretched
  <2> QED BY <2>3, <2>4, <1>8, <1>10, Zenon
<1>12. CASE b.s = r.s
  <2>1. Holds(r, b) /\ Holds(r, q.fifo[i]) /\ Sound(r, top)
    BY <1>1, <1>3, <1>4, <1>12 DEF Holds, Sound
  <2>2. \A j \in 1..Len(q.fifo) : j < i => q.fifo[j].e < r.s
    BY <1>1, <1>3
  <2>3. r.f => q.fifo[i].f \/ b.f
    BY <1>3, Zenon
  <2>4. \A y \in Nat : Within(y, r) => Within(y, q.fifo[i]) \/ Within(y, b)
    BY <1>3, Zenon
  <2>5. Widening(q, i, b, r, top)
    <3>1. \A j \in 1..Len(q.fifo) : i < j => r.e < q.fifo[j].s
      BY <1>1, <1>2, <1>6
    <3> QED BY <2>1, <2>2, <2>3, <2>4, <3>1, <1>1, <1>4, Zenon DEF Widening
  <2>6. x.f = b.f /\ x.e <= x.s /\ (b.f => r.f)
    BY <1>1, <1>4, <1>9, <1>12
  <2>7. Fill(q, h, x) = Fill(q, i, x)
    BY <2>6, Zenon DEF Fill
  <2>8. Grows(q, Fill(q, i, x), b, top)
    <3>1. q = Become(q, i, r)
      BY <1>10, Zenon
    <3> QED BY <3>1, <2>5, <2>6, <1>1, FilledInPlace
  <2> QED BY <2>7, <2>8, <1>11, Zenon
<1>13. CASE b.s < r.s
  <2>1. Sound(x, top) /\ x.s < x.e
    BY <1>1, <1>4, <1>9, <1>13 DEF Sound
  <2>2. ASSUME NEW j \in 1..Len(q.fifo), j <= h PROVE q.fifo[j].e <= x.s
    <3>1. j < i
      BY <2>2, <1>1, <1>2
    <3>2. q.fifo[j].e <= b.s
      BY <3>1, <1>1
    <3> QED BY <3>2, <1>9, Zenon
  <2>3. ASSUME NEW j \in 1..Len(q.fifo), h < j PROVE x.e <= q.fifo[j].s
    <3>1. CASE j = i
      BY <3>1, <1>3, <1>4, <1>9
    <3>2. CASE j > i
      <4>1. r.e < q.fifo[j].s /\ q.fifo[j].s \in Nat
        BY <3>2, <1>1, <1>6
      <4> QED BY <4>1, <1>4, <1>9
    <3> QED BY <2>3, <3>1, <3>2, <1>2
  <2>4. Linkable(q, h, x, top)
    BY <2>1, <2>2, <2>3, <1>1, <1>2, <1>9 DEF Linkable
  <2>5. ASSUME NEW y \in Nat, Within(y, b) PROVE Covers(q.fifo, y) \/ Within(y, x)
    <3>1. Within(y, r) \/ Within(y, x)
      BY <2>5, <1>1, <1>4, <1>9 DEF Within
    <3> QED BY <3>1, <1>1, <1>3, Zenon DEF Covers, Within
  <2>6. b.s <= x.s /\ x.e <= b.e
    BY <1>1, <1>4, <1>9
  <2>7. Grows(q, Link(q, h, x), b, top)
    BY <2>4, <2>5, <2>6, <1>1, <1>9, LinkedWithin
  <2>8. Fill(q, h, x) = Link(q, h, x)
    <3>1. ~(x.e <= x.s)
      BY <1>1, <1>4, <1>9, <1>13
    <3> QED BY <3>1, Zenon DEF Fill
  <2> QED BY <2>7, <2>8, <1>11, Zenon
<1> QED BY <1>1, <1>4, <1>12, <1>13

LEMMA MergeLeft ==
  ASSUME NEW q, NEW b, NEW i, i = Before(q.fifo, b.s) + 1,
         i = 1 \/ q.fifo[i].s < b.s,
         NEW c, NEW p, Leftward(q, b, i, c, p)
  PROVE  Merge(q, b) = MergeRight(p, i, Block(q.fifo[i].e, b.e, b.f))
<1>1. p = Become(q, i, Block(Lesser(q.fifo[i].s, b.s), q.fifo[i].e, q.fifo[i].f \/ b.f))
  BY Zenon DEF Leftward
<1>2. Merge(q, b) =
        MergeRight(Become(q, i, Block(Lesser(q.fifo[i].s, b.s), q.fifo[i].e,
                                      q.fifo[i].f \/ b.f)),
                   i, Block(q.fifo[i].e, b.e, b.f))
  BY Zenon DEF Merge
<1> QED BY <1>1, <1>2, Zenon

LEMMA MergeNotLeft ==
  ASSUME NEW q, NEW b, NEW i, i = Before(q.fifo, b.s) + 1,
         ~(i = 1 \/ q.fifo[i].s < b.s)
  PROVE  Merge(q, b) = MergeRight(q, i - 1, b)
  BY Zenon DEF Merge

\* Merge adds b when it covers no block
LEMMA MergeAdds ==
  ASSUME NEW top \in Nat, NEW q, NEW b, Addable(q, b, top), Uncovered(q, b),
         Len(q.fifo) > 0, b.s < q.fifo[Len(q.fifo)].e, q.fifo[1].s < b.e
  PROVE  Grows(q, Merge(q, b), b, top)
<1>1. PICK i \in 1..Len(q.fifo) : Meeting(q, b, i, top)
  BY Meets
<1>2. /\ i = Before(q.fifo, b.s) + 1
  BY <1>1 DEF Meeting
<1>3. /\ b \in Blk /\ b.s \in Nat /\ b.e \in Nat /\ b.f \in BOOLEAN /\ b.s <= b.e
      /\ q.fifo[i].s \in Nat /\ q.fifo[i].e \in Nat
  BY AddableParts
<1>4. CASE i = 1 \/ q.fifo[i].s < b.s
  <2>1. q.fifo[i].s < b.e
    BY <1>3, <1>4
  <2>2. ToLeft(q, b, i, top)
    BY <2>1, <1>1, <1>4 DEF ToLeft
  <2>3. PICK c : c = Block(Lesser(q.fifo[i].s, b.s), q.fifo[i].e, q.fifo[i].f \/ b.f)
    OBVIOUS
  <2>4. PICK p : p = Become(q, i, c)
    OBVIOUS
  <2>5. Leftward(q, b, i, c, p)
    BY <2>3, <2>4, Zenon DEF Leftward
  <2>6. PICK d : d = Block(q.fifo[i].e, b.e, b.f)
    OBVIOUS
  <2>7. d \in Blk /\ d.s = q.fifo[i].e /\ d.e = b.e /\ d.f = b.f
    <3>1. PICK s \in Nat : s = q.fifo[i].e
      BY <1>3
    <3>2. PICK e \in Nat : e = b.e
      BY <1>3
    <3>3. PICK fl \in BOOLEAN : fl = b.f
      BY <1>3
    <3>4. d = Block(s, e, fl)
      BY <2>6, <3>1, <3>2, <3>3, Zenon
    <3>5. /\ Block(s, e, fl) \in Blk /\ Block(s, e, fl).s = s
          /\ Block(s, e, fl).e = e /\ Block(s, e, fl).f = fl
      BY BlockIs
    <3> QED BY <3>1, <3>2, <3>3, <3>4, <3>5, Zenon
  <2>8. Merge(q, b) = MergeRight(p, i, d)
    <3>1. Merge(q, b) = MergeRight(p, i, Block(q.fifo[i].e, b.e, b.f))
      BY <2>5, <1>2, <1>4, MergeLeft
    <3> QED BY <3>1, <2>6, Zenon
  <2>9. PICK k : k = After(p.fifo, b.e) - 1
    OBVIOUS
  <2>10. CASE i # k
    <3>1. Grows(q, MergeRight(p, i, d), b, top)
      BY <2>2, <2>5, <2>7, <2>9, <2>10, LeftToRight
    <3> QED BY <3>1, <2>8, Zenon
  <2>11. CASE i = k /\ (i = Len(q.fifo) \/ q.fifo[i].e > b.e)
    <3>1. i = After(p.fifo, b.e) - 1
      BY <2>9, <2>11, Zenon
    <3>2. Grows(q, MergeRight(p, i, d), b, top)
      BY <2>2, <2>5, <2>7, <2>11, <3>1, LeftInside
    <3> QED BY <3>2, <2>8, Zenon
  <2>12. CASE i = k /\ ~(i = Len(q.fifo) \/ q.fifo[i].e > b.e)
    <3>1. i = After(p.fifo, b.e) - 1
      BY <2>9, <2>12, Zenon
    <3>2. Grows(q, MergeRight(p, i, d), b, top)
      BY <2>2, <2>5, <2>7, <2>12, <3>1, LeftThrough
    <3> QED BY <3>2, <2>8, Zenon
  <2> QED BY <2>10, <2>11, <2>12, Zenon
<1>5. CASE ~(i = 1 \/ q.fifo[i].s < b.s)
  <2>1. b.s <= q.fifo[i].s /\ i # 1
    BY <1>3, <1>5
  <2>2. NotToLeft(q, b, i, top)
    BY <2>1, <1>1 DEF NotToLeft
  <2>3. PICK h : h = i - 1
    OBVIOUS
  <2>4. Merge(q, b) = MergeRight(q, h, b)
    <3>1. Merge(q, b) = MergeRight(q, i - 1, b)
      BY <1>2, <1>5, MergeNotLeft
    <3> QED BY <3>1, <2>3, Zenon
  <2>5. CASE b.e <= q.fifo[i].s
    <3>1. Grows(q, MergeRight(q, h, b), b, top)
      BY <2>2, <2>3, <2>5, InGap
    <3> QED BY <3>1, <2>4, Zenon
  <2>6. CASE q.fifo[i].s < b.e
    <3>1. Grows(q, MergeRight(q, h, b), b, top)
      BY <2>2, <2>3, <2>6, RightInside
    <3> QED BY <3>1, <2>4, Zenon
  <2> QED BY <2>5, <2>6, <1>3
<1> QED BY <1>4, <1>5

\* b lies after all blocks, or before all, or there is none
Outside(q, b) ==
  Len(q.fifo) = 0 \/ b.s >= q.fifo[Len(q.fifo)].e \/ b.e <= q.fifo[1].s

\* Place adds b when it covers no block
LEMMA PlaceAdds ==
  ASSUME NEW top \in Nat, NEW q, NEW b, Addable(q, b, top), Outside(q, b) \/ Uncovered(q, b)
  PROVE  Grows(q, Place(q, b), b, top)
<1>1. /\ q.fifo \in Seq(Blk) /\ Len(q.fifo) \in Nat
      /\ b \in Blk /\ b.s \in Nat /\ b.e \in Nat /\ b.s <= b.e /\ b.e <= top
      /\ (b.s = b.e => b.s = top)
      /\ \A j \in 1..Len(q.fifo) :
              /\ q.fifo[j].s \in Nat /\ q.fifo[j].e \in Nat
              /\ q.fifo[j].s <= q.fifo[j].e /\ q.fifo[j].e <= top
      /\ \A j, k \in 1..Len(q.fifo) : j < k => q.fifo[j].e < q.fifo[k].s
  BY AddableParts
<1>2. Good(q, top) /\ Sound(b, top) /\ (b.f => b.e = top) /\ FlagsAtTop(q.fifo, top)
  BY DEF Addable
<1>3. \A j \in 1..Len(q.fifo) : q.fifo[j].f => q.fifo[j].e = top
  BY <1>2 DEF FlagsAtTop
<1>4. PICK n \in Nat : n = Len(q.fifo)
  BY <1>1
<1>5. CASE n = 0 \/ b.s >= q.fifo[n].e
  <2>1. ASSUME NEW j \in 1..n PROVE q.fifo[j].e <= b.s
    <3>1. n \in 1..n /\ (j = n \/ j < n) /\ b.s >= q.fifo[n].e
      BY <1>4, <1>5
    <3>2. CASE j = n
      BY <3>1, <3>2, <1>1, <1>4
    <3>3. CASE j < n
      <4>1. /\ q.fifo[j].e < q.fifo[n].s /\ q.fifo[n].s <= q.fifo[n].e
            /\ q.fifo[j].e \in Nat /\ q.fifo[n].s \in Nat /\ q.fifo[n].e \in Nat
        BY <3>1, <3>3, <1>1, <1>4
      <4> QED BY <3>1, <4>1, <1>1
    <3> QED BY <3>1, <3>2, <3>3
  <2>2. \A j \in 1..n : ~(n < j)
    BY <1>4
  <2>3. n \in 0..n
    OBVIOUS
  <2>4. Linkable(q, n, b, top)
    BY <2>1, <2>2, <2>3, <1>1, <1>2, <1>3, <1>4, Zenon DEF Linkable
  <2>5. Grows(q, Link(q, n, b), b, top)
    BY <2>4, <1>2, Linked
  <2>6. Place(q, b) = Link(q, n, b)
    BY <1>4, <1>5, Zenon DEF Place
  <2> QED BY <2>5, <2>6, Zenon
<1>6. CASE ~(n = 0 \/ b.s >= q.fifo[n].e) /\ b.e <= q.fifo[1].s
  <2>1. n \in 1..n /\ 1 \in 1..n /\ b.s < q.fifo[n].e
    BY <1>1, <1>4, <1>6
  <2>2. ASSUME NEW j \in 1..n PROVE b.e <= q.fifo[j].s
    <3>1. CASE j = 1
      BY <3>1, <1>6
    <3>2. CASE 1 < j
      <4>1. /\ q.fifo[1].e < q.fifo[j].s /\ q.fifo[1].s <= q.fifo[1].e
            /\ q.fifo[1].e \in Nat /\ q.fifo[1].s \in Nat /\ q.fifo[j].s \in Nat
        BY <2>1, <3>2, <1>1, <1>4
      <4> QED BY <4>1, <1>1, <1>6, SMTT(30)
    <3> QED BY <3>1, <3>2
  <2>3. b.s < b.e
    <3>1. q.fifo[n].e \in Nat /\ q.fifo[n].e <= top
      BY <2>1, <1>1, <1>4
    <3> QED BY <2>1, <3>1, <1>1
  <2>4. \A j \in 1..n : ~(j <= 0) /\ 0 < j
    BY <1>4
  <2>5. 0 \in 0..n
    BY <1>4
  <2>6. Linkable(q, 0, b, top)
    BY <2>2, <2>3, <2>4, <2>5, <1>1, <1>2, <1>3, <1>4, Zenon DEF Linkable
  <2>7. Grows(q, Link(q, 0, b), b, top)
    BY <2>6, <1>2, Linked
  <2>8. Place(q, b) = Link(q, 0, b)
    BY <1>4, <1>6, Zenon DEF Place
  <2> QED BY <2>7, <2>8, Zenon
<1>7. CASE ~(n = 0 \/ b.s >= q.fifo[n].e) /\ ~(b.e <= q.fifo[1].s)
  <2>1. Uncovered(q, b)
    BY <1>4, <1>7, Zenon DEF Outside
  <2>2. n \in 1..n /\ 1 \in 1..n /\ n > 0
    BY <1>7
  <2>3. b.s < q.fifo[n].e /\ q.fifo[1].s < b.e
    BY <2>2, <1>1, <1>4, <1>7
  <2>4. Grows(q, Merge(q, b), b, top)
    BY <2>1, <2>2, <2>3, <1>4, MergeAdds
  <2>5. Place(q, b) = Merge(q, b)
    BY <1>4, <1>7, Zenon DEF Place
  <2> QED BY <2>4, <2>5, Zenon
<1> QED BY <1>5, <1>6, <1>7

\* Every block lies ahead of rcv_nxt_
Ahead(q) == \A j \in 1..Len(q.fifo) : q.nxt < q.fifo[j].s

\* The block of the same bytes as b, if there is one
SameAs(q, b) == SelectInSeq(q.fifo, LAMBDA x : x.s = b.s /\ x.e = b.e)

LEMMA SameIs ==
  ASSUME NEW q, q.fifo \in Seq(Blk), NEW b, SameAs(q, b) # 0
  PROVE  /\ SameAs(q, b) \in 1..Len(q.fifo)
         /\ q.fifo[SameAs(q, b)].s = b.s /\ q.fifo[SameAs(q, b)].e = b.e
<1> DEFINE I == {i \in 1..Len(q.fifo) : q.fifo[i].s = b.s /\ q.fifo[i].e = b.e}
<1>1. SameAs(q, b) = IF I # {} THEN Min(I) ELSE 0
  BY Zenon DEF SameAs, SelectInSeq
<1>2. I # {} /\ SameAs(q, b) = Min(I)
  BY <1>1
<1>3. Min(I) \in I
  <2>1. I \in SUBSET Nat
    OBVIOUS
  <2> HIDE DEF I
  <2> QED BY <2>1, <1>2, MinIs
<1>4. SameAs(q, b) \in I
  BY <1>2, <1>3, Zenon
<1> QED BY <1>4

LEMMA AddSame ==
  ASSUME NEW top \in Nat, NEW q, NEW b, Addable(q, b, top), Ahead(q),
         NEW i \in 1..Len(q.fifo), q.fifo[i].s = b.s, q.fifo[i].e = b.e,
         NEW m, m = Block(b.s, b.e, b.f \/ q.fifo[i].f)
  PROVE  Grows(q, Result(Become(q, i, m), m.f), b, top)
<1>1. /\ b \in Blk /\ b.s \in Nat /\ b.e \in Nat /\ b.f \in BOOLEAN
      /\ \A j \in 1..Len(q.fifo) : q.fifo[j].f \in BOOLEAN
      /\ \A j, k \in 1..Len(q.fifo) : j < k => q.fifo[j].e < q.fifo[k].s
  BY AddableParts
<1>2. Good(q, top) /\ FlagsAtTop(q.fifo, top) /\ Sound(b, top) /\ (b.f => b.e = top)
  BY DEF Addable
<1>3. PICK fl : fl = (b.f \/ q.fifo[i].f)
  OBVIOUS
<1>4. fl \in BOOLEAN
  BY <1>1, <1>3
<1>5. m \in Blk /\ m.s = b.s /\ m.e = b.e /\ m.f = fl
  <2>1. PICK s \in Nat : s = b.s
    BY <1>1
  <2>2. PICK e \in Nat : e = b.e
    BY <1>1
  <2>3. m = Block(s, e, fl)
    BY <2>1, <2>2, <1>3, Zenon
  <2>4. /\ Block(s, e, fl) \in Blk /\ Block(s, e, fl).s = s
        /\ Block(s, e, fl).e = e /\ Block(s, e, fl).f = fl
    BY <1>4, BlockIs
  <2> QED BY <2>1, <2>2, <2>3, <2>4, Zenon
<1>6. Widening(q, i, b, m, top)
  <2>1. Sound(m, top)
    BY <1>2, <1>5, Zenon DEF Sound
  <2>2. Holds(m, q.fifo[i]) /\ Holds(m, b)
    BY <1>1, <1>5 DEF Holds
  <2>3. m.f => m.e = top
    BY <1>2, <1>3, <1>5, Zenon DEF FlagsAtTop
  <2>4. m.f => q.fifo[i].f \/ b.f
    BY <1>3, <1>5, Zenon
  <2>5. \A y \in Nat : Within(y, m) => Within(y, q.fifo[i]) \/ Within(y, b)
    BY <1>5, Zenon DEF Within
  <2>6. \A j \in 1..Len(q.fifo) : j # i /\ q.fifo[j].f => q.fifo[j].e = top
    BY <1>2, Zenon DEF FlagsAtTop
  <2>7. /\ \A j \in 1..Len(q.fifo) : j < i => q.fifo[j].e < m.s
        /\ \A j \in 1..Len(q.fifo) : i < j => m.e < q.fifo[j].s
    BY <1>1, <1>5, Zenon
  <2> QED BY <2>1, <2>2, <2>3, <2>4, <2>5, <2>6, <2>7, <1>1, <1>5, Zenon DEF Widening
<1>7. PICK u : u = Become(q, i, m)
  OBVIOUS
<1>8. Extends(q, u, b, top) /\ InPlace(q, u, i, m)
  BY <1>2, <1>6, <1>7, Widened
<1>9. i \in 1..Len(u.fifo) /\ u.fifo[i] = m /\ u.nxt = q.nxt
  BY <1>8 DEF InPlace
<1>10. Holds(m, b)
  BY <1>6 DEF Widening
<1>11. u.nxt = Moved(q.nxt, m)
  <2>1. q.nxt < m.s /\ q.nxt \in Nat /\ m.s \in Nat
    <3>1. q.nxt \in Nat
      BY <1>2, QueueParts DEF Good
    <3> QED BY <3>1, <1>1, <1>5 DEF Ahead
  <2>2. ~(q.nxt >= m.s)
    BY <2>1
  <2> QED BY <2>2, <1>9, Zenon DEF Moved
<1>12. PICK r : r = Result(u, m.f)
  OBVIOUS
<1>13. r.queue = u /\ r.flag = m.f
  BY <1>12 DEF Result
<1>14. Grows(q, r, b, top)
  BY <1>8, <1>9, <1>10, <1>11, <1>13, Zenon DEF Grows
<1> QED BY <1>7, <1>12, <1>14, Zenon

\* Blocks that b covers are dropped
HitBy(q, b) ==
  {x \in ToSet(SubSeq(q.fifo, 1, After(q.fifo, b.e) - 1)) : b.s <= x.s /\ x.e <= b.e}

LEMMA HitIs ==
  ASSUME NEW top \in Nat, NEW q, NEW b, Addable(q, b, top)
  PROVE  /\ HitBy(q, b) \subseteq ToSet(q.fifo)
         /\ \A x \in HitBy(q, b) : b.s <= x.s /\ x.e <= b.e
         /\ \A j \in 1..Len(q.fifo) :
              b.s <= q.fifo[j].s /\ q.fifo[j].s < b.e /\ q.fifo[j].e <= b.e
                => q.fifo[j] \in HitBy(q, b)
<1>1. /\ q.fifo \in Seq(Blk) /\ Len(q.fifo) \in Nat /\ b.e \in Nat
      /\ \A j \in 1..Len(q.fifo) :
           q.fifo[j].s \in Nat /\ q.fifo[j].e \in Nat /\ q.fifo[j].s <= q.fifo[j].e
      /\ \A j, k \in 1..Len(q.fifo) : j < k => q.fifo[j].e < q.fifo[k].s
  BY AddableParts
<1>2. PICK a : a = After(q.fifo, b.e)
  OBVIOUS
<1>3. /\ a \in 1..Len(q.fifo) + 1 /\ (a <= Len(q.fifo) => q.fifo[a].s >= b.e)
  BY <1>1, <1>2, AfterIs
<1>4. PICK k \in 0..Len(q.fifo) : k = a - 1
  BY <1>1, <1>3
<1>5. PICK s : s = SubSeq(q.fifo, 1, k)
  OBVIOUS
<1>6. s \in Seq(Blk) /\ Len(s) = k /\ \A j \in 1..k : s[j] = q.fifo[j]
  BY <1>1, <1>5, PrefixOf
<1>7. HitBy(q, b) = {x \in ToSet(s) : b.s <= x.s /\ x.e <= b.e}
  BY <1>2, <1>4, <1>5, Zenon DEF HitBy
<1>8. \A x : x \in ToSet(s) <=> \E j \in 1..k : q.fifo[j] = x
  BY <1>6, ToSetIs
<1>9. \A x : x \in ToSet(q.fifo) <=> \E j \in 1..Len(q.fifo) : q.fifo[j] = x
  BY <1>1, ToSetIs
<1>10. \A j \in 1..k : j \in 1..Len(q.fifo)
  BY <1>1
<1>11. ASSUME NEW j \in 1..Len(q.fifo), q.fifo[j].s < b.e PROVE j \in 1..k
  <2>1. SUFFICES ASSUME ~(j \in 1..k) PROVE FALSE
    OBVIOUS
  <2>2. a \in 1..Len(q.fifo) /\ (a = j \/ a < j)
    BY <2>1, <1>1, <1>3, <1>4
  <2>3. q.fifo[a].s >= b.e /\ a # j
    BY <2>2, <1>1, <1>3, <1>11
  <2>4. q.fifo[a].e < q.fifo[j].s
    BY <2>2, <2>3, <1>1
  <2> QED BY <2>2, <2>3, <2>4, <1>1, <1>11
<1>12. HitBy(q, b) \subseteq ToSet(q.fifo)
  BY <1>7, <1>8, <1>9, <1>10, Zenon
<1>13. \A x \in HitBy(q, b) : b.s <= x.s /\ x.e <= b.e
  BY <1>7, Zenon
<1>14. ASSUME NEW j \in 1..Len(q.fifo),
              b.s <= q.fifo[j].s /\ q.fifo[j].s < b.e /\ q.fifo[j].e <= b.e
       PROVE  q.fifo[j] \in HitBy(q, b)
  BY <1>7, <1>8, <1>11, <1>14, Zenon
<1> QED BY <1>12, <1>13, <1>14, Zenon

LEMMA AddDropping ==
  ASSUME NEW top \in Nat, NEW q, NEW b, Addable(q, b, top),
         NEW p, p = Drop(q, HitBy(q, b)),
         NEW c, c = Block(b.s, b.e, b.f \/ \E x \in HitBy(q, b) : x.f)
  PROVE  Grows(q, Place(p, c), b, top)
<1>1. /\ q.fifo \in Seq(Blk) /\ b \in Blk /\ b.s \in Nat /\ b.e \in Nat /\ b.f \in BOOLEAN
      /\ b.s <= b.e /\ b.e <= top
      /\ \A j \in 1..Len(q.fifo) :
           /\ q.fifo[j].s \in Nat /\ q.fifo[j].e \in Nat /\ q.fifo[j].f \in BOOLEAN
  BY AddableParts
<1>2. Good(q, top) /\ FlagsAtTop(q.fifo, top) /\ Sound(b, top) /\ (b.f => b.e = top)
  BY DEF Addable
<1>3. PICK H : H = HitBy(q, b)
  OBVIOUS
<1>4. /\ H \subseteq ToSet(q.fifo) /\ (\A x \in H : b.s <= x.s /\ x.e <= b.e)
      /\ \A j \in 1..Len(q.fifo) :
           b.s <= q.fifo[j].s /\ q.fifo[j].s < b.e /\ q.fifo[j].e <= b.e => q.fifo[j] \in H
  <2>1. /\ HitBy(q, b) \subseteq ToSet(q.fifo)
        /\ \A x \in HitBy(q, b) : b.s <= x.s /\ x.e <= b.e
        /\ \A j \in 1..Len(q.fifo) :
             b.s <= q.fifo[j].s /\ q.fifo[j].s < b.e /\ q.fifo[j].e <= b.e
               => q.fifo[j] \in HitBy(q, b)
    BY HitIs
  <2> QED BY <2>1, <1>3, Zenon
<1>5. Good(p, top) /\ p.nxt = q.nxt /\ ToSet(p.fifo) = ToSet(q.fifo) \ H
  <2>1. p = Drop(q, H)
    BY <1>3, Zenon
  <2>2. /\ Good(Drop(q, H), top) /\ Drop(q, H).nxt = q.nxt
        /\ ToSet(Drop(q, H).fifo) = ToSet(q.fifo) \ H
    BY <1>2, DropGood
  <2> QED BY <2>1, <2>2, Zenon
<1>6. /\ \A x : x \in ToSet(q.fifo) <=> \E j \in 1..Len(q.fifo) : q.fifo[j] = x
      /\ \A x : x \in ToSet(p.fifo) <=> \E j \in 1..Len(p.fifo) : p.fifo[j] = x
  <2>1. p.fifo \in Seq(Blk)
    BY <1>5, QueueParts DEF Good
  <2> QED BY <2>1, <1>1, ToSetIs
<1>7. ASSUME NEW j \in 1..Len(p.fifo)
      PROVE  \E k \in 1..Len(q.fifo) : p.fifo[j] = q.fifo[k] /\ q.fifo[k] \notin H
  <2>1. p.fifo[j] \in ToSet(p.fifo)
    BY <1>6, Zenon
  <2>2. p.fifo[j] \in ToSet(q.fifo) /\ p.fifo[j] \notin H
    BY <2>1, <1>5
  <2>3. PICK k \in 1..Len(q.fifo) : q.fifo[k] = p.fifo[j]
    BY <2>2, <1>6, Zenon
  <2> QED BY <2>2, <2>3, Zenon
<1>8. ASSUME NEW k \in 1..Len(q.fifo)
      PROVE  q.fifo[k] \in H \/ \E j \in 1..Len(p.fifo) : p.fifo[j] = q.fifo[k]
  <2>1. q.fifo[k] \in ToSet(q.fifo)
    BY <1>6, Zenon
  <2>2. q.fifo[k] \notin H => q.fifo[k] \in ToSet(p.fifo)
    BY <2>1, <1>5
  <2> QED BY <2>2, <1>6, Zenon
<1>9. PICK fl : fl = (b.f \/ \E x \in H : x.f)
  OBVIOUS
<1>10. fl \in BOOLEAN
  BY <1>1, <1>9
<1>11. ASSUME NEW x \in H, x.f PROVE x.e = top /\ HasFlag(q.fifo)
  <2>1. PICK k \in 1..Len(q.fifo) : q.fifo[k] = x
    BY <1>4, <1>6, Zenon
  <2> QED BY <2>1, <1>2, <1>11, Zenon DEF FlagsAtTop, HasFlag
<1>12. c \in Blk /\ c.s = b.s /\ c.e = b.e /\ c.f = fl
  <2>1. PICK s \in Nat : s = b.s
    BY <1>1
  <2>2. PICK e \in Nat : e = b.e
    BY <1>1
  <2>3. c = Block(s, e, fl)
    BY <2>1, <2>2, <1>3, <1>9, Zenon
  <2>4. /\ Block(s, e, fl) \in Blk /\ Block(s, e, fl).s = s
        /\ Block(s, e, fl).e = e /\ Block(s, e, fl).f = fl
    BY <1>10, BlockIs
  <2> QED BY <2>1, <2>2, <2>3, <2>4, Zenon
<1>13. c.f => c.e = top
  <2>1. ASSUME NEW x \in H, x.f PROVE b.e = top
    <3>1. x.e = top /\ x.e <= b.e
      BY <2>1, <1>4, <1>11
    <3> QED BY <3>1, <1>1
  <2> QED BY <2>1, <1>2, <1>9, <1>12, Zenon
<1>14. Addable(p, c, top)
  <2>1. FlagsAtTop(p.fifo, top)
    BY <1>2, <1>7, ZenonT(40) DEF FlagsAtTop
  <2>2. Sound(c, top)
    BY <1>2, <1>12, Zenon DEF Sound
  <2> QED BY <2>1, <2>2, <1>5, <1>12, <1>13 DEF Addable
<1>15. Uncovered(p, c)
  BY <1>4, <1>7, <1>12, Zenon DEF Uncovered
<1>16. Grows(p, Place(p, c), c, top)
  BY <1>14, <1>15, PlaceAdds
<1>17. Shared(q, b, p, c)
  <2>1. ASSUME NEW y \in Nat
        PROVE  Covers(p.fifo, y) \/ Within(y, c) <=> Covers(q.fifo, y) \/ Within(y, b)
    <3>1. Within(y, c) <=> Within(y, b)
      BY <1>12, Zenon DEF Within
    <3>2. /\ Covers(p.fifo, y) <=> \E j \in 1..Len(p.fifo) : Within(y, p.fifo[j])
          /\ Covers(q.fifo, y) <=> \E j \in 1..Len(q.fifo) : Within(y, q.fifo[j])
      BY Zenon DEF Covers, Within
    <3>3. Covers(p.fifo, y) => Covers(q.fifo, y)
      BY <3>2, <1>7, Zenon
    <3>4. ASSUME NEW k \in 1..Len(q.fifo), Within(y, q.fifo[k])
          PROVE  Covers(p.fifo, y) \/ Within(y, b)
      <4>1. CASE q.fifo[k] \in H
        <5>1. b.s <= q.fifo[k].s /\ q.fifo[k].e <= b.e
          BY <4>1, <1>4
        <5> QED BY <5>1, <3>4, <1>1 DEF Within
      <4>2. CASE q.fifo[k] \notin H
        BY <4>2, <3>2, <3>4, <1>8, Zenon
      <4> QED BY <4>1, <4>2
    <3> QED BY <3>1, <3>2, <3>3, <3>4, Zenon
  <2>2. HasFlag(p.fifo) \/ c.f => HasFlag(q.fifo) \/ b.f
    <3>1. HasFlag(p.fifo) => HasFlag(q.fifo)
      BY <1>7, Zenon DEF HasFlag
    <3>2. c.f => HasFlag(q.fifo) \/ b.f
      BY <1>9, <1>11, <1>12, Zenon
    <3> QED BY <3>1, <3>2
  <2>3. b.s <= c.s /\ c.s <= c.e /\ c.e <= b.e
    BY <1>1, <1>12
  <2> QED BY <2>1, <2>2, <2>3, <1>1, <1>5, <1>12, Zenon DEF Shared
<1> QED BY <1>16, <1>17, Transferred

\* add adds the bytes of b
LEMMA AddAdds ==
  ASSUME NEW top \in Nat, NEW q, NEW b, Addable(q, b, top), Ahead(q)
  PROVE  Grows(q, Add(q, b), b, top)
<1>1. CASE Outside(q, b)
  <2>1. Add(q, b) = Place(q, b)
    BY <1>1, Zenon DEF Add, Outside
  <2>2. Grows(q, Place(q, b), b, top)
    BY <1>1, PlaceAdds
  <2> QED BY <2>1, <2>2, Zenon
<1>2. CASE ~Outside(q, b) /\ SameAs(q, b) # 0
  <2>1. q.fifo \in Seq(Blk)
    BY AddableParts
  <2>2. PICK i : i = SameAs(q, b)
    OBVIOUS
  <2>3. i \in 1..Len(q.fifo) /\ q.fifo[i].s = b.s /\ q.fifo[i].e = b.e
    BY <2>1, <2>2, <1>2, SameIs, Zenon
  <2>4. PICK m : m = Block(b.s, b.e, b.f \/ q.fifo[i].f)
    OBVIOUS
  <2>5. Grows(q, Result(Become(q, i, m), m.f), b, top)
    BY <2>3, <2>4, AddSame
  <2>6. Add(q, b) = LET m1 == Block(b.s, b.e, b.f \/ q.fifo[SameAs(q, b)].f)
                    IN  Result(Become(q, SameAs(q, b), m1), m1.f)
    BY <1>2, Zenon DEF Add, Outside, SameAs
  <2> QED BY <2>2, <2>4, <2>5, <2>6, Zenon
<1>3. CASE ~Outside(q, b) /\ SameAs(q, b) = 0
  <2>1. PICK p : p = Drop(q, HitBy(q, b))
    OBVIOUS
  <2>2. PICK c : c = Block(b.s, b.e, b.f \/ \E x \in HitBy(q, b) : x.f)
    OBVIOUS
  <2>3. Grows(q, Place(p, c), b, top)
    BY <2>1, <2>2, AddDropping
  <2>4. Add(q, b) = Place(Drop(q, HitBy(q, b)),
                          Block(b.s, b.e, b.f \/ \E x \in HitBy(q, b) : x.f))
    BY <1>3, Zenon DEF Add, Outside, SameAs, HitBy
  <2> QED BY <2>1, <2>2, <2>3, <2>4, Zenon
<1> QED BY <1>1, <1>2, <1>3

-----------------------------------------------------------------------------
(* What is left of add and cleartonxt for the owner of the queue *)

\* A queue whose blocks lie ahead of rcv_nxt_
Waiting(q, top) == Good(q, top) /\ FlagsAtTop(q.fifo, top) /\ Ahead(q)

\* Blocks start at a byte that is covered, or at top
LEMMA StartsAfter ==
  ASSUME NEW top \in Nat, NEW q, Waiting(q, top), NEW b \in Blk, Sound(b, top),
         NEW u, Extends(q, u, b, top), NEW n \in Nat, n <= b.s,
         \A j \in 1..Len(q.fifo) : n <= q.fifo[j].s
  PROVE  \A j \in 1..Len(u.fifo) : n <= u.fifo[j].s
<1>1. u \in Queues /\ Apart(u.fifo, top) /\ q \in Queues
  BY DEF Extends, Good, Waiting
<1>2. b.s \in Nat /\ b.e \in Nat /\ b.s <= b.e /\ b.e <= top
  BY BlkParts DEF Sound
<1>3. SUFFICES ASSUME NEW j \in 1..Len(u.fifo) PROVE n <= u.fifo[j].s
  OBVIOUS
<1>4. PICK x : x = u.fifo[j]
  OBVIOUS
<1>5. x.s \in Nat /\ x.e \in Nat /\ Sound(x, top)
  BY <1>1, <1>4, QueueParts DEF Apart
<1>6. CASE x.s = x.e
  BY <1>2, <1>4, <1>5, <1>6 DEF Sound
<1>7. CASE x.s # x.e
  <2>1. x.s <= x.s /\ x.s < x.e
    BY <1>5, <1>7 DEF Sound
  <2>2. Covers(u.fifo, x.s)
    BY <2>1, <1>4, Zenon DEF Covers
  <2>3. Covers(q.fifo, x.s) \/ Within(x.s, b)
    BY <2>2, <1>5, Zenon DEF Extends
  <2>4. CASE Within(x.s, b)
    BY <2>4, <1>2, <1>4, <1>5 DEF Within
  <2>5. CASE Covers(q.fifo, x.s)
    <3>1. PICK k \in 1..Len(q.fifo) : q.fifo[k].s <= x.s
      BY <2>5, Zenon DEF Covers
    <3>2. n <= q.fifo[k].s /\ q.fifo[k].s \in Nat
      BY <1>1, QueueParts
    <3>3. n <= x.s
      BY <3>1, <3>2, <1>5
    <3> QED BY <3>3, <1>4, Zenon
  <2> QED BY <2>3, <2>4, <2>5
<1> QED BY <1>6, <1>7

\* A segment ahead of rcv_nxt_ leaves it alone
LEMMA AddAhead ==
  ASSUME NEW top \in Nat, NEW q, Waiting(q, top), NEW b \in Blk, Sound(b, top),
         b.f => b.e = top, q.nxt < b.s
  PROVE  /\ Extends(q, Add(q, b).queue, b, top)
         /\ Waiting(Add(q, b).queue, top) /\ Add(q, b).queue.nxt = q.nxt
<1>1. Addable(q, b, top) /\ Ahead(q) /\ q \in Queues /\ Good(q, top)
  BY DEF Addable, Waiting, Good
<1>2. PICK r : r = Add(q, b)
  OBVIOUS
<1>3. Grows(q, r, b, top)
  BY <1>1, <1>2, AddAdds
<1>4. PICK u : u = r.queue
  OBVIOUS
<1>5. Extends(q, u, b, top)
  BY <1>3, <1>4 DEF Grows
<1>6. u \in Queues /\ Good(u, top) /\ FlagsAtTop(u.fifo, top)
  BY <1>5 DEF Extends, Good
<1>7. q.nxt \in Nat /\ b.s \in Nat /\ b.e \in Nat
  BY <1>1, QueueParts, BlkParts
<1>8. \A j \in 1..Len(u.fifo) : q.nxt < u.fifo[j].s
  <2>1. PICK n \in Nat : n = q.nxt + 1
    BY <1>7
  <2>2. n <= b.s
    BY <2>1, <1>7
  <2>3. ASSUME NEW j \in 1..Len(q.fifo) PROVE n <= q.fifo[j].s
    <3>1. q.nxt < q.fifo[j].s /\ q.fifo[j].s \in Nat
      BY <1>1, QueueParts DEF Ahead
    <3> QED BY <3>1, <2>1, <1>7
  <2>4. \A j \in 1..Len(u.fifo) : n <= u.fifo[j].s
    BY <2>2, <2>3, <1>5, StartsAfter
  <2>5. \A j \in 1..Len(u.fifo) : u.fifo[j].s \in Nat
    BY <1>6, QueueParts
  <2> QED BY <2>1, <2>4, <2>5, <1>7
<1>9. u.nxt = q.nxt
  <2>1. PICK k \in 1..Len(u.fifo) : u.nxt = Moved(q.nxt, u.fifo[k])
    BY <1>3, <1>4, Zenon DEF Grows
  <2>2. ~(q.nxt >= u.fifo[k].s)
    <3>1. q.nxt < u.fifo[k].s /\ u.fifo[k].s \in Nat
      BY <1>6, <1>8, QueueParts
    <3> QED BY <3>1, <1>7
  <2> QED BY <2>1, <2>2, Zenon DEF Moved
<1>10. Waiting(u, top)
  BY <1>6, <1>8, <1>9 DEF Waiting, Ahead
<1> QED BY <1>2, <1>4, <1>5, <1>9, <1>10, Zenon

\* A segment at rcv_nxt_ moves it to the end of the first block, which is the
\* one the segment went to
LEMMA AddNext ==
  ASSUME NEW top \in Nat, NEW q, Waiting(q, top), NEW b \in Blk, Sound(b, top),
         b.f => b.e = top, q.nxt = b.s, b.s < b.e
  PROVE  /\ Extends(q, Add(q, b).queue, b, top)
         /\ 1 \in 1..Len(Add(q, b).queue.fifo)
         /\ Add(q, b).queue.fifo[1].s = q.nxt
         /\ Add(q, b).queue.fifo[1].e = Add(q, b).queue.nxt
         /\ Add(q, b).flag => Add(q, b).queue.fifo[1].f
<1>1. Addable(q, b, top) /\ Ahead(q) /\ q \in Queues /\ Good(q, top)
  BY DEF Addable, Waiting, Good
<1>2. PICK r : r = Add(q, b)
  OBVIOUS
<1>3. Grows(q, r, b, top)
  BY <1>1, <1>2, AddAdds
<1>4. PICK u : u = r.queue
  OBVIOUS
<1>5. Extends(q, u, b, top)
  BY <1>3, <1>4 DEF Grows
<1>6. u \in Queues /\ Apart(u.fifo, top)
  BY <1>5 DEF Extends, Good
<1>7. q.nxt \in Nat /\ b.s \in Nat /\ b.e \in Nat
  BY <1>1, QueueParts, BlkParts
<1>8. /\ Len(u.fifo) \in Nat
      /\ \A j \in 1..Len(u.fifo) : u.fifo[j].s \in Nat /\ u.fifo[j].e \in Nat
  BY <1>6, QueueParts
<1>9. \A j \in 1..Len(u.fifo) : q.nxt <= u.fifo[j].s
  <2>1. \A j \in 1..Len(q.fifo) : q.nxt <= q.fifo[j].s
    <3>1. \A j \in 1..Len(q.fifo) : q.nxt < q.fifo[j].s /\ q.fifo[j].s \in Nat
      BY <1>1, QueueParts DEF Ahead
    <3> QED BY <3>1, <1>7
  <2>2. q.nxt <= b.s
    BY <1>7
  <2> QED BY <2>1, <2>2, <1>5, <1>7, StartsAfter
<1>10. ASSUME NEW m \in 1..Len(u.fifo), Holds(u.fifo[m], b)
       PROVE  m = 1 /\ u.fifo[m].s = q.nxt
  <2>1. u.fifo[m].s = q.nxt
    BY <1>7, <1>8, <1>9, <1>10 DEF Holds
  <2>2. 1 \in 1..Len(u.fifo) /\ (m = 1 \/ 1 < m)
    BY <1>8
  <2>3. ~(1 < m)
    <3>1. 1 < m => u.fifo[1].e < u.fifo[m].s
      BY <2>2, <1>6 DEF Apart
    <3>2. u.fifo[1].s <= u.fifo[1].e /\ q.nxt <= u.fifo[1].s
      BY <2>2, <1>6, <1>9 DEF Apart, Sound
    <3> QED BY <2>1, <2>2, <3>1, <3>2, <1>7, <1>8
  <2> QED BY <2>1, <2>2, <2>3
<1>11. PICK m \in 1..Len(u.fifo) : Holds(u.fifo[m], b) /\ (r.flag => u.fifo[m].f)
  BY <1>3, <1>4, Zenon DEF Grows
<1>12. 1 \in 1..Len(u.fifo) /\ u.fifo[1].s = q.nxt /\ (r.flag => u.fifo[1].f)
  BY <1>10, <1>11, Zenon
<1>13. u.nxt = u.fifo[1].e
  <2>1. PICK k \in 1..Len(u.fifo) :
          (k = 1 \/ Holds(u.fifo[k], b)) /\ u.nxt = Moved(q.nxt, u.fifo[k])
    BY <1>3, <1>4, Zenon DEF Grows
  <2>2. k = 1
    BY <2>1, <1>10, Zenon
  <2>3. q.nxt >= u.fifo[1].s
    BY <1>7, <1>12
  <2> QED BY <2>1, <2>2, <2>3, Zenon DEF Moved
<1> QED BY <1>2, <1>4, <1>5, <1>12, <1>13, Zenon

\* cleartonxt then drops that block, and its flag is returned
LEMMA ClearFirst ==
  ASSUME NEW top \in Nat, NEW u, Good(u, top), FlagsAtTop(u.fifo, top),
         1 \in 1..Len(u.fifo), u.fifo[1].e = u.nxt
  PROVE  /\ Waiting(Clearto(u).queue, top) /\ Clearto(u).queue.nxt = u.nxt
         /\ Clearto(u).flag = u.fifo[1].f
         /\ \A y \in Nat : Covers(Clearto(u).queue.fifo, y) <=>
                             Covers(u.fifo, y) /\ u.nxt <= y
         /\ HasFlag(Clearto(u).queue.fifo) => HasFlag(u.fifo)
<1>1. u \in Queues /\ Apart(u.fifo, top)
  BY DEF Good
<1>2. /\ u.fifo \in Seq(Blk) /\ u.nxt \in Nat /\ Len(u.fifo) \in Nat
      /\ \A j \in 1..Len(u.fifo) : /\ u.fifo[j].s \in Nat /\ u.fifo[j].e \in Nat
                                   /\ u.fifo[j].f \in BOOLEAN
  BY <1>1, QueueParts
<1>3. ASSUME NEW j \in 1..Len(u.fifo), j # 1 PROVE u.nxt < u.fifo[j].s /\ u.nxt < u.fifo[j].e
  <2>1. 1 < j
    BY <1>3
  <2>2. u.fifo[1].e < u.fifo[j].s /\ u.fifo[j].s <= u.fifo[j].e
    BY <2>1, <1>1 DEF Apart, Sound
  <2> QED BY <2>2, <1>2
<1>4. PICK gone : gone = {x \in ToSet(u.fifo) : x.e <= u.nxt}
  OBVIOUS
<1>5. \A x : x \in ToSet(u.fifo) <=> \E j \in 1..Len(u.fifo) : u.fifo[j] = x
  BY <1>2, ToSetIs
<1>6. gone = {u.fifo[1]}
  <2>1. u.fifo[1] \in gone
    BY <1>2, <1>4, <1>5
  <2>2. ASSUME NEW x \in gone PROVE x = u.fifo[1]
    <3>1. PICK j \in 1..Len(u.fifo) : u.fifo[j] = x
      BY <1>4, <1>5, Zenon
    <3>2. x.e <= u.nxt
      BY <1>4, Zenon
    <3>3. j = 1
      <4>1. j # 1 => u.nxt < u.fifo[j].e /\ u.fifo[j].e \in Nat
        BY <1>2, <1>3
      <4>2. u.fifo[j].e <= u.nxt
        BY <3>1, <3>2, Zenon
      <4> QED BY <4>1, <4>2, <1>2
    <3> QED BY <3>1, <3>3
  <2> QED BY <2>1, <2>2
<1>7. PICK p : p = Drop(u, gone)
  OBVIOUS
<1>8. Good(p, top) /\ p.nxt = u.nxt /\ ToSet(p.fifo) = ToSet(u.fifo) \ gone
  <2>1. /\ Good(Drop(u, gone), top) /\ Drop(u, gone).nxt = u.nxt
        /\ ToSet(Drop(u, gone).fifo) = ToSet(u.fifo) \ gone
    BY DropGood
  <2> QED BY <2>1, <1>7, Zenon
<1>9. p.fifo \in Seq(Blk) /\ Len(p.fifo) \in Nat
  BY <1>8, QueueParts DEF Good
<1>10. \A x : x \in ToSet(p.fifo) <=> \E j \in 1..Len(p.fifo) : p.fifo[j] = x
  BY <1>9, ToSetIs
<1>11. ASSUME NEW j \in 1..Len(p.fifo)
       PROVE  \E k \in 1..Len(u.fifo) : k # 1 /\ p.fifo[j] = u.fifo[k]
  <2>1. p.fifo[j] \in ToSet(p.fifo)
    BY <1>10, Zenon
  <2>2. p.fifo[j] \in ToSet(u.fifo) /\ p.fifo[j] # u.fifo[1]
    BY <2>1, <1>6, <1>8
  <2> QED BY <2>2, <1>5, Zenon
<1>12. ASSUME NEW k \in 1..Len(u.fifo), k # 1
       PROVE  \E j \in 1..Len(p.fifo) : p.fifo[j] = u.fifo[k]
  <2>1. u.fifo[k] \in ToSet(u.fifo)
    BY <1>5, Zenon
  <2>2. u.fifo[k] # u.fifo[1]
    <3>1. u.nxt < u.fifo[k].e /\ u.fifo[k].e \in Nat
      BY <1>2, <1>3, <1>12
    <3>2. u.fifo[k].e # u.nxt
      BY <3>1, <1>2
    <3> QED BY <3>2, Zenon
  <2>3. u.fifo[k] \in ToSet(p.fifo)
    BY <2>1, <2>2, <1>6, <1>8
  <2> QED BY <2>3, <1>10, Zenon
<1>13. Ahead(p)
  <2>1. ASSUME NEW j \in 1..Len(p.fifo) PROVE p.nxt < p.fifo[j].s
    BY <1>3, <1>8, <1>11, Zenon
  <2> QED BY <2>1 DEF Ahead
<1>14. FlagsAtTop(p.fifo, top) /\ (HasFlag(p.fifo) => HasFlag(u.fifo))
  BY <1>11, Zenon DEF FlagsAtTop, HasFlag
<1>15. ASSUME NEW y \in Nat
       PROVE  Covers(p.fifo, y) <=> Covers(u.fifo, y) /\ u.nxt <= y
  <2>1. /\ Covers(p.fifo, y) <=> \E j \in 1..Len(p.fifo) : Within(y, p.fifo[j])
        /\ Covers(u.fifo, y) <=> \E j \in 1..Len(u.fifo) : Within(y, u.fifo[j])
    BY Zenon DEF Covers, Within
  <2>2. ASSUME NEW k \in 1..Len(u.fifo), k # 1, Within(y, u.fifo[k]) PROVE u.nxt <= y
    <3>1. u.nxt < u.fifo[k].s /\ u.fifo[k].s \in Nat
      BY <2>2, <1>2, <1>3
    <3> QED BY <3>1, <2>2, <1>2 DEF Within
  <2>3. Covers(p.fifo, y) => Covers(u.fifo, y) /\ u.nxt <= y
    BY <2>1, <2>2, <1>11, Zenon
  <2>4. ASSUME NEW k \in 1..Len(u.fifo), Within(y, u.fifo[k]), u.nxt <= y
        PROVE  Covers(p.fifo, y)
    <3>1. k # 1
      BY <2>4, <1>2 DEF Within
    <3> QED BY <3>1, <2>1, <2>4, <1>12, Zenon
  <2> QED BY <2>1, <2>3, <2>4, Zenon
<1>16. Clearto(u) = Result(p, \E x \in gone : x.f)
  <2>1. ~(p.fifo # <<>> /\ p.fifo[1].s <= p.nxt)
    <3>1. SUFFICES ASSUME p.fifo # <<>> PROVE ~(p.fifo[1].s <= p.nxt)
      OBVIOUS
    <3>2. 1 \in 1..Len(p.fifo)
      BY <3>1, <1>9
    <3>3. p.nxt < p.fifo[1].s /\ p.fifo[1].s \in Nat /\ p.nxt \in Nat
      BY <3>2, <1>2, <1>8, <1>9, <1>13, BlocksAre DEF Ahead
    <3> QED BY <3>3
  <2>2. ~(p.fifo # <<>> /\ p.fifo[1].s <= u.nxt)
    BY <2>1, <1>8, Zenon
  <2> QED BY <2>2, <1>4, <1>7, Zenon DEF Clearto
<1>17. (\E x \in gone : x.f) = u.fifo[1].f
  BY <1>2, <1>6
<1>18. Clearto(u).queue = p /\ Clearto(u).flag = u.fifo[1].f
  <2>1. PICK fl : fl = (\E x \in gone : x.f)
    OBVIOUS
  <2>2. Clearto(u) = Result(p, fl)
    BY <2>1, <1>16, Zenon
  <2>3. Result(p, fl).queue = p /\ Result(p, fl).flag = fl
    BY DEF Result
  <2> QED BY <2>1, <2>2, <2>3, <1>17, Zenon
<1>19. Waiting(p, top)
  BY <1>8, <1>13, <1>14 DEF Waiting
<1> QED BY <1>8, <1>14, <1>15, <1>18, <1>19, Zenon
=============================================================================

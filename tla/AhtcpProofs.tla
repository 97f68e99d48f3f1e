----------------------------- MODULE AhtcpProofs ------------------------------
(***************************************************************************)
(* Theorems about AhtcpController for every number of flows, block, packet  *)
(* size, cap and interval: type correctness, that the application is        *)
(* finished only when every flow is complete, the pacing of SYNs and flows, *)
(* and that the goodput is looked at in time.                               *)
(***************************************************************************)
EXTENDS AhtcpController, FiniteSetTheorems, TLAPS

Data == INSTANCE DataTheorems

Whole == SRU + 1

\* What every visit of a poll keeps.  No flow is ever subtracted.
Good ==
  {st \in [syn : 0..S, next : 0..S, cur : 0..S, fin : [Flows -> BOOLEAN]] :
     /\ st.cur = st.next /\ st.next <= MaxOf(Para, KX)
     /\ st.next <= Para + Cardinality({i \in Flows : st.fin[i]})
     /\ \A i \in Flows : st.fin[i] => HalfWay(i)
     /\ Para <= st.syn
     /\ \A i \in Para - 1 .. st.syn - 2 : rcv_nxt[i] >= 1}

\* The latest interval that ended without a look at the goodput ended within the
\* lock of three intervals, which runs since that look
TimeOrder ==
  /\ age \in 0..P+1 /\ held \in 1..3*P+1 /\ quiet \in 0..4*P+2
  /\ quiet <= age + 3 * P
  /\ held <= 3 * P => held = quiet

Inv == /\ rcv_nxt \in [Flows -> Levels] /\ is_app_fin \in BOOLEAN /\ asked \subseteq Flows
       /\ Now \in Good
       /\ FinMeansAll
       /\ TimeOrder

-----------------------------------------------------------------------------
(* Arithmetic *)

\* No client has more than its block, which never reaches SRU_trans
LEMMA Sizes ==
  /\ S \in Nat \ {0} /\ Para \in 1..S /\ KX \in Nat \ {0} /\ P \in Nat \ {0}
  /\ SRU \in Nat \ {0} /\ Whole \in Nat /\ SRU_trans \in Nat /\ Whole < SRU_trans
  /\ Levels \subseteq -1..Whole /\ -1 \in Levels
  /\ Flows \subseteq Nat
<1>1. /\ S \in Nat \ {0} /\ PAY \in Nat \ {0} /\ HDR \in Nat \ {0} /\ SRU \in Nat \ {0}
      /\ Para \in 1..S /\ KX \in Nat \ {0} /\ P \in Nat \ {0}
  BY AhtcpAssumption DEF AhtcpAssumption
<1> DEFINE q == SRU \div PAY
<1>2. q \in Nat /\ q * PAY <= SRU /\ SRU < (q + 1) * PAY
  BY <1>1
<1>3. SRU_trans = (q + 1) * (PAY + HDR) + HDR
  BY DEF SRU_trans
<1>4. Levels = {-1, SRU + 1} \cup {1 + k * PAY : k \in 0..q}
  BY DEF Levels
<1> HIDE DEF q
<1>5. (q + 1) * (PAY + HDR) \in Nat /\ (q + 1) * PAY <= (q + 1) * (PAY + HDR)
  <2>1. q + 1 \in Nat /\ PAY \in Int /\ PAY + HDR \in Int /\ PAY <= PAY + HDR
    BY <1>1, <1>2
  <2>2. (q + 1) * PAY <= (q + 1) * (PAY + HDR)
    BY <2>1, Data!TimesMonotone
  <2>3. (q + 1) * (PAY + HDR) \in Nat
    BY <2>1, <1>1
  <2> QED BY <2>2, <2>3
<1>6. Whole < SRU_trans /\ SRU_trans \in Nat
  <2>1. (q + 1) * PAY \in Int
    BY <1>1, <1>2
  <2> QED BY <2>1, <1>1, <1>2, <1>3, <1>5 DEF Whole
<1>7. ASSUME NEW k \in 0..q PROVE 1 + k * PAY \in -1..SRU + 1
  <2>1. k * PAY \in Nat /\ q * PAY \in Nat
    BY <1>1, <1>2
  <2>2. k * PAY <= q * PAY
    BY <1>1, <1>2, Data!TimesMonotone
  <2> QED BY <2>1, <2>2, <1>1, <1>2
<1>8. Levels \subseteq -1..Whole /\ -1 \in Levels /\ Whole \in Nat
  BY <1>1, <1>4, <1>7 DEF Whole
<1> QED BY <1>1, <1>6, <1>8 DEF Flows

-----------------------------------------------------------------------------
(* The end of the application *)

\* BytesBelow is the function its recursion describes
LEMMA BytesBelowFacts ==
  ASSUME rcv_nxt \in [Flows -> Levels]
  PROVE  /\ BytesBelow[0] = 0
         /\ \A i \in 1..S : BytesBelow[i] = BytesBelow[i - 1] + rcv_nxt[i - 1]
<1> DEFINE D(f) == [i \in 0..S |-> IF i = 0 THEN 0 ELSE f[i - 1] + rcv_nxt[i - 1]]
           F == [p \in (1..S) \X Int |-> p[2] + rcv_nxt[p[1] - 1]]
<1>1. S \in Nat /\ \A i \in 1..S : rcv_nxt[i - 1] \in Int
  <2>1. S \in Nat /\ \A i \in 1..S : i - 1 \in Flows
    BY Sizes DEF Flows
  <2>2. Levels \subseteq Int
    BY Sizes
  <2> QED BY <2>1, <2>2
<1>2. F \in [(1..S) \X Int -> Int]
  BY <1>1
<1>3. \A i \in 1..S, x \in Int : F[<<i, x>>] = x + rcv_nxt[i - 1]
  OBVIOUS
<1>4. PICK g \in [0..S -> Int] : Data!Recursive(g, 0, S, F)
  <2> HIDE DEF F
  <2>1. 0 \in Int /\ S \in Nat
    BY <1>1
  <2> QED BY <2>1, <1>2, Data!PrimitiveRecursion
<1>5. g = D(g)
  <2>1. \A i \in 0..S : i # 0 => i \in 1..S /\ i - 1 \in 0..S
    BY <1>1
  <2>2. \A i \in 0..S : g[i] = IF i = 0 THEN 0 ELSE g[i - 1] + rcv_nxt[i - 1]
    <3> HIDE DEF F
    <3> QED BY <1>3, <1>4, <2>1 DEF Data!Recursive
  <2> QED BY <2>2
<1>6. BytesBelow = D(BytesBelow)
  <2> HIDE DEF F
  <2>1. BytesBelow = CHOOSE f : f = D(f)
    BY DEF BytesBelow
  <2> QED BY <1>5, <2>1
<1>7. 0 \in 0..S /\ \A i \in 1..S : i \in 0..S /\ i # 0
  BY <1>1
<1>8. \A i \in 0..S : BytesBelow[i] = IF i = 0 THEN 0 ELSE BytesBelow[i - 1] + rcv_nxt[i - 1]
  <2> HIDE DEF F
  <2> QED BY <1>6
<1> QED BY <1>7, <1>8

\* A flow that lacks a byte keeps the sum below the block
LEMMA TotalReached ==
  ASSUME rcv_nxt \in [Flows -> Levels], BytesBelow[S] >= Block_bytes
  PROVE  \A i \in Flows : rcv_nxt[i] = Whole
<1> SUFFICES ASSUME NEW k \in Flows, rcv_nxt[k] # Whole PROVE FALSE
  OBVIOUS
<1> DEFINE less(i) == IF i > k THEN 1 ELSE 0
           T == {i \in 0..S : BytesBelow[i] \in Int /\ BytesBelow[i] + less(i) <= i * Whole}
<1>1. /\ S \in Nat /\ Whole \in Nat /\ SRU \in Nat
      /\ k \in 0..S-1 /\ \A i \in 1..S : rcv_nxt[i - 1] \in -1..Whole
      /\ rcv_nxt[k] \in -1..Whole
  <2>1. \A i \in 1..S : i - 1 \in Flows
    BY Sizes DEF Flows
  <2> QED BY <2>1, Sizes DEF Flows
<1>2. 0 \in T
  <2>1. 0 * Whole = 0 /\ less(0) = 0 /\ 0 \in 0..S
    BY <1>1
  <2> QED BY <2>1, BytesBelowFacts
<1>3. ASSUME NEW i \in 1..S, i - 1 \in T PROVE i \in T
  <2>1. BytesBelow[i - 1] \in Int /\ BytesBelow[i - 1] + less(i - 1) <= (i - 1) * Whole
    BY <1>3
  <2>2. BytesBelow[i] = BytesBelow[i - 1] + rcv_nxt[i - 1]
    BY BytesBelowFacts
  <2>3. rcv_nxt[i - 1] + less(i) <= Whole + less(i - 1)
    <3>1. CASE i - 1 = k
      BY <3>1, <1>1
    <3>2. CASE i - 1 # k
      BY <3>2, <1>1
    <3> QED BY <3>1, <3>2
  <2>4. i * Whole = (i - 1) * Whole + Whole /\ (i - 1) * Whole \in Int
    BY <1>1, Data!TimesNext
  <2>5. less(i) \in Nat /\ less(i - 1) \in Nat /\ rcv_nxt[i - 1] \in Int
    BY <1>1
  <2> HIDE DEF less
  <2>6. BytesBelow[i] \in Int
    BY <2>1, <2>2, <2>5
  <2>7. BytesBelow[i] + less(i) <= i * Whole
    BY <2>1, <2>2, <2>3, <2>4, <2>5, <1>1
  <2> QED BY <2>6, <2>7
<1>4. S \in T
  <2> HIDE DEF T
  <2>1. 0..S \subseteq T
    BY <1>1, <1>2, <1>3, Data!IntervalInduction
  <2> QED BY <2>1, <1>1
<1>5. BytesBelow[S] \in Int /\ BytesBelow[S] + 1 <= S * Whole /\ S * Whole \in Int
  BY <1>1, <1>4
<1>6. Block_bytes = S * Whole
  BY <1>1 DEF Block_bytes, Whole
<1> QED BY <1>5, <1>6

-----------------------------------------------------------------------------
(* One poll *)

\* What the agent of a client may have received
LEMMA Counts ==
  ASSUME rcv_nxt \in [Flows -> Levels], NEW i \in Flows
  PROVE  rcv_nxt[i] \in Int /\ rcv_nxt[i] <= Whole /\ Whole \in Int
<1>1. Levels \subseteq -1..Whole /\ Whole \in Nat
  BY Sizes
<1>2. rcv_nxt[i] \in Levels
  OBVIOUS
<1>3. rcv_nxt[i] \in -1..Whole
  BY <1>1, <1>2, Zenon
<1> QED BY <1>1, <1>3

\* Sets of flows are finite
LEMMA FlagsFinite ==
  ASSUME NEW T \in SUBSET Flows
  PROVE  IsFiniteSet(T) /\ Cardinality(T) \in Nat
<1>1. IsFiniteSet(Flows)
  <2>1. 0 \in Int /\ S - 1 \in Int
    BY Sizes
  <2> QED BY <2>1, FS_Interval DEF Flows
<1>2. IsFiniteSet(T)
  BY <1>1, FS_Subset
<1> QED BY <1>2, FS_CardinalityType

\* A SYN is ordered only when the latest one was answered
LEMMA SendNextSynGood ==
  ASSUME rcv_nxt \in [Flows -> Levels], NEW st \in Good, NEW i \in Flows
  PROVE  SendNextSyn(st, i) \in Good
<1>1. CASE i = st.syn - 1 /\ rcv_nxt[i] >= 1 /\ st.syn < S
  <2> DEFINE u == [st EXCEPT !.syn = @ + 1]
  <2>1. SendNextSyn(st, i) = u
    BY <1>1 DEF SendNextSyn
  <2>2. /\ u \in [syn : 0..S, next : 0..S, cur : 0..S, fin : [Flows -> BOOLEAN]]
        /\ u.syn = st.syn + 1 /\ u.next = st.next /\ u.cur = st.cur /\ u.fin = st.fin
    BY <1>1, Sizes DEF Good
  <2>3. \A j \in Para - 1 .. u.syn - 2 : rcv_nxt[j] >= 1
    <3>1. /\ st.syn \in Int /\ Para \in Int /\ rcv_nxt[i] \in Int
          /\ \A j \in Para - 1 .. st.syn - 2 : rcv_nxt[j] >= 1
      BY Sizes, Counts DEF Good
    <3>2. \A j \in Para - 1 .. u.syn - 2 : j = i \/ j \in Para - 1 .. st.syn - 2
      BY <3>1, <2>2, <1>1
    <3> HIDE DEF u
    <3> QED BY <3>1, <3>2, <1>1
  <2>4. Para <= u.syn
    BY <2>2, Sizes DEF Good
  <2> HIDE DEF u
  <2>5. u \in Good
    <3>1. /\ st.cur = st.next /\ st.next <= MaxOf(Para, KX)
          /\ st.next <= Para + Cardinality({j \in Flows : st.fin[j]})
          /\ \A j \in Flows : st.fin[j] => HalfWay(j)
      BY DEF Good
    <3> QED BY <3>1, <2>2, <2>3, <2>4 DEF Good
  <2> QED BY <2>1, <2>5
<1>2. CASE ~(i = st.syn - 1 /\ rcv_nxt[i] >= 1 /\ st.syn < S)
  <2>1. SendNextSyn(st, i) = st
    BY <1>2 DEF SendNextSyn
  <2> QED BY <2>1
<1> QED BY <1>1, <1>2

\* A flow is activated below the cap, and raises the flag that pays for it
LEMMA ActivateNextGood ==
  ASSUME rcv_nxt \in [Flows -> Levels], NEW st \in Good, NEW i \in Flows
  PROVE  ActivateNext(st, i) \in Good
<1>1. CASE ~st.fin[i] /\ HalfWay(i) /\ st.next < S /\ st.cur < KX
  <2> DEFINE u == [st EXCEPT !.next = @ + 1, !.cur = @ + 1, !.fin[i] = TRUE]
             old == {j \in Flows : st.fin[j]}
  <2>1. ActivateNext(st, i) = u
    BY <1>1 DEF ActivateNext
  <2>2. /\ st \in [syn : 0..S, next : 0..S, cur : 0..S, fin : [Flows -> BOOLEAN]]
        /\ st.cur = st.next /\ Para <= st.syn
        /\ st.next <= Para + Cardinality(old)
        /\ \A j \in Flows : st.fin[j] => HalfWay(j)
        /\ \A j \in Para - 1 .. st.syn - 2 : rcv_nxt[j] >= 1
    BY DEF Good
  <2>3. /\ u.syn = st.syn /\ u.next = st.next + 1 /\ u.cur = st.cur + 1
        /\ u.fin = [st.fin EXCEPT ![i] = TRUE]
    BY <2>2
  <2>4. u \in [syn : 0..S, next : 0..S, cur : 0..S, fin : [Flows -> BOOLEAN]]
    <3>1. st.next + 1 \in 0..S /\ st.cur + 1 \in 0..S
      BY <2>2, <1>1, Sizes
    <3> QED BY <2>2, <3>1
  <2> HIDE DEF u
  <2>5. u.cur = u.next /\ u.next <= MaxOf(Para, KX)
    BY <1>1, <2>2, <2>3, Sizes DEF MaxOf
  <2>6. \A j \in Flows : u.fin[j] => HalfWay(j)
    BY <1>1, <2>2, <2>3
  <2>7. {j \in Flows : u.fin[j]} = old \cup {i}
    BY <2>2, <2>3
  <2>8. u.next <= Para + Cardinality({j \in Flows : u.fin[j]})
    <3>1. IsFiniteSet(old) /\ i \notin old /\ Cardinality(old) \in Nat
      BY <1>1, FlagsFinite
    <3> HIDE DEF old
    <3>2. Cardinality({j \in Flows : u.fin[j]}) = Cardinality(old) + 1
      BY <3>1, <2>7, FS_AddElement
    <3> QED BY <3>1, <3>2, <2>2, <2>3, Sizes
  <2>9. u \in Good
    BY <2>2, <2>3, <2>4, <2>5, <2>6, <2>8 DEF Good
  <2> QED BY <2>1, <2>9
<1>2. CASE ~(~st.fin[i] /\ HalfWay(i) /\ st.next < S /\ st.cur < KX)
  <2>1. ActivateNext(st, i) = st
    BY <1>2 DEF ActivateNext
  <2> QED BY <2>1
<1> QED BY <1>1, <1>2

\* The agent does not count headers, so no flow ever reaches SRU_trans
LEMMA NeverSubtracted ==
  ASSUME rcv_nxt \in [Flows -> Levels], NEW st, NEW i \in Flows
  PROVE  Subtract(st, i) = st
<1>1. ~(rcv_nxt[i] >= SRU_trans)
  BY Sizes, Counts
<1> QED BY <1>1 DEF Subtract

LEMMA VisitGood ==
  ASSUME rcv_nxt \in [Flows -> Levels], NEW st \in Good, NEW i \in Flows
  PROVE  Visit(i)[st] \in Good
<1>1. Subtract(ActivateNext(SendNextSyn(st, i), i), i) \in Good
  BY SendNextSynGood, ActivateNextGood, NeverSubtracted
<1>2. st \in Poll
  BY Sizes DEF Good, Poll
<1>3. Visit(i)[st] = Subtract(ActivateNext(SendNextSyn(st, i), i), i)
  BY <1>2 DEF Visit
<1> QED BY <1>1, <1>3

\* A poll keeps what every visit keeps
LEMMA PolledGood ==
  ASSUME rcv_nxt \in [Flows -> Levels], Now \in Good
  PROVE  Polled[S] \in Good
<1> DEFINE D(f) == [i \in 0..S |-> IF i = 0 THEN Now ELSE Visit(i - 1)[f[i - 1]]]
           F == [p \in (1..S) \X Good |-> Visit(p[1] - 1)[p[2]]]
<1>1. S \in Nat /\ \A i \in 1..S : i - 1 \in Flows
  BY Sizes DEF Flows
<1>2. \A i \in 1..S : \A x \in Good : Visit(i - 1)[x] \in Good
  BY <1>1, VisitGood
<1>3. F \in [(1..S) \X Good -> Good]
  BY <1>2
<1>4. \A i \in 1..S, x \in Good : F[<<i, x>>] = Visit(i - 1)[x]
  OBVIOUS
<1>5. PICK g \in [0..S -> Good] : Data!Recursive(g, Now, S, F)
  <2> HIDE DEF F
  <2> QED BY <1>1, <1>3, Data!PrimitiveRecursion
<1>6. \A i \in 0..S : i # 0 => i \in 1..S /\ i - 1 \in 0..S
  BY <1>1
<1>7. g = D(g)
  <2>1. \A i \in 0..S : g[i] = IF i = 0 THEN Now ELSE Visit(i - 1)[g[i - 1]]
    <3> HIDE DEF F
    <3> QED BY <1>4, <1>5, <1>6, ZenonT(30) DEF Data!Recursive
  <2> QED BY <2>1
<1>8. Polled = D(Polled)
  <2> HIDE DEF F
  <2>1. Polled = CHOOSE f : f = D(f)
    BY DEF Polled
  <2> QED BY <1>7, <2>1
<1>9. \A i \in 0..S : Polled[i] = IF i = 0 THEN Now ELSE Visit(i - 1)[Polled[i - 1]]
  <2> HIDE DEF F
  <2> QED BY <1>8
<1> DEFINE T == {i \in 0..S : Polled[i] \in Good}
<1>10. 0 \in T
  BY <1>1, <1>9, SMTT(20)
<1>11. ASSUME NEW i \in 1..S, i - 1 \in T PROVE i \in T
  <2>1. i \in 0..S /\ i # 0
    BY <1>1
  <2> QED BY <2>1, <1>2, <1>9, <1>11
<1> HIDE DEF T
<1>12. 0..S \subseteq T
  BY <1>1, <1>10, <1>11, Data!IntervalInduction
<1> QED BY <1>1, <1>12 DEF T

-----------------------------------------------------------------------------
(* The steps *)

LEMMA InitInv == Init => Inv
<1> SUFFICES ASSUME Init PROVE Inv
  OBVIOUS
<1>1. /\ rcv_nxt \in [Flows -> Levels] /\ is_app_fin \in BOOLEAN /\ FinMeansAll
      /\ asked \subseteq Flows
  BY Sizes DEF Init, FinMeansAll
<1>2. Now \in [syn : 0..S, next : 0..S, cur : 0..S, fin : [Flows -> BOOLEAN]]
  BY Sizes DEF Init, Now
<1>3. /\ Now.syn = Para /\ Now.next = Para /\ Now.cur = Para
      /\ Now.fin = [i \in Flows |-> FALSE]
  BY DEF Init, Now
<1>4. Now \in Good
  <2>1. \A i \in Para - 1 .. Now.syn - 2 : FALSE
    BY <1>3, Sizes
  <2>2. Now.cur = Now.next /\ Now.next <= MaxOf(Para, KX) /\ Para <= Now.syn
    BY <1>3, Sizes DEF MaxOf
  <2>3. /\ \A i \in Flows : Now.fin[i] => HalfWay(i)
        /\ Now.next <= Para + Cardinality({i \in Flows : Now.fin[i]})
    <3>1. Cardinality({i \in Flows : Now.fin[i]}) \in Nat
      BY FlagsFinite
    <3> QED BY <1>3, <3>1, Sizes
  <2> QED BY <1>2, <2>1, <2>2, <2>3 DEF Good
<1>5. TimeOrder
  BY Sizes DEF Init, TimeOrder
<1> QED BY <1>1, <1>4, <1>5 DEF Inv

\* An interval that ends within the lock leaves the lock two intervals at most;
\* the one that ends after it looks at the goodput, and sets the lock again or
\* leaves it over.  Nothing is said of what the goodput is.
LEMMA GoodputOrder ==
  ASSUME TimeOrder, Goodput
  PROVE  TimeOrder' /\ asked' \subseteq Flows
<1> DEFINE more == MinOf(held + 1, 3 * P + 1)
<1>1. PICK due \in Past(age, P), free \in Past(held, 3 * P) :
        /\ age' = IF due THEN 1 ELSE age + 1
        /\ (held' = more \/ (due /\ free /\ held' = 1))
        /\ asked' \in {Incomplete, {}}
        /\ quiet' = IF due /\ free THEN 1 ELSE MinOf(quiet + 1, 4 * P + 2)
  BY DEF Goodput
<1>2. asked' \subseteq Flows
  BY <1>1 DEF Incomplete
<1>3. /\ P \in Nat \ {0} /\ age \in 0..P+1 /\ held \in 1..3*P+1 /\ quiet \in 0..4*P+2
      /\ quiet <= age + 3 * P /\ held <= 3 * P => held = quiet
  BY Sizes DEF TimeOrder
<1>4. /\ due \in BOOLEAN /\ free \in BOOLEAN /\ (~due => age <= P)
      /\ (free => held >= 3 * P) /\ (~free => held <= 3 * P)
  BY <1>3 DEF Past
<1>5. CASE due /\ free
  <2>1. age' = 1 /\ quiet' = 1 /\ held' \in {1, 3 * P + 1}
    BY <1>1, <1>3, <1>4, <1>5 DEF MinOf
  <2> QED BY <1>2, <1>3, <2>1 DEF TimeOrder
<1>6. CASE due /\ ~free
  <2>1. age' = 1 /\ held' = more /\ quiet' = MinOf(quiet + 1, 4 * P + 2)
    BY <1>1, <1>6
  <2>2. held <= 3 * P
    BY <1>4, <1>6
  <2> QED BY <1>2, <1>3, <2>1, <2>2 DEF TimeOrder, MinOf
<1>7. CASE ~due
  <2>1. age' = age + 1 /\ held' = more /\ quiet' = MinOf(quiet + 1, 4 * P + 2)
    BY <1>1, <1>7
  <2>2. age <= P
    BY <1>4, <1>7
  <2> QED BY <1>2, <1>3, <2>1, <2>2 DEF TimeOrder, MinOf
<1> QED BY <1>4, <1>5, <1>6, <1>7

LEMMA CheckStep ==
  ASSUME Inv, Check
  PROVE  Inv'
<1>1. /\ rcv_nxt \in [Flows -> Levels] /\ Now \in Good /\ rcv_nxt' = rcv_nxt
      /\ Now' = Polled[S]
      /\ is_app_fin' = (BytesBelow[S] >= Block_bytes)
      /\ Goodput /\ TimeOrder
  <2>1. rcv_nxt \in [Flows -> Levels] /\ Now \in Good /\ TimeOrder
    BY DEF Inv
  <2>2. Polled[S] \in [syn : 0..S, next : 0..S, cur : 0..S, fin : [Flows -> BOOLEAN]]
    BY <2>1, PolledGood DEF Good
  <2> DEFINE after == Polled[S]
  <2>3. /\ next_syn_flowid' = after.syn /\ next_flowid' = after.next
        /\ cur_flow_num' = after.cur /\ is_flow_fin' = after.fin
    BY DEF Check
  <2>4. Now' = [syn |-> after.syn, next |-> after.next, cur |-> after.cur, fin |-> after.fin]
    BY <2>3 DEF Now
  <2>5. after = [syn |-> after.syn, next |-> after.next, cur |-> after.cur, fin |-> after.fin]
    <3> HIDE DEF after
    <3>1. after \in [syn : 0..S, next : 0..S, cur : 0..S, fin : [Flows -> BOOLEAN]]
      BY <2>2 DEF after
    <3> QED BY <3>1
  <2>6. Now' = after
    <3> HIDE DEF after
    <3> QED BY <2>4, <2>5
  <2> QED BY <2>1, <2>6 DEF Check
<1>2. Polled[S] \in Good
  BY <1>1, PolledGood
<1>3. Good' = Good
  BY <1>1 DEF Good, HalfWay
<1>4. Now' \in Good'
  BY <1>1, <1>2, <1>3
<1>5. is_app_fin' => \A i \in Flows : rcv_nxt[i] = Whole
  BY <1>1, TotalReached
<1>6. FinMeansAll'
  BY <1>1, <1>5 DEF FinMeansAll, Whole
<1>7. TimeOrder' /\ asked' \subseteq Flows
  BY <1>1, GoodputOrder
<1>8. is_app_fin' \in BOOLEAN /\ rcv_nxt' \in [Flows -> Levels]
  BY <1>1
<1> QED BY <1>4, <1>6, <1>7, <1>8 DEF Inv

LEMMA DeliverStep ==
  ASSUME Inv, NEW k \in Flows, Deliver(k)
  PROVE  Inv'
<1>1. /\ rcv_nxt \in [Flows -> Levels] /\ is_app_fin \in BOOLEAN /\ Now \in Good
      /\ FinMeansAll /\ Now' = Now /\ is_app_fin' = is_app_fin
      /\ asked \subseteq Flows /\ asked' = asked
  BY DEF Inv, Deliver, Now, flowVars, timeVars
<1>2. PICK n \in Levels : n > rcv_nxt[k] /\ rcv_nxt' = [rcv_nxt EXCEPT ![k] = n]
  BY DEF Deliver
<1>3. n \in Int /\ n <= Whole /\ Whole \in Int
  BY Sizes
<1>4. rcv_nxt' \in [Flows -> Levels]
  BY <1>1, <1>2
<1>5. ASSUME NEW i \in Flows
      PROVE  rcv_nxt[i] \in Int /\ rcv_nxt'[i] \in Int /\ rcv_nxt[i] <= rcv_nxt'[i]
  BY <1>1, <1>2, <1>3, Counts
<1>6. \A i \in Para - 1 .. Now.syn - 2 : rcv_nxt'[i] >= 1
  <2>1. \A i \in Para - 1 .. Now.syn - 2 : rcv_nxt[i] >= 1
    BY <1>1 DEF Good
  <2>2. Now.syn \in 0..S
    BY <1>1 DEF Good
  <2>3. \A i \in Para - 1 .. Now.syn - 2 : i \in Flows
    BY <2>2, Sizes DEF Flows
  <2> QED BY <2>1, <2>3, <1>5
<1>7. Now \in Good'
  <2>1. /\ Now \in [syn : 0..S, next : 0..S, cur : 0..S, fin : [Flows -> BOOLEAN]]
        /\ Now.cur = Now.next /\ Now.next <= MaxOf(Para, KX) /\ Para <= Now.syn
        /\ Now.next <= Para + Cardinality({i \in Flows : Now.fin[i]})
        /\ \A i \in Flows : Now.fin[i] => HalfWay(i)
    BY <1>1 DEF Good
  <2> DEFINE u == Now
  <2>2. u \in Good'
    <3>1. Now = Now' /\ u = Now
      BY <1>1
    <3>2. \A i \in Flows : HalfWay(i) => HalfWay(i)'
      <4>1. SRU_trans \div 2 \in Int
        BY Sizes
      <4> QED BY <4>1, <1>5 DEF HalfWay, SRU_trans
    <3> HIDE DEF u
    <3> QED BY <3>1, <3>2, <2>1, <1>6 DEF Good
  <2> QED BY <2>2
<1>8. FinMeansAll'
  <2>1. ~is_app_fin
    BY <1>1, <1>2, <1>3 DEF FinMeansAll, Whole
  <2> QED BY <2>1, <1>1 DEF FinMeansAll
<1>9. TimeOrder'
  BY DEF Inv, TimeOrder, Deliver, timeVars
<1> QED BY <1>1, <1>4, <1>7, <1>8, <1>9 DEF Inv

LEMMA NextInv == Inv /\ [Next]_vars => Inv'
<1> SUFFICES ASSUME Inv, [Next]_vars PROVE Inv'
  OBVIOUS
<1>1. CASE Check
  BY <1>1, CheckStep
<1>2. ASSUME NEW i \in Flows, Deliver(i) PROVE Inv'
  BY <1>2, DeliverStep
<1>3. CASE UNCHANGED vars
  <2>1. /\ rcv_nxt' = rcv_nxt /\ is_app_fin' = is_app_fin /\ Now' = Now
        /\ asked' = asked /\ age' = age /\ held' = held /\ quiet' = quiet
    BY <1>3 DEF vars, Now, flowVars, timeVars
  <2>2. Good' = Good
    BY <2>1 DEF Good, HalfWay
  <2> QED BY <2>1, <2>2 DEF Inv, FinMeansAll, TimeOrder
<1> QED BY <1>1, <1>2, <1>3 DEF Next

LEMMA InvHolds == Spec => []Inv
  BY InitInv, NextInv, PTL DEF Spec

-----------------------------------------------------------------------------
(* Theorems *)

LEMMA InvTypeOK == Inv => TypeOK
<1> SUFFICES ASSUME Inv PROVE TypeOK
  OBVIOUS
<1>1. Now \in [syn : 0..S, next : 0..S, cur : 0..S, fin : [Flows -> BOOLEAN]]
  BY DEF Inv, Good
<1>2. /\ Now.syn = next_syn_flowid /\ Now.next = next_flowid
      /\ Now.cur = cur_flow_num /\ Now.fin = is_flow_fin
  BY DEF Now
<1> QED BY <1>1, <1>2 DEF Inv, TypeOK, TimeOrder

LEMMA InvPaced == Inv => Paced
<1> SUFFICES ASSUME Inv PROVE Paced
  OBVIOUS
<1> DEFINE fin  == {i \in Flows : is_flow_fin[i]}
           half == {i \in Flows : HalfWay(i)}
           open == {i \in Flows : i < next_flowid /\ rcv_nxt[i] <= SRU}
           syns == {i \in Flows : i < next_syn_flowid /\ rcv_nxt[i] < 1}
<1>1. /\ next_syn_flowid \in 0..S /\ next_flowid \in 0..S
      /\ next_flowid <= MaxOf(Para, KX)
      /\ next_flowid <= Para + Cardinality(fin)
      /\ \A i \in Flows : is_flow_fin[i] => HalfWay(i)
      /\ Para <= next_syn_flowid
      /\ \A i \in Para - 1 .. next_syn_flowid - 2 : rcv_nxt[i] >= 1
  <2>1. /\ Now.syn = next_syn_flowid /\ Now.next = next_flowid
        /\ Now.fin = is_flow_fin
    BY DEF Now
  <2> QED BY <2>1 DEF Inv, Good
<1>2. next_flowid <= Para + Cardinality(half)
  <2>1. fin \in SUBSET half /\ half \in SUBSET Flows /\ fin \in SUBSET Flows
    BY <1>1
  <2> HIDE DEF fin, half
  <2>2. Cardinality(fin) <= Cardinality(half)
    BY <2>1, FlagsFinite, FS_Subset
  <2>3. Cardinality(fin) \in Nat /\ Cardinality(half) \in Nat
    BY <2>1, FlagsFinite
  <2> QED BY <1>1, <2>2, <2>3, Sizes
<1>3. Cardinality(open) <= MaxOf(Para, KX)
  <2> DEFINE first == 0..next_flowid - 1
  <2>1. 0 \in Int /\ next_flowid - 1 \in Int /\ next_flowid \in Nat
    BY <1>1, Sizes
  <2>2. IsFiniteSet(first) /\ Cardinality(first) = next_flowid
    BY <2>1, FS_Interval
  <2>3. open \subseteq first /\ open \in SUBSET Flows
    BY <2>1 DEF Flows
  <2> HIDE DEF first, open
  <2>4. Cardinality(open) <= Cardinality(first) /\ Cardinality(open) \in Nat
    BY <2>2, <2>3, FS_Subset, FlagsFinite
  <2> QED BY <1>1, <2>1, <2>2, <2>4, Sizes DEF MaxOf
<1>4. Cardinality(syns) <= Para
  <2> DEFINE early == 0..Para - 2
             u == early \cup {next_syn_flowid - 1}
  <2>1. Para \in Nat \ {0} /\ 0 \in Int /\ Para - 2 \in Int
    BY Sizes
  <2>2. IsFiniteSet(early) /\ Cardinality(early) = Para - 1
    BY <2>1, FS_Interval
  <2>3. IsFiniteSet(u) /\ Cardinality(u) <= Para
    <3>1. next_syn_flowid - 1 \notin early
      BY <1>1, <2>1
    <3> HIDE DEF early
    <3> QED BY <2>1, <2>2, <3>1, FS_AddElement
  <2>4. syns \subseteq u
    <3>1. ASSUME NEW i \in Flows, i < next_syn_flowid, rcv_nxt[i] < 1
          PROVE  i \in u
      <4>1. /\ i \in Nat /\ next_syn_flowid \in Int /\ Para \in Int
            /\ rcv_nxt[i] \in Int
        BY <1>1, Sizes, Counts DEF Inv
      <4>2. ~(i \in Para - 1 .. next_syn_flowid - 2)
        BY <1>1, <3>1, <4>1
      <4> QED BY <4>1, <4>2, <3>1
    <3> QED BY <3>1
  <2> HIDE DEF u, syns
  <2>5. Cardinality(syns) <= Cardinality(u)
    BY <2>3, <2>4, FS_Subset
  <2>6. Cardinality(syns) \in Nat /\ Cardinality(u) \in Nat
    BY <2>3, <2>4, FS_Subset, FS_CardinalityType
  <2> QED BY <2>1, <2>3, <2>5, <2>6
<1> QED BY <1>2, <1>3, <1>4 DEF Paced

\* Every variable keeps its type.
THEOREM AhtcpTypeCorrect == Spec => []TypeOK
  BY InvHolds, InvTypeOK, PTL

\* The application is finished only when every client has its whole block and
\* the byte of the SYN.
THEOREM AhtcpFinished == Spec => []FinMeansAll
<1>1. Inv => FinMeansAll
  BY DEF Inv
<1> QED BY <1>1, InvHolds, PTL

\* Every activation is paid for by a flow past its half, the flows activated and
\* not complete never exceed the cap, and at most para_num SYNs are unanswered.
THEOREM AhtcpPaced == Spec => []Paced
  BY InvHolds, InvPaced, PTL

\* However the deadlines of the interval and of the lock fall on the polls, and
\* whatever the goodput is, it is looked at at least every four intervals.
THEOREM AhtcpLooksInTime == Spec => []LooksInTime
<1>1. Inv => LooksInTime
  BY Sizes DEF Inv, TimeOrder, LooksInTime
<1> QED BY <1>1, InvHolds, PTL
==============================================================================

------------------------------ MODULE SnoopProofs ------------------------------
(***************************************************************************)
(* Theorems about Snoop for every number of packets and buffers, window and *)
(* number of losses: the ring of copies stays well formed and sorted, and   *)
(* no acknowledgement is kept back without reason.                          *)
(*                                                                          *)
(* A buffer is in use when its distance from the tail is less than the      *)
(* number of packets kept; said of distances, what insertion, clearing and  *)
(* resending do to the ring is linear arithmetic.                           *)
(***************************************************************************)
EXTENDS Snoop, SequenceTheorems, TLAPS

Data == INSTANCE DataTheorems

Entry == [seq : -1 .. N - 1, num : 0 .. MaxRxmit, sender : BOOLEAN]

\* The distance of buffer i from the tail t
Off(t, i) == IF i >= t THEN i - t ELSE i - t + M

\* The number of buffers in use
Size(h, t, f) == IF f THEN M ELSE Off(t, h)

\* A ring whose packets are sorted and lie above lo and not above hi
RingOK(p, h, t, f, lo, hi) ==
  /\ p \in [Slot -> Entry] /\ h \in Slot /\ t \in Slot /\ f \in BOOLEAN /\ (f => h = t)
  /\ \A i \in Slot : Off(t, i) < Size(h, t, f) => lo < p[i].seq /\ p[i].seq <= hi
  /\ \A i \in Slot : Off(t, i) >= Size(h, t, f) => p[i] = None
  /\ \A i, j \in Slot : Off(t, i) < Off(t, j) /\ Off(t, j) < Size(h, t, f)
                          => p[i].seq < p[j].seq

-----------------------------------------------------------------------------
(* Arithmetic of the ring *)

LEMMA Sizes ==
  /\ N \in Nat \ {0} /\ M \in Nat /\ M >= 2 /\ MaxRxmit \in Nat /\ MaxRxmit >= 2
  /\ Slot = 0 .. M - 1
BY SnoopAssumption DEF SnoopAssumption, Slot

LEMMA ModOnce ==
  ASSUME NEW m \in Nat \ {0}, NEW x \in 0 .. 2 * m - 1
  PROVE  x % m = IF x < m THEN x ELSE x - m
  OBVIOUS

\* Neighbours in the ring
LEMMA NextPrev ==
  ASSUME NEW i \in Slot
  PROVE  /\ next(i) = IF i = M - 1 THEN 0 ELSE i + 1
         /\ prev(i) = IF i = 0 THEN M - 1 ELSE i - 1
         /\ next(i) \in Slot /\ prev(i) \in Slot
<1>1. i \in Int /\ 0 <= i /\ i < M /\ M \in Nat \ {0} /\ M >= 2
  BY Sizes
<1> DEFINE up == i + 1
           down == i + M - 1
<1>2. up \in 0 .. 2 * M - 1 /\ down \in 0 .. 2 * M - 1
  BY <1>1
<1>3. next(i) = up % M /\ prev(i) = down % M
  BY DEF next, prev
<1> HIDE DEF up, down
<1>4. /\ up % M = IF up < M THEN up ELSE up - M
      /\ down % M = IF down < M THEN down ELSE down - M
  BY <1>1, <1>2, ModOnce, Zenon
<1> QED BY <1>1, <1>2, <1>3, <1>4, Sizes DEF up, down

\* Distances
LEMMA OffFacts ==
  ASSUME NEW t \in Slot
  PROVE  /\ \A i \in Slot : Off(t, i) \in 0 .. M - 1
         /\ \A i, j \in Slot : Off(t, i) = Off(t, j) => i = j
         /\ Off(t, t) = 0
BY Sizes DEF Off

\* The fields of a buffer
LEMMA EntryFacts ==
  ASSUME NEW e \in Entry
  PROVE  /\ e.seq \in -1 .. N - 1 /\ e.num \in 0 .. MaxRxmit /\ e.sender \in BOOLEAN
         /\ (e = None => e.seq = -1)
BY DEF Entry, None

\* Used lists the buffers in use by their distance
LEMMA UsedFacts ==
  ASSUME bufhead \in Slot, buftail \in Slot, full \in BOOLEAN
  PROVE  /\ Size(bufhead, buftail, full) \in 0 .. M
         /\ DOMAIN Used = 1 .. Size(bufhead, buftail, full)
         /\ Len(Used) = Size(bufhead, buftail, full)
         /\ \A k \in DOMAIN Used : Used[k] \in Slot /\ Off(buftail, Used[k]) = k - 1
         /\ \A i \in Slot : Off(buftail, i) < Size(bufhead, buftail, full)
              => Off(buftail, i) + 1 \in DOMAIN Used /\ Used[Off(buftail, i) + 1] = i
<1> DEFINE L == Size(bufhead, buftail, full)
<1>1. /\ M \in Nat \ {0} /\ M >= 2 /\ bufhead \in 0 .. M - 1 /\ buftail \in 0 .. M - 1
  BY Sizes
<1>2. L = IF full THEN M ELSE (bufhead - buftail + M) % M
  <2> DEFINE x == bufhead - buftail + M
  <2>1. x \in 0 .. 2 * M - 1
    BY <1>1
  <2> HIDE DEF x
  <2>2. x % M = IF x < M THEN x ELSE x - M
    BY <1>1, <2>1, ModOnce, Zenon
  <2>3. x % M = Off(buftail, bufhead)
    BY <1>1, <2>2 DEF Off, x
  <2> QED BY <2>3 DEF Size, x
<1>3. L \in 0 .. M
  BY <1>1 DEF Size, Off
<1> HIDE DEF L
<1>4. Used = [k \in 1 .. L |-> (buftail + k - 1) % M]
  BY <1>2 DEF Used
<1>5. ASSUME NEW k \in 1 .. L
      PROVE  Used[k] = IF buftail + k - 1 < M THEN buftail + k - 1 ELSE buftail + k - 1 - M
  <2> DEFINE x == buftail + k - 1
  <2>1. x \in 0 .. 2 * M - 1 /\ Used[k] = x % M
    BY <1>1, <1>3, <1>4
  <2> HIDE DEF x
  <2>2. x % M = IF x < M THEN x ELSE x - M
    BY <1>1, <2>1, ModOnce, Zenon
  <2> QED BY <1>1, <1>3, <2>1, <2>2 DEF x
<1>6. DOMAIN Used = 1 .. L /\ Len(Used) = L
  BY <1>3, <1>4
<1>7. ASSUME NEW k \in 1 .. L
      PROVE  Used[k] \in Slot /\ Off(buftail, Used[k]) = k - 1
  BY <1>1, <1>3, <1>5, <1>7, Sizes DEF Off
<1>8. ASSUME NEW i \in Slot, Off(buftail, i) < L
      PROVE  Off(buftail, i) + 1 \in 1 .. L /\ Used[Off(buftail, i) + 1] = i
  <2>1. Off(buftail, i) + 1 \in 1 .. L
    BY <1>1, <1>3, <1>8, Sizes DEF Off
  <2> QED BY <1>1, <1>5, <2>1, Sizes DEF Off
<1> QED BY <1>3, <1>6, <1>7, <1>8 DEF L

\* A buffer more at the head, or at the tail
LEMMA StepHead ==
  ASSUME NEW h \in Slot, NEW t \in Slot
  PROVE  /\ next(h) \in Slot /\ Off(t, h) \in 0 .. M - 1
         /\ Size(next(h), t, next(h) = t) = Off(t, h) + 1
<1>1. /\ M \in Int /\ M >= 2 /\ h \in 0 .. M - 1 /\ t \in 0 .. M - 1
  BY Sizes
<1>2. PICK n : n = next(h)
  OBVIOUS
<1>3. n = (IF h = M - 1 THEN 0 ELSE h + 1) /\ n \in Slot
  BY <1>2, NextPrev
<1>4. Size(n, t, n = t) = Off(t, h) + 1
  BY <1>1, <1>3 DEF Size, Off
<1>5. Off(t, h) \in 0 .. M - 1
  BY OffFacts
<1> QED BY <1>2, <1>3, <1>4, <1>5

LEMMA StepTail ==
  ASSUME NEW h \in Slot, NEW t \in Slot, NEW u, u = prev(t)
  PROVE  /\ u \in Slot /\ Off(u, u) = 0 /\ Off(t, h) \in 0 .. M - 1
         /\ \A i \in Slot : i # u => Off(u, i) = Off(t, i) + 1
         /\ Size(h, u, h = u) = Off(t, h) + 1
<1>1. /\ M \in Int /\ M >= 2 /\ h \in 0 .. M - 1 /\ t \in 0 .. M - 1
  BY Sizes
<1>2. u = (IF t = 0 THEN M - 1 ELSE t - 1) /\ u \in Slot
  BY NextPrev
<1>3. Off(u, u) = 0 /\ Off(t, h) \in 0 .. M - 1
  BY <1>2, OffFacts
<1>4. ASSUME NEW i \in Slot, i # u
      PROVE  Off(u, i) = Off(t, i) + 1
  <2>1. i \in 0 .. M - 1
    BY Sizes
  <2> QED BY <1>1, <1>2, <1>4, <2>1 DEF Off
<1>5. Size(h, u, h = u) = Off(t, h) + 1
  <2>1. CASE h = u
    BY <1>1, <1>2, <2>1 DEF Size, Off
  <2>2. CASE h # u
    BY <1>3, <1>4, <2>2 DEF Size
  <2> QED BY <2>1, <2>2
<1> QED BY <1>2, <1>3, <1>4, <1>5

-----------------------------------------------------------------------------
(* What the operations do to a ring *)

\* The copy of a packet is changed, its number is not
LEMMA ChangeOK ==
  ASSUME NEW p, NEW h, NEW t, NEW f, NEW lo \in -1 .. N - 1, NEW hi \in -1 .. N - 1,
         RingOK(p, h, t, f, lo, hi),
         NEW a \in Slot, p[a] # None, NEW c \in Entry, c.seq = p[a].seq
  PROVE  RingOK([p EXCEPT ![a] = c], h, t, f, lo, hi)
<1> DEFINE r == [p EXCEPT ![a] = c]
<1>1. p \in [Slot -> Entry] /\ h \in Slot /\ t \in Slot /\ f \in BOOLEAN
  BY DEF RingOK
<1>2. r \in [Slot -> Entry] /\ \A i \in Slot : r[i].seq = p[i].seq /\ (i # a => r[i] = p[i])
  BY <1>1
<1> HIDE DEF r
<1>3. /\ Size(h, t, f) \in Int /\ \A i \in Slot : Off(t, i) \in Int
  BY <1>1, OffFacts, Sizes DEF Size
<1>4. Off(t, a) < Size(h, t, f)
  BY <1>3 DEF RingOK
<1>5. \A i \in Slot : Off(t, i) >= Size(h, t, f) => r[i] = None
  BY <1>2, <1>3, <1>4 DEF RingOK
<1> QED BY <1>1, <1>2, <1>5 DEF RingOK, r

\* A packet above all others is put at the head
LEMMA HeadOK ==
  ASSUME NEW p, NEW h, NEW t, NEW lo \in -1 .. N - 1, NEW hi \in -1 .. N - 1,
         RingOK(p, h, t, FALSE, lo, hi),
         NEW c \in Entry, NEW up \in -1 .. N - 1, hi <= up, lo < c.seq, c.seq <= up,
         \A i \in Slot : Off(t, i) < Size(h, t, FALSE) => p[i].seq < c.seq
  PROVE  RingOK([p EXCEPT ![h] = c], next(h), t, next(h) = t, lo, up)
<1>1. p \in [Slot -> Entry] /\ h \in Slot /\ t \in Slot
  BY DEF RingOK
<1>2. PICK r : r = [p EXCEPT ![h] = c]
  OBVIOUS
<1>3. r \in [Slot -> Entry] /\ r[h] = c /\ \A i \in Slot : i # h => r[i] = p[i]
  BY <1>1, <1>2
<1>4. PICK K, L : K = Size(next(h), t, next(h) = t) /\ L = Off(t, h)
  OBVIOUS
<1>5. K = L + 1 /\ L \in Int /\ K \in Int /\ next(h) \in Slot
  <2>1. next(h) \in Slot /\ L \in 0 .. M - 1 /\ K = L + 1
    BY <1>1, <1>4, StepHead, Zenon
  <2> QED BY <2>1, Sizes
<1>6. ASSUME NEW i \in Slot, i # h
      PROVE  Off(t, i) \in Int /\ Off(t, i) # L
  BY <1>1, <1>4, <1>6, OffFacts, Sizes
<1>7. /\ \A i \in Slot : Off(t, i) < L => lo < p[i].seq /\ p[i].seq <= hi /\ p[i].seq < c.seq
      /\ \A i \in Slot : Off(t, i) >= L => p[i] = None
      /\ \A i, j \in Slot : Off(t, i) < Off(t, j) /\ Off(t, j) < L => p[i].seq < p[j].seq
  BY <1>4 DEF RingOK, Size
<1>8. /\ lo \in Int /\ hi \in Int /\ up \in Int /\ c.seq \in Int
      /\ \A i \in Slot : p[i].seq \in Int
  BY <1>1, EntryFacts, Sizes
<1>9. ASSUME NEW i \in Slot, Off(t, i) < K
      PROVE  lo < r[i].seq /\ r[i].seq <= up
  <2>1. CASE i = h
    BY <1>3, <2>1
  <2>2. CASE i # h
    <3>1. Off(t, i) < L
      BY <1>5, <1>6, <1>9, <2>2
    <3> QED BY <1>3, <1>7, <1>8, <2>2, <3>1
  <2> QED BY <2>1, <2>2
<1>10. ASSUME NEW i \in Slot, Off(t, i) >= K
       PROVE  r[i] = None
  <2>1. i # h
    BY <1>4, <1>5, <1>10
  <2>2. Off(t, i) >= L
    BY <1>5, <1>6, <1>10, <2>1
  <2> QED BY <1>3, <1>7, <2>1, <2>2
<1>11. ASSUME NEW i \in Slot, NEW j \in Slot, Off(t, i) < Off(t, j), Off(t, j) < K
       PROVE  r[i].seq < r[j].seq
  <2>1. Off(t, i) < L /\ i # h
    <3>1. Off(t, j) \in Int /\ Off(t, i) \in Int
      BY <1>1, OffFacts, Sizes
    <3> QED BY <1>4, <1>5, <1>11, <3>1
  <2>2. CASE j = h
    BY <1>3, <1>7, <2>1, <2>2
  <2>3. CASE j # h
    <3>1. Off(t, j) < L
      BY <1>5, <1>6, <1>11, <2>3
    <3> QED BY <1>3, <1>7, <1>11, <2>1, <2>3, <3>1
  <2> QED BY <2>2, <2>3
<1>12. PICK m, g : m = next(h) /\ g = (m = t)
  OBVIOUS
<1>13. m \in Slot /\ g \in BOOLEAN /\ (g => m = t) /\ K = Size(m, t, g)
  BY <1>4, <1>5, <1>12, Zenon
<1>14. RingOK(r, m, t, g, lo, up)
  BY <1>1, <1>3, <1>9, <1>10, <1>11, <1>13, Zenon DEF RingOK
<1> QED BY <1>2, <1>12, <1>14, Zenon

\* Distances when the tail moves down by one
LEMMA StepOff ==
  ASSUME NEW t \in Slot, NEW u, u = prev(t), NEW i \in Slot
  PROVE  /\ Off(t, next(i)) = Off(u, i) /\ Off(u, prev(i)) = Off(t, i)
<1>1. /\ M \in Int /\ M >= 2 /\ t \in 0 .. M - 1 /\ i \in 0 .. M - 1
  BY Sizes
<1>2. PICK a, b : a = next(i) /\ b = prev(i)
  OBVIOUS
<1>3. /\ u = (IF t = 0 THEN M - 1 ELSE t - 1)
      /\ a = (IF i = M - 1 THEN 0 ELSE i + 1)
      /\ b = (IF i = 0 THEN M - 1 ELSE i - 1)
  BY <1>2, NextPrev
<1>4. Off(t, a) = Off(u, i) /\ Off(u, b) = Off(t, i)
  BY <1>1, <1>3 DEF Off
<1> QED BY <1>2, <1>4

\* Ring r is p with packet c put above the n lowest ones, which move down by one
Lowers(p, h, t, u, n, c, r) ==
  /\ \A i \in Slot : r[i] = IF Off(u, i) = n THEN c
                            ELSE IF Off(u, i) < n THEN p[next(i)] ELSE p[i]
  /\ \A i \in Slot : Off(t, i) < n => p[i].seq < c.seq
  /\ \A i \in Slot : Off(t, i) >= n /\ Off(t, i) < Off(t, h) => c.seq < p[i].seq

\* It stays in order; with n = 0 the packet is put before the tail
LEMMA BelowOK ==
  ASSUME NEW p, NEW h, NEW t, NEW lo \in -1 .. N - 1, NEW hi \in -1 .. N - 1,
         RingOK(p, h, t, FALSE, lo, hi), NEW u, u = prev(t),
         NEW n \in Nat, n <= Off(t, h),
         NEW c \in Entry, lo < c.seq, c.seq <= hi,
         NEW r \in [Slot -> Entry], Lowers(p, h, t, u, n, c, r)
  PROVE  RingOK(r, h, u, h = u, lo, hi)
<1>1. p \in [Slot -> Entry] /\ h \in Slot /\ t \in Slot
  BY DEF RingOK
<1>2. PICK K, L : K = Size(h, u, h = u) /\ L = Off(t, h)
  OBVIOUS
<1>3. /\ u \in Slot /\ L \in Int /\ K \in Int /\ K = L + 1 /\ n <= L
      /\ \A i \in Slot : i # u => Off(u, i) = Off(t, i) + 1
  <2>1. u \in Slot /\ L \in 0 .. M - 1 /\ K = L + 1
    <3>1. h \in Slot /\ t \in Slot /\ u = prev(t)
      BY <1>1
    <3>2. /\ u \in Slot /\ Off(t, h) \in 0 .. M - 1
          /\ Size(h, u, h = u) = Off(t, h) + 1
      BY <3>1, StepTail
    <3> QED BY <1>2, <3>2, Zenon
  <2>4. ASSUME NEW i \in Slot, i # u
        PROVE  Off(u, i) = Off(t, i) + 1
    BY <1>1, <2>4, StepTail
  <2>2. n <= L
    BY <1>2, Zenon
  <2>3. L \in Int
    BY <2>1, Sizes
  <2> QED BY <2>1, <2>2, <2>3, <2>4
<1>4. /\ \A i \in Slot : Off(t, i) < L => lo < p[i].seq /\ p[i].seq <= hi
      /\ \A i \in Slot : Off(t, i) >= L => p[i] = None
      /\ \A i, j \in Slot : Off(t, i) < Off(t, j) /\ Off(t, j) < L => p[i].seq < p[j].seq
  BY <1>2 DEF RingOK, Size
<1>5. /\ \A i \in Slot : r[i] = IF Off(u, i) = n THEN c
                                ELSE IF Off(u, i) < n THEN p[next(i)] ELSE p[i]
      /\ \A i \in Slot : Off(t, i) < n => p[i].seq < c.seq
      /\ \A i \in Slot : Off(t, i) >= n /\ Off(t, i) < Off(t, h) => c.seq < p[i].seq
  BY DEF Lowers
<1>6. \A i \in Slot : /\ Off(t, i) \in Int /\ Off(t, i) >= 0
                      /\ Off(u, i) \in Int /\ Off(u, i) >= 0
  <2>1. \A i \in Slot : Off(t, i) \in 0 .. M - 1 /\ Off(u, i) \in 0 .. M - 1
    BY <1>1, <1>3, OffFacts, Zenon
  <2> QED BY <2>1, Sizes
<1>7. ASSUME NEW i \in Slot, Off(u, i) # n
      PROVE  \E s \in Slot : /\ r[i] = p[s]
                             /\ Off(t, s) = IF Off(u, i) < n THEN Off(u, i) ELSE Off(u, i) - 1
  <2>1. CASE Off(u, i) < n
    <3>1. next(i) \in Slot /\ Off(t, next(i)) = Off(u, i)
      BY <1>1, NextPrev, StepOff
    <3> QED BY <1>5, <2>1, <3>1
  <2>2. CASE ~(Off(u, i) < n)
    <3>1. i # u
      <4>1. Off(u, u) = 0
        BY <1>3, OffFacts
      <4> QED BY <1>6, <1>7, <2>2, <4>1
    <3>2. Off(u, i) = Off(t, i) + 1
      BY <1>3, <3>1
    <3>3. Off(t, i) = Off(u, i) - 1 /\ r[i] = p[i]
      BY <1>5, <1>6, <1>7, <2>2, <3>2
    <3> QED BY <2>2, <3>3
  <2> QED BY <2>1, <2>2
<1>8. \A i \in Slot : Off(t, i) < n => p[i].seq < c.seq
  BY <1>5
<1>9. \A i \in Slot : Off(t, i) >= n /\ Off(t, i) < L => c.seq < p[i].seq
  BY <1>5, <1>2
<1>10. \A i \in Slot : Off(u, i) = n => r[i] = c
  BY <1>5
<1>11. lo \in Int /\ hi \in Int /\ c.seq \in Int /\ \A i \in Slot : p[i].seq \in Int
  BY <1>1, EntryFacts, Sizes
<1>12. ASSUME NEW i \in Slot, Off(u, i) < K
       PROVE  lo < r[i].seq /\ r[i].seq <= hi
  <2>1. CASE Off(u, i) = n
    BY <1>10, <2>1
  <2>2. CASE Off(u, i) # n
    <3>1. PICK s \in Slot : /\ r[i] = p[s]
                            /\ Off(t, s) = IF Off(u, i) < n THEN Off(u, i) ELSE Off(u, i) - 1
      BY <1>7, <2>2
    <3>2. Off(t, s) < L
      BY <1>3, <1>6, <1>12, <2>2, <3>1
    <3> QED BY <1>4, <3>1, <3>2
  <2> QED BY <2>1, <2>2
<1>13. ASSUME NEW i \in Slot, Off(u, i) >= K
       PROVE  r[i] = None
  <2>1. Off(u, i) # n /\ ~(Off(u, i) < n)
    BY <1>3, <1>6, <1>13
  <2>2. PICK s \in Slot : /\ r[i] = p[s]
                          /\ Off(t, s) = IF Off(u, i) < n THEN Off(u, i) ELSE Off(u, i) - 1
    BY <1>7, <2>1
  <2>3. Off(t, s) >= L
    BY <1>3, <1>6, <1>13, <2>1, <2>2
  <2> QED BY <1>4, <2>2, <2>3
<1>14. ASSUME NEW i \in Slot, NEW j \in Slot, Off(u, i) < Off(u, j), Off(u, j) < K
       PROVE  r[i].seq < r[j].seq
  <2>1. CASE Off(u, i) = n
    <3>1. Off(u, j) # n /\ ~(Off(u, j) < n)
      BY <1>6, <1>14, <2>1
    <3>2. PICK s \in Slot : /\ r[j] = p[s]
                            /\ Off(t, s) = IF Off(u, j) < n THEN Off(u, j) ELSE Off(u, j) - 1
      BY <1>7, <3>1
    <3>3. Off(t, s) >= n /\ Off(t, s) < L
      BY <1>3, <1>6, <1>14, <2>1, <3>1, <3>2
    <3> QED BY <1>9, <1>10, <2>1, <3>2, <3>3
  <2>2. CASE Off(u, i) # n /\ Off(u, j) = n
    <3>1. PICK s \in Slot : /\ r[i] = p[s]
                            /\ Off(t, s) = IF Off(u, i) < n THEN Off(u, i) ELSE Off(u, i) - 1
      BY <1>7, <2>2
    <3>2. Off(t, s) < n
      BY <1>6, <1>14, <2>2, <3>1
    <3> QED BY <1>8, <1>10, <2>2, <3>1, <3>2
  <2>3. CASE Off(u, i) # n /\ Off(u, j) # n
    <3>1. PICK s \in Slot : /\ r[i] = p[s]
                            /\ Off(t, s) = IF Off(u, i) < n THEN Off(u, i) ELSE Off(u, i) - 1
      BY <1>7, <2>3
    <3>2. PICK v \in Slot : /\ r[j] = p[v]
                            /\ Off(t, v) = IF Off(u, j) < n THEN Off(u, j) ELSE Off(u, j) - 1
      BY <1>7, <2>3
    <3>3. Off(t, s) < Off(t, v) /\ Off(t, v) < L
      BY <1>3, <1>6, <1>14, <2>3, <3>1, <3>2
    <3> QED BY <1>4, <3>1, <3>2, <3>3
  <2> QED BY <2>1, <2>2, <2>3
<1>15. (h = u) \in BOOLEAN /\ ((h = u) => h = u)
  OBVIOUS
<1> QED BY <1>1, <1>2, <1>3, <1>12, <1>13, <1>14, <1>15, Zenon DEF RingOK

\* Ring r is p without its n lowest packets, and what is left lies above low
Frees(p, h, t, f, n, low, v, r) ==
  /\ n <= Size(h, t, f)
  /\ v = IF t + n < M THEN t + n ELSE t + n - M
  /\ \A i \in Slot : Off(t, i) >= n /\ Off(t, i) < Size(h, t, f) => low < p[i].seq
  /\ \A i \in Slot : r[i] = IF Off(t, i) < n THEN None ELSE p[i]

\* It stays in order
LEMMA ClearOK ==
  ASSUME NEW p, NEW h, NEW t, NEW f, NEW lo \in -1 .. N - 1, NEW hi \in -1 .. N - 1,
         RingOK(p, h, t, f, lo, hi),
         NEW n \in Nat, NEW v, NEW low \in -1 .. N - 1, NEW r \in [Slot -> Entry],
         Frees(p, h, t, f, n, low, v, r)
  PROVE  v \in Slot /\ RingOK(r, h, v, f /\ n = 0, low, hi)
<1>1. p \in [Slot -> Entry] /\ h \in Slot /\ t \in Slot /\ f \in BOOLEAN /\ (f => h = t)
  BY DEF RingOK
<1>2. PICK L : L = Size(h, t, f)
  OBVIOUS
<1>3. /\ n <= L
      /\ v = IF t + n < M THEN t + n ELSE t + n - M
      /\ \A i \in Slot : Off(t, i) >= n /\ Off(t, i) < L => low < p[i].seq
      /\ \A i \in Slot : r[i] = IF Off(t, i) < n THEN None ELSE p[i]
  BY <1>2, Zenon DEF Frees
<1>4. /\ M \in Int /\ M >= 2 /\ h \in 0 .. M - 1 /\ t \in 0 .. M - 1
      /\ L \in 0 .. M /\ n <= L
  <2>1. M \in Int /\ M >= 2 /\ h \in 0 .. M - 1 /\ t \in 0 .. M - 1
    BY <1>1, Sizes
  <2>2. L \in 0 .. M
    BY <1>1, <1>2, <2>1 DEF Size, Off
  <2> QED BY <1>3, <2>1, <2>2
<1>5. v = (IF t + n < M THEN t + n ELSE t + n - M) /\ v \in Slot
  BY <1>3, <1>4, Sizes
<1>6. PICK g : g = (f /\ n = 0)
  OBVIOUS
<1>7. g \in BOOLEAN /\ (g => h = v)
  <2>1. n = 0 => v = t
    BY <1>4, <1>5
  <2> QED BY <1>1, <1>6, <2>1, Zenon
<1>8. PICK K : K = Size(h, v, g)
  OBVIOUS
<1>9. K = L - n /\ K \in Int
  <2>1. CASE f /\ n = 0
    <3>1. L = M /\ K = M
      BY <1>2, <1>6, <1>8, <2>1, Zenon DEF Size
    <3> QED BY <1>4, <2>1, <3>1
  <2>2. CASE f /\ n # 0
    <3>1. L = M /\ K = Off(v, h) /\ h = t
      BY <1>1, <1>2, <1>6, <1>8, <2>2, Zenon DEF Size
    <3> QED BY <1>4, <1>5, <2>2, <3>1 DEF Off
  <2>3. CASE ~f
    <3>1. L = Off(t, h) /\ K = Off(v, h)
      BY <1>2, <1>6, <1>8, <2>3, Zenon DEF Size
    <3> QED BY <1>4, <1>5, <3>1 DEF Off
  <2> QED BY <2>1, <2>2, <2>3
<1>10. ASSUME NEW i \in Slot
      PROVE  /\ Off(v, i) = IF Off(t, i) >= n THEN Off(t, i) - n ELSE Off(t, i) - n + M
             /\ Off(t, i) \in 0 .. M - 1 /\ Off(v, i) \in Int
  <2>1. i \in 0 .. M - 1
    BY Sizes
  <2>2. Off(t, i) \in 0 .. M - 1
    BY <1>1, OffFacts
  <2>3. Off(v, i) = IF Off(t, i) >= n THEN Off(t, i) - n ELSE Off(t, i) - n + M
    BY <1>4, <1>5, <2>1 DEF Off
  <2> QED BY <1>4, <2>2, <2>3
<1>11. /\ \A i \in Slot : Off(t, i) < L => lo < p[i].seq /\ p[i].seq <= hi
       /\ \A i \in Slot : Off(t, i) >= L => p[i] = None
       /\ \A i, j \in Slot : Off(t, i) < Off(t, j) /\ Off(t, j) < L => p[i].seq < p[j].seq
       /\ \A i \in Slot : Off(t, i) >= n /\ Off(t, i) < L => low < p[i].seq
  BY <1>3, <1>2 DEF RingOK
<1>12. ASSUME NEW i \in Slot, Off(v, i) < K
       PROVE  Off(t, i) >= n /\ Off(t, i) < L /\ Off(v, i) = Off(t, i) - n /\ r[i] = p[i]
  <2>1. Off(t, i) >= n
    BY <1>4, <1>9, <1>10, <1>12
  <2>2. Off(v, i) = Off(t, i) - n /\ Off(t, i) < L
    BY <1>4, <1>9, <1>10, <1>12, <2>1
  <2>3. r[i] = p[i]
    BY <1>3, <1>4, <1>10, <2>1
  <2> QED BY <2>1, <2>2, <2>3
<1>13. \A i \in Slot : Off(v, i) < K => low < r[i].seq /\ r[i].seq <= hi
  BY <1>11, <1>12
<1>14. ASSUME NEW i \in Slot, Off(v, i) >= K
       PROVE  r[i] = None
  <2>1. CASE Off(t, i) < n
    BY <1>3, <2>1
  <2>2. CASE ~(Off(t, i) < n)
    <3>1. Off(t, i) >= L
      BY <1>4, <1>9, <1>10, <1>14, <2>2
    <3> QED BY <1>3, <1>11, <2>2, <3>1
  <2> QED BY <2>1, <2>2
<1>15. ASSUME NEW i \in Slot, NEW j \in Slot, Off(v, i) < Off(v, j), Off(v, j) < K
       PROVE  r[i].seq < r[j].seq
  <2>1. Off(v, i) < K
    BY <1>9, <1>10, <1>15
  <2>2. Off(t, i) < Off(t, j) /\ Off(t, j) < L /\ r[i] = p[i] /\ r[j] = p[j]
    BY <1>4, <1>10, <1>12, <1>15, <2>1
  <2> QED BY <1>11, <2>2
<1>16. RingOK(r, h, v, g, low, hi)
  BY <1>1, <1>5, <1>7, <1>8, <1>13, <1>14, <1>15, Zenon DEF RingOK
<1> QED BY <1>5, <1>6, <1>16, Zenon

-----------------------------------------------------------------------------
(* Where snoop_insert puts a packet *)

LEMMA MinOf ==
  ASSUME NEW T \in SUBSET Nat, T # {}
  PROVE  Min(T) \in T /\ \A m \in T : Min(T) <= m
<1>1. \E n \in T : \A m \in T : n <= m
  BY Data!LeastElement
<1> QED BY <1>1 DEF Min

\* A new copy
LEMMA CopyFacts ==
  ASSUME NEW seq \in Packets
  PROVE  Copy(seq) \in Entry /\ Copy(seq).seq = seq /\ Copy(seq) # None /\ seq \in -1 .. N - 1
<1>1. seq \in 0 .. N - 1 /\ N \in Nat /\ MaxRxmit \in Nat
  BY Sizes DEF Packets
<1>2. Copy(seq) \in Entry /\ Copy(seq).seq = seq
  BY <1>1 DEF Copy, Entry
<1>3. None.seq = -1
  BY DEF None
<1> QED BY <1>1, <1>2, <1>3

\* A placement keeps the ring in order, and the packet is where it says
PlacedOK(r, seq, hi) ==
  /\ RingOK(r.pkts, r.head, r.tail, r.head = r.tail, lastAck, hi)
  /\ r.at \in Slot /\ r.pkts[r.at] = Copy(seq)

LEMMA AtHeadOK ==
  ASSUME RingOK(pkts, bufhead, buftail, FALSE, lastAck, lastSeen),
         lastAck \in -1 .. N - 1, lastSeen \in -1 .. N - 1,
         NEW seq \in Packets, lastAck < seq, NEW hi \in -1 .. N - 1, lastSeen <= hi, seq <= hi,
         \A i \in Slot : Off(buftail, i) < Size(bufhead, buftail, FALSE) => pkts[i].seq < seq
  PROVE  PlacedOK(AtHead(seq), seq, hi)
<1>1. bufhead \in Slot /\ buftail \in Slot /\ pkts \in [Slot -> Entry]
  BY DEF RingOK
<1>2. PICK p : p = [pkts EXCEPT ![bufhead] = Copy(seq)]
  OBVIOUS
<1>3. RingOK([pkts EXCEPT ![bufhead] = Copy(seq)], next(bufhead), buftail,
             next(bufhead) = buftail, lastAck, hi)
  <2>1. PICK c : c = Copy(seq)
    OBVIOUS
  <2>2. c \in Entry /\ c.seq = seq
    BY <2>1, CopyFacts, Zenon
  <2>3. /\ lastAck < c.seq /\ c.seq <= hi
        /\ \A i \in Slot : Off(buftail, i) < Size(bufhead, buftail, FALSE)
                             => pkts[i].seq < c.seq
    BY <2>2, Zenon
  <2>4. RingOK([pkts EXCEPT ![bufhead] = c], next(bufhead), buftail,
               next(bufhead) = buftail, lastAck, hi)
    BY <2>2, <2>3, HeadOK
  <2> QED BY <2>1, <2>4, Zenon
<1>4. RingOK(p, next(bufhead), buftail, next(bufhead) = buftail, lastAck, hi)
  BY <1>2, <1>3, Zenon
<1>5. p[bufhead] = Copy(seq)
  BY <1>1, <1>2
<1>6. /\ AtHead(seq).pkts = p /\ AtHead(seq).head = next(bufhead)
      /\ AtHead(seq).tail = buftail /\ AtHead(seq).at = bufhead
  BY <1>2 DEF AtHead, Ring
<1> QED BY <1>1, <1>4, <1>5, <1>6, Zenon DEF PlacedOK

\* The lowest packet above seq parts the ring
LEMMA Parted ==
  ASSUME RingOK(pkts, bufhead, buftail, FALSE, lastAck, lastSeen), full = FALSE,
         NEW seq \in Packets, \A i \in Slot : pkts[i].seq # seq,
         NEW k \in Above(seq), \A m \in Above(seq) : k <= m
  PROVE  /\ k \in 1 .. Off(buftail, bufhead)
         /\ \A i \in Slot : Off(buftail, i) < k - 1 => pkts[i].seq < seq
         /\ \A i \in Slot : Off(buftail, i) >= k - 1 /\ Off(buftail, i) < Off(buftail, bufhead)
              => seq < pkts[i].seq
<1>1. /\ bufhead \in Slot /\ buftail \in Slot /\ pkts \in [Slot -> Entry]
      /\ full \in BOOLEAN
  BY DEF RingOK
<1>2. PICK L : L = Off(buftail, bufhead)
  OBVIOUS
<1>3. L \in Nat /\ Size(bufhead, buftail, full) = L
  <2>1. L \in 0 .. M - 1
    BY <1>1, <1>2, OffFacts
  <2> QED BY <1>2, <2>1, Sizes DEF Size
<1>4. /\ DOMAIN Used = 1 .. L
      /\ \A j \in 1 .. L : Used[j] \in Slot /\ Off(buftail, Used[j]) = j - 1
      /\ \A i \in Slot : Off(buftail, i) < L
           => Off(buftail, i) + 1 \in 1 .. L /\ Used[Off(buftail, i) + 1] = i
  BY <1>1, <1>3, UsedFacts
<1>5. /\ k \in 1 .. L /\ pkts[Used[k]].seq > seq
      /\ \A j \in 1 .. L : pkts[Used[j]].seq > seq => k <= j
  BY <1>4 DEF Above
<1>6. /\ seq \in Int /\ \A i \in Slot : /\ pkts[i].seq \in Int /\ Off(buftail, i) \in Int
                                        /\ Off(buftail, i) >= 0
  <2>1. \A i \in Slot : pkts[i] \in Entry /\ Off(buftail, i) \in 0 .. M - 1
    BY <1>1, OffFacts
  <2> QED BY <2>1, EntryFacts, Sizes DEF Packets
<1>7. ASSUME NEW i \in Slot, Off(buftail, i) < k - 1
      PROVE  pkts[i].seq < seq
  <2>1. Off(buftail, i) < L
    BY <1>3, <1>5, <1>6, <1>7
  <2>2. Off(buftail, i) + 1 \in 1 .. L /\ Used[Off(buftail, i) + 1] = i
    BY <1>4, <2>1
  <2>3. ~(pkts[i].seq > seq)
    BY <1>5, <1>6, <1>7, <2>2
  <2> QED BY <1>6, <2>3
<1>8. ASSUME NEW i \in Slot, Off(buftail, i) >= k - 1, Off(buftail, i) < L
      PROVE  seq < pkts[i].seq
  <2>1. Used[k] \in Slot /\ Off(buftail, Used[k]) = k - 1
    BY <1>4, <1>5
  <2>2. CASE Off(buftail, i) = k - 1
    <3>1. i = Used[k]
      BY <1>1, <2>1, <2>2, OffFacts
    <3> QED BY <1>5, <1>6, <3>1
  <2>3. CASE Off(buftail, i) # k - 1
    <3>1. Off(buftail, Used[k]) < Off(buftail, i)
      BY <1>3, <1>5, <1>6, <1>8, <2>1, <2>3
    <3>2. Off(buftail, i) < Size(bufhead, buftail, FALSE)
      BY <1>2, <1>8 DEF Size
    <3>3. pkts[Used[k]].seq < pkts[i].seq
      BY <2>1, <3>1, <3>2 DEF RingOK
    <3> QED BY <1>5, <1>6, <2>1, <3>3
  <2> QED BY <2>2, <2>3
<1> QED BY <1>2, <1>5, <1>7, <1>8

\* What BelowOK needs of a placement below the k-th packet in use
LEMMA UnderOK ==
  ASSUME RingOK(pkts, bufhead, buftail, FALSE, lastAck, lastSeen), full = FALSE,
         lastAck \in -1 .. N - 1, lastSeen \in -1 .. N - 1,
         NEW seq \in Packets, lastAck < seq, seq <= lastSeen, \A i \in Slot : pkts[i].seq # seq,
         NEW k \in Above(seq), \A m \in Above(seq) : k <= m,
         NEW u, u = prev(buftail), NEW p \in [Slot -> Entry],
         \A i \in Slot : p[i] = IF Off(u, i) = k - 1 THEN Copy(seq)
                                ELSE IF Off(u, i) < k - 1 THEN pkts[next(i)] ELSE pkts[i],
         NEW at \in Slot, Off(u, at) = k - 1
  PROVE  PlacedOK(Ring(p, bufhead, u, at), seq, lastSeen)
<1>1. PICK n : n = k - 1
  OBVIOUS
<1>2. /\ k \in 1 .. Off(buftail, bufhead)
      /\ \A i \in Slot : Off(buftail, i) < n => pkts[i].seq < seq
      /\ \A i \in Slot : Off(buftail, i) >= n /\ Off(buftail, i) < Off(buftail, bufhead)
           => seq < pkts[i].seq
  BY <1>1, Parted, Zenon
<1>3. Off(buftail, bufhead) \in Int
  <2>1. bufhead \in Slot /\ buftail \in Slot
    BY DEF RingOK
  <2>2. Off(buftail, bufhead) \in 0 .. M - 1
    BY <2>1, OffFacts
  <2> QED BY <2>2, Sizes
<1>4. n \in Nat /\ n <= Off(buftail, bufhead)
  BY <1>1, <1>2, <1>3
<1>5. /\ \A i \in Slot : p[i] = IF Off(u, i) = n THEN Copy(seq)
                                ELSE IF Off(u, i) < n THEN pkts[next(i)] ELSE pkts[i]
      /\ Off(u, at) = n
  BY <1>1, Zenon
<1>6. RingOK(p, bufhead, u, bufhead = u, lastAck, lastSeen)
  <2>1. PICK c : c = Copy(seq)
    OBVIOUS
  <2>2. c \in Entry /\ c.seq = seq
    BY <2>1, CopyFacts, Zenon
  <2>3. lastAck < c.seq /\ c.seq <= lastSeen
    BY <2>2, Zenon
  <2>4. Lowers(pkts, bufhead, buftail, u, n, c, p)
    BY <1>2, <1>5, <2>1, <2>2, Zenon DEF Lowers
  <2> QED BY <1>4, <2>2, <2>3, <2>4, BelowOK, Zenon
<1>7. p[at] = Copy(seq)
  BY <1>5, Zenon
<1>8. PICK r : r = Ring(p, bufhead, u, at)
  OBVIOUS
<1>9. r.pkts = p /\ r.head = bufhead /\ r.tail = u /\ r.at = at
  BY <1>8 DEF Ring
<1> QED BY <1>6, <1>7, <1>8, <1>9, Zenon DEF PlacedOK

LEMMA AtTailOK ==
  ASSUME RingOK(pkts, bufhead, buftail, FALSE, lastAck, lastSeen), full = FALSE,
         lastAck \in -1 .. N - 1, lastSeen \in -1 .. N - 1,
         NEW seq \in Packets, lastAck < seq, seq <= lastSeen, \A i \in Slot : pkts[i].seq # seq,
         1 \in Above(seq), \A m \in Above(seq) : 1 <= m
  PROVE  PlacedOK(AtTail(seq), seq, lastSeen)
<1>1. bufhead \in Slot /\ buftail \in Slot /\ pkts \in [Slot -> Entry]
  BY DEF RingOK
<1>2. PICK u : u = prev(buftail)
  OBVIOUS
<1>3. /\ u \in Slot /\ Off(u, u) = 0
      /\ \A i \in Slot : Off(u, i) \in Int /\ Off(u, i) >= 0 /\ (Off(u, i) = 0 => i = u)
  <2>1. u \in Slot
    BY <1>1, <1>2, NextPrev
  <2>2. Off(u, u) = 0 /\ \A i \in Slot : Off(u, i) \in 0 .. M - 1 /\ (Off(u, i) = 0 => i = u)
    BY <2>1, OffFacts
  <2> QED BY <2>1, <2>2, Sizes
<1>4. PICK p : p = [pkts EXCEPT ![u] = Copy(seq)]
  OBVIOUS
<1>5. p \in [Slot -> Entry] /\ \A i \in Slot : p[i] = IF i = u THEN Copy(seq) ELSE pkts[i]
  BY <1>1, <1>3, <1>4, CopyFacts
<1>6. ASSUME NEW i \in Slot
      PROVE  p[i] = IF Off(u, i) = 0 THEN Copy(seq)
                    ELSE IF Off(u, i) < 0 THEN pkts[next(i)] ELSE pkts[i]
  <2>1. ~(Off(u, i) < 0) /\ (Off(u, i) = 0 <=> i = u)
    BY <1>3
  <2> QED BY <1>5, <2>1, Zenon
<1>7. PICK k : k = 1
  OBVIOUS
<1>8. /\ k \in Above(seq) /\ \A m \in Above(seq) : k <= m
      /\ k - 1 = 0
  BY <1>7
<1>9. PlacedOK(Ring(p, bufhead, u, u), seq, lastSeen)
  <2>1. \A i \in Slot : p[i] = IF Off(u, i) = k - 1 THEN Copy(seq)
                               ELSE IF Off(u, i) < k - 1 THEN pkts[next(i)] ELSE pkts[i]
    BY <1>6, <1>8
  <2>2. Off(u, u) = k - 1
    BY <1>3, <1>8
  <2> QED BY <1>2, <1>3, <1>5, <1>8, <2>1, <2>2, UnderOK, Zenon
<1> QED BY <1>2, <1>4, <1>9, Zenon DEF AtTail

LEMMA BetweenOK ==
  ASSUME RingOK(pkts, bufhead, buftail, FALSE, lastAck, lastSeen), full = FALSE,
         lastAck \in -1 .. N - 1, lastSeen \in -1 .. N - 1,
         NEW seq \in Packets, lastAck < seq, seq <= lastSeen, \A i \in Slot : pkts[i].seq # seq,
         NEW k \in Above(seq), \A m \in Above(seq) : k <= m
  PROVE  PlacedOK(Between(seq, k), seq, lastSeen)
<1>1. /\ bufhead \in Slot /\ buftail \in Slot /\ pkts \in [Slot -> Entry]
      /\ full \in BOOLEAN
  BY DEF RingOK
<1>2. PICK u : u = prev(buftail)
  OBVIOUS
<1>3. PICK L : L = Size(bufhead, buftail, full)
  OBVIOUS
<1>4. /\ L \in 0 .. M /\ DOMAIN Used = 1 .. L
      /\ \A j \in 1 .. L : Used[j] \in Slot /\ Off(buftail, Used[j]) = j - 1
      /\ k \in 1 .. L
  <2>1. /\ L \in 0 .. M /\ DOMAIN Used = 1 .. L
        /\ \A j \in DOMAIN Used : Used[j] \in Slot /\ Off(buftail, Used[j]) = j - 1
    BY <1>1, <1>3, UsedFacts
  <2> QED BY <2>1 DEF Above
<1>5. M \in Nat /\ L \in Int /\ k \in Int /\ 1 <= k /\ k <= L
  BY <1>4, Sizes
<1>6. /\ \A i \in Slot : Off(u, i) \in Int /\ Off(u, i) >= 0
      /\ \A i, j \in Slot : Off(u, i) = Off(u, j) => i = j
  <2>1. u \in Slot
    BY <1>1, <1>2, NextPrev
  <2>2. /\ \A i \in Slot : Off(u, i) \in 0 .. M - 1
        /\ \A i, j \in Slot : Off(u, i) = Off(u, j) => i = j
    BY <2>1, OffFacts
  <2> QED BY <1>5, <2>2
<1>7. ASSUME NEW j \in 1 .. L
      PROVE  prev(Used[j]) \in Slot /\ Off(u, prev(Used[j])) = j - 1
  <2>1. Used[j] \in Slot /\ Off(buftail, Used[j]) = j - 1
    BY <1>4
  <2> QED BY <1>1, <1>2, <2>1, NextPrev, StepOff
<1>8. PICK at, below : at = prev(Used[k]) /\ below = {prev(Used[j]) : j \in 1 .. k - 1}
  OBVIOUS
<1>9. at \in Slot /\ Off(u, at) = k - 1 /\ \A i \in Slot : i = at <=> Off(u, i) = k - 1
  <2>1. at \in Slot /\ Off(u, at) = k - 1
    BY <1>4, <1>7, <1>8
  <2> QED BY <1>6, <2>1
<1>10. ASSUME NEW i \in Slot
       PROVE  i \in below <=> Off(u, i) < k - 1
  <2>1. ASSUME i \in below PROVE Off(u, i) < k - 1
    <3>1. PICK j \in 1 .. k - 1 : i = prev(Used[j])
      BY <1>8, <2>1
    <3>2. j \in 1 .. L /\ j - 1 < k - 1
      BY <1>5
    <3> QED BY <1>7, <3>1, <3>2
  <2>2. ASSUME Off(u, i) < k - 1 PROVE i \in below
    <3>1. PICK j : j = Off(u, i) + 1
      OBVIOUS
    <3>2. j \in 1 .. k - 1 /\ j \in 1 .. L /\ j - 1 = Off(u, i)
      BY <1>5, <1>6, <2>2, <3>1
    <3>3. i = prev(Used[j])
      BY <1>6, <1>7, <3>2
    <3> QED BY <1>8, <3>2, <3>3
  <2> QED BY <2>1, <2>2
<1>11. PICK p : p = [i \in Slot |-> IF i = at THEN Copy(seq)
                                    ELSE IF i \in below THEN pkts[next(i)] ELSE pkts[i]]
  OBVIOUS
<1>12. /\ p \in [Slot -> Entry]
       /\ \A i \in Slot : p[i] = IF Off(u, i) = k - 1 THEN Copy(seq)
                                 ELSE IF Off(u, i) < k - 1 THEN pkts[next(i)] ELSE pkts[i]
  <2>1. \A i \in Slot : next(i) \in Slot
    BY NextPrev
  <2>2. p \in [Slot -> Entry]
    BY <1>1, <1>11, <2>1, CopyFacts
  <2>3. \A i \in Slot : p[i] = IF i = at THEN Copy(seq)
                               ELSE IF i \in below THEN pkts[next(i)] ELSE pkts[i]
    BY <1>11
  <2> QED BY <1>9, <1>10, <2>2, <2>3
<1>13. PlacedOK(Ring(p, bufhead, u, at), seq, lastSeen)
  BY <1>2, <1>9, <1>12, UnderOK, Zenon
<1> QED BY <1>2, <1>8, <1>11, <1>13, Zenon DEF Between

\* Wherever the packet goes
LEMMA PlacedRight ==
  ASSUME RingOK(pkts, bufhead, buftail, FALSE, lastAck, lastSeen), full = FALSE,
         lastAck \in -1 .. N - 1, lastSeen \in -1 .. N - 1,
         NEW seq \in Packets, lastAck < seq, \A i \in Slot : pkts[i].seq # seq,
         NEW hi, hi = (IF seq < lastSeen THEN lastSeen ELSE seq)
  PROVE  PlacedOK(Placed(seq), seq, hi)
<1>1. /\ bufhead \in Slot /\ buftail \in Slot /\ pkts \in [Slot -> Entry]
      /\ full \in BOOLEAN
  BY DEF RingOK
<1>2. /\ seq \in -1 .. N - 1 /\ hi \in -1 .. N - 1 /\ lastSeen <= hi /\ seq <= hi
      /\ lastAck \in Int /\ -1 <= lastAck
  BY Sizes DEF Packets
<1>3. PICK L : L = Size(bufhead, buftail, full)
  OBVIOUS
<1>4. /\ DOMAIN Used = 1 .. L
      /\ L \in 0 .. M
      /\ \A i \in Slot : Off(buftail, i) < L
           => Off(buftail, i) + 1 \in DOMAIN Used /\ Used[Off(buftail, i) + 1] = i
      /\ \A i \in Slot : Off(buftail, i) < L => lastAck < pkts[i].seq /\ pkts[i].seq <= lastSeen
      /\ Off(buftail, buftail) = 0
  BY <1>1, <1>3, UsedFacts, OffFacts DEF RingOK, Size
<1>5. seq \in Int /\ lastSeen \in Int /\ \A i \in Slot : pkts[i].seq \in Int
  BY <1>1, <1>2, EntryFacts, Sizes
<1>6. CASE seq > lastSeen \/ pkts[buftail] = None \/ Above(seq) = {}
  <2>1. ASSUME NEW i \in Slot, Off(buftail, i) < L
        PROVE  pkts[i].seq < seq
    <3>1. CASE seq > lastSeen
      BY <1>4, <1>5, <2>1, <3>1
    <3>2. CASE pkts[buftail] = None
      <4>1. Off(buftail, i) \in 0 .. M - 1
        BY <1>1, OffFacts
      <4>2. Off(buftail, buftail) < L
        BY <1>4, <2>1, <4>1, Sizes
      <4>3. lastAck < pkts[buftail].seq
        BY <1>1, <1>4, <4>2
      <4> QED BY <1>2, <3>2, <4>3 DEF None
    <3>3. CASE Above(seq) = {}
      <4>1. ~(pkts[i].seq > seq)
        BY <1>4, <2>1, <3>3 DEF Above
      <4> QED BY <1>5, <4>1
    <3> QED BY <1>6, <3>1, <3>2, <3>3
  <2>2. \A i \in Slot : Off(buftail, i) < Size(bufhead, buftail, FALSE) => pkts[i].seq < seq
    BY <1>3, <2>1, Zenon
  <2>3. PlacedOK(AtHead(seq), seq, hi)
    BY <1>2, <2>2, AtHeadOK
  <2> QED BY <1>6, <2>3, Zenon DEF Placed
<1>7. CASE ~(seq > lastSeen \/ pkts[buftail] = None \/ Above(seq) = {})
  <2>1. hi = lastSeen /\ seq <= lastSeen
    BY <1>5, <1>7
  <2>2. PICK k : k = Min(Above(seq))
    OBVIOUS
  <2>3. Above(seq) \in SUBSET Nat /\ Above(seq) \subseteq 1 .. L /\ Above(seq) # {}
    BY <1>4, <1>7 DEF Above
  <2>4. k \in Above(seq) /\ \A m \in Above(seq) : k <= m
    BY <2>2, <2>3, MinOf, Zenon
  <2>5. CASE 1 \in Above(seq)
    <3>1. \A m \in Above(seq) : 1 <= m
      BY <1>4, <2>3
    <3>2. PlacedOK(AtTail(seq), seq, lastSeen)
      BY <2>1, <2>5, <3>1, AtTailOK
    <3> QED BY <1>7, <2>1, <2>5, <3>2, Zenon DEF Placed
  <2>6. CASE 1 \notin Above(seq)
    <3>1. PlacedOK(Between(seq, k), seq, lastSeen)
      BY <2>1, <2>4, BetweenOK
    <3> QED BY <1>7, <2>1, <2>2, <2>6, <3>1, Zenon DEF Placed
  <2> QED BY <2>5, <2>6
<1> QED BY <1>6, <1>7, Zenon

-----------------------------------------------------------------------------
(* The inductive invariant *)

CacheInv ==
  /\ RingOK(pkts, bufhead, buftail, full, lastAck, lastSeen)
  /\ expNextAck \in Slot /\ expDupacks \in -2 .. M
  /\ lastSeen \in -1 .. N - 1 /\ lastAck \in -1 .. N - 1

LinkInv ==
  /\ sent \in 0 .. N /\ told \in -1 .. N - 1
  /\ air \in Seq(Packets) /\ got \subseteq Packets /\ acks \in Seq(-1 .. N - 1)

Inv == CacheInv /\ LinkInv /\ lastAck <= told

\* The packet at the tail is one that is not acknowledged
LEMMA TailFacts ==
  ASSUME CacheInv, pkts[buftail] # None
  PROVE  /\ pkts \in [Slot -> Entry] /\ buftail \in Slot /\ pkts[buftail] \in Entry
         /\ pkts[buftail].seq \in Packets /\ lastAck < pkts[buftail].seq
<1>1. /\ pkts \in [Slot -> Entry] /\ bufhead \in Slot /\ buftail \in Slot /\ full \in BOOLEAN
      /\ Off(buftail, buftail) = 0
  BY OffFacts DEF CacheInv, RingOK
<1>2. Size(bufhead, buftail, full) \in 0 .. M
  BY <1>1, UsedFacts
<1>3. 0 < Size(bufhead, buftail, full)
  <2>1. ~(Off(buftail, buftail) >= Size(bufhead, buftail, full))
    BY <1>1 DEF CacheInv, RingOK
  <2> QED BY <1>1, <1>2, <2>1, Sizes
<1>4. lastAck < pkts[buftail].seq
  BY <1>1, <1>3 DEF CacheInv, RingOK
<1>5. pkts[buftail].seq \in -1 .. N - 1
  BY <1>1, EntryFacts
<1> QED BY <1>1, <1>4, <1>5, Sizes DEF CacheInv, Packets

\* A retransmission leaves the ring as it is and sends a packet of it
LEMMA Resent ==
  ASSUME CacheInv, pkts[buftail] # None, snoop_rxmit
  PROVE  /\ RingOK(pkts', bufhead, buftail, full, lastAck, lastSeen)
         /\ pkts'[buftail].seq = pkts[buftail].seq
         /\ air' = Append(air, pkts[buftail].seq) /\ pkts[buftail].seq \in Packets
<1>1. PICK c : c = [pkts[buftail] EXCEPT !.num = @ + 1]
  OBVIOUS
<1>2. c \in Entry /\ c.seq = pkts[buftail].seq
  <2>1. /\ pkts[buftail] \in [seq : -1 .. N - 1, num : 0 .. MaxRxmit, sender : BOOLEAN]
        /\ pkts[buftail].num < MaxRxmit /\ MaxRxmit \in Nat
    BY TailFacts, Sizes DEF Entry, snoop_rxmit
  <2>2. pkts[buftail].num + 1 \in 0 .. MaxRxmit
    BY <2>1
  <2> QED BY <1>1, <2>1, <2>2 DEF Entry
<1>3. pkts' = [pkts EXCEPT ![buftail] = c]
  BY <1>1 DEF snoop_rxmit
<1>4. RingOK([pkts EXCEPT ![buftail] = c], bufhead, buftail, full, lastAck, lastSeen)
  <2>1. buftail \in Slot
    BY TailFacts
  <2> QED BY <1>2, <2>1, ChangeOK DEF CacheInv
<1>5. pkts'[buftail].seq = pkts[buftail].seq
  BY <1>2, <1>3, TailFacts
<1>6. RingOK(pkts', bufhead, buftail, full, lastAck, lastSeen)
  BY <1>3, <1>4, Zenon
<1> QED BY <1>5, <1>6, TailFacts DEF snoop_rxmit

-----------------------------------------------------------------------------
(* snoop_data *)

LEMMA RenewOK ==
  ASSUME CacheInv, NEW seq \in Packets, Renew(seq)
  PROVE  /\ RingOK(pkts', bufhead', buftail', full', lastAck, lastSeen')
         /\ expNextAck' = expNextAck /\ lastSeen' = lastSeen
<1>1. PICK i \in Slot : /\ pkts[i].seq = seq
                        /\ pkts' = [pkts EXCEPT ![i].num = 0, ![i].sender = TRUE]
  BY DEF Renew
<1>2. pkts \in [Slot -> Entry]
  BY DEF CacheInv, RingOK
<1>3. PICK c : c = [pkts[i] EXCEPT !.num = 0, !.sender = TRUE]
  OBVIOUS
<1>4. c \in Entry /\ c.seq = pkts[i].seq
  <2>1. /\ pkts[i] \in [seq : -1 .. N - 1, num : 0 .. MaxRxmit, sender : BOOLEAN]
        /\ 0 \in 0 .. MaxRxmit
    BY <1>2, Sizes DEF Entry
  <2> QED BY <1>3, <2>1 DEF Entry
<1>5. pkts' = [pkts EXCEPT ![i] = c]
  BY <1>1, <1>2, <1>3
<1>6. pkts[i] # None
  <2>1. seq # -1
    BY Sizes DEF Packets
  <2> QED BY <1>1, <2>1 DEF None
<1>7. RingOK([pkts EXCEPT ![i] = c], bufhead, buftail, full, lastAck, lastSeen)
  BY <1>4, <1>6, ChangeOK DEF CacheInv
<1>8. /\ bufhead' = bufhead /\ buftail' = buftail /\ full' = full
      /\ lastSeen' = lastSeen /\ expNextAck' = expNextAck
  BY DEF Renew
<1> QED BY <1>5, <1>7, <1>8, Zenon

LEMMA KeepOK ==
  ASSUME CacheInv, full = FALSE, NEW seq \in Packets, lastAck < seq, Keep(seq)
  PROVE  /\ RingOK(pkts', bufhead', buftail', full', lastAck, lastSeen')
         /\ expNextAck' \in Slot /\ lastSeen' \in -1 .. N - 1
<1>1. PICK r : r = Placed(seq)
  OBVIOUS
<1>2. PICK hi : hi = (IF seq < lastSeen THEN lastSeen ELSE seq)
  OBVIOUS
<1>3. PlacedOK(r, seq, hi)
  <2>1. RingOK(pkts, bufhead, buftail, FALSE, lastAck, lastSeen)
    BY Zenon DEF CacheInv
  <2>2. PlacedOK(Placed(seq), seq, hi)
    BY <1>2, <2>1, PlacedRight, Zenon DEF CacheInv, Keep
  <2> QED BY <1>1, <2>2, Zenon
<1>4. /\ RingOK(r.pkts, r.head, r.tail, r.head = r.tail, lastAck, hi)
      /\ r.at \in Slot /\ r.pkts[r.at] = Copy(seq) /\ r.tail \in Slot
      /\ r.pkts \in [Slot -> Entry]
  BY <1>3 DEF PlacedOK, RingOK
<1>5. PICK b \in BOOLEAN : pkts' = [r.pkts EXCEPT ![r.at].sender = b]
  <2>1. (seq < lastSeen /\ r.at = r.tail) \in BOOLEAN
    OBVIOUS
  <2> QED BY <1>1, <2>1, Zenon DEF Keep
<1>6. /\ bufhead' = r.head /\ buftail' = r.tail /\ full' = (r.head = r.tail)
      /\ lastSeen' = hi /\ expNextAck' = (IF seq < lastSeen THEN r.tail ELSE expNextAck)
  BY <1>1, <1>2, Zenon DEF Keep
<1>7. PICK c : c = [r.pkts[r.at] EXCEPT !.sender = b]
  OBVIOUS
<1>8. c \in Entry /\ c.seq = r.pkts[r.at].seq /\ r.pkts[r.at] # None
  <2>1. r.pkts[r.at] \in Entry /\ r.pkts[r.at] # None
    BY <1>4, CopyFacts
  <2> QED BY <1>7, <2>1 DEF Entry
<1>9. pkts' = [r.pkts EXCEPT ![r.at] = c]
  BY <1>4, <1>5, <1>7
<1>10. hi \in -1 .. N - 1 /\ lastAck \in -1 .. N - 1
  BY <1>2, Sizes DEF CacheInv, Packets
<1>11. RingOK([r.pkts EXCEPT ![r.at] = c], r.head, r.tail, r.head = r.tail, lastAck, hi)
  BY <1>4, <1>8, <1>10, ChangeOK
<1>12. expNextAck' \in Slot
  BY <1>4, <1>6 DEF CacheInv
<1> QED BY <1>6, <1>9, <1>10, <1>11, <1>12, Zenon

LEMMA ResetOK ==
  ASSUME NEW room \in BOOLEAN, reset(room)
  PROVE  CacheInv' /\ lastAck' = -1
<1>1. /\ M \in Nat /\ M >= 2 /\ Slot = 0 .. M - 1 /\ N \in Nat /\ N >= 1 /\ 0 \in Packets
  BY Sizes DEF Packets
<1>2. PICK h : h = (IF room THEN 1 ELSE 0)
  OBVIOUS
<1>3. h \in Slot /\ bufhead' = h
  <2>1. h \in 0 .. M - 1 /\ (IF room THEN 1 ELSE 0) = h
    BY <1>1, <1>2
  <2>2. h % M = h
    BY <1>1, <2>1
  <2> QED BY <1>1, <2>1, <2>2 DEF reset
<1>4. PICK p : p = [i \in Slot |-> IF i = 0 /\ room THEN Copy(0) ELSE None]
  OBVIOUS
<1>5. PICK seen : seen = (IF room THEN 0 ELSE -1)
  OBVIOUS
<1>6. None \in Entry
  BY <1>1, Sizes DEF None, Entry
<1>7. p \in [Slot -> Entry] /\ \A i \in Slot : p[i] = IF i < h THEN Copy(0) ELSE None
  <2>1. p \in [Slot -> Entry]
    BY <1>1, <1>4, <1>6, CopyFacts
  <2>2. \A i \in Slot : i < h <=> (i = 0 /\ room)
    BY <1>1, <1>2
  <2> QED BY <1>4, <2>1, <2>2
<1>8. \A i \in Slot : Off(0, i) = i /\ i \in Int
  BY <1>1 DEF Off
<1>9. PICK K : K = Size(h, 0, FALSE)
  OBVIOUS
<1>10. K = h /\ h \in 0 .. 1
  BY <1>2, <1>3, <1>8, <1>9 DEF Size
<1>11. \A i \in Slot : Off(0, i) < K => -1 < p[i].seq /\ p[i].seq <= seen
  <2>1. \A i \in Slot : i < h => p[i].seq = 0 /\ seen = 0
    BY <1>1, <1>2, <1>5, <1>7, CopyFacts
  <2> QED BY <1>8, <1>10, <2>1
<1>12. \A i \in Slot : Off(0, i) >= K => p[i] = None
  BY <1>7, <1>8, <1>10
<1>13. \A i, j \in Slot : ~(Off(0, i) < Off(0, j) /\ Off(0, j) < K)
  BY <1>1, <1>8, <1>10
<1>14. 0 \in Slot
  BY <1>1
<1>15. RingOK(p, h, 0, FALSE, -1, seen)
  BY <1>3, <1>7, <1>9, <1>11, <1>12, <1>13, <1>14, Zenon DEF RingOK
<1>16. /\ pkts' = p /\ bufhead' = h /\ buftail' = 0 /\ full' = FALSE /\ lastSeen' = seen
       /\ lastAck' = -1 /\ expNextAck' = 0 /\ expDupacks' = 0
  BY <1>3, <1>4, <1>5 DEF reset
<1>17. seen \in -1 .. N - 1 /\ -1 \in -1 .. N - 1 /\ 0 \in -2 .. M
  BY <1>1, <1>5
<1>18. RingOK(pkts', bufhead', buftail', full', lastAck', lastSeen')
  BY <1>15, <1>16, Zenon
<1> QED BY <1>14, <1>16, <1>17, <1>18, Zenon DEF CacheInv

LEMMA DataOK ==
  ASSUME Inv, NEW seq \in Packets, snoop_data(seq), UNCHANGED told
  PROVE  /\ CacheInv' /\ lastAck' <= told
         /\ air' = Append(air, seq) /\ UNCHANGED <<got, acks>>
<1>1. CASE alive /\ seq = 0
  <2>1. PICK room \in BOOLEAN : reset(room)
    BY <1>1 DEF snoop_data
  <2>2. -1 <= told
    BY DEF Inv, LinkInv
  <2> QED BY <2>1, <2>2, ResetOK DEF snoop_data
<1>2. CASE ~(alive /\ seq = 0) /\ WhileFull(seq)
  <2>1. /\ UNCHANGED <<pkts, bufhead, buftail, full, expNextAck, lastAck, expDupacks>>
        /\ lastSeen' = (IF seq > lastSeen THEN seq ELSE lastSeen)
    BY <1>2 DEF WhileFull, cache, dups
  <2>2. lastSeen' \in -1 .. N - 1 /\ lastSeen <= lastSeen' /\ lastSeen \in Int
    BY <2>1, Sizes DEF Inv, CacheInv, Packets
  <2>3. RingOK(pkts, bufhead, buftail, full, lastAck, lastSeen')
    <3>1. \A i \in Slot : pkts[i].seq \in Int
      BY EntryFacts, Sizes DEF Inv, CacheInv, RingOK
    <3> QED BY <2>2, <3>1 DEF Inv, CacheInv, RingOK
  <2>4. RingOK(pkts', bufhead', buftail', full', lastAck', lastSeen')
    BY <2>1, <2>3, Zenon
  <2> QED BY <2>1, <2>2, <2>4, Zenon DEF Inv, CacheInv, snoop_data
<1>3. CASE ~(alive /\ seq = 0) /\ WithRoom(seq)
  <2>1. UNCHANGED <<lastAck, expDupacks>> /\ full = FALSE
    BY <1>3 DEF WithRoom, dups, Inv, CacheInv, RingOK
  <2>2. CASE NotKept
    BY <2>1, <2>2, Zenon DEF NotKept, cache, Inv, CacheInv, snoop_data
  <2>3. CASE snoop_insert(seq)
    <3>1. lastAck < seq
      BY <2>3, Sizes DEF snoop_insert, Inv, CacheInv, Packets
    <3>2. /\ RingOK(pkts', bufhead', buftail', full', lastAck, lastSeen')
          /\ expNextAck' \in Slot /\ lastSeen' \in -1 .. N - 1
      BY <2>1, <2>3, <3>1, RenewOK, KeepOK, Zenon DEF snoop_insert, Inv, CacheInv
    <3> QED BY <2>1, <3>2, Zenon DEF Inv, CacheInv, snoop_data
  <2> QED BY <1>3, <2>2, <2>3 DEF WithRoom
<1> QED BY <1>1, <1>2, <1>3 DEF snoop_data

-----------------------------------------------------------------------------
(* snoop_ack *)

\* What an action leaves of the invariant when the cache is not touched
LEMMA SameCache ==
  ASSUME CacheInv, UNCHANGED <<cache, lastSeen, expNextAck, dups>>
  PROVE  CacheInv'
<1>1. /\ pkts' = pkts /\ bufhead' = bufhead /\ buftail' = buftail /\ full' = full
      /\ lastSeen' = lastSeen /\ expNextAck' = expNextAck
      /\ lastAck' = lastAck /\ expDupacks' = expDupacks
  BY DEF cache, dups
<1> QED BY <1>1, Zenon DEF CacheInv

LEMMA NewAckOK ==
  ASSUME Inv, NEW ack \in -1 .. N - 1, NewAck(ack), UNCHANGED lastSeen
  PROVE  CacheInv' /\ lastAck' <= told' /\ told' \in -1 .. N - 1 /\ air' = air
<1>1. /\ pkts \in [Slot -> Entry] /\ bufhead \in Slot /\ buftail \in Slot
      /\ full \in BOOLEAN
  BY DEF Inv, CacheInv, RingOK
<1>2. PICK n : n = (IF Above(ack) = {} THEN Len(Used) ELSE Min(Above(ack)) - 1)
  OBVIOUS
<1>3. PICK L : L = Size(bufhead, buftail, full)
  OBVIOUS
<1>4. /\ L \in 0 .. M /\ DOMAIN Used = 1 .. L /\ Len(Used) = L
      /\ \A j \in 1 .. L : Used[j] \in Slot /\ Off(buftail, Used[j]) = j - 1
      /\ \A i \in Slot : Off(buftail, i) < L
           => Off(buftail, i) + 1 \in 1 .. L /\ Used[Off(buftail, i) + 1] = i
  BY <1>1, <1>3, UsedFacts
<1>5. M \in Nat /\ M >= 2 /\ L \in Int /\ L >= 0 /\ L <= M /\ buftail \in 0 .. M - 1
  BY <1>1, <1>4, Sizes
<1>6. \A i \in Slot : /\ Off(buftail, i) \in Int /\ Off(buftail, i) >= 0
                      /\ pkts[i].seq \in Int
  <2>1. \A i \in Slot : Off(buftail, i) \in 0 .. M - 1 /\ pkts[i] \in Entry
    BY <1>1, OffFacts
  <2> QED BY <1>5, <2>1, EntryFacts, Sizes
<1>7. ack \in Int
  BY Sizes
<1>8. Above(ack) = {k \in 1 .. L : pkts[Used[k]].seq > ack}
  BY <1>4 DEF Above
<1>9. /\ n \in Nat /\ n <= L
      /\ \A i \in Slot : Off(buftail, i) >= n /\ Off(buftail, i) < L => ack < pkts[i].seq
  <2>1. CASE Above(ack) = {}
    BY <1>2, <1>4, <1>5, <1>6, <2>1
  <2>2. CASE Above(ack) # {}
    <3>1. PICK k : k = Min(Above(ack))
      OBVIOUS
    <3>2. Above(ack) \in SUBSET Nat
      BY <1>8
    <3>3. k \in Above(ack)
      BY <2>2, <3>1, <3>2, MinOf, Zenon
    <3>4. k \in 1 .. L /\ pkts[Used[k]].seq > ack
      BY <1>8, <3>3
    <3>5. n = k - 1
      BY <1>2, <2>2, <3>1, Zenon
    <3>6. n \in Nat /\ n <= L
      BY <1>5, <3>4, <3>5
    <3>7. ASSUME NEW i \in Slot, Off(buftail, i) >= n, Off(buftail, i) < L
          PROVE  ack < pkts[i].seq
      <4>1. Used[k] \in Slot /\ Off(buftail, Used[k]) = n
        BY <1>4, <3>4, <3>5
      <4>2. CASE Off(buftail, i) = n
        <5>1. i = Used[k]
          BY <1>1, <4>1, <4>2, OffFacts
        <5> QED BY <1>6, <1>7, <3>4, <5>1
      <4>3. CASE Off(buftail, i) # n
        <5>1. Off(buftail, Used[k]) < Off(buftail, i)
          BY <1>6, <3>6, <3>7, <4>1, <4>3
        <5>2. pkts[Used[k]].seq < pkts[i].seq
          BY <1>3, <3>7, <4>1, <5>1 DEF Inv, CacheInv, RingOK
        <5> QED BY <1>6, <1>7, <3>4, <4>1, <5>2
      <4> QED BY <4>2, <4>3
    <3> QED BY <3>6, <3>7
  <2> QED BY <2>1, <2>2
<1>10. PICK v : v = (buftail + n) % M
  OBVIOUS
<1>11. v = (IF buftail + n < M THEN buftail + n ELSE buftail + n - M)
  <2>1. PICK x : x = buftail + n
    OBVIOUS
  <2>2. x \in 0 .. 2 * M - 1 /\ M \in Nat \ {0} /\ v = x % M
    BY <1>5, <1>9, <1>10, <2>1
  <2>3. x % M = IF x < M THEN x ELSE x - M
    BY <2>2, ModOnce, Zenon
  <2>4. v = IF x < M THEN x ELSE x - M
    BY <2>2, <2>3, Zenon
  <2> QED BY <1>5, <1>9, <2>1, <2>4
<1>12. PICK p : p = [i \in Slot |-> IF \E k \in 1 .. n : Used[k] = i THEN None ELSE pkts[i]]
  OBVIOUS
<1>13. p \in [Slot -> Entry] /\ \A i \in Slot : p[i] = IF Off(buftail, i) < n THEN None ELSE pkts[i]
  <2>1. None \in Entry
    BY Sizes DEF None, Entry
  <2>2. ASSUME NEW i \in Slot
        PROVE  (\E k \in 1 .. n : Used[k] = i) <=> Off(buftail, i) < n
    <3>1. ASSUME NEW k \in 1 .. n, Used[k] = i PROVE Off(buftail, i) < n
      <4>1. k \in 1 .. L /\ k - 1 < n
        BY <1>5, <1>9
      <4> QED BY <1>4, <3>1, <4>1
    <3>2. ASSUME Off(buftail, i) < n PROVE \E k \in 1 .. n : Used[k] = i
      <4>1. Off(buftail, i) < L /\ Off(buftail, i) + 1 \in 1 .. n
        BY <1>5, <1>6, <1>9, <3>2
      <4> QED BY <1>4, <4>1
    <3> QED BY <3>1, <3>2
  <2>3. p \in [Slot -> Entry]
    BY <1>1, <1>12, <2>1
  <2>4. \A i \in Slot : p[i] = IF \E k \in 1 .. n : Used[k] = i THEN None ELSE pkts[i]
    BY <1>12
  <2> QED BY <2>2, <2>3, <2>4
<1>14. PICK g : g = (full /\ n = 0)
  OBVIOUS
<1>15. v \in Slot /\ RingOK(p, bufhead, v, g, ack, lastSeen)
  <2>1. Frees(pkts, bufhead, buftail, full, n, ack, v, p)
    BY <1>3, <1>9, <1>11, <1>13, Zenon DEF Frees
  <2>3. lastAck \in -1 .. N - 1 /\ lastSeen \in -1 .. N - 1
        /\ RingOK(pkts, bufhead, buftail, full, lastAck, lastSeen)
    BY DEF Inv, CacheInv
  <2>4. v \in Slot /\ RingOK(p, bufhead, v, full /\ n = 0, ack, lastSeen)
    <3>1. n \in Nat /\ p \in [Slot -> Entry]
      BY <1>9, <1>13
    <3> QED BY <2>1, <2>3, <3>1, ClearOK, Zenon
  <2> QED BY <1>14, <2>4, Zenon
<1>16. /\ pkts' = p /\ bufhead' = bufhead /\ buftail' = v /\ full' = g
       /\ lastAck' = ack /\ lastSeen' = lastSeen /\ expNextAck' = v /\ expDupacks' = 0
       /\ air' = air
  BY <1>2, <1>10, <1>12, <1>14, Zenon DEF NewAck
<1>17. told' = IF ack > told THEN ack ELSE told
  BY DEF NewAck, Pass
<1>18. told \in -1 .. N - 1 /\ 0 \in -2 .. M /\ lastSeen \in -1 .. N - 1
  BY <1>5 DEF Inv, LinkInv, CacheInv
<1>19. CacheInv'
  <2>1. RingOK(pkts', bufhead', buftail', full', lastAck', lastSeen')
    BY <1>15, <1>16, Zenon
  <2> QED BY <1>15, <1>16, <1>18, <2>1, Zenon DEF CacheInv
<1>20. ack <= told' /\ told' \in -1 .. N - 1
  BY <1>7, <1>17, <1>18, Sizes
<1> QED BY <1>16, <1>19, <1>20, Zenon

\* What the handling of an acknowledgement promises
AckDone(ack) ==
  /\ CacheInv' /\ lastAck' <= told' /\ told' \in -1 .. N - 1
  /\ air' = air \/ \E s \in Packets : air' = Append(air, s)
  /\ kept' # NoAck => kept' <= told /\ \E i \in Slot : pkts'[i].seq = kept' + 1

\* The packet at the tail is the one a duplicate acknowledgement asks for
LEMMA AskedFor ==
  ASSUME CacheInv, NEW ack \in -1 .. N - 1, ack = lastAck, ~Missing(ack)
  PROVE  pkts[buftail] # None /\ pkts[buftail].seq = ack + 1
<1>1. pkts[buftail] # None /\ ~(pkts[buftail].seq > ack + 1)
  BY DEF Missing
<1>2. pkts[buftail].seq \in 0 .. N - 1 /\ lastAck < pkts[buftail].seq
  BY <1>1, TailFacts DEF Packets
<1> QED BY <1>1, <1>2, Sizes

\* An acknowledgement that is passed on with the cache as it is
LEMMA PassOK ==
  ASSUME Inv, NEW ack \in -1 .. N - 1, Pass(ack),
         UNCHANGED <<cache, lastSeen, expNextAck, lastAck, air>>, expDupacks' \in -2 .. M
  PROVE  AckDone(ack)
<1>1. CacheInv'
  <2>1. /\ pkts' = pkts /\ bufhead' = bufhead /\ buftail' = buftail /\ full' = full
        /\ lastSeen' = lastSeen /\ expNextAck' = expNextAck /\ lastAck' = lastAck
    BY DEF cache
  <2> QED BY <2>1, Zenon DEF Inv, CacheInv
<1>2. told' = IF ack > told THEN ack ELSE told
  BY DEF Pass
<1>3. lastAck' <= told' /\ told' \in -1 .. N - 1
  BY <1>2, Sizes DEF Inv, CacheInv, LinkInv
<1> QED BY <1>1, <1>3 DEF AckDone, Pass

LEMMA CountedOK ==
  ASSUME Inv, NEW ack \in -1 .. N - 1, ack = lastAck, ~Missing(ack), Counted(ack),
         UNCHANGED lastSeen
  PROVE  AckDone(ack)
<1>1. /\ UNCHANGED <<bufhead, buftail, full, lastAck, lastSeen>>
      /\ expDupacks' = Count /\ expNextAck' = next(buftail)
  BY DEF Counted
<1>2. Count \in -2 .. M
  <2>1. bufhead \in 0 .. M - 1 /\ expNextAck \in 0 .. M - 1 /\ M \in Nat /\ M >= 2
    BY Sizes DEF Inv, CacheInv, RingOK
  <2> QED BY <2>1 DEF Count
<1>3. next(buftail) \in Slot
  BY NextPrev DEF Inv, CacheInv, RingOK
<1>4. CASE snoop_rxmit /\ Suppress(ack)
  <2>1. pkts[buftail] # None /\ pkts[buftail].seq = ack + 1
    BY AskedFor DEF Inv
  <2>2. /\ RingOK(pkts', bufhead, buftail, full, lastAck, lastSeen)
        /\ pkts'[buftail].seq = pkts[buftail].seq /\ pkts[buftail].seq \in Packets
        /\ air' = Append(air, pkts[buftail].seq)
    BY <1>4, <2>1, Resent DEF Inv
  <2>3. CacheInv'
    BY <1>1, <1>2, <1>3, <2>2, Zenon DEF Inv, CacheInv
  <2>4. told' = told /\ kept' = lastAck /\ lastAck' = lastAck
    BY <1>1, <1>4 DEF Suppress
  <2>5. buftail \in Slot /\ pkts'[buftail].seq = kept' + 1
    BY <2>1, <2>2, <2>4 DEF Inv, CacheInv, RingOK
  <2> QED BY <2>2, <2>3, <2>4, <2>5 DEF AckDone, Inv, LinkInv
<1>5. CASE Pass(ack) /\ UNCHANGED <<pkts, tout, air>>
  <2>1. Pass(ack) /\ UNCHANGED <<cache, lastSeen, lastAck, air>>
    BY <1>1, <1>5 DEF cache
  <2>2. CacheInv'
    <3>1. pkts' = pkts
      BY <1>5
    <3> QED BY <1>1, <1>2, <1>3, <3>1, Zenon DEF Inv, CacheInv
  <2>3. told' = IF ack > told THEN ack ELSE told
    BY <2>1 DEF Pass
  <2>4. lastAck' <= told' /\ told' \in -1 .. N - 1
    BY <1>1, <2>3, Sizes DEF Inv, CacheInv, LinkInv
  <2> QED BY <2>1, <2>2, <2>4 DEF AckDone, Pass
<1> QED BY <1>4, <1>5 DEF Counted

LEMMA ExpectedOK ==
  ASSUME Inv, NEW ack \in -1 .. N - 1, ack = lastAck, ~Missing(ack), ExpectedDup(ack),
         UNCHANGED lastSeen
  PROVE  AckDone(ack)
<1>1. /\ UNCHANGED <<cache, expNextAck, lastAck, air, lastSeen, told>> /\ kept' = lastAck
      /\ expDupacks > 0 /\ expDupacks' = expDupacks - 1
  BY DEF ExpectedDup, Suppress
<1>2. expDupacks' \in -2 .. M
  BY <1>1, Sizes DEF Inv, CacheInv
<1>3. /\ pkts' = pkts /\ bufhead' = bufhead /\ buftail' = buftail /\ full' = full
      /\ lastSeen' = lastSeen /\ expNextAck' = expNextAck /\ lastAck' = lastAck
  BY <1>1 DEF cache
<1>4. CacheInv'
  BY <1>2, <1>3, Zenon DEF Inv, CacheInv
<1>5. buftail \in Slot /\ pkts'[buftail].seq = kept' + 1
  <2>1. pkts[buftail].seq = ack + 1
    BY AskedFor DEF Inv
  <2> QED BY <1>1, <1>3, <2>1 DEF Inv, CacheInv, RingOK
<1> QED BY <1>1, <1>3, <1>4, <1>5 DEF AckDone, Inv, LinkInv

LEMMA MiscountedOK ==
  ASSUME Inv, NEW ack \in -1 .. N - 1, ack = lastAck, ~Missing(ack), Miscounted(ack),
         UNCHANGED lastSeen
  PROVE  AckDone(ack)
<1>1. UNCHANGED <<bufhead, buftail, full, expNextAck, lastAck, expDupacks, lastSeen>>
  BY DEF Miscounted, dups
<1>2. CASE snoop_rxmit /\ Suppress(ack)
  <2>1. pkts[buftail] # None /\ pkts[buftail].seq = ack + 1
    BY AskedFor DEF Inv
  <2>2. /\ RingOK(pkts', bufhead, buftail, full, lastAck, lastSeen)
        /\ pkts'[buftail].seq = pkts[buftail].seq /\ pkts[buftail].seq \in Packets
        /\ air' = Append(air, pkts[buftail].seq)
    BY <1>2, <2>1, Resent DEF Inv
  <2>3. CacheInv'
    BY <1>1, <2>2, Zenon DEF Inv, CacheInv
  <2>4. told' = told /\ kept' = lastAck /\ lastAck' = lastAck
    BY <1>1, <1>2 DEF Suppress
  <2>5. buftail \in Slot /\ pkts'[buftail].seq = kept' + 1
    BY <2>1, <2>2, <2>4 DEF Inv, CacheInv, RingOK
  <2> QED BY <2>2, <2>3, <2>4, <2>5 DEF AckDone, Inv, LinkInv
<1>3. CASE Pass(ack) /\ UNCHANGED <<pkts, tout, air>>
  <2>1. /\ Pass(ack) /\ UNCHANGED <<cache, lastSeen, expNextAck, lastAck, air>>
        /\ expDupacks' \in -2 .. M
    BY <1>1, <1>3 DEF cache, Inv, CacheInv
  <2> QED BY <2>1, PassOK
<1> QED BY <1>2, <1>3 DEF Miscounted

LEMMA SnoopAckOK ==
  ASSUME Inv, NEW ack \in -1 .. N - 1, snoop_ack(ack), UNCHANGED lastSeen
  PROVE  AckDone(ack)
<1>1. CASE NewAck(ack)
  <2>1. kept' = NoAck
    BY <1>1 DEF NewAck, Pass
  <2> QED BY <1>1, <2>1, NewAckOK DEF AckDone
<1>2. CASE NotMine(ack)
  <2>1. /\ Pass(ack) /\ UNCHANGED <<cache, lastSeen, expNextAck, lastAck, air>>
        /\ expDupacks' \in -2 .. M
    BY <1>2 DEF NotMine, dups, Inv, CacheInv
  <2> QED BY <2>1, PassOK
<1>3. CASE EveryOther(ack)
  <2>1. /\ Pass(ack) /\ UNCHANGED <<cache, lastSeen, expNextAck, lastAck, air>>
        /\ expDupacks' \in -2 .. M
    BY <1>3 DEF EveryOther, dups, Inv, CacheInv
  <2> QED BY <2>1, PassOK
<1>4. CASE /\ ack = lastAck /\ ~Missing(ack)
           /\ Counted(ack) \/ ExpectedDup(ack) \/ Miscounted(ack)
  BY <1>4, CountedOK, ExpectedOK, MiscountedOK
<1> QED BY <1>1, <1>2, <1>3, <1>4 DEF snoop_ack

-----------------------------------------------------------------------------
(* The links, and every step *)

LEMMA AppendSeq ==
  ASSUME NEW S, NEW q \in Seq(S), NEW e \in S
  PROVE  Append(q, e) \in Seq(S)
BY AppendProperties

LEMMA TailSeq ==
  ASSUME NEW S, NEW q \in Seq(S), q # <<>>
  PROVE  Head(q) \in S /\ Tail(q) \in Seq(S)
BY HeadTailProperties

LEMMA CumulativeType ==
  ASSUME NEW have, have \subseteq Packets
  PROVE  Cumulative(have) \in -1 .. N - 1
<1> DEFINE T == {s \in 0 .. N : s \notin have}
<1>1. T \in SUBSET Nat /\ T \subseteq 0 .. N /\ N \in T
  BY Sizes DEF Packets
<1> HIDE DEF T
<1>2. Min(T) \in 0 .. N
  BY <1>1, MinOf
<1>3. Cumulative(have) = Min(T) - 1
  BY DEF Cumulative, T
<1> QED BY <1>2, <1>3, Sizes

LEMMA InitInv == Init => Inv
<1> SUFFICES ASSUME Init PROVE Inv
  OBVIOUS
<1>1. /\ M \in Nat /\ M >= 2 /\ Slot = 0 .. M - 1 /\ N \in Nat /\ N >= 1 /\ 0 \in Slot
  BY Sizes
<1>2. None \in Entry
  BY Sizes DEF None, Entry
<1>3. \A i \in Slot : Off(0, i) = i /\ i \in 0 .. M - 1
  BY <1>1 DEF Off
<1>4. pkts \in [Slot -> Entry] /\ \A i \in Slot : pkts[i] = None
  BY <1>2 DEF Init
<1>5. PICK K : K = Size(bufhead, buftail, full)
  OBVIOUS
<1>6. K = 0
  BY <1>1, <1>3, <1>5, Zenon DEF Init, Size
<1>7. \A i \in Slot : ~(Off(0, i) < K)
  BY <1>3, <1>6
<1>8. RingOK(pkts, bufhead, buftail, full, lastAck, lastSeen)
  <2>1. bufhead = 0 /\ buftail = 0 /\ full = FALSE
    BY DEF Init
  <2> QED BY <1>1, <1>4, <1>5, <1>7, <2>1, Zenon DEF RingOK
<1>9. CacheInv
  BY <1>1, <1>8 DEF CacheInv, Init
<1>10. LinkInv
  BY <1>1 DEF LinkInv, Init
<1> QED BY <1>9, <1>10 DEF Inv, Init

\* A step keeps the invariant, and an acknowledgement is kept back rightly
StepOK ==
  /\ Inv'
  /\ kept' # NoAck => kept' <= told /\ \E i \in Slot : pkts'[i].seq = kept' + 1

\* A step of the sender
LEMMA SendOK ==
  ASSUME Inv, NEW seq \in Packets, snoop_data(seq), UNCHANGED told, sent' \in 0 .. N
  PROVE  StepOK
<1>1. /\ CacheInv' /\ lastAck' <= told
      /\ air' = Append(air, seq) /\ UNCHANGED <<got, acks>>
  BY DataOK
<1>2. air' \in Seq(Packets)
  BY <1>1, AppendSeq DEF Inv, LinkInv
<1>3. told' = told /\ kept' = NoAck
  BY DEF snoop_data
<1> QED BY <1>1, <1>2, <1>3, Zenon DEF StepOK, Inv, LinkInv

\* A step of the links and the receiver
LEMMA LinkOK ==
  ASSUME Inv, UNCHANGED <<cache, lastSeen, expNextAck, dups, sent, told>>, kept' = NoAck,
         air' \in Seq(Packets), got' \subseteq Packets, acks' \in Seq(-1 .. N - 1)
  PROVE  StepOK
<1>1. CacheInv'
  BY SameCache DEF Inv
<1>2. lastAck' = lastAck /\ told' = told /\ sent' = sent
  BY DEF dups
<1> QED BY <1>1, <1>2, Zenon DEF StepOK, Inv, LinkInv

LEMMA NextInv ==
  ASSUME Inv, Next
  PROVE  StepOK
<1>1. CASE SendNew
  <2>1. sent \in Packets /\ sent' \in 0 .. N
    BY <1>1, Sizes DEF SendNew, Inv, LinkInv, Packets
  <2> QED BY <1>1, <2>1, SendOK DEF SendNew
<1>2. CASE \E s \in Packets : Resend(s)
  <2>1. PICK s \in Packets : Resend(s)
    BY <1>2
  <2> QED BY <2>1, SendOK DEF Resend, Inv, LinkInv
<1>3. CASE Ack
  <2>1. /\ acks # <<>> /\ snoop_ack(Head(acks)) /\ acks' = Tail(acks)
        /\ UNCHANGED <<lastSeen, sent, got>>
    BY <1>3 DEF Ack
  <2>2. Head(acks) \in -1 .. N - 1 /\ acks' \in Seq(-1 .. N - 1)
    BY <2>1, TailSeq DEF Inv, LinkInv
  <2>3. AckDone(Head(acks))
    BY <2>1, <2>2, SnoopAckOK
  <2>4. air' \in Seq(Packets)
    BY <2>3, AppendSeq DEF AckDone, Inv, LinkInv
  <2> QED BY <2>1, <2>2, <2>3, <2>4, Zenon DEF StepOK, AckDone, Inv, LinkInv
<1>4. CASE Timer
  <2>1. /\ UNCHANGED <<bufhead, buftail, full, lastSeen, lastAck, expDupacks>>
        /\ UNCHANGED <<sent, told, got, acks>>
        /\ kept' = NoAck
    BY <1>4 DEF Timer, dups, wired
  <2>2. CASE snoop_rxmit /\ expNextAck' = next(buftail) /\ pkts[buftail].seq = lastAck + 1
    <3>1. pkts[buftail] # None
      <4>1. lastAck + 1 # -1
        BY Sizes DEF Inv, CacheInv
      <4> QED BY <2>2, <4>1 DEF None
    <3>2. /\ RingOK(pkts', bufhead, buftail, full, lastAck, lastSeen)
          /\ air' = Append(air, pkts[buftail].seq) /\ pkts[buftail].seq \in Packets
      BY <2>2, <3>1, Resent DEF Inv
    <3>3. expNextAck' \in Slot
      BY <2>2, NextPrev DEF Inv, CacheInv, RingOK
    <3>4. CacheInv'
      BY <2>1, <3>2, <3>3, Zenon DEF Inv, CacheInv
    <3>5. air' \in Seq(Packets)
      BY <3>2, AppendSeq DEF Inv, LinkInv
    <3> QED BY <2>1, <3>4, <3>5, Zenon DEF StepOK, Inv, LinkInv
  <2>3. CASE UNCHANGED <<pkts, air, expNextAck>>
    <3>1. /\ UNCHANGED <<cache, lastSeen, expNextAck, dups, sent, told>> /\ kept' = NoAck
          /\ air' \in Seq(Packets) /\ got' \subseteq Packets /\ acks' \in Seq(-1 .. N - 1)
      BY <2>1, <2>3, Zenon DEF cache, dups, Inv, LinkInv
    <3> QED BY <3>1, LinkOK
  <2> QED BY <1>4, <2>2, <2>3 DEF Timer
<1>5. CASE Learn
  <2>1. /\ UNCHANGED <<cache, lastSeen, expNextAck, dups, sent, told>> /\ kept' = NoAck
        /\ air' \in Seq(Packets) /\ got' \subseteq Packets /\ acks' \in Seq(-1 .. N - 1)
    BY <1>5 DEF Learn, radio, Inv, LinkInv
  <2> QED BY <2>1, LinkOK
<1>6. CASE Deliver
  <2>1. Head(air) \in Packets /\ air' \in Seq(Packets)
    BY <1>6, TailSeq DEF Deliver, Inv, LinkInv
  <2>2. got' \subseteq Packets
    BY <1>6, <2>1 DEF Deliver, Inv, LinkInv
  <2>3. acks' \in Seq(-1 .. N - 1)
    BY <1>6, <2>2, CumulativeType, AppendSeq DEF Deliver, Inv, LinkInv
  <2>4. UNCHANGED <<cache, lastSeen, expNextAck, dups, sent, told>> /\ kept' = NoAck
    BY <1>6 DEF Deliver, wired
  <2> QED BY <2>1, <2>2, <2>3, <2>4, LinkOK
<1>7. CASE Lose
  <2>1. air' \in Seq(Packets) /\ acks' \in Seq(-1 .. N - 1)
    BY <1>7, TailSeq DEF Lose, Inv, LinkInv
  <2>2. /\ UNCHANGED <<cache, lastSeen, expNextAck, dups, sent, told>> /\ kept' = NoAck
        /\ got' \subseteq Packets
    BY <1>7 DEF Lose, wired, Inv, LinkInv
  <2> QED BY <2>1, <2>2, LinkOK
<1> QED BY <1>1, <1>2, <1>3, <1>4, <1>5, <1>6, <1>7 DEF Next

LEMMA StutterInv ==
  ASSUME Inv, UNCHANGED vars
  PROVE  Inv'
<1>1. UNCHANGED <<cache, lastSeen, expNextAck, dups, sent, told, lastAck, air, got, acks>>
  BY DEF vars, wired, radio, dups
<1>2. CacheInv'
  BY <1>1, SameCache DEF Inv
<1> QED BY <1>1, <1>2, Zenon DEF Inv, LinkInv

-----------------------------------------------------------------------------
(* The theorems *)

\* The invariant says what TypeOK and CacheOrder say of the buffers in use
LEMMA InvMeans == Inv => TypeOK /\ CacheOrder
<1> SUFFICES ASSUME Inv PROVE TypeOK /\ CacheOrder
  OBVIOUS
<1>1. /\ pkts \in [Slot -> Entry] /\ bufhead \in Slot /\ buftail \in Slot
      /\ full \in BOOLEAN /\ (full => bufhead = buftail)
  BY DEF Inv, CacheInv, RingOK
<1>2. PICK L : L = Size(bufhead, buftail, full)
  OBVIOUS
<1>3. /\ L \in 0 .. M /\ DOMAIN Used = 1 .. L
      /\ \A k \in 1 .. L : Used[k] \in Slot /\ Off(buftail, Used[k]) = k - 1
      /\ \A i \in Slot : Off(buftail, i) < L
           => Off(buftail, i) + 1 \in 1 .. L /\ Used[Off(buftail, i) + 1] = i
  BY <1>1, <1>2, UsedFacts
<1>4. /\ \A i \in Slot : Off(buftail, i) < L => lastAck < pkts[i].seq /\ pkts[i].seq <= lastSeen
      /\ \A i \in Slot : Off(buftail, i) >= L => pkts[i] = None
      /\ \A i, j \in Slot : Off(buftail, i) < Off(buftail, j) /\ Off(buftail, j) < L
                              => pkts[i].seq < pkts[j].seq
  BY <1>2 DEF Inv, CacheInv, RingOK
<1>5. L \in Int /\ \A i \in Slot : Off(buftail, i) \in Int
  <2>1. \A i \in Slot : Off(buftail, i) \in 0 .. M - 1
    BY <1>1, OffFacts
  <2> QED BY <1>3, <2>1, Sizes
<1>6. ASSUME NEW i \in Slot
      PROVE  (pkts[i] = None) = (i \notin {Used[k] : k \in DOMAIN Used})
  <2>1. ASSUME i \in {Used[k] : k \in DOMAIN Used} PROVE pkts[i] # None
    <3>1. PICK k \in 1 .. L : i = Used[k]
      BY <1>3, <2>1
    <3>2. Off(buftail, i) < L
      BY <1>3, <1>5, <3>1
    <3>3. lastAck < pkts[i].seq /\ lastAck \in Int /\ -1 <= lastAck
      BY <1>4, <3>2, Sizes DEF Inv, CacheInv
    <3> QED BY <3>3 DEF None
  <2>2. ASSUME i \notin {Used[k] : k \in DOMAIN Used} PROVE pkts[i] = None
    <3>1. ~(Off(buftail, i) < L)
      BY <1>3, <2>2
    <3> QED BY <1>4, <1>5, <3>1
  <2> QED BY <2>1, <2>2
<1>7. TypeOK
  <2>1. pkts \in [Slot -> [seq : -1 .. N - 1, num : 0 .. MaxRxmit, sender : BOOLEAN]]
    BY <1>1 DEF Entry
  <2> QED BY <1>1, <1>6, <2>1 DEF TypeOK, Inv, CacheInv, LinkInv
<1>8. CacheOrder
  <2>1. ASSUME NEW j \in 1 .. L, NEW k \in 1 .. L, j < k
        PROVE  pkts[Used[j]].seq < pkts[Used[k]].seq
    <3>1. /\ Used[j] \in Slot /\ Used[k] \in Slot
          /\ Off(buftail, Used[j]) < Off(buftail, Used[k]) /\ Off(buftail, Used[k]) < L
      BY <1>3, <1>5, <2>1
    <3> QED BY <1>4, <3>1
  <2>2. ASSUME NEW k \in 1 .. L
        PROVE  lastAck < pkts[Used[k]].seq /\ pkts[Used[k]].seq <= lastSeen
    <3>1. Used[k] \in Slot /\ Off(buftail, Used[k]) < L
      BY <1>3, <1>5
    <3> QED BY <1>4, <3>1
  <2> QED BY <1>3, <2>1, <2>2 DEF CacheOrder
<1> QED BY <1>7, <1>8

\* Every reachable state is well formed and in order
LEMMA Invariance == FairSpec => []Inv
<1>1. Inv /\ [Next]_vars => Inv'
  BY NextInv, StutterInv DEF StepOK
<1> QED BY <1>1, InitInv, PTL DEF FairSpec

\* The ring, its ends and the duplicates to expect stay in their ranges, and
\* the buffers outside the ring are empty, for every size of the cache
\* (snoop_insert, snoop_cleanbufs_, snoop_ack, reset)
THEOREM SnoopTypeCorrect == FairSpec => []TypeOK
<1>1. Inv => TypeOK
  BY InvMeans
<1> QED BY <1>1, Invariance, PTL

\* However packets arrive, are resent, skipped and acknowledged, the cache is
\* sorted from the tail and holds only packets that are not acknowledged
\* (snoop_insert, snoop_cleanbufs_)
THEOREM SnoopCacheOrder == FairSpec => []CacheOrder
<1>1. Inv => CacheOrder
  BY InvMeans
<1> QED BY <1>1, Invariance, PTL

\* No acknowledgement is kept back that tells the sender something new or
\* that asks for a packet the agent does not have (snoop_ack)
THEOREM SnoopSuppressSafe == FairSpec => SuppressSafe
<1> DEFINE Right == kept' # NoAck => kept' <= told /\ \E i \in Slot : pkts'[i].seq = kept' + 1
<1>1. Inv /\ [Next]_vars => [Right]_vars
  BY NextInv DEF StepOK
<1>2. FairSpec => [][Next]_vars
  BY PTL DEF FairSpec
<1> QED BY <1>1, <1>2, Invariance, PTL DEF SuppressSafe
=============================================================================

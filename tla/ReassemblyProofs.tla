-------------------------- MODULE ReassemblyProofs ---------------------------
(***************************************************************************)
(* The safety properties of Reassembly, for every length of the stream and  *)
(* every number of SACK blocks, with half-close or without.  The inductive  *)
(* invariant says of a receiver in ESTABLISHED that rcv_nxt_ is the first   *)
(* position missing, that the queue lies beyond it and covers exactly what  *)
(* has come beyond it, and that a FIN flag in the queue stands at the end   *)
(* of the stream and has come; of one that has counted the FIN, that        *)
(* everything has come and the queue is empty.                              *)
(***************************************************************************)
EXTENDS Reassembly, DataTheorems

-----------------------------------------------------------------------------
(* A receiver that waits for nxt, when the bytes and the FIN of sn have come *)

Received(q, sn, top) ==
  /\ q.nxt \in 1..top
  /\ 1..q.nxt-1 \subseteq sn
  /\ q.nxt < top => q.nxt \notin sn
  /\ \A y \in Nat : Covers(q.fifo, y) <=> y \in sn /\ q.nxt < y /\ y < top
  /\ HasFlag(q.fifo) => top \in sn

\* v is what has come after a segment t that begins at rcv_nxt_ or later
Brings(q, t, sn, v, top) ==
  /\ Waiting(q, top) /\ Received(q, sn, top)
  /\ t \in Blk /\ Sound(t, top) /\ (t.f => t.e = top) /\ q.nxt <= t.s
  /\ \A y \in Nat : y \in v <=> y \in sn \/ Within(y, t) \/ (t.f /\ y = top)

\* The queue is then u, and the FIN is counted if flag holds
Proceeds(q, u, flag, v, top) ==
  /\ Waiting(u, top) /\ Received(u, v, top)
  /\ q.nxt <= u.nxt
  /\ flag => u.nxt = top /\ top \in v

\* The inductive invariant, of a stream whose FIN has the number top
ReceiverInv(top) ==
  /\ seen \subseteq 1..top
  /\ state \in {"ESTABLISHED", "CLOSE_WAIT", "LAST_ACK"}
  /\ Waiting(rq, top)
  /\ state = "ESTABLISHED" => Received(rq, seen, top) /\ delivered = rq.nxt - 1
  /\ state # "ESTABLISHED" => /\ rq.nxt = top + 1 /\ rq.fifo = <<>>
                              /\ 1..top \subseteq seen /\ delivered = top - 1
  /\ sack \in Seq(Blk)
  /\ SackTruthful
Inv == ReceiverInv(N + 1)

LEMMA BringsParts ==
  ASSUME NEW top \in Nat, NEW q, NEW t, NEW sn, NEW v, Brings(q, t, sn, v, top)
  PROVE  /\ Waiting(q, top) /\ q \in Queues /\ q.nxt \in Nat
         /\ q.fifo \in Seq(Blk) /\ Len(q.fifo) \in Nat
         /\ t \in Blk /\ t.s \in Nat /\ t.e \in Nat /\ t.f \in BOOLEAN
         /\ Sound(t, top) /\ t.s <= t.e /\ t.e <= top /\ (t.s = t.e => t.s = top)
         /\ (t.f => t.e = top) /\ q.nxt <= t.s
<1>1. Waiting(q, top) /\ q \in Queues
  BY DEF Brings, Waiting, Good
<1>2. q.nxt \in Nat /\ q.fifo \in Seq(Blk) /\ Len(q.fifo) \in Nat
  BY <1>1, QueueParts
<1>3. t \in Blk /\ Sound(t, top) /\ (t.f => t.e = top) /\ q.nxt <= t.s
  BY DEF Brings
<1>4. t.s \in Nat /\ t.e \in Nat /\ t.f \in BOOLEAN
  BY <1>3, BlkParts
<1> QED BY <1>1, <1>2, <1>3, <1>4 DEF Sound

\* A segment beyond rcv_nxt_ is queued
LEMMA BringsAhead ==
  ASSUME NEW top \in Nat, NEW q, NEW t, NEW sn, NEW v, Brings(q, t, sn, v, top),
         q.nxt # t.s
  PROVE  Proceeds(q, Add(q, t).queue, FALSE, v, top)
<1>1. /\ Waiting(q, top) /\ q.nxt \in Nat /\ t \in Blk /\ t.s \in Nat /\ t.e \in Nat
      /\ Sound(t, top) /\ t.e <= top /\ (t.f => t.e = top) /\ q.nxt < t.s
  BY BringsParts
<1>2. PICK u : u = Add(q, t).queue
  OBVIOUS
<1>3. Extends(q, u, t, top) /\ Waiting(u, top) /\ u.nxt = q.nxt
  BY <1>1, <1>2, AddAhead, Zenon
<1>4. Received(q, sn, top) /\ \A y \in Nat : y \in v <=> y \in sn \/ Within(y, t) \/ (t.f /\ y = top)
  BY DEF Brings
<1>5. q.nxt \in 1..top /\ 1..q.nxt-1 \subseteq v
  BY <1>4 DEF Received
<1>6. q.nxt < top => q.nxt \notin v
  BY <1>1, <1>4 DEF Received, Within
<1>7. ASSUME NEW y \in Nat
      PROVE  Covers(u.fifo, y) <=> y \in v /\ q.nxt < y /\ y < top
  <2>1. Covers(u.fifo, y) <=> Covers(q.fifo, y) \/ Within(y, t)
    BY <1>3, Zenon DEF Extends
  <2>2. Covers(q.fifo, y) <=> y \in sn /\ q.nxt < y /\ y < top
    BY <1>4, Zenon DEF Received
  <2>3. Within(y, t) => q.nxt < y /\ y < top
    BY <1>1 DEF Within
  <2>4. y < top => y # top
    BY <1>1
  <2> QED BY <1>4, <2>1, <2>2, <2>3, <2>4, Zenon
<1>8. HasFlag(u.fifo) => top \in v
  <2>1. HasFlag(u.fifo) => HasFlag(q.fifo) \/ t.f
    BY <1>3, Zenon DEF Extends
  <2> QED BY <2>1, <1>4, Zenon DEF Received
<1>9. Received(u, v, top)
  BY <1>3, <1>5, <1>6, <1>7, <1>8, Zenon DEF Received
<1> QED BY <1>1, <1>2, <1>3, <1>9 DEF Proceeds

\* In order, with nothing queued: the segment is handed over directly
LEMMA BringsDirect ==
  ASSUME NEW top \in Nat, NEW q, NEW t, NEW sn, NEW v, Brings(q, t, sn, v, top),
         q.nxt = t.s, q.fifo = <<>>
  PROVE  Proceeds(q, [q EXCEPT !.nxt = t.e], t.f, v, top)
<1>1. /\ Waiting(q, top) /\ q \in Queues /\ t.s \in Nat /\ t.e \in Nat
      /\ t.s <= t.e /\ t.e <= top /\ (t.s = t.e => t.s = top) /\ (t.f => t.e = top)
  BY BringsParts
<1>2. PICK u : u = [q EXCEPT !.nxt = t.e]
  OBVIOUS
<1>3. u \in Queues /\ u.fifo = q.fifo /\ u.lifo = q.lifo /\ u.nxt = t.e
  <2>1. q = [fifo |-> q.fifo, lifo |-> q.lifo, nxt |-> q.nxt]
    BY <1>1 DEF Queues
  <2>2. u = [fifo |-> q.fifo, lifo |-> q.lifo, nxt |-> t.e]
    BY <1>2, <2>1
  <2>3. q.fifo \in Seq(Blk) /\ q.lifo \in Seq(Blk)
    BY <1>1, QueueParts
  <2> QED BY <1>1, <2>2, <2>3 DEF Queues
<1>4. Len(u.fifo) = 0
  BY <1>3
<1>5. Waiting(u, top)
  <2>1. Ahead(u)
    BY <1>4 DEF Ahead
  <2> QED BY <1>1, <1>3, <2>1 DEF Waiting, Good
<1>6. /\ Received(q, sn, top)
      /\ \A y \in Nat : y \in v <=> y \in sn \/ Within(y, t) \/ (t.f /\ y = top)
  BY DEF Brings
<1>7. ~HasFlag(u.fifo) /\ \A y \in Nat : ~Covers(u.fifo, y) /\ ~Covers(q.fifo, y)
  BY <1>3, <1>4 DEF HasFlag, Covers
<1>8. /\ q.nxt \in 1..top /\ 1..q.nxt-1 \subseteq sn
      /\ \A y \in Nat : ~(y \in sn /\ q.nxt < y /\ y < top)
  BY <1>6, <1>7, Zenon DEF Received
<1>9. t.e \in 1..top /\ 1..t.e-1 \subseteq v
  <2>1. ASSUME NEW y \in 1..t.e-1 PROVE y \in v
    <3>1. CASE y < q.nxt
      <4>1. y \in 1..q.nxt-1 /\ y \in Nat
        BY <3>1, <1>8
      <4> QED BY <4>1, <1>6, <1>8
    <3>2. CASE ~(y < q.nxt)
      <4>1. Within(y, t) /\ y \in Nat
        BY <3>2, <1>1, <1>8 DEF Within
      <4> QED BY <4>1, <1>6
    <3> QED BY <3>1, <3>2
  <2> QED BY <2>1, <1>1, <1>8
<1>10. t.e < top => t.e \notin v
  <2>1. SUFFICES ASSUME t.e < top, t.e \in v PROVE FALSE
    OBVIOUS
  <2>2. q.nxt < t.e /\ ~Within(t.e, t) /\ t.e # top
    BY <1>1, <2>1 DEF Within
  <2> QED BY <2>1, <2>2, <1>1, <1>6, <1>8, Zenon
<1>11. ASSUME NEW y \in Nat PROVE ~(y \in v /\ t.e < y /\ y < top)
  <2>1. SUFFICES ASSUME y \in v, t.e < y, y < top PROVE FALSE
    OBVIOUS
  <2>2. q.nxt < y /\ ~Within(y, t) /\ y # top
    BY <1>1, <2>1 DEF Within
  <2> QED BY <2>1, <2>2, <1>6, <1>8, Zenon
<1>12. Received(u, v, top)
  BY <1>3, <1>7, <1>9, <1>10, <1>11, Zenon DEF Received
<1>13. t.f => t.e = top /\ top \in v
  BY <1>1, <1>6
<1>14. q.nxt <= u.nxt
  BY <1>1, <1>3
<1> QED BY <1>2, <1>3, <1>5, <1>12, <1>13, <1>14, Zenon DEF Proceeds

\* Behind queued blocks, or in front of them: what add made of the first block
\* has been handed over when cleartonxt drops it
LEMMA FirstBlock ==
  ASSUME NEW top \in Nat, NEW q, NEW t, NEW sn, NEW v, Brings(q, t, sn, v, top),
         q.nxt = t.s, q.fifo # <<>>,
         NEW a, a = Add(q, t).queue
  PROVE  /\ Extends(q, a, t, top) /\ a \in Queues /\ Len(a.fifo) \in Nat
         /\ 1 \in 1..Len(a.fifo) /\ a.fifo[1].s = q.nxt /\ a.fifo[1].e = a.nxt
         /\ q.nxt < a.nxt /\ a.nxt <= top /\ a.nxt \in Nat
         /\ Add(q, t).flag => a.fifo[1].f
         /\ \A j \in 1..Len(a.fifo) : j = 1 \/ a.nxt < a.fifo[j].s
<1>1. /\ Waiting(q, top) /\ q \in Queues /\ q.fifo \in Seq(Blk) /\ Len(q.fifo) \in Nat
      /\ q.nxt \in Nat /\ t \in Blk /\ t.s \in Nat /\ t.e \in Nat /\ Sound(t, top)
      /\ t.s <= t.e /\ t.e <= top /\ (t.s = t.e => t.s = top) /\ (t.f => t.e = top)
  BY BringsParts
<1>2. q.nxt < top
  <2>1. 1 \in 1..Len(q.fifo)
    BY <1>1
  <2>2. q.nxt < q.fifo[1].s /\ q.fifo[1].s <= q.fifo[1].e /\ q.fifo[1].e <= top
    BY <2>1, <1>1 DEF Waiting, Ahead, Good, Apart, Sound
  <2>3. q.fifo[1].s \in Nat /\ q.fifo[1].e \in Nat
    BY <2>1, <1>1, QueueParts
  <2> QED BY <2>2, <2>3, <1>1
<1>3. t.s < t.e
  BY <1>1, <1>2
<1>4. /\ Extends(q, a, t, top) /\ 1 \in 1..Len(a.fifo) /\ a.fifo[1].s = q.nxt
      /\ a.fifo[1].e = a.nxt /\ (Add(q, t).flag => a.fifo[1].f)
  BY <1>1, <1>3, AddNext, Zenon
<1>5. a \in Queues /\ Apart(a.fifo, top)
  BY <1>4 DEF Extends, Good
<1>6. /\ a.nxt \in Nat /\ Len(a.fifo) \in Nat
      /\ \A j \in 1..Len(a.fifo) : a.fifo[j].s \in Nat /\ a.fifo[j].e \in Nat
  BY <1>5, QueueParts
<1>7. q.nxt < a.nxt /\ a.nxt <= top
  <2>1. Sound(a.fifo[1], top)
    BY <1>4, <1>5 DEF Apart
  <2> QED BY <2>1, <1>1, <1>2, <1>4, <1>6 DEF Sound
<1>8. ASSUME NEW j \in 1..Len(a.fifo) PROVE j = 1 \/ a.nxt < a.fifo[j].s
  <2>1. 1 < j => a.fifo[1].e < a.fifo[j].s
    BY <1>4, <1>5 DEF Apart
  <2> QED BY <2>1, <1>4
<1> QED BY <1>4, <1>5, <1>6, <1>7, <1>8

LEMMA BringsNext ==
  ASSUME NEW top \in Nat, NEW q, NEW t, NEW sn, NEW v, Brings(q, t, sn, v, top),
         q.nxt = t.s, q.fifo # <<>>
  PROVE  Proceeds(q, Clearto(Add(q, t).queue).queue,
                  Add(q, t).flag \/ Clearto(Add(q, t).queue).flag, v, top)
<1>1. q.nxt \in Nat /\ t.s \in Nat /\ t.e \in Nat /\ t.e <= top
  BY BringsParts
<1>2. PICK a : a = Add(q, t).queue
  OBVIOUS
<1>3. PICK u : u = Clearto(a).queue
  OBVIOUS
<1>4. /\ Extends(q, a, t, top) /\ a \in Queues /\ Len(a.fifo) \in Nat
      /\ 1 \in 1..Len(a.fifo) /\ a.fifo[1].s = q.nxt /\ a.fifo[1].e = a.nxt
      /\ q.nxt < a.nxt /\ a.nxt <= top /\ a.nxt \in Nat
      /\ Add(q, t).flag => a.fifo[1].f
      /\ \A j \in 1..Len(a.fifo) : j = 1 \/ a.nxt < a.fifo[j].s
  BY <1>2, FirstBlock
<1>5. \A j \in 1..Len(a.fifo) : a.fifo[j].s \in Nat /\ a.fifo[j].e \in Nat
  BY <1>4, QueueParts
<1>6. Good(a, top) /\ FlagsAtTop(a.fifo, top)
  BY <1>4 DEF Extends
<1>7. /\ Waiting(u, top) /\ u.nxt = a.nxt /\ Clearto(a).flag = a.fifo[1].f
      /\ \A y \in Nat : Covers(u.fifo, y) <=> Covers(a.fifo, y) /\ a.nxt <= y
      /\ HasFlag(u.fifo) => HasFlag(a.fifo)
  BY <1>3, <1>4, <1>6, ClearFirst, Zenon
<1>8. /\ Received(q, sn, top)
      /\ \A y \in Nat : y \in v <=> y \in sn \/ Within(y, t) \/ (t.f /\ y = top)
  BY DEF Brings
<1>9. q.nxt \in 1..top /\ 1..q.nxt-1 \subseteq sn
  BY <1>8 DEF Received
<1>10. ASSUME NEW y \in Nat, y # top
       PROVE  Covers(a.fifo, y) <=> y \in v /\ q.nxt <= y /\ y < top
              /\ (y \in sn => q.nxt < y \/ Within(y, t))
  <2>1. Covers(a.fifo, y) <=> Covers(q.fifo, y) \/ Within(y, t)
    BY <1>4, Zenon DEF Extends
  <2>2. Covers(q.fifo, y) <=> y \in sn /\ q.nxt < y /\ y < top
    BY <1>8, Zenon DEF Received
  <2>3. Within(y, t) => q.nxt <= y /\ y < top
    BY <1>1 DEF Within
  <2>4. q.nxt < y => q.nxt <= y
    BY <1>1
  <2> QED BY <1>8, <1>10, <2>1, <2>2, <2>3, <2>4, Zenon
<1>11. a.nxt \in 1..top /\ 1..a.nxt-1 \subseteq v
  <2>1. ASSUME NEW y \in 1..a.nxt-1 PROVE y \in v
    <3>1. CASE y < q.nxt
      <4>1. y \in 1..q.nxt-1 /\ y \in Nat
        BY <3>1, <1>1
      <4> QED BY <4>1, <1>8, <1>9
    <3>2. CASE ~(y < q.nxt)
      <4>1. y \in Nat /\ a.fifo[1].s <= y /\ y < a.fifo[1].e /\ y # top
        BY <3>2, <1>1, <1>4
      <4>2. Covers(a.fifo, y)
        BY <4>1, <1>4, Zenon DEF Covers
      <4> QED BY <4>1, <4>2, <1>10, Zenon
    <3> QED BY <3>1, <3>2
  <2> QED BY <2>1, <1>1, <1>4
<1>12. ~Covers(a.fifo, a.nxt)
  <2>1. SUFFICES ASSUME NEW j \in 1..Len(a.fifo),
                        a.fifo[j].s <= a.nxt, a.nxt < a.fifo[j].e
                 PROVE  FALSE
    BY Zenon DEF Covers
  <2> QED BY <2>1, <1>4, <1>5
<1>13. ASSUME NEW y \in Nat, a.nxt <= y, y < top
       PROVE  Covers(a.fifo, y) <=> y \in v
  <2>1. q.nxt < y /\ q.nxt <= y /\ y # top
    BY <1>1, <1>4, <1>13
  <2> QED BY <2>1, <1>10, <1>13, Zenon
<1>14. a.nxt < top => a.nxt \notin v
  <2>1. a.nxt <= a.nxt
    BY <1>4
  <2> QED BY <2>1, <1>4, <1>12, <1>13, Zenon
<1>15. ASSUME NEW y \in Nat
       PROVE  Covers(u.fifo, y) <=> y \in v /\ a.nxt < y /\ y < top
  <2>1. Covers(u.fifo, y) <=> Covers(a.fifo, y) /\ a.nxt <= y
    BY <1>7
  <2>2. a.nxt <= y <=> a.nxt < y \/ a.nxt = y
    BY <1>4
  <2>3. Covers(a.fifo, y) => y < top
    <3>1. SUFFICES ASSUME NEW j \in 1..Len(a.fifo), a.fifo[j].s <= y, y < a.fifo[j].e
                   PROVE  y < top
      BY Zenon DEF Covers
    <3>2. a.fifo[j].e <= top
      BY <1>6 DEF Good, Apart, Sound
    <3> QED BY <3>1, <3>2, <1>5
  <2> QED BY <2>1, <2>2, <2>3, <1>12, <1>13, Zenon
<1>16. HasFlag(a.fifo) => top \in v
  <2>1. HasFlag(a.fifo) => HasFlag(q.fifo) \/ t.f
    BY <1>4, Zenon DEF Extends
  <2> QED BY <2>1, <1>8, Zenon DEF Received
<1>17. Received(u, v, top)
  BY <1>7, <1>11, <1>14, <1>15, <1>16, Zenon DEF Received
<1>18. a.fifo[1].f => a.nxt = top /\ top \in v
  <2>1. a.fifo[1].f => HasFlag(a.fifo)
    BY <1>4, Zenon DEF HasFlag
  <2>2. a.fifo[1].f => a.fifo[1].e = top
    BY <1>4, <1>6, Zenon DEF FlagsAtTop
  <2> QED BY <2>1, <2>2, <1>4, <1>16, Zenon
<1>19. Add(q, t).flag \/ Clearto(a).flag => u.nxt = top /\ top \in v
  <2>1. Clearto(a).flag => a.fifo[1].f
    BY <1>7, Zenon
  <2> QED BY <2>1, <1>4, <1>7, <1>18, Zenon
<1>20. q.nxt <= u.nxt
  BY <1>1, <1>4, <1>7
<1>21. Proceeds(q, u, Add(q, t).flag \/ Clearto(a).flag, v, top)
  BY <1>7, <1>17, <1>19, <1>20, Zenon DEF Proceeds
<1> QED BY <1>2, <1>3, <1>21, Zenon

-----------------------------------------------------------------------------
(* The receiver *)

LEMMA Numbers == N \in Nat /\ N + 1 \in Nat /\ N >= 1
  BY ReassemblyAssumption

LEMMA SegmentParts ==
  ASSUME NEW b \in Segments
  PROVE  /\ b \in Blk /\ b.s \in 1..N+1 /\ b.e \in 1..N+1 /\ b.f \in BOOLEAN
         /\ b.s <= b.e /\ (b.s < b.e \/ b.f) /\ (b.f => b.e = N + 1)
<1>1. /\ b \in [s : 1..N+1, e : 1..N+1, f : BOOLEAN]
      /\ b.s <= b.e /\ (b.s < b.e \/ b.f) /\ (b.f => b.e = N + 1)
  BY DEF Segments
<1>2. 1..N+1 \subseteq Nat
  BY Numbers
<1> QED BY <1>1, <1>2 DEF Blk

\* What a segment brings
LEMMA Arrival ==
  ASSUME NEW b \in Segments, NEW sn, NEW v,
         v = sn \cup (b.s..b.e-1) \cup (IF b.f THEN {N + 1} ELSE {})
  PROVE  \A y \in Nat : y \in v <=> y \in sn \/ Within(y, b) \/ (b.f /\ y = N + 1)
<1>1. b.s \in Nat /\ b.e \in Nat /\ b.f \in BOOLEAN
  BY SegmentParts, Numbers
<1>2. ASSUME NEW y \in Nat PROVE y \in b.s..b.e-1 <=> Within(y, b)
  BY <1>1 DEF Within
<1>3. ASSUME NEW y \in Nat
      PROVE  y \in (IF b.f THEN {N + 1} ELSE {}) <=> (b.f /\ y = N + 1)
  <2>1. CASE b.f
    BY <2>1
  <2>2. CASE ~b.f
    BY <2>2
  <2> QED BY <2>1, <2>2
<1> QED BY <1>2, <1>3

\* Trimming loses nothing that had not arrived: either the segment is wholly old,
\* or what is left of it begins at rcv_nxt_ or later
LEMMA TrimmedIs ==
  ASSUME seen \subseteq 1..N+1, Waiting(rq, N + 1), Received(rq, seen, N + 1),
         NEW b \in Segments, NEW v,
         v = seen \cup (b.s..b.e-1) \cup (IF b.f THEN {N + 1} ELSE {}),
         NEW t, t = Trimmed(b)
  PROVE  \/ t.s = t.e /\ ~t.f /\ v = seen
         \/ Brings(rq, t, seen, v, N + 1) /\ ~(t.s = t.e /\ ~t.f)
<1>1. /\ b \in Blk /\ b.s \in 1..N+1 /\ b.e \in 1..N+1 /\ b.f \in BOOLEAN
      /\ b.s <= b.e /\ (b.s < b.e \/ b.f) /\ (b.f => b.e = N + 1)
  BY SegmentParts
<1>2. b.s \in Nat /\ b.e \in Nat /\ N \in Nat
  BY <1>1, Numbers
<1>3. /\ rq.nxt \in 1..N+1 /\ 1..rq.nxt-1 \subseteq seen
  BY DEF Received
<1>4. rq.nxt \in Nat
  BY <1>2, <1>3
<1>5. \A y \in Nat : y \in v <=> y \in seen \/ Within(y, b) \/ (b.f /\ y = N + 1)
  BY Arrival
<1>6. CASE rq.nxt <= b.s \/ b.e - b.s = 0
  <2>1. t = b
    BY <1>6 DEF Trimmed, rcv_nxt
  <2>2. rq.nxt <= b.s
    BY <1>1, <1>2, <1>3, <1>6
  <2>3. Sound(b, N + 1)
    BY <1>1, <1>2 DEF Sound
  <2>4. Brings(rq, b, seen, v, N + 1)
    BY <1>1, <1>5, <2>2, <2>3, Zenon DEF Brings
  <2>5. ~(b.s = b.e /\ ~b.f)
    BY <1>1, <1>2
  <2> QED BY <2>1, <2>4, <2>5, Zenon
<1>7. CASE /\ ~(rq.nxt <= b.s \/ b.e - b.s = 0)
           /\ rq.nxt - b.s > b.e - b.s \/ (rq.nxt - b.s = b.e - b.s /\ ~b.f)
  <2>1. t = Block(rq.nxt, rq.nxt, FALSE)
    BY <1>7 DEF Trimmed, rcv_nxt
  <2>2. t.s = t.e /\ ~t.f
    BY <2>1 DEF Block
  <2>3. b.e <= rq.nxt
    BY <1>2, <1>4, <1>7
  <2>4. ~b.f
    BY <1>1, <1>2, <1>3, <1>4, <1>7
  <2>5. b.s..b.e-1 \subseteq 1..rq.nxt-1
    BY <1>1, <1>2, <1>4, <2>3
  <2>6. v = seen
    BY <2>4, <2>5, <1>3
  <2> QED BY <2>2, <2>6
<1>8. CASE /\ ~(rq.nxt <= b.s \/ b.e - b.s = 0)
           /\ ~(rq.nxt - b.s > b.e - b.s \/ (rq.nxt - b.s = b.e - b.s /\ ~b.f))
  <2>1. t = Block(rq.nxt, b.e, b.f)
    BY <1>8 DEF Trimmed, rcv_nxt
  <2>2. t \in Blk /\ t.s = rq.nxt /\ t.e = b.e /\ t.f = b.f
    <3>1. /\ Block(rq.nxt, b.e, b.f) \in Blk /\ Block(rq.nxt, b.e, b.f).s = rq.nxt
          /\ Block(rq.nxt, b.e, b.f).e = b.e /\ Block(rq.nxt, b.e, b.f).f = b.f
      BY <1>1, <1>2, <1>4, BlockIs
    <3> QED BY <2>1, <3>1, Zenon
  <2>3. b.s < rq.nxt /\ rq.nxt <= b.e /\ (rq.nxt = b.e => b.f)
    BY <1>2, <1>4, <1>8
  <2>4. Sound(t, N + 1)
    BY <1>1, <1>2, <1>4, <2>2, <2>3 DEF Sound
  <2>5. ASSUME NEW y \in Nat
        PROVE  y \in v <=> y \in seen \/ Within(y, t) \/ (t.f /\ y = N + 1)
    <3>1. Within(y, b) => Within(y, t) \/ y \in 1..rq.nxt-1
      BY <1>1, <1>2, <1>4, <2>2, <2>3 DEF Within
    <3>2. Within(y, t) => Within(y, b)
      BY <1>2, <1>4, <2>2, <2>3 DEF Within
    <3>3. y \in 1..rq.nxt-1 => y \in seen
      BY <1>3
    <3> QED BY <1>5, <2>2, <3>1, <3>2, <3>3, Zenon
  <2>6. rq.nxt <= t.s /\ (t.f => t.e = N + 1)
    BY <1>1, <1>4, <2>2
  <2>7. Brings(rq, t, seen, v, N + 1)
    BY <2>2, <2>4, <2>5, <2>6, Zenon DEF Brings
  <2>8. ~(t.s = t.e /\ ~t.f)
    <3>1. t.s = t.e => t.f
      BY <2>2, <2>3, Zenon
    <3> QED BY <3>1, Zenon
  <2> QED BY <2>7, <2>8, Zenon
<1> QED BY <1>6, <1>7, <1>8, Zenon

\* The data and FIN steps of recv, before the FIN is counted
LEMMA ProcessIs ==
  ASSUME Inv, state = "ESTABLISHED", NEW b \in Segments, NEW v,
         v = seen \cup (b.s..b.e-1) \cup (IF b.f THEN {N + 1} ELSE {}),
         Process(Trimmed(b))
  PROVE  \E u, flag : /\ Proceeds(rq, u, flag, v, N + 1)
                      /\ FinStep(u, flag)
                      /\ delivered' = delivered + (u.nxt - rq.nxt)
<1>1. /\ seen \subseteq 1..N+1 /\ Waiting(rq, N + 1) /\ Received(rq, seen, N + 1)
      /\ delivered = rq.nxt - 1
  BY Zenon DEF Inv, ReceiverInv
<1>2. PICK t : t = Trimmed(b)
  OBVIOUS
<1>3. ~HaveRcvdFin
  BY DEF HaveRcvdFin
<1>4. rq.nxt \in Nat /\ delivered \in Int
  BY <1>1, Numbers DEF Received
<1>5. CASE t.s = t.e /\ ~t.f
  <2>1. v = seen
    BY <1>1, <1>2, <1>5, TrimmedIs
  <2>2. FinStep(rq, FALSE) /\ delivered' = delivered
    BY <1>2, <1>5 DEF Process
  <2>3. Proceeds(rq, rq, FALSE, v, N + 1)
    <3>1. Waiting(rq, N + 1) /\ Received(rq, v, N + 1)
      BY <1>1, <2>1, Zenon
    <3>2. rq.nxt <= rq.nxt
      BY <1>4
    <3> QED BY <3>1, <3>2, Zenon DEF Proceeds
  <2>4. delivered' = delivered + (rq.nxt - rq.nxt)
    BY <1>4, <2>2
  <2> QED BY <2>2, <2>3, <2>4
<1>6. CASE ~(t.s = t.e /\ ~t.f)
  <2>1. Brings(rq, t, seen, v, N + 1)
    BY <1>1, <1>2, <1>6, TrimmedIs
  <2>2. t.s \in Nat /\ t.e \in Nat /\ rq.nxt \in Nat /\ rq \in Queues
    BY <2>1, Numbers, BringsParts
  <2>3. CASE t.s = rq.nxt /\ rq.fifo = <<>>
    <3>1. /\ FinStep([rq EXCEPT !.nxt = t.e], t.f)
          /\ delivered' = delivered + (t.e - t.s)
      BY <1>2, <1>3, <1>6, <2>3 DEF Process, rcv_nxt
    <3>2. Proceeds(rq, [rq EXCEPT !.nxt = t.e], t.f, v, N + 1)
      BY <2>1, <2>3, Numbers, BringsDirect
    <3>3. [rq EXCEPT !.nxt = t.e].nxt = t.e
      BY <2>2 DEF Queues
    <3>4. delivered' = delivered + ([rq EXCEPT !.nxt = t.e].nxt - rq.nxt)
      BY <3>1, <3>3, <2>3, Zenon
    <3> QED BY <3>1, <3>2, <3>4, Zenon
  <2>4. CASE ~(t.s = rq.nxt /\ rq.fifo = <<>>)
    <3>1. PICK r : r = Reass(t)
      OBVIOUS
    <3>2. /\ FinStep(r.queue, r.flag)
          /\ delivered' = IF r.queue.nxt > rq.nxt THEN delivered + (r.queue.nxt - rq.nxt)
                          ELSE delivered
      BY <1>2, <1>3, <1>6, <2>4, <3>1 DEF Process, Reassembled, rcv_nxt
    <3>3. Proceeds(rq, r.queue, r.flag, v, N + 1)
      <4>1. CASE t.s # rq.nxt
        <5>1. r = Result(Add(rq, t).queue, FALSE)
          BY <3>1, <4>1, Zenon DEF Reass, Counted
        <5>2. r.queue = Add(rq, t).queue /\ r.flag = FALSE
          BY <5>1 DEF Result
        <5>3. Proceeds(rq, Add(rq, t).queue, FALSE, v, N + 1)
          BY <2>1, <4>1, Numbers, BringsAhead
        <5> QED BY <5>2, <5>3, Zenon
      <4>2. CASE t.s = rq.nxt
        <5>1. PICK w : w = Clearto(Add(rq, t).queue)
          OBVIOUS
        <5>2. r = Result(w.queue, Add(rq, t).flag \/ w.flag)
          BY <3>1, <4>2, <5>1, Zenon DEF Reass, Counted, Cleared
        <5>3. r.queue = w.queue /\ r.flag = (Add(rq, t).flag \/ w.flag)
          BY <5>2 DEF Result
        <5>4. Proceeds(rq, w.queue, Add(rq, t).flag \/ w.flag, v, N + 1)
          BY <2>1, <2>4, <4>2, <5>1, Numbers, BringsNext
        <5> QED BY <5>3, <5>4, Zenon
      <4> QED BY <4>1, <4>2
    <3>4. rq.nxt <= r.queue.nxt /\ r.queue.nxt \in Nat
      BY <3>3, Numbers DEF Proceeds, Received
    <3>5. delivered' = delivered + (r.queue.nxt - rq.nxt)
      <4>1. CASE r.queue.nxt > rq.nxt
        BY <3>2, <4>1
      <4>2. CASE r.queue.nxt = rq.nxt
        BY <3>2, <4>2, <1>4
      <4> QED BY <3>4, <1>4, <4>1, <4>2
    <3> QED BY <3>2, <3>3, <3>5, Zenon
  <2> QED BY <2>3, <2>4
<1> QED BY <1>5, <1>6, Zenon

\* Counting the FIN, when every byte has come
LEMMA FinCounts ==
  ASSUME Inv, state = "ESTABLISHED", NEW v, NEW u, NEW flag,
         v \subseteq 1..N+1, Proceeds(rq, u, flag, v, N + 1),
         FinStep(u, flag), delivered' = delivered + (u.nxt - rq.nxt), seen' = v
  PROVE  /\ state' \in {"ESTABLISHED", "CLOSE_WAIT", "LAST_ACK"}
         /\ Waiting(rq', N + 1)
         /\ state' = "ESTABLISHED" => Received(rq', v, N + 1) /\ delivered' = rq'.nxt - 1
         /\ state' # "ESTABLISHED" => /\ rq'.nxt = (N + 1) + 1 /\ rq'.fifo = <<>>
                                      /\ 1..N+1 \subseteq v /\ delivered' = (N + 1) - 1
         /\ rq'.fifo = u.fifo /\ rq'.lifo = u.lifo
<1>1. delivered = rq.nxt - 1 /\ rq.nxt \in 1..N+1
  BY Zenon DEF Inv, ReceiverInv, Received
<1>2. /\ Waiting(u, N + 1) /\ Received(u, v, N + 1)
      /\ (flag => u.nxt = N + 1 /\ N + 1 \in v)
  BY Zenon DEF Proceeds
<1>3. u \in Queues /\ u.nxt \in 1..N+1 /\ 1..u.nxt-1 \subseteq v
  BY <1>2, Zenon DEF Waiting, Good, Received
<1>4. N \in Nat /\ u.nxt \in Nat /\ rq.nxt \in Nat
  BY <1>1, <1>3, Numbers
<1>5. delivered' = u.nxt - 1
  BY <1>1, <1>4
<1>6. CASE ~flag
  <2>1. rq' = u /\ state' \in Closing("ESTABLISHED")
    BY <1>6 DEF FinStep
  <2>2. state' = "ESTABLISHED"
    BY <2>1 DEF Closing
  <2> QED BY <1>2, <1>5, <2>1, <2>2, Zenon
<1>7. CASE flag
  <2>1. rq' = [u EXCEPT !.nxt = u.nxt + 1] /\ state' \in Closing("CLOSE_WAIT")
    BY <1>7 DEF FinStep
  <2>2. state' \in {"CLOSE_WAIT", "LAST_ACK"}
    BY <2>1 DEF Closing
  <2>3. u = [fifo |-> u.fifo, lifo |-> u.lifo, nxt |-> u.nxt]
    BY <1>3 DEF Queues
  <2>4. rq' = [fifo |-> u.fifo, lifo |-> u.lifo, nxt |-> u.nxt + 1]
    BY <2>1, <2>3
  <2>5. /\ u.fifo \in Seq(Blk) /\ u.lifo \in Seq(Blk)
        /\ \A j \in 1..Len(u.fifo) : u.fifo[j].s \in Nat /\ u.fifo[j].e \in Nat
    BY <1>3, QueueParts
  <2>6. /\ rq' \in Queues /\ rq'.fifo = u.fifo /\ rq'.lifo = u.lifo
        /\ rq'.nxt = u.nxt + 1
    BY <2>4, <2>5, <1>4 DEF Queues
  <2>7. u.nxt = N + 1 /\ N + 1 \in v
    BY <1>2, <1>7
  <2>8. Len(u.fifo) = 0
    <3>1. ASSUME 1 \in 1..Len(u.fifo) PROVE FALSE
      <4>1. /\ u.nxt < u.fifo[1].s /\ u.fifo[1].s <= u.fifo[1].e /\ u.fifo[1].e <= N + 1
        BY <1>2, <3>1 DEF Waiting, Good, Apart, Sound, Ahead
      <4> QED BY <4>1, <3>1, <2>5, <2>7, <1>4
    <3>2. Len(u.fifo) \in Nat
      BY <2>5
    <3> QED BY <3>1, <3>2
  <2>9. u.fifo = <<>>
    BY <2>5, <2>8
  <2>10. Waiting(rq', N + 1)
    <3>1. Ahead(rq')
      BY <2>6, <2>8 DEF Ahead
    <3> QED BY <3>1, <2>6, <1>2, Zenon DEF Waiting, Good
  <2>11. 1..N+1 \subseteq v
    <3>1. ASSUME NEW y \in 1..N+1 PROVE y \in v
      <4>1. y \in 1..u.nxt-1 \/ y = N + 1
        BY <2>7, <1>4
      <4> QED BY <4>1, <2>7, <1>3
    <3> QED BY <3>1
  <2>12. rq'.nxt = (N + 1) + 1 /\ delivered' = (N + 1) - 1
    BY <1>5, <2>6, <2>7
  <2> QED BY <2>2, <2>6, <2>9, <2>10, <2>11, <2>12
<1> QED BY <1>6, <1>7

\* The blocks of an acknowledgement are blocks of the queue
LEMMA SackIs ==
  ASSUME NEW u, Waiting(u, N + 1), NEW v,
         \A y \in Nat : Covers(u.fifo, y) => y \in v /\ y <= N
  PROVE  /\ Gensack(u, MaxBlocks) \in Seq(Blk)
         /\ \A i \in DOMAIN Gensack(u, MaxBlocks) :
              Bytes(Gensack(u, MaxBlocks)[i]) \subseteq v \ {N + 1}
<1>1. u \in Queues /\ ToSet(u.lifo) = ToSet(u.fifo)
  BY DEF Waiting, Good, Listing
<1>2. u.fifo \in Seq(Blk) /\ u.lifo \in Seq(Blk) /\ Len(u.lifo) \in Nat
  BY <1>1, QueueParts
<1>3. PICK n : n = Lesser(MaxBlocks, Len(u.lifo))
  OBVIOUS
<1>4. n \in 0..Len(u.lifo)
  BY <1>2, <1>3, ReassemblyAssumption DEF Lesser
<1>5. PICK g : g = SubSeq(u.lifo, 1, n)
  OBVIOUS
<1>6. g \in Seq(Blk) /\ Len(g) = n /\ \A k \in 1..n : g[k] = u.lifo[k]
  BY <1>2, <1>4, <1>5, PrefixOf, Zenon
<1>7. g = Gensack(u, MaxBlocks)
  BY <1>3, <1>5, Zenon DEF Gensack
<1>8. ASSUME NEW i \in DOMAIN g PROVE Bytes(g[i]) \subseteq v \ {N + 1}
  <2>1. i \in 1..n /\ i \in 1..Len(u.lifo)
    BY <1>2, <1>4, <1>6, <1>8
  <2>2. g[i] \in ToSet(u.lifo)
    BY <1>2, <1>6, <2>1, ToSetIs
  <2>3. PICK j \in 1..Len(u.fifo) : u.fifo[j] = g[i]
    BY <1>1, <1>2, <2>2, ToSetIs
  <2>4. u.fifo[j].s \in Nat /\ u.fifo[j].e \in Nat
    BY <1>1, QueueParts
  <2>5. ASSUME NEW y \in Bytes(g[i]) PROVE y \in v \ {N + 1}
    <3>1. y \in u.fifo[j].s .. u.fifo[j].e - 1
      BY <2>3, <2>5, Zenon DEF Bytes
    <3>2. y \in Nat /\ u.fifo[j].s <= y /\ y < u.fifo[j].e
      BY <2>4, <3>1
    <3>3. Covers(u.fifo, y)
      BY <3>2, Zenon DEF Covers
    <3>4. y \in v /\ y <= N
      BY <3>2, <3>3
    <3> QED BY <3>4, <3>2, Numbers
  <2> QED BY <2>5
<1> QED BY <1>6, <1>7, <1>8, Zenon

LEMMA InitInv == Init => Inv
<1> SUFFICES ASSUME Init PROVE Inv
  OBVIOUS
<1>1. /\ rq = EmptyQueue(1) /\ state = "ESTABLISHED"
      /\ delivered = 0 /\ sack = <<>> /\ seen = {}
  BY DEF Init
<1>2. rq = [fifo |-> <<>>, lifo |-> <<>>, nxt |-> 1]
  BY <1>1 DEF EmptyQueue
<1>3. rq \in Queues /\ rq.fifo = <<>> /\ rq.lifo = <<>> /\ rq.nxt = 1
  BY <1>2 DEF Queues
<1>4. Len(rq.fifo) = 0 /\ Len(rq.lifo) = 0
  BY <1>3
<1>5. Waiting(rq, N + 1)
  <2>1. Apart(rq.fifo, N + 1) /\ FlagsAtTop(rq.fifo, N + 1) /\ Ahead(rq)
    BY <1>4 DEF Apart, FlagsAtTop, Ahead
  <2>2. Listing(rq.lifo, rq.fifo)
    BY <1>3, <1>4 DEF Listing, Distinct
  <2> QED BY <1>3, <2>1, <2>2 DEF Waiting, Good
<1>6. Received(rq, seen, N + 1)
  <2>1. ~HasFlag(rq.fifo) /\ \A y \in Nat : ~Covers(rq.fifo, y)
    BY <1>4 DEF HasFlag, Covers
  <2>2. rq.nxt \in 1..N+1 /\ 1..rq.nxt-1 = {}
    BY <1>3, Numbers
  <2> QED BY <1>1, <2>1, <2>2 DEF Received
<1>7. sack \in Seq(Blk) /\ SackTruthful
  BY <1>1 DEF SackTruthful
<1>8. delivered = rq.nxt - 1 /\ seen \subseteq 1..N+1
  BY <1>1, <1>3
<1> QED BY <1>1, <1>5, <1>6, <1>7, <1>8 DEF Inv, ReceiverInv

\* The blocks reported before are still true
LEMMA SackStays ==
  ASSUME Inv, sack' = sack, seen \subseteq seen'
  PROVE  sack' \in Seq(Blk) /\ SackTruthful'
<1>1. sack \in Seq(Blk) /\ SackTruthful
  BY DEF Inv, ReceiverInv
<1>2. ASSUME NEW i \in DOMAIN sack' PROVE Bytes(sack'[i]) \subseteq seen' \ {N + 1}
  <2>1. Bytes(sack[i]) \subseteq seen \ {N + 1}
    BY <1>1, <1>2 DEF SackTruthful
  <2>2. Bytes(sack'[i]) = Bytes(sack[i])
    BY DEF Bytes
  <2> QED BY <2>1, <2>2
<1> QED BY <1>1, <1>2 DEF SackTruthful, Bytes

\* A new list of blocks is that of the queue
LEMMA SackNew ==
  ASSUME Waiting(rq', N + 1),
         \A y \in Nat : Covers(rq'.fifo, y) => y \in seen' /\ y <= N,
         sack' = Gensack(rq', MaxBlocks)
  PROVE  sack' \in Seq(Blk) /\ SackTruthful'
<1>1. /\ Gensack(rq', MaxBlocks) \in Seq(Blk)
      /\ \A i \in DOMAIN Gensack(rq', MaxBlocks) :
           Bytes(Gensack(rq', MaxBlocks)[i]) \subseteq seen' \ {N + 1}
  BY SackIs
<1>2. \A i \in DOMAIN sack' : Bytes(sack'[i]) \subseteq seen' \ {N + 1}
  BY <1>1, Zenon
<1> QED BY <1>1, <1>2 DEF SackTruthful, Bytes

LEMMA UsrClosedInv ==
  ASSUME Inv, UsrClosed
  PROVE  Inv'
<1>1. /\ state = "CLOSE_WAIT" /\ state' = "LAST_ACK" /\ rq' = rq /\ seen' = seen
      /\ delivered' = delivered /\ sack' = sack
  BY DEF UsrClosed
<1>2. sack' \in Seq(Blk) /\ SackTruthful'
  BY <1>1, SackStays
<1> QED BY <1>1, <1>2 DEF Inv, ReceiverInv

LEMMA ReceiveInv ==
  ASSUME Inv, NEW b \in Segments, Receive(b)
  PROVE  Inv'
<1>1. PICK v : v = seen \cup (b.s..b.e-1) \cup (IF b.f THEN {N + 1} ELSE {})
  OBVIOUS
<1>2. seen' = v
  BY <1>1 DEF Receive
<1>3. /\ seen \subseteq 1..N+1 /\ state \in {"ESTABLISHED", "CLOSE_WAIT", "LAST_ACK"}
      /\ Waiting(rq, N + 1)
  BY DEF Inv, ReceiverInv
<1>4. v \subseteq 1..N+1 /\ seen \subseteq v
  <2>1. b.s \in 1..N+1 /\ b.e \in 1..N+1 /\ N + 1 \in 1..N+1 /\ N \in Nat
    BY SegmentParts, Numbers
  <2>2. b.s..b.e-1 \subseteq 1..N+1
    BY <2>1
  <2> QED BY <1>1, <1>3, <2>1, <2>2
<1>5. CASE state = "ESTABLISHED"
  <2>1. ~Ignored(b)
    BY <1>5 DEF Ignored
  <2>2. Process(Trimmed(b)) /\ sack' = Gensack(rq', MaxBlocks)
    BY <2>1 DEF Receive
  <2>3. PICK u, flag : /\ Proceeds(rq, u, flag, v, N + 1) /\ FinStep(u, flag)
                       /\ delivered' = delivered + (u.nxt - rq.nxt)
    BY <1>1, <1>5, <2>2, ProcessIs
  <2>4. /\ state' \in {"ESTABLISHED", "CLOSE_WAIT", "LAST_ACK"}
        /\ Waiting(rq', N + 1)
        /\ state' = "ESTABLISHED" => Received(rq', v, N + 1) /\ delivered' = rq'.nxt - 1
        /\ state' # "ESTABLISHED" => /\ rq'.nxt = (N + 1) + 1 /\ rq'.fifo = <<>>
                                     /\ 1..N+1 \subseteq v /\ delivered' = (N + 1) - 1
        /\ rq'.fifo = u.fifo
    BY <1>2, <1>4, <1>5, <2>3, FinCounts
  <2>5. ASSUME NEW y \in Nat, Covers(rq'.fifo, y) PROVE y \in seen' /\ y <= N
    <3>1. y \in v /\ y < N + 1
      BY <2>3, <2>4, <2>5, Zenon DEF Proceeds, Received
    <3> QED BY <3>1, <1>2, Numbers
  <2>6. sack' \in Seq(Blk) /\ SackTruthful'
    BY <2>2, <2>4, <2>5, SackNew
  <2> QED BY <1>2, <1>4, <2>4, <2>6 DEF Inv, ReceiverInv
<1>6. CASE state # "ESTABLISHED"
  <2>1. /\ rq.nxt = (N + 1) + 1 /\ rq.fifo = <<>> /\ 1..N+1 \subseteq seen
        /\ delivered = (N + 1) - 1
    BY <1>6 DEF Inv, ReceiverInv
  <2>2. /\ rq' = rq /\ delivered' = delivered /\ state' \in {"CLOSE_WAIT", "LAST_ACK"}
        /\ sack' = sack \/ sack' = Gensack(rq', MaxBlocks)
    <3>1. CASE Ignored(b)
      BY <3>1, <1>3, <1>6 DEF Receive
    <3>2. CASE ~Ignored(b)
      <4>1. Process(Trimmed(b)) /\ sack' = Gensack(rq', MaxBlocks)
        BY <3>2 DEF Receive
      <4>2. CASE HaveRcvdFin
        <5>1. FinStep(rq, FALSE) /\ delivered' = delivered /\ state = "CLOSE_WAIT"
          BY <4>1, <4>2 DEF Process, HaveRcvdFin
        <5> QED BY <4>1, <5>1 DEF FinStep, Closing
      <4>3. CASE ~HaveRcvdFin
        <5>1. state = "LAST_ACK" /\ ~b.f
          BY <3>2, <4>3, <1>3, <1>6 DEF HaveRcvdFin, Ignored
        <5>2. b.s \in 1..N+1 /\ b.e \in 1..N+1 /\ b.s < b.e /\ N \in Nat
          BY <5>1, SegmentParts, Numbers
        <5>3. /\ ~(rq.nxt <= b.s \/ b.e - b.s = 0)
              /\ rq.nxt - b.s > b.e - b.s
          BY <5>2, <2>1
        <5>4. Trimmed(b) = Block(rq.nxt, rq.nxt, FALSE)
          BY <5>3 DEF Trimmed, rcv_nxt
        <5>5. Trimmed(b).s = Trimmed(b).e /\ ~Trimmed(b).f
          BY <5>4 DEF Block
        <5>6. FinStep(rq, FALSE) /\ delivered' = delivered
          BY <4>1, <5>5 DEF Process
        <5> QED BY <4>1, <5>1, <5>6 DEF FinStep, Closing
      <4> QED BY <4>2, <4>3
    <3> QED BY <3>1, <3>2
  <2>3. sack' \in Seq(Blk) /\ SackTruthful'
    <3>1. CASE sack' = sack
      BY <3>1, <1>2, <1>4, SackStays
    <3>2. CASE sack' = Gensack(rq', MaxBlocks)
      <4>1. Len(rq'.fifo) = 0
        BY <2>1, <2>2
      <4>2. \A y \in Nat : ~Covers(rq'.fifo, y)
        BY <4>1 DEF Covers
      <4>3. Waiting(rq', N + 1)
        BY <1>3, <2>2, Zenon
      <4> QED BY <3>2, <4>2, <4>3, SackNew
    <3> QED BY <2>2, <3>1, <3>2
  <2>4. 1..N+1 \subseteq seen' /\ seen' \subseteq 1..N+1
    BY <1>2, <1>4, <2>1
  <2>5. state' # "ESTABLISHED" /\ state' \in {"ESTABLISHED", "CLOSE_WAIT", "LAST_ACK"}
    BY <2>2
  <2>6. Waiting(rq', N + 1)
    BY <1>3, <2>2, Zenon
  <2> QED BY <2>1, <2>2, <2>3, <2>4, <2>5, <2>6 DEF Inv, ReceiverInv
<1> QED BY <1>5, <1>6

LEMMA InvHolds == Spec => []Inv
<1>1. ASSUME Inv, [Next]_vars PROVE Inv'
  <2>1. CASE \E b \in Segments : Receive(b)
    BY <1>1, <2>1, ReceiveInv
  <2>2. CASE UsrClosed
    BY <1>1, <2>2, UsrClosedInv
  <2>3. CASE UNCHANGED vars
    <3>1. /\ rq' = rq /\ state' = state /\ delivered' = delivered /\ sack' = sack
          /\ seen' = seen
      BY <2>3 DEF vars
    <3>2. sack' \in Seq(Blk) /\ SackTruthful'
      BY <1>1, <3>1, SackStays
    <3> QED BY <1>1, <3>1, <3>2 DEF Inv, ReceiverInv
  <2> QED BY <1>1, <2>1, <2>2, <2>3 DEF Next
<1> QED BY <1>1, InitInv, PTL DEF Spec

-----------------------------------------------------------------------------
(* The properties of Reassembly *)

LEMMA QueueOf ==
  ASSUME Inv
  PROVE  /\ rq \in Queues /\ rq.fifo \in Seq(Blk) /\ rq.lifo \in Seq(Blk)
         /\ Apart(rq.fifo, N + 1) /\ Listing(rq.lifo, rq.fifo)
         /\ \A j \in 1..Len(rq.fifo) : rq.fifo[j] \in [s : 1..N+1, e : 1..N+1, f : BOOLEAN]
<1>1. rq \in Queues /\ Apart(rq.fifo, N + 1) /\ Listing(rq.lifo, rq.fifo) /\ Ahead(rq)
  BY DEF Inv, ReceiverInv, Waiting, Good
<1>2. rq.fifo \in Seq(Blk) /\ rq.lifo \in Seq(Blk) /\ rq.nxt \in Nat
  BY <1>1, QueueParts
<1>3. ASSUME NEW j \in 1..Len(rq.fifo)
      PROVE  rq.fifo[j] \in [s : 1..N+1, e : 1..N+1, f : BOOLEAN]
  <2>1. PICK x : x = rq.fifo[j]
    OBVIOUS
  <2>2. x \in Blk /\ rq.nxt < x.s /\ x.s <= x.e /\ x.e <= N + 1
    BY <1>1, <1>2, <2>1 DEF Ahead, Apart, Sound
  <2>3. x.s \in 1..N+1 /\ x.e \in 1..N+1
    BY <2>2, <1>2, Numbers, BlkParts
  <2>4. x \in [s : 1..N+1, e : 1..N+1, f : BOOLEAN]
    BY <2>2, <2>3 DEF Blk
  <2> QED BY <2>1, <2>4
<1> QED BY <1>1, <1>2, <1>3

\* Type correctness of the receiver: numbers and blocks stay within the stream.
THEOREM ReceiverTypes == Spec => []TypeOK
<1>1. ASSUME Inv PROVE TypeOK
  <2>0. N \in Nat
    BY Numbers
  <2>1. /\ rq.fifo \in Seq(Blk) /\ rq.lifo \in Seq(Blk) /\ ToSet(rq.lifo) = ToSet(rq.fifo)
        /\ \A j \in 1..Len(rq.fifo) :
             rq.fifo[j] \in [s : 1..N+1, e : 1..N+1, f : BOOLEAN]
    BY <1>1, QueueOf, Zenon DEF Listing
  <2>2. PICK B : B = [s : 1..N+1, e : 1..N+1, f : BOOLEAN]
    OBVIOUS
  <2>3. rq.fifo \in Seq(B)
    <3>1. \A j \in 1..Len(rq.fifo) : rq.fifo[j] \in B
      BY <2>1, <2>2, Zenon
    <3> QED BY <2>1, <3>1
  <2>4. rq.lifo \in Seq(B)
    <3>1. ASSUME NEW i \in 1..Len(rq.lifo) PROVE rq.lifo[i] \in B
      <4>1. rq.lifo[i] \in ToSet(rq.fifo)
        BY <2>1, ToSetIs
      <4>2. PICK j \in 1..Len(rq.fifo) : rq.fifo[j] = rq.lifo[i]
        BY <2>1, <4>1, ToSetIs
      <4> QED BY <4>2, <2>1, <2>2, Zenon
    <3> QED BY <2>1, <3>1
  <2>5. rq.nxt \in 1..N+2 /\ delivered \in 0..N
    <3>1. CASE state = "ESTABLISHED"
      <4>1. rq.nxt \in 1..N+1 /\ delivered = rq.nxt - 1
        BY <1>1, <3>1, Zenon DEF Inv, ReceiverInv, Received
      <4> QED BY <4>1, <2>0
    <3>2. CASE state # "ESTABLISHED"
      <4>1. rq.nxt = (N + 1) + 1 /\ delivered = (N + 1) - 1
        BY <1>1, <3>2, Zenon DEF Inv, ReceiverInv
      <4> QED BY <4>1, <2>0
    <3> QED BY <3>1, <3>2
  <2>6. seen \subseteq 1..N+1 /\ state \in {"ESTABLISHED", "CLOSE_WAIT", "LAST_ACK"}
    BY <1>1 DEF Inv, ReceiverInv
  <2> QED BY <2>2, <2>3, <2>4, <2>5, <2>6 DEF TypeOK
<1> QED BY <1>1, InvHolds, PTL

\* The application gets every byte once and none early, whatever the order, the
\* boundaries and the number of the segments: rcv_nxt_ is the first byte that
\* has not arrived, and as many bytes have been handed over as it has passed.
THEOREM ReceiverInOrder == Spec => []NextIsFirstMissing
<1>1. ASSUME Inv PROVE NextIsFirstMissing
  <2>1. N \in Nat
    BY Numbers
  <2>2. CASE state = "ESTABLISHED"
    <3>1. /\ rq.nxt \in 1..N+1 /\ 1..rq.nxt-1 \subseteq seen
          /\ (rq.nxt < N + 1 => rq.nxt \notin seen) /\ delivered = rq.nxt - 1
      BY <1>1, <2>2, Zenon DEF Inv, ReceiverInv, Received
    <3> QED BY <3>1, <2>1 DEF NextIsFirstMissing, rcv_nxt, MinOf
  <2>3. CASE state # "ESTABLISHED"
    <3>1. rq.nxt = (N + 1) + 1 /\ delivered = (N + 1) - 1
      BY <1>1, <2>3, Zenon DEF Inv, ReceiverInv
    <3> QED BY <3>1, <2>1, <2>3 DEF NextIsFirstMissing, rcv_nxt, MinOf
  <2> QED BY <2>2, <2>3
<1> QED BY <1>1, InvHolds, PTL

\* The queue holds exactly the bytes that arrived ahead of rcv_nxt_, in disjoint
\* blocks in sequence order that do not touch, and the stack lists the same
\* blocks: no merge of add forgets a byte, invents one or leaves the two lists
\* apart.
THEOREM ReceiverQueue == Spec => []QueueExact
<1>1. ASSUME Inv PROVE QueueExact
  <2>0. N \in Nat
    BY Numbers
  <2>1. /\ rq.fifo \in Seq(Blk) /\ rq.lifo \in Seq(Blk)
        /\ Apart(rq.fifo, N + 1) /\ Listing(rq.lifo, rq.fifo)
    BY <1>1, QueueOf
  <2>2. Len(rq.lifo) = Len(rq.fifo) /\ ToSet(rq.lifo) = ToSet(rq.fifo)
    BY <2>1, SameLength DEF Listing
  <2>3. \A i \in 1..Len(rq.fifo)-1 : rq.fifo[i].e < rq.fifo[i+1].s
    <3>1. Len(rq.fifo) \in Nat
      BY <2>1
    <3> QED BY <2>1, <3>1 DEF Apart
  <2>4. ASSUME state = "ESTABLISHED"
        PROVE  Queued = {b \in seen : rq.nxt < b /\ b <= N}
    <3>1. /\ \A y \in Nat : Covers(rq.fifo, y) <=> y \in seen /\ rq.nxt < y /\ y < N + 1
          /\ seen \subseteq 1..N+1
      BY <1>1, <2>4, Zenon DEF Inv, ReceiverInv, Received
    <3>2. \A j \in 1..Len(rq.fifo) : rq.fifo[j].s \in Nat /\ rq.fifo[j].e \in Nat
      BY <2>1, BlocksAre
    <3>3. ASSUME NEW y PROVE y \in Queued <=> y \in Nat /\ Covers(rq.fifo, y)
      <4>1. y \in Queued <=> \E x \in ToSet(rq.fifo) : y \in Bytes(x)
        BY DEF Queued
      <4>2. y \in Queued <=> \E j \in 1..Len(rq.fifo) : y \in Bytes(rq.fifo[j])
        BY <4>1, <2>1, ToSetIs, Zenon
      <4>3. ASSUME NEW j \in 1..Len(rq.fifo)
            PROVE  y \in Bytes(rq.fifo[j]) <=>
                     y \in Nat /\ rq.fifo[j].s <= y /\ y < rq.fifo[j].e
        BY <3>2 DEF Bytes
      <4> QED BY <4>2, <4>3, Zenon DEF Covers
    <3>4. ASSUME NEW y PROVE y \in Queued <=> y \in seen /\ rq.nxt < y /\ y <= N
      <4>1. y \in seen => y \in Nat
        BY <3>1, <2>0
      <4>2. y \in Nat => (y < N + 1 <=> y <= N)
        BY <2>0
      <4> QED BY <3>1, <3>3, <4>1, <4>2, Zenon
    <3> QED BY <3>4
  <2> QED BY <2>2, <2>3, <2>4 DEF QueueExact, rcv_nxt
<1> QED BY <1>1, InvHolds, PTL

\* A block reported to the peer covers only bytes that have arrived, also when
\* blocks were merged, trimmed or dropped since.
THEOREM ReceiverSack == Spec => []SackTruthful
<1>1. Inv => SackTruthful
  BY Zenon DEF Inv, ReceiverInv
<1> QED BY <1>1, InvHolds, PTL

\* The FIN is counted at most once, after every byte before it: rcv_nxt_ then stays
\* beyond it, whatever is retransmitted.
THEOREM ReceiverFin == Spec => []FinCounted
<1>1. ASSUME Inv PROVE FinCounted
  <2>1. SUFFICES ASSUME state # "ESTABLISHED"
                 PROVE  1..N+1 \subseteq seen /\ rq.nxt = N + 2
    BY DEF FinCounted, rcv_nxt
  <2>2. 1..N+1 \subseteq seen /\ rq.nxt = (N + 1) + 1
    BY <1>1, <2>1, Zenon DEF Inv, ReceiverInv
  <2> QED BY <2>2, Numbers
<1> QED BY <1>1, InvHolds, PTL
=============================================================================

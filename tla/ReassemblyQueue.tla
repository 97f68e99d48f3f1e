--------------------------- MODULE ReassemblyQueue ---------------------------
(***************************************************************************)
(* The reassembly queue of rq.cc as operators on a value.  A block covers   *)
(* the bytes s..e-1 and carries the flags of what was merged into it, here  *)
(* only FIN.  A queue holds the blocks in sequence order (fifo) and in      *)
(* order of creation, newest first (lifo); it also updates the rcv_nxt_ of  *)
(* its owner, held in the field nxt.                                        *)
(***************************************************************************)
EXTENDS Integers, Sequences, SequencesExt

Block(s, e, f) == [s |-> s, e |-> e, f |-> f]

EmptyQueue(nxt) == [fifo |-> <<>>, lifo |-> <<>>, nxt |-> nxt]

Lesser(a, b)  == IF a <= b THEN a ELSE b
Greater(a, b) == IF a >= b THEN a ELSE b

\* The blocks of s that are not in gone, in their order
Without(s, gone) ==
  LET kept[i \in 0..Len(s)] ==
        IF i = 0 THEN <<>>
        ELSE IF s[i] \in gone THEN kept[i - 1] ELSE Append(kept[i - 1], s[i])
  IN  kept[Len(s)]

\* fremove and sremove of one block, and of all blocks of a set
Unlink(q, b) ==
  [q EXCEPT !.fifo = RemoveFirst(q.fifo, b), !.lifo = RemoveFirst(q.lifo, b)]
Drop(q, gone) ==
  [q EXCEPT !.fifo = Without(q.fifo, gone), !.lifo = Without(q.lifo, gone)]

\* A block is changed in place
Become(q, i, b) ==
  [q EXCEPT !.fifo[i] = b, !.lifo = ReplaceAll(q.lifo, q.fifo[i], b)]

\* Index of the first block at or after "end", and of the last block at or
\* before "start" (the searches of add)
After(fifo, end) ==
  LET i == SelectInSeq(fifo, LAMBDA b : b.s >= end)
  IN  IF i = 0 THEN Len(fifo) + 1 ELSE i
Before(fifo, start) == SelectLastInSeq(fifo, LAMBDA b : b.e <= start)

\* A block reaching back to rcv_nxt_ advances it to its end
Advance(q, b) == [q EXCEPT !.nxt = IF q.nxt >= b.s THEN b.e ELSE q.nxt]

Result(q, flag) == [queue |-> q, flag |-> flag]

\* Mutants of Link: a touching block is not coalesced; a coalesced block does
\* not move rcv_nxt_
LinkOnly(q, i, b) ==
  Result(Advance([q EXCEPT !.fifo = InsertAt(q.fifo, i + 1, b),
                           !.lifo = Cons(b, q.lifo)], b), b.f)

LinkNoAdvance(q, i, b) ==
  IF i > 0 /\ q.fifo[i].e = b.s
  THEN Result(Become(q, i, Block(q.fifo[i].s, b.e, q.fifo[i].f \/ b.f)), b.f)
  ELSE LinkOnly(q, i, b)

\* Mutant of Link: touching one neighbour is taken for filling the hole
LinkSpans(q, i, b) ==
  IF i > 0 /\ i < Len(q.fifo) /\ b.e = q.fifo[i+1].s
  THEN LET m == Block(q.fifo[i].s, q.fifo[i+1].e, b.f)
       IN  Result(Advance(Unlink(Become(q, i, m), q.fifo[i+1]), m), m.f)
  ELSE LinkNoAdvance(q, i, b)

Stretch(q, i, b) == Result(Advance(Become(q, i, b), b), b.f)

\* The new block b goes between the blocks i and i+1: coalesce when it touches
\* one of them, else it is linked and pushed on the stack.  When it fills the
\* hole between both, the flags of the block after it are dropped with it.
Link(q, i, b) ==
  LET joinsP == i > 0 /\ q.fifo[i].e = b.s
      joinsQ == i < Len(q.fifo) /\ b.e = q.fifo[i+1].s
  IN  IF joinsP /\ joinsQ
      THEN [Stretch(q, i, Block(q.fifo[i].s, q.fifo[i+1].e, q.fifo[i].f \/ b.f))
              EXCEPT !.queue = Unlink(@, q.fifo[i+1])]
      ELSE IF joinsP
      THEN Stretch(q, i, Block(q.fifo[i].s, b.e, q.fifo[i].f \/ b.f))
      ELSE IF joinsQ
      THEN Stretch(q, i + 1, Block(b.s, q.fifo[i+1].e, q.fifo[i+1].f \/ b.f))
      ELSE Result(Advance([q EXCEPT !.fifo = InsertAt(q.fifo, i + 1, b),
                                    !.lifo = Cons(b, q.lifo)], b), b.f)

\* What is left of b after block i, if anything, is linked
Fill(q, i, b) ==
  IF b.e <= b.s
  THEN Result(Advance(q, Block(q.fifo[1].s, q.fifo[1].e, b.f)), b.f)
  ELSE Link(q, i, b)

\* If b ends inside or beyond the last block it reaches, that block is
\* stretched in place
MergeRight(q, i, b) ==
  LET last == After(q.fifo, b.e) - 1
      r    == q.fifo[last]
  IN  IF last = Len(q.fifo) \/ r.e > b.e
      THEN Fill(Become(q, last, Block(r.s, Greater(r.e, b.e), r.f \/ b.f)), i,
                Block(b.s, r.s, b.f))
      ELSE Fill(q, i, b)

\* Merge b into the blocks it overlaps, none of which it covers: on the left and
\* on the right they are stretched in place, and what is left of b between them
\* is linked
Merge(q, b) ==
  LET i == Before(q.fifo, b.s) + 1
      l == q.fifo[i]
  IN  IF i = 1 \/ l.s < b.s
      THEN MergeRight(Become(q, i, Block(Lesser(l.s, b.s), l.e, l.f \/ b.f)), i,
                      Block(l.e, b.e, b.f))
      ELSE MergeRight(q, i - 1, b)

\* add for a block that covers no queued block
Place(q, b) ==
  LET n == Len(q.fifo)
  IN  IF n = 0 \/ b.s >= q.fifo[n].e THEN Link(q, n, b)
      ELSE IF b.e <= q.fifo[1].s THEN Link(q, 0, b)
      ELSE Merge(q, b)

\* Add the bytes of b; the flag returned is add's
Add(q, b) ==
  LET n    == Len(q.fifo)
      same == SelectInSeq(q.fifo, LAMBDA x : x.s = b.s /\ x.e = b.e)
      hit  == {x \in ToSet(SubSeq(q.fifo, 1, After(q.fifo, b.e) - 1)) :
                 b.s <= x.s /\ x.e <= b.e}
  IN  IF n = 0 \/ b.s >= q.fifo[n].e \/ b.e <= q.fifo[1].s THEN Place(q, b)
      ELSE IF same # 0
      THEN LET m == Block(b.s, b.e, b.f \/ q.fifo[same].f)
           IN  Result(Become(q, same, m), m.f)
      ELSE Place(Drop(q, hit), Block(b.s, b.e, b.f \/ \E x \in hit : x.f))

\* cleartonxt: drop the blocks that end at or below rcv_nxt_ and trim one that
\* straddles it; the flag is the union of theirs
Clearto(q) ==
  LET gone == {x \in ToSet(q.fifo) : x.e <= q.nxt}
      rest == Drop(q, gone)
      cut  == rest.fifo # <<>> /\ rest.fifo[1].s <= q.nxt
      h    == rest.fifo[1]
  IN  IF cut THEN Result(Become(rest, 1, Block(q.nxt, h.e, h.f)),
                         h.f \/ \E x \in gone : x.f)
      ELSE Result(rest, \E x \in gone : x.f)

\* gensack: the newest blocks, at most n of them
Gensack(q, n) == SubSeq(q.lifo, 1, Lesser(n, Len(q.lifo)))

\* nexthole: the first position from seq on that no block covers (or -1, when
\* no block ends at or above seq) and the number of blocks above it; a block
\* that ends at seq counts as covering it
Nexthole(q, seq) ==
  LET i == SelectInSeq(q.fifo, LAMBDA b : b.e >= seq)
  IN  IF i = 0 THEN [seq |-> -1, above |-> 0]
      ELSE IF q.fifo[i].s > seq THEN [seq |-> seq, above |-> Len(q.fifo) - i + 1]
      ELSE [seq |-> q.fifo[i].e, above |-> Len(q.fifo) - i]
==============================================================================

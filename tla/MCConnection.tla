---------------------------- MODULE MCConnection -----------------------------
(***************************************************************************)
(* Small instances of Connection: each application calls sendmsg once.  In  *)
(* OneSegment A sends less than a segment, whose acknowledgement is         *)
(* delayed, and B a whole one, which is acknowledged at once.               *)
(***************************************************************************)
EXTENDS Connection

OneCall     == [e \in End |-> 1]
OneSegment  == [e \in End |-> IF e = "A" THEN MSS - 1 ELSE MSS]
TwoSegments == [e \in End |-> IF e = "A" THEN 2 * MSS ELSE MSS]
==============================================================================

---------------------------- MODULE BlockTransfer ----------------------------
(***************************************************************************)
(* What one block transfer promises, whatever its acknowledgements and      *)
(* retransmissions do: the receiver hands N bytes to its application in     *)
(* order and takes none back, and the sender only ever counts as            *)
(* acknowledged a prefix the receiver has handed over.                      *)
(***************************************************************************)
EXTENDS Naturals

CONSTANT N   \* the size of the block, a natural number

VARIABLES got, acked   \* bytes handed over, bytes known to be handed over
bvars == <<got, acked>>

Init == got = 0 /\ acked = 0

\* One segment may fill a hole and so hand over several bytes
Deliver == got' \in (got + 1)..N /\ UNCHANGED acked
Confirm == acked' \in (acked + 1)..got /\ UNCHANGED got

Next == Deliver \/ Confirm
Spec == Init /\ [][Next]_bvars
==============================================================================

------------------------------ MODULE MCAckHold ------------------------------
(***************************************************************************)
(* What a comment of tcp-full.cc says of an AckHolding connection, stated   *)
(* on AckHold so that TLC can compare it with what the code does.           *)
(***************************************************************************)
EXTENDS AckHold

\* "retransmission here" (timeout_action): a timeout with unacknowledged data
\* sends the segment it resumes from.
TimeoutRetransmits ==
  [][ Timeout /\ highest_ack <= SRU => t_seqno' > Resume(highest_ack) ]_vars
==============================================================================

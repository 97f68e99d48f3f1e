------------------------------ MODULE MCSackFlow ------------------------------
(***************************************************************************)
(* SackFlow with three history variables, which tell how fast recovery came *)
(* about and what it has retransmitted.  They change nothing of what the    *)
(* flow does.                                                               *)
(***************************************************************************)
EXTENDS SackFlow

VARIABLES
  resent, \* the packets the present recovery has retransmitted
  left,   \* those of earlier recoveries, not acknowledged when it began
  second  \* it began although a timeout had begun to send everything again

mcvars == <<vars, resent, left, second>>

\* What the step sends, and what of it was sent before
Sent   == SubSeq(data', Len(data) + 1, Len(data'))
Resent == IF snd'.fast THEN {x \in ToSet(Sent) : x <= snd.max} ELSE {}

\* The packets of the recovery in which the step begins
Earlier == IF snd.fast THEN resent ELSE {}

Remember ==
  /\ resent' = IF snd'.fast THEN Earlier \cup Resent ELSE {}
  /\ left'   = IF snd'.fast THEN left ELSE {x \in left \cup Earlier : x > snd'.high}
  /\ second' = (/\ snd'.fast
                /\ IF snd.fast THEN second ELSE snd.recover > 0 /\ snd.high <= snd.recover)

MCInit == Init /\ resent = {} /\ left = {} /\ second = FALSE

MCNext == Next /\ Remember

MCSpec == MCInit /\ [][MCNext]_mcvars /\ Fairness

\* Fast recovery retransmits only what is lost: never a packet that the sink has
\* or that is under way, and no packet twice, and it never counts fewer than no
\* packets in the pipe (GetNextRetran, MarkRetran, send_much, recv).  There are
\* two exceptions.  After a timeout no recovery begins before everything sent is
\* acknowledged, except while only the SYN is (bugfix_ss_ in dupack_action): that
\* recovery goes on where the timeout has set t_seqno_ back to, whatever the sink
\* has.  And a packet beyond recover_ that an earlier recovery has retransmitted
\* may go out again: the full acknowledgement that ended it cleared the
\* scoreboard, and with it h_seqno_, and acknowledgements of both copies may then
\* be taken out of the pipe.
OnlyLost ==
  [][snd'.fast /\ ~second' =>
       /\ Resent \cap Earlier = {}
       /\ Resent \cap (Have \cup ToSet(data)) \subseteq left
       /\ IsInjective(Sent)
       /\ snd'.pipe < 0 => resent' \cap left' # {} ]_mcvars
==============================================================================

------------------------------ MODULE InputChannel ------------------------------
(***************************************************************************)
(* What a terminal promises about its input: while it is open, everything  *)
(* accepted reaches the shell once, in the order it was accepted.  Input   *)
(* may wait; only the end of the shell discards what still waits.          *)
(***************************************************************************)
EXTENDS Naturals, Sequences

CONSTANT Input

VARIABLES
  open,     \* is there a shell?
  waiting,  \* accepted and not yet written
  received  \* written to the shell, in order

channelVars == <<open, waiting, received>>

ChannelInit == open = FALSE /\ waiting = <<>> /\ received = <<>>

\* A shell starts, with a first command or without.
Open ==
  /\ ~open /\ open' = TRUE
  /\ \E first \in {<<>>} \cup {<<d>> : d \in Input} :
       \/ waiting' = first /\ received' = <<>>
       \/ waiting' = <<>> /\ received' = first

\* Input passes what waits only when nothing waits.
Accept ==
  /\ open /\ UNCHANGED open
  /\ \E d \in Input :
       \/ waiting' = Append(waiting, d) /\ UNCHANGED received
       \/ waiting = <<>> /\ received' = Append(received, d) /\ UNCHANGED waiting

Deliver ==
  /\ open /\ waiting # <<>>
  /\ received' = received \o waiting
  /\ waiting' = <<>>
  /\ UNCHANGED open

Close ==
  /\ open /\ open' = FALSE
  /\ waiting' = <<>>
  /\ UNCHANGED received

ChannelNext == Open \/ Accept \/ Deliver \/ Close

ChannelSpec == ChannelInit /\ [][ChannelNext]_channelVars

=============================================================================

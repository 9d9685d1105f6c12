----------------------------- MODULE BoundedFifo -----------------------------
(***************************************************************************)
(* What the message queue of ipc.c promises: a queue of at most Size       *)
(* messages, received in the order they were sent, which makes room by     *)
(* dropping the oldest one.  A process that dies inside a call may take    *)
(* the oldest message with it, and nothing else.                           *)
(***************************************************************************)
EXTENDS Integers, Sequences

CONSTANTS Messages, Size

VARIABLES
  queue,   \* the messages, oldest first
  out      \* what the last receive or peek returned: <<>> for -1

Init == queue = <<>> /\ out = <<>>

Send(m) ==
  /\ queue' = Append(IF Len(queue) < Size THEN queue ELSE Tail(queue), m)
  /\ UNCHANGED out

Receive ==
  \/ queue = <<>> /\ out' = <<>> /\ UNCHANGED queue
  \/ queue # <<>> /\ out' = <<Head(queue)>> /\ queue' = Tail(queue)

Peek ==
  /\ out' = IF queue = <<>> THEN <<>> ELSE <<Head(queue)>>
  /\ UNCHANGED queue

Clear == queue' = <<>> /\ UNCHANGED out

Lose == queue # <<>> /\ queue' = Tail(queue) /\ UNCHANGED out

Next == (\E m \in Messages : Send(m)) \/ Receive \/ Peek \/ Clear \/ Lose
=============================================================================

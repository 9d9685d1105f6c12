------------------------------ MODULE MsgQueue -------------------------------
(***************************************************************************)
(* The message queue in the shared memory segment of ipc.c: a ring of      *)
(* MAX_MESSAGES slots with a read and a write position and a count.        *)
(*                                                                         *)
(* Every function holds the reader-writer lock from its first to its last  *)
(* access, so that a call is one step (module RWLock has the lock).  A     *)
(* process killed inside a call leaves the stores it has made, and the     *)
(* kernel releases the lock for the others (SEM_UNDO): a Killed action is  *)
(* a call that ends after some of its stores.  Stores happen in the order  *)
(* of the source.  A call whose lock fails returns -1 and changes nothing. *)
(***************************************************************************)
EXTENDS Integers, Sequences

CONSTANTS
  Messages,   \* the messages that are sent
  Size        \* MAX_MESSAGES (100)

Blank == "blank"   \* a slot that holds no whole message

ASSUME SizeAssumption == Size \in Nat \ {0}
ASSUME MessagesAssumption == Blank \notin Messages

VARIABLES
  messages, head, tail, count,   \* the fields of MessageQueue
  out,         \* what the last msg_receive() or msg_peek() returned
  queueTorn    \* since the last msg_clear() a process was killed between two
               \* stores that belong together

queueVars == <<messages, head, tail, count, out, queueTorn>>

(* The positions stay inside the ring, whoever is killed wherever.         *)
QueueTypeOK ==
  /\ messages \in [0 .. Size - 1 -> Messages \union {Blank}]
  /\ head \in 0 .. Size - 1 /\ tail \in 0 .. Size - 1
  /\ count \in 0 .. Size
  /\ out \in {<<>>} \union {<<m>> : m \in Messages \union {Blank}}
  /\ queueTorn \in BOOLEAN

(* shm_init_master()                                                       *)
QueueInit ==
  /\ messages = [i \in 0 .. Size - 1 |-> Blank]
  /\ head = 0 /\ tail = 0 /\ count = 0
  /\ out = <<>>
  /\ queueTorn = FALSE

-----------------------------------------------------------------------------
(* (pos + 1) % MAX_MESSAGES                                                *)
Succ(pos) == (pos + 1) % Size

(* count >= MAX_MESSAGES                                                   *)
Full == count >= Size

(* A full queue drops its oldest message (and a mutant that only counts    *)
(* it as dropped).                                                         *)
HeadForgotten == head
MadeRoom == IF Full THEN Succ(head) ELSE head

Send(m) ==
  /\ head' = MadeRoom
  /\ count' = (IF Full THEN count - 1 ELSE count) + 1
  /\ messages' = [messages EXCEPT ![tail] = m]
  /\ tail' = Succ(tail)
  /\ UNCHANGED <<out, queueTorn>>

(* Killed after head, after count--, in the middle of memcpy(), after it,  *)
(* or after tail.                                                          *)
KilledSend(m) ==
  \E k \in 1 .. 5 :
    /\ head' = MadeRoom
    /\ count' = IF Full /\ k >= 2 THEN count - 1 ELSE count
    /\ messages' = CASE k < 3 -> messages
                     [] k = 3 -> [messages EXCEPT ![tail] = Blank]
                     [] k > 3 -> [messages EXCEPT ![tail] = m]
    /\ tail' = IF k = 5 THEN Succ(tail) ELSE tail
    /\ queueTorn' = (queueTorn \/ k = 5 \/ (k = 1 /\ Full))
    /\ UNCHANGED out

(* The message at the read position.                                       *)
Front == messages[head]

Receive ==
  \/ count = 0 /\ out' = <<>> /\ UNCHANGED <<messages, head, tail, count, queueTorn>>
  \/ /\ count # 0
     /\ out' = <<Front>>
     /\ head' = Succ(head) /\ count' = count - 1
     /\ UNCHANGED <<messages, tail, queueTorn>>

(* Killed after head, or after count: the message is gone with its reader. *)
KilledReceive ==
  /\ count # 0
  /\ head' = Succ(head)
  /\ \/ queueTorn' = TRUE /\ UNCHANGED count
     \/ count' = count - 1 /\ UNCHANGED queueTorn
  /\ UNCHANGED <<messages, tail, out>>

Peek ==
  /\ out' = IF count = 0 THEN <<>> ELSE <<Front>>
  /\ UNCHANGED <<messages, head, tail, count, queueTorn>>

(* What msg_clear() leaves in tail (and a mutant that leaves it alone).    *)
TailKept == tail
TailCleared == 0

Clear ==
  /\ head' = 0 /\ tail' = TailCleared /\ count' = 0
  /\ queueTorn' = FALSE
  /\ UNCHANGED <<messages, out>>

(* Killed after head, or after tail.                                       *)
KilledClear ==
  /\ head' = 0
  /\ tail' \in {tail, TailCleared}
  /\ queueTorn' = TRUE
  /\ UNCHANGED <<messages, count, out>>

QueueNext ==
  \/ \E m \in Messages : Send(m) \/ KilledSend(m)
  \/ Receive \/ KilledReceive \/ Peek \/ Clear \/ KilledClear

QueueSpec == QueueInit /\ [][QueueNext]_queueVars

-----------------------------------------------------------------------------
(* The messages in the ring, oldest first.                                 *)
Contents == [i \in 1 .. count |-> messages[(head + i - 1) % Size]]

Fifo == INSTANCE BoundedFifo WITH queue <- Contents

(* The ring implements the bounded FIFO, through every wrap-around and     *)
(* overflow, until a process is killed between two stores that belong      *)
(* together, and again after the next msg_clear().  Kills at any other     *)
(* place, in the middle of copying a message too, only lose a message.     *)
ImplementsFifo ==
  Fifo!Init /\ [][queueTorn' \/ Fifo!Next]_<<Contents, out>>

(* Until then the queue holds whole messages only: what a killed sender    *)
(* has written in part lies outside of the counted slots.                  *)
WholeMessages == queueTorn \/ \A i \in 1 .. count : Contents[i] # Blank
=============================================================================

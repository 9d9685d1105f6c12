---------------------------- MODULE SharedMemory -----------------------------
(***************************************************************************)
(* The shared memory of ipc.c: the message queue, the stock table and the  *)
(* worker table as shm_init_master() leaves them, changed by one call at a *)
(* time under the one lock of the segment, and the life of the segment and *)
(* the lock themselves.                                                    *)
(*                                                                         *)
(* No call touches two of these parts, so that every behaviour is an       *)
(* interleaving of independent behaviours of the parts, and a property of  *)
(* one part holds if it holds while only that part changes.                *)
(***************************************************************************)
EXTENDS MsgQueue, StockTable, WorkerTable, ShmSegment

VARIABLE part   \* the part the calls of this behaviour are about

vars == <<part, queueVars, stockVars, workerVars, segVars>>

TypeOK ==
  /\ part \in {"queue", "stocks", "workers", "segment"}
  /\ QueueTypeOK /\ StockTypeOK /\ WorkerTypeOK /\ SegTypeOK

Init ==
  /\ part \in {"queue", "stocks", "workers", "segment"}
  /\ QueueInit /\ StockInit /\ WorkerInit /\ SegInit

QueueCall == QueueNext /\ UNCHANGED <<stockVars, workerVars, segVars>>
StockCall == StockNext /\ UNCHANGED <<queueVars, workerVars, segVars>>
WorkerCall == WorkerNext /\ UNCHANGED <<queueVars, stockVars, segVars>>
SegmentCall == SegNext /\ UNCHANGED <<queueVars, stockVars, workerVars>>

Next ==
  /\ \/ part = "queue" /\ QueueCall
     \/ part = "stocks" /\ StockCall
     \/ part = "workers" /\ WorkerCall
     \/ part = "segment" /\ SegmentCall
  /\ UNCHANGED part

Spec == Init /\ [][Next]_vars
=============================================================================

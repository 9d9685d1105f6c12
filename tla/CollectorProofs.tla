--------------------------- MODULE CollectorProofs ---------------------------
(***************************************************************************)
(* collect_parallel() returns cleanly and with fresh results for every     *)
(* number of watched processes, and never waits for what cannot come.      *)
(*                                                                         *)
(* CleanReturn and FreshResult only speak of the moment of return.  What   *)
(* makes them inductive is what each loop has established for the slots    *)
(* it has passed.                                                          *)
(***************************************************************************)
EXTENDS Collector, TLAPS

(* The first loop owns slot idx and the ones after it, still untouched.    *)
Untouched ==
  pc \in {"pipe", "fork"} =>
    \A s \in Slot :
      /\ s > idx => rfd[s] = "unset"
      /\ s >= idx => kid[s] = "none"
      /\ pc = "pipe" /\ s = idx => rfd[s] = "unset"
      /\ pc = "fork" /\ s = idx => rfd[s] = "open"

(* A slot whose pipe exists has had its fork() tried; one whose pipe       *)
(* failed has no worker, ever.                                             *)
PipeAndWorker ==
  \A s \in Slot :
    /\ rfd[s] \in {"unset", "failed"} => kid[s] = "none"
    /\ pc \in {"read", "wait", "returned"} => rfd[s] # "unset"
    /\ rfd[s] \in {"open", "closed"} /\ ~(pc = "fork" /\ s = idx)
         => kid[s] # "none"
    /\ pc \in {"pipe", "fork"} /\ s < idx => rfd[s] # "unset"

(* The parent holds a write end only between a pipe() and its fork().      *)
WriteEndHeld ==
  \A s \in Slot : Parent \in wr[s] => pc = "fork" /\ s = idx

(* What the second loop has finished with slot s.                          *)
Collected(s) ==
  /\ kid[s] \in Settled
  /\ rfd[s] # "open"
  /\ curr[s] => pd[s]

Progress ==
  /\ pc \in {"read", "wait"} => \A s \in Slot : s < idx => Collected(s)
  /\ pc = "wait" => rfd[idx] = "closed" /\ (curr[idx] => pd[idx])
  /\ pc = "returned" => \A s \in Slot : Collected(s)

(* A worker samples once, before it writes: a flag that was read from a    *)
(* pipe is never revised.                                                  *)
SampledOnce ==
  \A s \in Slot : kid[s] \in {"none", "failed", "forked"} => ~pd[s] /\ buf[s] = "empty"

IInv ==
  /\ TypeOK /\ Untouched /\ PipeAndWorker /\ WriteEndHeld /\ Progress
  /\ SampledOnce

-----------------------------------------------------------------------------
(* The actions of the first loop.                                          *)
LEMMA FirstLoopStep ==
  ASSUME IInv, MakePipe \/ PipeFails \/ ForkWorker \/ ForkFails \/ AllForked
  PROVE  IInv'
<1> USE CountAssumption DEF Slot, Parent, Running, Settled, MoreSlots
<1>1. CASE MakePipe
  BY <1>1 DEF IInv, TypeOK, Untouched, PipeAndWorker, WriteEndHeld, Progress,
              SampledOnce, MakePipe
<1>2. CASE PipeFails
  BY <1>2 DEF IInv, TypeOK, Untouched, PipeAndWorker, WriteEndHeld, Progress,
              SampledOnce, PipeFails
<1>3. CASE ForkWorker
  BY <1>3 DEF IInv, TypeOK, Untouched, PipeAndWorker, WriteEndHeld, Progress,
              SampledOnce, ForkWorker, ParentCloses
<1>4. CASE ForkFails
  BY <1>4 DEF IInv, TypeOK, Untouched, PipeAndWorker, WriteEndHeld, Progress,
              SampledOnce, ForkFails, ParentCloses
<1>5. CASE AllForked
  BY <1>5 DEF IInv, TypeOK, Untouched, PipeAndWorker, WriteEndHeld, Progress,
              SampledOnce, AllForked
<1> QED BY <1>1, <1>2, <1>3, <1>4, <1>5

(* The actions of the second loop, the return and the next call.           *)
LEMMA SecondLoopStep ==
  ASSUME IInv, SkipSlot \/ ReadPipe \/ WaitChild \/ Return \/ CallAgain
  PROVE  IInv'
<1> USE CountAssumption DEF Slot, Parent, Running, Settled, MoreSlots
<1>1. CASE SkipSlot
  BY <1>1 DEF IInv, TypeOK, Untouched, PipeAndWorker, WriteEndHeld, Progress,
              SampledOnce, Collected, SkipSlot
<1>2. CASE ReadPipe
  BY <1>2 DEF IInv, TypeOK, Untouched, PipeAndWorker, WriteEndHeld, Progress,
              SampledOnce, Collected, ReadPipe, ValidAfterRead
<1>3. CASE WaitChild
  <2>1. \/ UNCHANGED kid /\ kid[idx] \in Settled
        \/ \E s \in Slot : Reap(s) /\ (s = idx \/ kid[idx] = "failed")
    BY <1>3 DEF WaitChild, WaitOwn, WaitAny, IInv, TypeOK
  <2>2. CASE UNCHANGED kid /\ kid[idx] \in Settled
    BY <1>3, <2>2 DEF IInv, TypeOK, Untouched, PipeAndWorker, WriteEndHeld,
              Progress, SampledOnce, Collected, WaitChild
  <2>3. CASE \E s \in Slot : Reap(s) /\ (s = idx \/ kid[idx] = "failed")
    BY <1>3, <2>3 DEF IInv, TypeOK, Untouched, PipeAndWorker, WriteEndHeld,
              Progress, SampledOnce, Collected, WaitChild, Reap
  <2> QED BY <2>1, <2>2, <2>3
<1>4. CASE Return
  BY <1>4 DEF IInv, TypeOK, Untouched, PipeAndWorker, WriteEndHeld, Progress,
              SampledOnce, Collected, Return
<1>5. CASE CallAgain
  BY <1>5 DEF IInv, TypeOK, Untouched, PipeAndWorker, WriteEndHeld, Progress,
              SampledOnce, CallAgain
<1> QED BY <1>1, <1>2, <1>3, <1>4, <1>5

(* The steps of a worker, its death, and the exit of a watched process.    *)
LEMMA WorkerPreserves ==
  ASSUME IInv, NEW s \in Slot, WorkerStep(s) \/ Killed(s) \/ TargetExits(s)
  PROVE  IInv'
<1> USE CountAssumption DEF Slot, Parent, Running, Settled
<1>1. CASE Sample(s)
  BY <1>1 DEF IInv, TypeOK, Untouched, PipeAndWorker, WriteEndHeld, Progress,
              SampledOnce, Collected, Sample
<1>2. CASE Write(s)
  <2>1. kid[s] \in {"sampled", "writing"} /\ kid'[s] \in {"writing", "wrote"}
    BY <1>2 DEF IInv, TypeOK, Write
  <2>2. \A t \in Slot : t # s => kid'[t] = kid[t] /\ buf'[t] = buf[t]
    BY <1>2 DEF IInv, TypeOK, Write
  <2>3. TypeOK'
    BY <1>2 DEF IInv, TypeOK, Write
  <2>4. UNCHANGED <<pc, idx, rfd, wr, pd, curr, live>>
    BY <1>2 DEF Write
  <2>5. (Untouched /\ PipeAndWorker /\ WriteEndHeld)'
    BY <2>1, <2>2, <2>4
    DEF IInv, TypeOK, Untouched, PipeAndWorker, WriteEndHeld
  <2>6. (Progress /\ SampledOnce)'
    BY <2>1, <2>2, <2>4 DEF IInv, TypeOK, Progress, SampledOnce, Collected
  <2> QED BY <2>3, <2>5, <2>6 DEF IInv
<1>3. CASE Exit(s) \/ Killed(s)
  <2>1. kid[s] \in Running /\ kid' = [kid EXCEPT ![s] = "zombie"]
    BY <1>3 DEF Exit, Killed, Die
  <2>2. wr' = [t \in Slot |-> wr[t] \ {s}]
    BY <1>3 DEF Exit, Killed, Die
  <2>3. UNCHANGED <<pc, idx, rfd, buf, pd, curr, live>>
    BY <1>3 DEF Exit, Killed, Die
  <2>4. (TypeOK /\ WriteEndHeld)'
    BY <2>1, <2>2, <2>3 DEF IInv, TypeOK, WriteEndHeld
  <2>5. (Untouched /\ PipeAndWorker)'
    BY <2>1, <2>3 DEF IInv, TypeOK, Untouched, PipeAndWorker
  <2>6. (Progress /\ SampledOnce)'
    BY <2>1, <2>3 DEF IInv, TypeOK, Progress, SampledOnce, Collected
  <2> QED BY <2>4, <2>5, <2>6 DEF IInv
<1>4. CASE TargetExits(s)
  BY <1>4 DEF IInv, TypeOK, Untouched, PipeAndWorker, WriteEndHeld, Progress,
              SampledOnce, Collected, TargetExits
<1> QED BY <1>1, <1>2, <1>3, <1>4 DEF WorkerStep

LEMMA Invariance == Spec => []IInv
<1>1. Init => IInv
  BY CountAssumption
  DEF Init, IInv, TypeOK, Untouched, PipeAndWorker, WriteEndHeld, Progress,
      SampledOnce, Slot, Parent, Running, Settled
<1>2. IInv /\ [Next]_vars => IInv'
  <2> SUFFICES ASSUME IInv, [Next]_vars PROVE IInv'
    OBVIOUS
  <2>1. CASE ParentStep \/ CallAgain
    BY <2>1, FirstLoopStep, SecondLoopStep DEF ParentStep
  <2>2. CASE \E s \in Slot : WorkerStep(s) \/ Killed(s) \/ TargetExits(s)
    BY <2>2, WorkerPreserves
  <2>3. CASE UNCHANGED vars
    BY <2>3 DEF vars, IInv, TypeOK, Untouched, PipeAndWorker, WriteEndHeld,
                Progress, SampledOnce, Collected
  <2> QED BY <2>1, <2>2, <2>3 DEF Next
<1> QED BY <1>1, <1>2, PTL DEF Spec

(* For every Count, collect_parallel() stays within its arrays: idx is a   *)
(* slot whenever the code indexes pipes, children or curr with it.         *)
THEOREM CollectorTypeCorrect == Spec => []TypeOK
<1>1. IInv => TypeOK
  BY DEF IInv
<1> QED BY <1>1, Invariance, PTL

(* For every Count, collect_parallel() returns with every worker reaped    *)
(* and every pipe end of the parent closed.                                *)
THEOREM CollectorCleanReturn == Spec => []CleanReturn
<1>1. IInv => CleanReturn
  BY DEF IInv, Progress, Collected, WriteEndHeld, CleanReturn
<1> QED BY <1>1, Invariance, PTL

(* For every Count, no slot is valid on return unless this call's worker   *)
(* found the target alive.                                                 *)
THEOREM CollectorFreshResult == Spec => []FreshResult
<1>1. IInv => FreshResult
  BY DEF IInv, Progress, Collected, FreshResult
<1> QED BY <1>1, Invariance, PTL

-----------------------------------------------------------------------------
(***************************************************************************)
(* A call never gets stuck, which is what CollectReturns needs besides the *)
(* fairness of the scheduler: when the parent is blocked in read() or      *)
(* waitpid(), a worker that it waits for is running, and a worker is       *)
(* never blocked.                                                          *)
(***************************************************************************)

(* The guards of ParentStep, and the slots whose workers can end a wait.   *)
ParentReady ==
  \/ pc \in {"pipe", "fork"}
  \/ /\ pc = "read"
     /\ MoreSlots => \/ rfd[idx] = "failed"
                     \/ rfd[idx] = "open" /\ (buf[idx] # "empty" \/ wr[idx] = {})
  \/ pc = "wait" /\ kid[idx] \in {"zombie", "reaped"}
  \/ /\ pc = "wait" /\ kid[idx] = "failed"
     /\ (\E s \in Slot : kid[s] = "zombie") \/ (\A s \in Slot : kid[s] \in Settled)

WaitsFor ==
  {s \in Slot : \/ pc = "read" /\ s \in wr[idx]
                \/ pc = "wait" /\ (s = idx \/ kid[idx] = "failed")}

NeverStuck ==
  pc # "returned" /\ ~ParentReady => \E s \in WaitsFor : kid[s] \in Running

(* Who has a write end runs, and the pipes that are still to be read have  *)
(* not been closed.                                                        *)
EndsInv ==
  /\ \A s, t \in Slot : t \in wr[s] => kid[t] \in Running
  /\ \A s \in Slot :
       \/ pc \in {"pipe", "fork"} /\ s < idx
       \/ pc = "read" /\ s >= idx
       \/ pc = "wait" /\ s > idx
       => rfd[s] \in {"failed", "open"}

LEMMA EndsParent ==
  ASSUME IInv, EndsInv, ParentStep \/ CallAgain
  PROVE  EndsInv'
<1> USE CountAssumption DEF Slot, Parent, Running, Settled, MoreSlots
<1>1. CASE MakePipe
  BY <1>1 DEF IInv, TypeOK, EndsInv, MakePipe
<1>2. CASE PipeFails
  BY <1>2 DEF IInv, TypeOK, EndsInv, PipeFails
<1>3. CASE ForkWorker
  BY <1>3 DEF IInv, TypeOK, Untouched, EndsInv, ForkWorker, ParentCloses
<1>4. CASE ForkFails
  BY <1>4 DEF IInv, TypeOK, Untouched, EndsInv, ForkFails, ParentCloses
<1>5. CASE AllForked
  BY <1>5 DEF IInv, TypeOK, EndsInv, AllForked
<1>6. CASE SkipSlot
  BY <1>6 DEF IInv, TypeOK, EndsInv, SkipSlot
<1>7. CASE ReadPipe
  BY <1>7 DEF IInv, TypeOK, EndsInv, ReadPipe
<1>8. CASE WaitChild
  <2>1. \A t \in Slot : kid[t] \in Running => kid'[t] \in Running
    BY <1>8 DEF WaitChild, WaitOwn, WaitAny, Reap, IInv, TypeOK
  <2> QED BY <1>8, <2>1 DEF IInv, TypeOK, EndsInv, WaitChild
<1>9. CASE Return
  BY <1>9 DEF IInv, TypeOK, EndsInv, Return
<1>10. CASE CallAgain
  BY <1>10 DEF IInv, TypeOK, EndsInv, CallAgain
<1> QED BY <1>1, <1>2, <1>3, <1>4, <1>5, <1>6, <1>7, <1>8, <1>9, <1>10 DEF ParentStep

LEMMA EndsWorker ==
  ASSUME IInv, EndsInv, NEW s \in Slot, WorkerStep(s) \/ Killed(s) \/ TargetExits(s)
  PROVE  EndsInv'
<1>1. /\ UNCHANGED <<pc, idx, rfd>>
      /\ \A t \in Slot : wr'[t] \subseteq wr[t]
      /\ \A t \in Slot : t # s => kid'[t] = kid[t]
      /\ kid'[s] \in Running \/ kid'[s] = kid[s] \/ \A t \in Slot : s \notin wr'[t]
  BY DEF WorkerStep, Sample, Write, Exit, Killed, Die, TargetExits, IInv, TypeOK, Running
<1> QED BY <1>1 DEF EndsInv

LEMMA EndsInvariance == Spec => [](IInv /\ EndsInv)
<1>1. Init => EndsInv
  BY CountAssumption DEF Init, EndsInv, Slot
<1>2. IInv /\ EndsInv /\ [Next]_vars => EndsInv'
  <2>1. IInv /\ EndsInv /\ UNCHANGED vars => EndsInv'
    BY DEF vars, EndsInv
  <2> QED BY <2>1, EndsParent, EndsWorker DEF Next
<1> QED BY <1>1, <1>2, Invariance, PTL DEF Spec

(* For every Count, collect_parallel() never waits for what cannot come:   *)
(* a blocked read() has a running worker at the other end of the pipe, and *)
(* a blocked waitpid() a running worker to wait for.                       *)
THEOREM CollectorNeverStuck == Spec => []NeverStuck
<1>1. IInv /\ EndsInv => NeverStuck
  <2> SUFFICES ASSUME IInv, EndsInv, pc # "returned", ~ParentReady
               PROVE  \E s \in WaitsFor : kid[s] \in Running
    BY DEF NeverStuck
  <2> USE CountAssumption DEF Slot, MoreSlots
  <2>1. pc \in {"read", "wait"}
    BY DEF ParentReady, IInv, TypeOK
  <2>2. CASE pc = "read"
    <3>1. idx \in Slot /\ rfd[idx] = "open" /\ wr[idx] # {}
      BY <2>2 DEF ParentReady, EndsInv, IInv, TypeOK
    <3>2. Parent \notin wr[idx]
      BY <2>2, <3>1 DEF IInv, WriteEndHeld
    <3>3. PICK s \in Slot : s \in wr[idx]
      BY <3>1, <3>2 DEF IInv, TypeOK
    <3> QED BY <2>2, <3>1, <3>3 DEF WaitsFor, EndsInv
  <2>3. CASE pc = "wait"
    <3>1. idx \in Slot /\ kid[idx] # "none"
      BY <2>3 DEF IInv, TypeOK, Progress, PipeAndWorker
    <3>2. kid[idx] \in Running \union {"failed"}
      BY <2>3, <3>1 DEF ParentReady, IInv, TypeOK, Settled
    <3>3. CASE kid[idx] = "failed"
      BY <2>3, <3>3 DEF ParentReady, WaitsFor, IInv, TypeOK
    <3> QED BY <2>3, <3>1, <3>2, <3>3 DEF WaitsFor
  <2> QED BY <2>1, <2>2, <2>3
<1> QED BY <1>1, EndsInvariance, PTL
=============================================================================

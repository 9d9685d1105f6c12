------------------------------ MODULE Collector ------------------------------
(***************************************************************************)
(* collect_parallel() of monitor.c: the parent makes one pipe and forks    *)
(* one worker per watched PID; each worker samples its target with         *)
(* get_process_data(), writes the ProcessData struct into its pipe and     *)
(* exits.  A second loop reads the pipes in order and reaps the workers.   *)
(*                                                                         *)
(* Slots are the indices of the arrays pids, curr, pipes and children.     *)
(* Everything in a ProcessData except its valid flag is abstracted away.   *)
(* pipe() and fork() may fail, a worker may be killed, a target may exit   *)
(* at any moment, and a write longer than PIPE_BUF may become visible in   *)
(* two parts.  SA_RESTART (alert.c) keeps signals from interrupting read() *)
(* and waitpid(), and SIGPIPE is ignored.                                  *)
(***************************************************************************)
EXTENDS Integers

CONSTANT Count      \* the argument `count`

ASSUME CountAssumption == Count \in Nat

Slot == 0 .. Count - 1

Parent == -1        \* the calling process, as a holder of write ends

VARIABLES
  pc,    \* where the parent is: "pipe", "fork", "read", "wait", "returned"
  idx,   \* the loop variable of the loop the parent is in
  rfd,   \* pipes[s][0] in the parent: "unset", "failed" (-1), "open", "closed"
  wr,    \* the processes that have pipe s open for writing
  buf,   \* what pipe s holds: "empty", "part" or "full" of a ProcessData
  kid,   \* children[s] and the state of that worker
  pd,    \* the valid flag of the worker's own ProcessData
  curr,  \* curr[s].valid, which survives from one call to the next
  live   \* the slots whose target process exists

vars == <<pc, idx, rfd, wr, buf, kid, pd, curr, live>>

(* "none": no fork() was reached, "failed": fork() returned -1.            *)
Running == {"forked", "sampled", "writing", "wrote"}
Settled == {"none", "failed", "reaped"}

TypeOK ==
  /\ pc \in {"pipe", "fork", "read", "wait", "returned"}
  /\ idx \in 0 .. Count
  /\ pc \in {"fork", "wait"} => idx \in Slot
  /\ rfd \in [Slot -> {"unset", "failed", "open", "closed"}]
  /\ wr \in [Slot -> SUBSET (Slot \union {Parent})]
  /\ buf \in [Slot -> {"empty", "part", "full"}]
  /\ kid \in [Slot -> Running \union Settled \union {"zombie"}]
  /\ pd \in [Slot -> BOOLEAN]
  /\ curr \in [Slot -> BOOLEAN]
  /\ live \in SUBSET Slot

(* Nothing is known of curr: it holds the previous refresh.                *)
Init ==
  /\ pc = "pipe" /\ idx = 0
  /\ rfd = [s \in Slot |-> "unset"]
  /\ wr = [s \in Slot |-> {}]
  /\ buf = [s \in Slot |-> "empty"]
  /\ kid = [s \in Slot |-> "none"]
  /\ pd = [s \in Slot |-> FALSE]
  /\ curr \in [Slot -> BOOLEAN]
  /\ live \in SUBSET Slot

-----------------------------------------------------------------------------
(* The first loop: pipe(), fork(), close(pipes[i][1]).                     *)

(* i < count, the condition of both loops.                                 *)
MoreSlots == idx < Count

MakePipe ==
  /\ pc = "pipe" /\ MoreSlots
  /\ rfd' = [rfd EXCEPT ![idx] = "open"]
  /\ wr' = [wr EXCEPT ![idx] = {Parent}]
  /\ pc' = "fork"
  /\ UNCHANGED <<idx, buf, kid, pd, curr, live>>

PipeFails ==
  /\ pc = "pipe" /\ MoreSlots
  /\ rfd' = [rfd EXCEPT ![idx] = "failed"]
  /\ idx' = idx + 1
  /\ UNCHANGED <<pc, wr, buf, kid, pd, curr, live>>

(* What close(pipes[i][1]) after the fork takes from the parent (and a      *)
(* mutant that forgets it).                                                *)
ParentKeepsWriteEnd(s) == {}
ParentCloses(s) == IF s = idx THEN {Parent} ELSE {}

(* A worker inherits every descriptor the parent has open at the fork.     *)
ForkWorker ==
  /\ pc = "fork"
  /\ kid' = [kid EXCEPT ![idx] = "forked"]
  /\ wr' = [s \in Slot |->
              (IF Parent \in wr[s] THEN wr[s] \union {idx} ELSE wr[s])
                \ ParentCloses(s)]
  /\ pc' = "pipe" /\ idx' = idx + 1
  /\ UNCHANGED <<rfd, buf, pd, curr, live>>

ForkFails ==
  /\ pc = "fork"
  /\ kid' = [kid EXCEPT ![idx] = "failed"]
  /\ wr' = [s \in Slot |-> wr[s] \ ParentCloses(s)]
  /\ pc' = "pipe" /\ idx' = idx + 1
  /\ UNCHANGED <<rfd, buf, pd, curr, live>>

AllForked ==
  /\ pc = "pipe" /\ ~MoreSlots
  /\ pc' = "read" /\ idx' = 0
  /\ UNCHANGED <<rfd, wr, buf, kid, pd, curr, live>>

-----------------------------------------------------------------------------
(* The second loop: read(), close(pipes[i][0]), waitpid().                 *)

SkipSlot ==
  /\ pc = "read" /\ MoreSlots
  /\ rfd[idx] = "failed"
  /\ curr' = [curr EXCEPT ![idx] = FALSE]
  /\ idx' = idx + 1
  /\ UNCHANGED <<pc, rfd, wr, buf, kid, pd, live>>

(* curr[s].valid after read(): a count other than sizeof(ProcessData)       *)
(* clears it (and a mutant that ignores the count).                        *)
ValidUnchecked(s) == IF buf[s] = "full" THEN pd[s] ELSE curr[s]
ValidAfterRead(s) == buf[s] = "full" /\ pd[s]

(* read() blocks until there is data or no process holds the write end.    *)
ReadPipe ==
  /\ pc = "read" /\ MoreSlots
  /\ rfd[idx] = "open"
  /\ buf[idx] # "empty" \/ wr[idx] = {}
  /\ curr' = [curr EXCEPT ![idx] = ValidAfterRead(idx)]
  /\ rfd' = [rfd EXCEPT ![idx] = "closed"]
  /\ pc' = "wait"
  /\ UNCHANGED <<idx, wr, buf, kid, pd, live>>

Reap(s) ==
  /\ kid[s] = "zombie"
  /\ kid' = [kid EXCEPT ![s] = "reaped"]

(* waitpid(children[i]): blocks until that worker has exited, or fails with *)
(* ECHILD when it was already reaped (and a mutant that waits only for the *)
(* workers that delivered).                                                *)
WaitOwnIfValid ==
  IF curr[idx] THEN Reap(idx) ELSE kid[idx] # "failed" /\ UNCHANGED kid
WaitOwn ==
  \/ Reap(idx)
  \/ kid[idx] = "reaped" /\ UNCHANGED kid

(* After a failed fork children[i] is -1, and waitpid(-1) takes whichever   *)
(* worker exits first, or fails with ECHILD when there is none left.       *)
WaitAny ==
  /\ kid[idx] = "failed"
  /\ \/ \E s \in Slot : Reap(s)
     \/ (\A s \in Slot : kid[s] \in Settled) /\ UNCHANGED kid

WaitChild ==
  /\ pc = "wait"
  /\ WaitOwn \/ WaitAny
  /\ pc' = "read" /\ idx' = idx + 1
  /\ UNCHANGED <<rfd, wr, buf, pd, curr, live>>

Return ==
  /\ pc = "read" /\ ~MoreSlots
  /\ pc' = "returned"
  /\ UNCHANGED <<idx, rfd, wr, buf, kid, pd, curr, live>>

(* The next refresh: the caller may have changed the PIDs; the pipes and   *)
(* children arrays are new locals; curr is the same array as before.       *)
CallAgain ==
  /\ pc = "returned"
  /\ pc' = "pipe" /\ idx' = 0
  /\ rfd' = [s \in Slot |-> "unset"]
  /\ wr' = [s \in Slot |-> {}]
  /\ buf' = [s \in Slot |-> "empty"]
  /\ kid' = [s \in Slot |-> "none"]
  /\ pd' = [s \in Slot |-> FALSE]
  /\ live' \in SUBSET Slot
  /\ UNCHANGED curr

ParentStep ==
  \/ MakePipe \/ PipeFails \/ ForkWorker \/ ForkFails \/ AllForked
  \/ SkipSlot \/ ReadPipe \/ WaitChild \/ Return

-----------------------------------------------------------------------------
(* The worker of slot s.                                                   *)

(* get_process_data() sets valid only if the target answered.              *)
Sample(s) ==
  /\ kid[s] = "forked"
  /\ kid' = [kid EXCEPT ![s] = "sampled"]
  /\ pd' = [pd EXCEPT ![s] = s \in live]
  /\ UNCHANGED <<pc, idx, rfd, wr, buf, curr, live>>

(* write() of a struct longer than PIPE_BUF, in one or in two parts.       *)
Write(s) ==
  /\ \/ kid[s] = "sampled" /\ kid' = [kid EXCEPT ![s] = "writing"]
                           /\ buf' = [buf EXCEPT ![s] = "part"]
     \/ kid[s] \in {"sampled", "writing"}
                           /\ kid' = [kid EXCEPT ![s] = "wrote"]
                           /\ buf' = [buf EXCEPT ![s] = "full"]
  /\ UNCHANGED <<pc, idx, rfd, wr, pd, curr, live>>

Die(s) ==
  /\ kid' = [kid EXCEPT ![s] = "zombie"]
  /\ wr' = [t \in Slot |-> wr[t] \ {s}]
  /\ UNCHANGED <<pc, idx, rfd, buf, pd, curr, live>>

(* close(pipes[i][1]); _exit(0)                                            *)
Exit(s) == kid[s] = "wrote" /\ Die(s)

(* The kernel or another process kills a worker before it is done.         *)
Killed(s) == kid[s] \in Running /\ Die(s)

WorkerStep(s) == Sample(s) \/ Write(s) \/ Exit(s)

(* A watched process exits.                                                *)
TargetExits(s) ==
  /\ s \in live
  /\ live' = live \ {s}
  /\ UNCHANGED <<pc, idx, rfd, wr, buf, kid, pd, curr>>

Next ==
  \/ ParentStep
  \/ CallAgain
  \/ \E s \in Slot : WorkerStep(s) \/ Killed(s) \/ TargetExits(s)

(* The scheduler keeps running the parent and every worker; nothing forces *)
(* another call, a kill or the exit of a target.                           *)
Fairness ==
  /\ WF_vars(ParentStep)
  /\ \A s \in Slot : WF_vars(WorkerStep(s))

Spec == Init /\ [][Next]_vars /\ Fairness

-----------------------------------------------------------------------------
(* When collect_parallel() returns, every worker it forked is reaped and   *)
(* no pipe end is left open in the parent, whichever calls of pipe() and   *)
(* fork() failed and whichever worker waitpid(-1) happened to take.        *)
CleanReturn ==
  pc = "returned" =>
    \A s \in Slot : /\ kid[s] \in Settled
                    /\ rfd[s] # "open"
                    /\ Parent \notin wr[s]

(* When collect_parallel() returns, a slot is valid only if the worker of  *)
(* this very call found its target alive: a failed pipe or fork, a killed  *)
(* worker or a short read never leaves the previous refresh's flag behind. *)
FreshResult ==
  pc = "returned" => \A s \in Slot : curr[s] => pd[s]

(* Every call of collect_parallel() returns: read() always gets data or    *)
(* end of file, and waitpid() always finds a worker that has exited.       *)
CollectReturns == (pc # "returned") ~> (pc = "returned")
=============================================================================

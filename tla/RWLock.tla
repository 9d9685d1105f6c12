------------------------------- MODULE RWLock --------------------------------
(***************************************************************************)
(* The reader-writer lock of ipc.c, built from a System V semaphore set:   *)
(* SEM_MUTEX (initially 1), SEM_READERS (a count kept in a semaphore,      *)
(* initially 0) and SEM_WRITERS (initially 1, set by shm_init).            *)
(*                                                                         *)
(* One step is one semop() or one semctl(GETVAL).  Every semop() carries   *)
(* SEM_UNDO: the kernel remembers per process what it has to add to the    *)
(* semaphore when that process exits.  EINTR makes sem_wait() try again,   *)
(* so it is no step.  semop() fails with ERANGE when an adjustment would   *)
(* leave the system's range, and with EIDRM or EINVAL once the set is      *)
(* removed (sem_destroy(), or sem_create() called by a second instance);   *)
(* GETVAL then returns -1.                                                 *)
(***************************************************************************)
EXTENDS Integers, FiniteSets

CONSTANTS
  Readers,   \* the processes that call rwlock_read_lock()
  Writers,   \* the processes that call rwlock_write_lock(); the two may overlap
  MaxAdj     \* the system's limit on an undo adjustment (SEMAEM)

Procs == Readers \union Writers

ASSUME ProcsAssumption == IsFiniteSet(Procs)
ASSUME MaxAdjAssumption == MaxAdj \in Nat \ {0}

Sem == {"mutex", "readers", "writers"}

VARIABLES
  pc,     \* where each process is in the lock's functions
  sem,    \* the values of the semaphores
  adj,    \* the undo adjustment of each process for each semaphore
  gone    \* the set was removed

vars == <<pc, sem, adj, gone>>

(* "reading" and "writing" are the caller's critical sections.             *)
TypeOK ==
  /\ pc \in [Procs -> {"idle", "r_mutex", "r_inc", "r_check", "r_waitw",
                       "r_rel", "f_dec", "f_rel", "reading", "u_mutex",
                       "u_dec", "u_check", "u_sigw", "u_rel", "w_wait",
                       "writing", "w_sig"}]
  /\ sem \in [Sem -> Nat]
  /\ adj \in [Procs -> [Sem -> -MaxAdj .. MaxAdj]]
  /\ gone \in BOOLEAN

Init ==
  /\ pc = [p \in Procs |-> "idle"]
  /\ sem = [n \in Sem |-> IF n = "readers" THEN 0 ELSE 1]
  /\ adj = [p \in Procs |-> [n \in Sem |-> 0]]
  /\ gone = FALSE

Goto(p, l) == pc' = [pc EXCEPT ![p] = l]

-----------------------------------------------------------------------------
(* semop() with SEM_UNDO: add d to semaphore n and remember -d (and a       *)
(* mutant without the flag).                                               *)
SemOpNoUndo(p, n, d) ==
  /\ sem' = [sem EXCEPT ![n] = @ + d]
  /\ UNCHANGED adj
SemOp(p, n, d) ==
  /\ sem' = [sem EXCEPT ![n] = @ + d]
  /\ adj' = [adj EXCEPT ![p][n] = @ - d]

Fails(p, n, d) == gone \/ adj[p][n] - d \notin -MaxAdj .. MaxAdj

(* sem_wait() is blocked at 0; on an error it returns -1 and the caller    *)
(* goes to label err.                                                      *)
SemWait(p, n, ok, err) ==
  /\ gone \/ sem[n] > 0
  /\ \/ ~Fails(p, n, -1) /\ SemOp(p, n, -1) /\ Goto(p, ok)
     \/ Fails(p, n, -1) /\ Goto(p, err) /\ UNCHANGED <<sem, adj>>

SemSignal(p, n, ok, err) ==
  \/ ~Fails(p, n, 1) /\ SemOp(p, n, 1) /\ Goto(p, ok)
  \/ Fails(p, n, 1) /\ Goto(p, err) /\ UNCHANGED <<sem, adj>>

(* semctl(semid, SEM_READERS, GETVAL)                                      *)
ReaderCount == IF gone THEN -1 ELSE sem["readers"]

-----------------------------------------------------------------------------
(* rwlock_read_lock().  The reader count includes the caller when it is    *)
(* read (and a mutant that believes it does not).                          *)
FirstReaderStale == ReaderCount = 0
FirstReader == ReaderCount = 1

ReadLock(p) ==
  /\ p \in Readers
  /\ pc[p] = "idle" /\ Goto(p, "r_mutex")
  /\ UNCHANGED <<sem, adj, gone>>

(* f_dec and f_rel undo the count and the mutex on the way to return -1.  *)
ReadLockStep(p) ==
  /\ \/ pc[p] = "r_mutex" /\ SemWait(p, "mutex", "r_inc", "idle")
     \/ pc[p] = "r_inc" /\ SemSignal(p, "readers", "r_check", "f_rel")
     \/ /\ pc[p] = "r_check"
        /\ Goto(p, IF FirstReader THEN "r_waitw" ELSE "r_rel")
        /\ UNCHANGED <<sem, adj>>
     \/ pc[p] = "r_waitw" /\ SemWait(p, "writers", "r_rel", "f_dec")
     \/ pc[p] = "r_rel" /\ SemSignal(p, "mutex", "reading", "reading")
     \/ pc[p] = "f_dec" /\ SemWait(p, "readers", "f_rel", "f_rel")
     \/ pc[p] = "f_rel" /\ SemSignal(p, "mutex", "idle", "idle")
  /\ UNCHANGED gone

(* rwlock_read_unlock() (and a mutant that lets a reader too early believe *)
(* it is the last).                                                        *)
LastReaderOffByOne == ReaderCount = 1
LastReader == ReaderCount = 0

ReadUnlock(p) ==
  /\ pc[p] = "reading" /\ Goto(p, "u_mutex")
  /\ UNCHANGED <<sem, adj, gone>>

ReadUnlockStep(p) ==
  /\ \/ pc[p] = "u_mutex" /\ SemWait(p, "mutex", "u_dec", "idle")
     \/ pc[p] = "u_dec" /\ SemWait(p, "readers", "u_check", "f_rel")
     \/ /\ pc[p] = "u_check"
        /\ Goto(p, IF LastReader THEN "u_sigw" ELSE "u_rel")
        /\ UNCHANGED <<sem, adj>>
     \/ pc[p] = "u_sigw" /\ SemSignal(p, "writers", "u_rel", "u_rel")
     \/ pc[p] = "u_rel" /\ SemSignal(p, "mutex", "idle", "idle")
  /\ UNCHANGED gone

(* rwlock_write_lock() and rwlock_write_unlock()                           *)
WriteLock(p) ==
  /\ p \in Writers
  /\ pc[p] = "idle" /\ Goto(p, "w_wait")
  /\ UNCHANGED <<sem, adj, gone>>

WriteLockStep(p) ==
  /\ pc[p] = "w_wait" /\ SemWait(p, "writers", "writing", "idle")
  /\ UNCHANGED gone

WriteUnlock(p) ==
  /\ pc[p] = "writing" /\ Goto(p, "w_sig")
  /\ UNCHANGED <<sem, adj, gone>>

WriteUnlockStep(p) ==
  /\ pc[p] = "w_sig" /\ SemSignal(p, "writers", "idle", "idle")
  /\ UNCHANGED gone

(* What a process does on its own once it has started a call, and what it  *)
(* does to leave a critical section.                                       *)
Step(p) ==
  \/ ReadLockStep(p) \/ ReadUnlock(p) \/ ReadUnlockStep(p)
  \/ WriteLockStep(p) \/ WriteUnlock(p) \/ WriteUnlockStep(p)

-----------------------------------------------------------------------------
(* A process ends, anywhere, by exit or by a signal; the kernel applies    *)
(* its adjustments, never below zero, and another process takes its place. *)
Exit(p) ==
  /\ ~gone
  /\ sem' = [n \in Sem |-> IF sem[n] + adj[p][n] < 0 THEN 0 ELSE sem[n] + adj[p][n]]
  /\ adj' = [adj EXCEPT ![p] = [n \in Sem |-> 0]]
  /\ Goto(p, "idle")
  /\ UNCHANGED gone

(* semctl(IPC_RMID)                                                        *)
Destroy ==
  /\ ~gone
  /\ gone' = TRUE
  /\ UNCHANGED <<pc, sem, adj>>

LockNext == \E p \in Procs : ReadLock(p) \/ WriteLock(p) \/ Step(p)

(* Every process that is inside a call or a critical section keeps going   *)
(* while it can.  Nothing is assumed about which of several waiters gets a *)
(* semaphore.                                                              *)
Fairness == \A p \in Procs : WF_vars(Step(p))

Spec == Init /\ [][LockNext]_vars /\ Fairness

(* The same with processes that exit and a set that may be removed.        *)
NextFaults == LockNext \/ Destroy \/ \E p \in Procs : Exit(p)
SpecFaults == Init /\ [][NextFaults]_vars /\ Fairness

-----------------------------------------------------------------------------
(* While the set exists a writer is alone: no other writer and no reader   *)
(* is in its critical section at the same time.                            *)
Exclusion ==
  \A p, q \in Procs :
    ~gone /\ pc[p] = "writing" /\ pc[q] \in {"reading", "writing"} => p = q

(* The processes counted in SEM_READERS.                                   *)
CountedAt ==
  {"r_check", "r_waitw", "f_dec", "r_rel", "reading", "u_mutex", "u_dec"}
Counted == {p \in Procs : pc[p] \in CountedAt}

(* While the set exists SEM_READERS is the number of processes between its *)
(* increment and its decrement, also after processes died in the middle of *)
(* either function: the test for the first and for the last reader decides *)
(* on a true count.                                                        *)
ReaderCountExact == ~gone => sem["readers"] = Cardinality(Counted)

Moving ==
  \/ \A p \in Procs : pc[p] = "idle"
  \/ \E p \in Procs : pc[p] \in {"reading", "writing"}

(* However many processes have died, and wherever in the lock they did:    *)
(* once no more die, again and again somebody is in a critical section or  *)
(* nobody wants to be, or the set is gone.                                 *)
LockProgress == <>[][LockNext]_vars => []<>(Moving \/ gone)

(* The lock does not get stuck while no adjustment has reached the end of  *)
(* its range: readers and writers never all wait for each other.           *)
LockProgressInRange ==
  []<>(Moving \/ \E p \in Procs : adj[p]["writers"] \in {-MaxAdj, MaxAdj})

(* When no process is inside the lock of an existing set, it is free:      *)
(* nothing that readers, writers or deaths did is left in the semaphores.  *)
AllReleased ==
  ~gone /\ (\A p \in Procs : pc[p] = "idle") =>
    sem["mutex"] = 1 /\ sem["readers"] = 0 /\ sem["writers"] = 1
=============================================================================

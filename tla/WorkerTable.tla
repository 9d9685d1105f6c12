----------------------------- MODULE WorkerTable -----------------------------
(***************************************************************************)
(* The worker table in the shared memory segment of ipc.c: slots for       *)
(* worker processes, found by PID below worker_count, with the time of     *)
(* their last heartbeat and a count of active workers in the statistics.   *)
(*                                                                         *)
(* As in module MsgQueue a call is one step under the lock, and a Killed   *)
(* action is a call that ends after some of its stores.  Time passes in    *)
(* units of which Limit make 30 seconds; ages count no further than one    *)
(* above it.                                                               *)
(***************************************************************************)
EXTENDS Integers, FiniteSets

CONSTANTS
  Workers,     \* PIDs of workers
  MaxWorkers,  \* MAX_WORKERS (20)
  Limit,       \* the age of a heartbeat above which its worker counts as dead
  MaxActive    \* bound on active_workers, which nothing in the code limits

ASSUME WorkersAssumption == IsFiniteSet(Workers) /\ Workers \subseteq Nat \ {0}
ASSUME MaxWorkersAssumption == MaxWorkers \in Nat
ASSUME LimitAssumption == Limit \in Nat /\ MaxActive \in Nat

WSlot == 0 .. MaxWorkers - 1
Age == 0 .. Limit + 1
NoPid == 0

VARIABLES
  pid, status, beat,   \* the fields pid, status and the age of last_heartbeat
  workerCount,         \* worker_count
  active,              \* stats.active_workers
  dead,                \* what the last shm_get_dead_workers() returned
  quiet,               \* how long ago each worker's last call succeeded; more
                       \* than Limit once it was killed
  again,               \* a worker was registered that was registered already
  workerTorn           \* a process was killed inside a change of the table

workerVars ==
  <<pid, status, beat, workerCount, active, dead, quiet, again, workerTorn>>

WorkerTypeOK ==
  /\ pid \in [WSlot -> Workers \union {NoPid}]
  /\ status \in [WSlot -> 0 .. 1] /\ beat \in [WSlot -> Age]
  /\ workerCount \in 0 .. MaxWorkers
  /\ active \in -MaxActive .. MaxActive
  /\ dead \subseteq Workers
  /\ quiet \in [Workers -> Age]
  /\ again \in BOOLEAN /\ workerTorn \in BOOLEAN

(* shm_init_master()                                                       *)
WorkerInit ==
  /\ pid = [i \in WSlot |-> NoPid]
  /\ status = [i \in WSlot |-> 0] /\ beat = [i \in WSlot |-> Limit + 1]
  /\ workerCount = 0 /\ active = 0 /\ dead = {}
  /\ quiet = [p \in Workers |-> Limit + 1]
  /\ again = FALSE /\ workerTorn = FALSE

-----------------------------------------------------------------------------
IsFirst(i, S) == i \in S /\ \A j \in S : i <= j

(* The first slot that is free or the worker's own.                        *)
RegisterAt(i, p) == IsFirst(i, {j \in WSlot : pid[j] \in {NoPid, p}})

(* The first slot below worker_count with the PID.                         *)
FoundAt(i, p) == IsFirst(i, {j \in WSlot : j < workerCount /\ pid[j] = p})

(* if (i >= worker_count) worker_count = i + 1 (and a mutant without the   *)
(* condition).                                                             *)
CountSet(i) == i + 1
CountRaised(i) == IF i >= workerCount THEN i + 1 ELSE workerCount

Register(p) ==
  \E i \in WSlot :
    /\ RegisterAt(i, p) /\ active < MaxActive
    /\ pid' = [pid EXCEPT ![i] = p]
    /\ status' = [status EXCEPT ![i] = 1] /\ beat' = [beat EXCEPT ![i] = 0]
    /\ workerCount' = CountRaised(i)
    /\ active' = active + 1
    /\ quiet' = [quiet EXCEPT ![p] = 0]
    /\ again' = (again \/ \E j \in WSlot : pid[j] = p)
    /\ UNCHANGED <<dead, workerTorn>>

(* Killed after pid, status, last_heartbeat, or worker_count.              *)
KilledRegister(p) ==
  \E i \in WSlot, k \in 1 .. 4 :
    /\ RegisterAt(i, p)
    /\ pid' = [pid EXCEPT ![i] = p]
    /\ status' = [status EXCEPT ![i] = IF k >= 2 THEN 1 ELSE @]
    /\ beat' = [beat EXCEPT ![i] = IF k >= 3 THEN 0 ELSE @]
    /\ workerCount' = IF k = 4 THEN CountRaised(i) ELSE workerCount
    /\ again' = (again \/ \E j \in WSlot : pid[j] = p)
    /\ quiet' = [quiet EXCEPT ![p] = Limit + 1] /\ workerTorn' = TRUE
    /\ UNCHANGED <<active, dead>>

(* active_workers--                                                        *)
ActiveLess == active - 1

Unregister(p) ==
  \E i \in WSlot :
    /\ FoundAt(i, p) /\ active > -MaxActive
    /\ pid' = [pid EXCEPT ![i] = NoPid] /\ status' = [status EXCEPT ![i] = 0]
    /\ active' = ActiveLess
    /\ UNCHANGED <<beat, workerCount, dead, quiet, again, workerTorn>>

(* Killed after pid, or after status.                                      *)
KilledUnregister(p) ==
  \E i \in WSlot :
    /\ FoundAt(i, p)
    /\ pid' = [pid EXCEPT ![i] = NoPid]
    /\ \E s \in {0, status[i]} : status' = [status EXCEPT ![i] = s]
    /\ quiet' = [quiet EXCEPT ![p] = Limit + 1] /\ workerTorn' = TRUE
    /\ UNCHANGED <<beat, workerCount, active, dead, again>>

(* last_heartbeat = time(NULL) (and a mutant that forgets it).             *)
BeatForgotten(i) == beat
BeatSet(i) == [beat EXCEPT ![i] = 0]

Heartbeat(p) ==
  \E i \in WSlot :
    /\ FoundAt(i, p)
    /\ beat' = BeatSet(i)
    /\ quiet' = [quiet EXCEPT ![p] = 0]
    /\ UNCHANGED <<pid, status, workerCount, active, dead, again, workerTorn>>

(* The dead workers, up to max_count of them from the front.               *)
GetDeadWorkers(max) ==
  LET silent == {i \in WSlot : /\ i < workerCount /\ pid[i] # NoPid
                               /\ status[i] = 1 /\ beat[i] > Limit}
      before(i) == {j \in silent : j < i}
  IN /\ dead' = {pid[i] : i \in {j \in silent : Cardinality(before(j)) < max}}
     /\ UNCHANGED <<pid, status, beat, workerCount, active, quiet, again, workerTorn>>

Older(a) == IF a > Limit THEN a ELSE a + 1
Time ==
  /\ beat' = [i \in WSlot |-> Older(beat[i])]
  /\ quiet' = [p \in Workers |-> Older(quiet[p])]
  /\ UNCHANGED <<pid, status, workerCount, active, dead, again, workerTorn>>

WorkerNext ==
  \/ \E p \in Workers :
       \/ Register(p) \/ KilledRegister(p) \/ Unregister(p) \/ KilledUnregister(p)
       \/ Heartbeat(p)
  \/ \E max \in 1 .. MaxWorkers : GetDeadWorkers(max)
  \/ Time

-----------------------------------------------------------------------------
(* Every worker in the table is found by the searches below worker_count,  *)
(* although slots are freed anywhere and filled again from the front, and  *)
(* active_workers is the number of those that are found, as long as none   *)
(* registers twice, and never below it.                                    *)
ActiveExact ==
  LET used == {i \in WSlot : pid[i] # NoPid}
  IN ~workerTorn =>
       /\ \A i \in used : i < workerCount
       /\ active >= Cardinality(used)
       /\ ~again => active = Cardinality(used)

(* Only workers without a sign of life for more than 30 seconds are        *)
(* reported dead, as long as none has registered twice: such a one keeps   *)
(* an entry its heartbeats do not reach.                                   *)
DeadAreQuiet ==
  [][~again => \A p \in dead' \ dead : quiet[p] > Limit]_workerVars
=============================================================================

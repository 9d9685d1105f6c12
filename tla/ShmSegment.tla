----------------------------- MODULE ShmSegment ------------------------------
(***************************************************************************)
(* The life of the shared memory segment and the semaphore set of ipc.c:   *)
(* masters create, initialise and remove them (shm_init_master(),          *)
(* shm_cleanup()), workers attach to what they find (shm_attach_worker()). *)
(*                                                                         *)
(* One step is one system call, with the tests that follow it.  A master   *)
(* creates one segment and one set, which are named after it; a restart is *)
(* another master.  Of the lock's three semaphores there remains           *)
(* SEM_WRITERS, which the first reader and every writer wait for: it is 0  *)
(* in a new set and 1 only after the last step of shm_init_master().  A    *)
(* segment passes shm_validate() from the store of its version on.         *)
(***************************************************************************)
EXTENDS Integers

CONSTANTS
  Masters,    \* processes that call shm_init_master()
  Attachers   \* processes that call shm_attach_worker()

Users == Masters \union Attachers

(* The places in shm_init_master(), before and after its segment exists.   *)
Creating == {"open", "remove", "recreate"}
Filling == {"attach", "sem_get", "sem_open", "sem_remove", "sem_recreate",
            "set_all", "undo", "store", "set_writers"}

NoId == "no id"

ASSUME NoIdAssumption == NoId \notin Users
ASSUME RolesAssumption == Masters \intersect Attachers = {}

VARIABLES
  at,               \* where each process is
  shmid, semid,     \* g_shmid and g_semid, and the identifiers not yet stored there
  shmKey, semKey,   \* what SHM_STOCK_DATA and SEM_STOCK_DATA lead to
  valid,            \* segments with magic number and version
  lost, lostSets,   \* removed segments and sets
  writers,          \* SEM_WRITERS of each set
  overlap,          \* two masters were in shm_init_master() at the same time
  abandoned         \* masters that failed or ended in shm_init_master()

segVars == <<at, shmid, semid, shmKey, semKey, valid, lost, lostSets, writers,
             overlap, abandoned>>

SegTypeOK ==
  /\ at \in [Users -> Creating \union Filling \union
               {"idle", "w_attach", "w_validate", "w_sem", "ready", "inside",
                "cleanup", "failed", "done"}]
  /\ shmid \in [Users -> Masters \union {NoId}]
  /\ semid \in [Users -> Masters \union {NoId}]
  /\ shmKey \in Masters \union {NoId} /\ semKey \in Masters \union {NoId}
  /\ valid \subseteq Masters /\ lost \subseteq Masters /\ lostSets \subseteq Masters
  /\ writers \in [Masters -> 0 .. 1]
  /\ overlap \in BOOLEAN /\ abandoned \subseteq Masters

SegInit ==
  /\ at = [p \in Users |-> "idle"]
  /\ shmid = [p \in Users |-> NoId] /\ semid = [p \in Users |-> NoId]
  /\ shmKey = NoId /\ semKey = NoId
  /\ valid = {} /\ lost = {} /\ lostSets = {}
  /\ writers = [m \in Masters |-> 0]
  /\ overlap = FALSE /\ abandoned = {}

-----------------------------------------------------------------------------
Goto(p, place) == at' = [at EXCEPT ![p] = place]
Take(p, id) == shmid' = [shmid EXCEPT ![p] = id]
TakeSet(p, id) == semid' = [semid EXCEPT ![p] = id]

(* IPC_RMID takes the key away, too.                                       *)
RemoveSegment(id) ==
  lost' = lost \union {id} /\ shmKey' = IF shmKey = id THEN NoId ELSE shmKey
RemoveSet(id) ==
  lostSets' = lostSets \union {id} /\ semKey' = IF semKey = id THEN NoId ELSE semKey

(* shm_init_master() returns NULL.                                         *)
Fail(m) == Goto(m, "failed") /\ abandoned' = abandoned \union {m}

(* shmget(IPC_CREAT | IPC_EXCL), first and second time.                    *)
ShmCreate(m) ==
  /\ at[m] \in {"idle", "recreate"}
  /\ overlap' = (overlap \/ (at[m] = "idle" /\
                   \E n \in Masters : at[n] \in Creating \union Filling))
  /\ \/ /\ shmKey = NoId
        /\ shmKey' = m /\ Take(m, m) /\ Goto(m, "attach") /\ UNCHANGED abandoned
     \/ /\ shmKey # NoId /\ at[m] = "idle"
        /\ Goto(m, "open") /\ UNCHANGED <<shmid, shmKey, abandoned>>
     \/ Fail(m) /\ Take(m, NoId) /\ UNCHANGED shmKey
  /\ UNCHANGED <<semid, semKey, valid, lost, lostSets, writers>>

ShmOpenOld(m) ==
  /\ at[m] = "open"
  /\ \/ /\ shmKey # NoId
        /\ Take(m, shmKey) /\ Goto(m, "remove") /\ UNCHANGED abandoned
     \/ Fail(m) /\ UNCHANGED shmid
  /\ UNCHANGED <<semid, shmKey, semKey, valid, lost, lostSets, writers, overlap>>

ShmRemoveOld(m) ==
  /\ at[m] = "remove"
  /\ \/ /\ shmid[m] \notin lost
        /\ RemoveSegment(shmid[m]) /\ Goto(m, "recreate") /\ UNCHANGED abandoned
     \/ Fail(m) /\ UNCHANGED <<lost, shmKey>>
  /\ Take(m, NoId)
  /\ UNCHANGED <<semid, semKey, valid, lostSets, writers, overlap>>

(* The segment that shm_init_master() removes when a later step has        *)
(* failed.                                                                 *)
DestroyOwn(m) == RemoveSegment(m)

(* shmat()                                                                 *)
MasterAttach(m) ==
  /\ at[m] = "attach"
  /\ \/ /\ m \notin lost
        /\ Goto(m, "sem_get") /\ UNCHANGED <<lost, shmKey, abandoned>>
     \/ Fail(m) /\ DestroyOwn(m)
  /\ UNCHANGED <<shmid, semid, semKey, valid, lostSets, writers, overlap>>

(* semget(IPC_CREAT | IPC_EXCL), first and second time.                    *)
SemCreate(m) ==
  /\ at[m] \in {"sem_get", "sem_recreate"}
  /\ \/ semKey = NoId /\ semKey' = m /\ TakeSet(m, m) /\ Goto(m, "set_all")
     \/ /\ semKey # NoId /\ at[m] = "sem_get"
        /\ Goto(m, "sem_open") /\ UNCHANGED <<semid, semKey>>
     \/ Goto(m, "undo") /\ TakeSet(m, NoId) /\ UNCHANGED semKey
  /\ UNCHANGED <<shmid, shmKey, valid, lost, lostSets, writers, overlap, abandoned>>

SemOpenOld(m) ==
  /\ at[m] = "sem_open"
  /\ \/ semKey # NoId /\ TakeSet(m, semKey) /\ Goto(m, "sem_remove")
     \/ Goto(m, "sem_recreate") /\ UNCHANGED semid
  /\ UNCHANGED <<shmid, shmKey, semKey, valid, lost, lostSets, writers, overlap,
                 abandoned>>

(* The result of IPC_RMID is ignored.                                      *)
SemRemoveOld(m) ==
  /\ at[m] = "sem_remove"
  /\ RemoveSet(semid[m]) \/ UNCHANGED <<lostSets, semKey>>
  /\ TakeSet(m, NoId) /\ Goto(m, "sem_recreate")
  /\ UNCHANGED <<shmid, shmKey, valid, lost, writers, overlap, abandoned>>

(* What SETALL leaves in SEM_WRITERS (and a mutant: mutex and writers 1).  *)
InitialWritersFree == 1
InitialWriters == 0

(* A set that cannot be initialised is left where it is.                   *)
SetAll(m) ==
  /\ at[m] = "set_all"
  /\ \/ /\ m \notin lostSets
        /\ writers' = [writers EXCEPT ![m] = InitialWriters]
        /\ Goto(m, "store") /\ UNCHANGED semid
     \/ Goto(m, "undo") /\ TakeSet(m, NoId) /\ UNCHANGED writers
  /\ UNCHANGED <<shmid, shmKey, semKey, valid, lost, lostSets, overlap, abandoned>>

UndoSegment(m) ==
  /\ at[m] = "undo"
  /\ Fail(m) /\ DestroyOwn(m)
  /\ UNCHANGED <<shmid, semid, semKey, valid, lostSets, writers, overlap>>

(* memset(), magic number and version.                                     *)
StoreVersion(m) ==
  /\ at[m] = "store"
  /\ valid' = valid \union {m} /\ Goto(m, "set_writers")
  /\ UNCHANGED <<shmid, semid, shmKey, semKey, lost, lostSets, writers, overlap,
                 abandoned>>

(* The other stores, then SETVAL, whose result is ignored.                 *)
SetWriters(m) ==
  /\ at[m] = "set_writers"
  /\ writers' = IF m \in lostSets THEN writers ELSE [writers EXCEPT ![m] = 1]
  /\ Goto(m, "ready")
  /\ UNCHANGED <<shmid, semid, shmKey, semKey, valid, lost, lostSets, overlap,
                 abandoned>>

(* shm_cleanup(): the segment, then the set.                               *)
CleanupSegment(m) ==
  /\ at[m] = "ready"
  /\ RemoveSegment(m) /\ Goto(m, "cleanup")
  /\ UNCHANGED <<shmid, semid, semKey, valid, lostSets, writers, overlap, abandoned>>

CleanupSet(m) ==
  /\ at[m] = "cleanup"
  /\ RemoveSet(m) /\ Goto(m, "done")
  /\ UNCHANGED <<shmid, semid, shmKey, valid, lost, writers, overlap, abandoned>>

-----------------------------------------------------------------------------
(* shm_attach_worker(), which may be called again after it has failed.     *)
WorkerOpen(w) ==
  /\ at[w] = "idle" /\ shmKey # NoId
  /\ Take(w, shmKey) /\ Goto(w, "w_attach")
  /\ UNCHANGED <<semid, shmKey, semKey, valid, lost, lostSets, writers, overlap,
                 abandoned>>

WorkerAttach(w) ==
  /\ at[w] = "w_attach"
  /\ \/ shmid[w] \notin lost /\ Goto(w, "w_validate")
     \/ Goto(w, "idle")
  /\ UNCHANGED <<shmid, semid, shmKey, semKey, valid, lost, lostSets, writers,
                 overlap, abandoned>>

WorkerValidate(w) ==
  /\ at[w] = "w_validate"
  /\ Goto(w, IF shmid[w] \in valid THEN "w_sem" ELSE "idle")
  /\ UNCHANGED <<shmid, semid, shmKey, semKey, valid, lost, lostSets, writers,
                 overlap, abandoned>>

WorkerSem(w) ==
  /\ at[w] = "w_sem"
  /\ \/ semKey # NoId /\ Goto(w, "ready")
     \/ Goto(w, "idle")
  /\ TakeSet(w, semKey)
  /\ UNCHANGED <<shmid, shmKey, semKey, valid, lost, lostSets, writers, overlap,
                 abandoned>>

-----------------------------------------------------------------------------
(* Every access to the segment is made inside the lock; without its set a  *)
(* process gets -1.                                                        *)
Lock(p) ==
  /\ at[p] = "ready" /\ semid[p] \notin lostSets /\ writers[semid[p]] = 1
  /\ writers' = [writers EXCEPT ![semid[p]] = 0] /\ Goto(p, "inside")
  /\ UNCHANGED <<shmid, semid, shmKey, semKey, valid, lost, lostSets, overlap,
                 abandoned>>

(* SEM_UNDO gives the lock of a process back that ends inside (and a       *)
(* mutant without the flag).                                               *)
WithoutUndo(p) == writers
Undone(p) ==
  IF at[p] = "inside" THEN [writers EXCEPT ![semid[p]] = 1] ELSE writers

Unlock(p) ==
  /\ at[p] = "inside"
  /\ writers' = [writers EXCEPT ![semid[p]] = 1] /\ Goto(p, "ready")
  /\ UNCHANGED <<shmid, semid, shmKey, semKey, valid, lost, lostSets, overlap,
                 abandoned>>

(* A process ends or is killed, anywhere; segment and set stay.            *)
Ends(p) ==
  /\ at[p] \notin {"idle", "failed", "done"}
  /\ Goto(p, "done") /\ writers' = Undone(p)
  /\ abandoned' = IF at[p] \in Creating \union Filling THEN abandoned \union {p}
                                                       ELSE abandoned
  /\ UNCHANGED <<shmid, semid, shmKey, semKey, valid, lost, lostSets, overlap>>

SegNext ==
  \/ \E m \in Masters :
       \/ ShmCreate(m) \/ ShmOpenOld(m) \/ ShmRemoveOld(m) \/ MasterAttach(m)
       \/ SemCreate(m) \/ SemOpenOld(m) \/ SemRemoveOld(m) \/ SetAll(m)
       \/ UndoSegment(m) \/ StoreVersion(m) \/ SetWriters(m)
       \/ CleanupSegment(m) \/ CleanupSet(m)
  \/ \E w \in Attachers :
       WorkerOpen(w) \/ WorkerAttach(w) \/ WorkerValidate(w) \/ WorkerSem(w)
  \/ \E p \in Users : Lock(p) \/ Unlock(p) \/ Ends(p)

-----------------------------------------------------------------------------
(* shm_init_master() fills the segment without the lock, and workers pass  *)
(* shm_validate() before it has finished.  None of them is inside the lock *)
(* on this segment by then, if no two masters start at the same time:      *)
(* SEM_WRITERS is 0 until the end.                                         *)
InitUndisturbed ==
  ~overlap =>
    \A m \in Masters, p \in Users :
      at[m] \in {"store", "set_writers"} => ~(at[p] = "inside" /\ shmid[p] = m)

(* The lock is never lost: whoever finds SEM_WRITERS at 0 waits for a      *)
(* process inside the lock or for a master, unless that has given up.      *)
LockComesBack ==
  \A m \in Masters \ abandoned :
    semKey = m /\ writers[m] = 0 =>
      \/ at[m] \in Filling
      \/ \E p \in Users : at[p] = "inside" /\ semid[p] = m
=============================================================================

---------------------------- MODULE RWLockProofs -----------------------------
(***************************************************************************)
(* The reader-writer lock of ipc.c for every finite set of processes and   *)
(* every range of the undo adjustments.  It excludes as long as no process *)
(* ends and the set is not removed, or as long as only writers end, or     *)
(* with one reader whoever ends; and in each of these cases the processes  *)
(* inside it are never all blocked.                                        *)
(*                                                                         *)
(* Exclusion is not inductive: it rests on SEM_MUTEX making the test of    *)
(* the reader count and what follows it one unit, on SEM_READERS being the *)
(* true count, and on SEM_WRITERS being a token that the group of readers  *)
(* holds as a whole.                                                       *)
(***************************************************************************)
EXTENDS RWLock, FiniteSetTheorems, TLAPS

(* Who is between sem_wait(SEM_MUTEX) and sem_signal(SEM_MUTEX).           *)
MutexAt == {"r_inc", "r_check", "r_waitw", "r_rel", "f_dec", "f_rel", "u_dec",
            "u_check", "u_sigw", "u_rel"}
InMutex == {p \in Procs : pc[p] \in MutexAt}

(* On whose behalf the readers hold SEM_WRITERS, and which writers do.     *)
GroupAt == {"r_rel", "reading", "u_mutex", "u_dec", "u_check", "u_sigw"}
Group == {p \in Procs : pc[p] \in GroupAt}
OwnerAt == {"writing", "w_sig"}
Owners == {p \in Procs : pc[p] \in OwnerAt}

MutexInv ==
  /\ \A p, q \in InMutex : p = q
  /\ sem["mutex"] <= 1
  /\ InMutex # {} => sem["mutex"] = 0
  /\ \A p \in Procs : adj[p]["mutex"] = IF p \in InMutex THEN 1 ELSE 0

(* Only the first reader waits for the writers, only the last signals.     *)
CountInv ==
  /\ ReaderCountExact
  /\ \A p \in Procs : adj[p]["readers"] = IF p \in Counted THEN -1 ELSE 0
  /\ \A p \in Procs : pc[p] \in {"r_waitw", "f_dec"} => Counted = {p}
  /\ \A p \in Procs : pc[p] = "u_sigw" => Counted = {}

TokenInv ==
  /\ sem["writers"] <= 1
  /\ Group # {} => sem["writers"] = 0 /\ Owners = {}
  /\ Owners # {} => sem["writers"] = 0
  /\ \A p, q \in Owners : p = q

IInv == TypeOK /\ ~gone /\ MutexInv /\ CountInv /\ TokenInv

-----------------------------------------------------------------------------
(* What a step that takes p to label l does to the sets of processes.      *)
LEMMA Move ==
  ASSUME TypeOK, NEW p \in Procs, NEW l, Goto(p, l)
  PROVE  /\ \A q \in Procs : pc'[q] = IF q = p THEN l ELSE pc[q]
         /\ Counted' = IF l \in CountedAt THEN Counted \union {p} ELSE Counted \ {p}
         /\ InMutex' = IF l \in MutexAt THEN InMutex \union {p} ELSE InMutex \ {p}
         /\ Group' = IF l \in GroupAt THEN Group \union {p} ELSE Group \ {p}
         /\ Owners' = IF l \in OwnerAt THEN Owners \union {p} ELSE Owners \ {p}
<1>1. \A q \in Procs : pc'[q] = IF q = p THEN l ELSE pc[q]
  BY DEF TypeOK, Goto
<1>2. Counted' = IF l \in CountedAt THEN Counted \union {p} ELSE Counted \ {p}
  BY <1>1 DEF Counted
<1>3. InMutex' = IF l \in MutexAt THEN InMutex \union {p} ELSE InMutex \ {p}
  BY <1>1 DEF InMutex
<1>4. Group' = IF l \in GroupAt THEN Group \union {p} ELSE Group \ {p}
  BY <1>1 DEF Group
<1>5. Owners' = IF l \in OwnerAt THEN Owners \union {p} ELSE Owners \ {p}
  BY <1>1 DEF Owners
<1> QED BY <1>1, <1>2, <1>3, <1>4, <1>5

(* The number of counted readers, and how one reader changes it.           *)
LEMMA CountedSize ==
  /\ IsFiniteSet(Counted) /\ Cardinality(Counted) \in Nat
  /\ Cardinality(Counted) = 0 <=> Counted = {}
  /\ Cardinality(Counted) = 1 <=> \E x : Counted = {x}
  /\ \A p : Cardinality(Counted \union {p}) =
              IF p \in Counted THEN Cardinality(Counted)
                              ELSE Cardinality(Counted) + 1
  /\ \A p : Cardinality(Counted \ {p}) =
              IF p \in Counted THEN Cardinality(Counted) - 1
                              ELSE Cardinality(Counted)
<1>1. IsFiniteSet(Counted)
  BY ProcsAssumption, FS_Subset DEF Counted
<1> QED
  BY <1>1, FS_CardinalityType, FS_EmptySet, FS_Singleton, FS_AddElement,
     FS_RemoveElement

-----------------------------------------------------------------------------
(* How each part of the invariant survives a step of p to label l.         *)

LEMMA MutexStep ==
  ASSUME IInv, NEW p \in Procs, NEW l, Goto(p, l),
         \/ /\ pc[p] \in MutexAt <=> l \in MutexAt
            /\ sem'["mutex"] = sem["mutex"]
            /\ \A q \in Procs : adj'[q]["mutex"] = adj[q]["mutex"]
         \/ /\ pc[p] \notin MutexAt /\ l \in MutexAt
            /\ sem["mutex"] > 0 /\ SemOp(p, "mutex", -1)
         \/ /\ pc[p] \in MutexAt /\ l \notin MutexAt
            /\ SemOp(p, "mutex", 1)
  PROVE  MutexInv'
<1>1. /\ InMutex' = IF l \in MutexAt THEN InMutex \union {p} ELSE InMutex \ {p}
      /\ p \in InMutex <=> pc[p] \in MutexAt
  BY Move DEF IInv, InMutex
<1>2. sem["mutex"] \in Nat
  BY DEF IInv, TypeOK, Sem
<1>3. \A q \in Procs : adj'[q]["mutex"] = IF q \in InMutex' THEN 1 ELSE 0
  BY <1>1 DEF IInv, MutexInv, TypeOK, SemOp, Sem
<1>4. sem'["mutex"] \in {sem["mutex"], sem["mutex"] - 1, sem["mutex"] + 1}
  BY DEF IInv, TypeOK, SemOp, Sem
<1> QED BY <1>1, <1>2, <1>3, <1>4 DEF IInv, MutexInv, TypeOK, SemOp, Sem

(* A step that leaves the count alone and is not one of the two tests.     *)
LEMMA CountStep ==
  ASSUME IInv, NEW p \in Procs, NEW l, Goto(p, l),
         pc[p] \in CountedAt <=> l \in CountedAt,
         l \in {"r_waitw", "f_dec"} => Counted = {p},
         l = "u_sigw" => Counted = {},
         sem'["readers"] = sem["readers"],
         \A q \in Procs : adj'[q]["readers"] = adj[q]["readers"]
  PROVE  CountInv'
<1>1. Counted' = Counted
  BY Move DEF IInv, Counted
<1>2. \A q \in Procs : pc'[q] = IF q = p THEN l ELSE pc[q]
  BY Move DEF IInv
<1>3. ReaderCountExact'
  BY <1>1 DEF IInv, CountInv, ReaderCountExact
<1> QED BY <1>1, <1>2, <1>3 DEF IInv, CountInv

(* The increment and the decrement happen inside SEM_MUTEX.                *)
LEMMA CountChange ==
  ASSUME IInv, NEW p \in Procs, NEW l, Goto(p, l), pc[p] \in MutexAt,
         l \notin {"r_waitw", "f_dec", "u_sigw"},
         \/ /\ pc[p] \notin CountedAt /\ l \in CountedAt
            /\ SemOp(p, "readers", 1)
         \/ /\ pc[p] \in CountedAt /\ l \notin CountedAt
            /\ SemOp(p, "readers", -1)
  PROVE  CountInv'
<1> USE DEF Sem
<1>1. \A q \in Procs : pc'[q] = IF q = p THEN l ELSE pc[q]
  BY Move DEF IInv
<1>2. \A q \in Procs : pc'[q] \notin {"r_waitw", "f_dec", "u_sigw"}
  BY <1>1 DEF IInv, MutexInv, InMutex, MutexAt
<1>3. Counted' = IF l \in CountedAt THEN Counted \union {p} ELSE Counted \ {p}
  BY Move DEF IInv
<1>4. p \in Counted <=> pc[p] \in CountedAt
  BY DEF Counted
<1>5. ReaderCountExact'
  BY <1>3, <1>4, CountedSize
  DEF SemOp, IInv, CountInv, ReaderCountExact, TypeOK
<1>6. \A q \in Procs : adj'[q]["readers"] = IF q \in Counted' THEN -1 ELSE 0
  BY <1>3, <1>4 DEF SemOp, IInv, CountInv, TypeOK
<1> QED BY <1>2, <1>5, <1>6 DEF CountInv

LEMMA TokenStep ==
  ASSUME IInv, NEW p \in Procs, NEW l, Goto(p, l),
         \/ /\ pc[p] \in GroupAt <=> l \in GroupAt
            /\ pc[p] \in OwnerAt <=> l \in OwnerAt
            /\ sem'["writers"] = sem["writers"]
         \/ /\ sem["writers"] > 0 /\ sem'["writers"] = sem["writers"] - 1
            /\ l \in GroupAt \union OwnerAt /\ ~(l \in GroupAt /\ l \in OwnerAt)
         \/ /\ Group \ {p} # {}
            /\ pc[p] \notin OwnerAt /\ l \notin OwnerAt
            /\ sem'["writers"] = sem["writers"]
         \/ /\ l \notin GroupAt \union OwnerAt
            /\ Group \union Owners = {p}
            /\ sem'["writers"] \in {sem["writers"], sem["writers"] + 1}
  PROVE  TokenInv'
<1>1. /\ Group' = IF l \in GroupAt THEN Group \union {p} ELSE Group \ {p}
      /\ Owners' = IF l \in OwnerAt THEN Owners \union {p} ELSE Owners \ {p}
      /\ p \in Group <=> pc[p] \in GroupAt
      /\ p \in Owners <=> pc[p] \in OwnerAt
  BY Move DEF IInv, Group, Owners
<1>2. sem["writers"] \in Nat
  BY DEF IInv, TypeOK, Sem
<1> QED BY <1>1, <1>2 DEF IInv, TokenInv

-----------------------------------------------------------------------------
(* What the calls do: sem_wait() took one and had one to take, or failed   *)
(* and changed nothing; sem_signal() gave one, or failed.                  *)
Waited(p, n) ==
  /\ SemOp(p, n, -1) /\ sem[n] > 0 /\ ~Fails(p, n, -1)
  /\ \A m \in Sem \ {n} : sem'[m] = sem[m]
  /\ sem'[n] = sem[n] - 1
  /\ \A q \in Procs, m \in Sem \ {n} : adj'[q][m] = adj[q][m]
Signalled(p, n) ==
  /\ SemOp(p, n, 1) /\ ~Fails(p, n, 1)
  /\ \A m \in Sem \ {n} : sem'[m] = sem[m]
  /\ sem'[n] = sem[n] + 1
  /\ \A q \in Procs, m \in Sem \ {n} : adj'[q][m] = adj[q][m]

LEMMA Waits ==
  ASSUME IInv, NEW p \in Procs, NEW n \in Sem, NEW ok, NEW err,
         SemWait(p, n, ok, err)
  PROVE  \/ Goto(p, ok) /\ Waited(p, n)
         \/ Goto(p, err) /\ Fails(p, n, -1) /\ UNCHANGED <<sem, adj>>
<1>1. CASE ~Fails(p, n, -1)
  <2>1. SemOp(p, n, -1) /\ Goto(p, ok) /\ sem[n] > 0
    BY <1>1 DEF SemWait, IInv
  <2>2. /\ \A m \in Sem \ {n} : sem'[m] = sem[m]
        /\ sem'[n] = sem[n] - 1
        /\ \A q \in Procs, m \in Sem \ {n} : adj'[q][m] = adj[q][m]
    BY <2>1 DEF SemOp, IInv, TypeOK
  <2> QED BY <1>1, <2>1, <2>2 DEF Waited
<1>2. CASE Fails(p, n, -1)
  BY <1>2 DEF SemWait
<1> QED BY <1>1, <1>2

LEMMA Signals ==
  ASSUME IInv, NEW p \in Procs, NEW n \in Sem, NEW ok, NEW err,
         SemSignal(p, n, ok, err)
  PROVE  \/ Goto(p, ok) /\ Signalled(p, n)
         \/ Goto(p, err) /\ Fails(p, n, 1) /\ UNCHANGED <<sem, adj>>
<1>1. CASE ~Fails(p, n, 1)
  <2>1. SemOp(p, n, 1) /\ Goto(p, ok)
    BY <1>1 DEF SemSignal
  <2>2. /\ \A m \in Sem \ {n} : sem'[m] = sem[m]
        /\ sem'[n] = sem[n] + 1
        /\ \A q \in Procs, m \in Sem \ {n} : adj'[q][m] = adj[q][m]
    BY <2>1 DEF SemOp, IInv, TypeOK
  <2> QED BY <1>1, <2>1, <2>2 DEF Signalled
<1>2. CASE Fails(p, n, 1)
  BY <1>2 DEF SemSignal
<1> QED BY <1>1, <1>2

(* Only SEM_WRITERS can fail with ERANGE: what a process does to the other *)
(* two it takes back before it does it again.                              *)
LEMMA InRange ==
  ASSUME IInv, NEW p \in Procs
  PROVE  /\ p \in Counted => ~Fails(p, "readers", -1)
         /\ p \notin InMutex => ~Fails(p, "mutex", -1)
         /\ p \in InMutex => ~Fails(p, "mutex", 1)
BY MaxAdjAssumption DEF IInv, CountInv, MutexInv, Fails, TypeOK

Label == {"idle", "r_mutex", "r_inc", "r_check", "r_waitw", "r_rel", "f_dec",
          "f_rel", "reading", "u_mutex", "u_dec", "u_check", "u_sigw",
          "u_rel", "w_wait", "writing", "w_sig"}

LEMMA TypeStep ==
  ASSUME IInv, NEW p \in Procs, NEW l \in Label, Goto(p, l), UNCHANGED gone,
         \/ UNCHANGED <<sem, adj>>
         \/ \E n \in Sem : Waited(p, n) \/ Signalled(p, n)
  PROVE  TypeOK' /\ ~gone'
<1>1. pc' \in [Procs -> Label] /\ gone' = FALSE
  BY DEF IInv, TypeOK, Goto, Label
<1>2. ASSUME NEW n \in Sem, NEW d \in {-1, 1}, SemOp(p, n, d), ~Fails(p, n, d),
             sem[n] + d >= 0
      PROVE  sem' \in [Sem -> Nat] /\ adj' \in [Procs -> [Sem -> -MaxAdj .. MaxAdj]]
  BY <1>2, MaxAdjAssumption DEF SemOp, Fails, IInv, TypeOK
<1>3. sem' \in [Sem -> Nat] /\ adj' \in [Procs -> [Sem -> -MaxAdj .. MaxAdj]]
  <2>1. CASE UNCHANGED <<sem, adj>>
    BY <2>1 DEF IInv, TypeOK
  <2>2. ASSUME NEW n \in Sem, Waited(p, n) \/ Signalled(p, n)
        PROVE  /\ sem' \in [Sem -> Nat]
               /\ adj' \in [Procs -> [Sem -> -MaxAdj .. MaxAdj]]
    BY <2>2, <1>2 DEF Waited, Signalled, IInv, TypeOK
  <2> QED BY <2>1, <2>2
<1> QED BY <1>1, <1>3 DEF TypeOK, Label

-----------------------------------------------------------------------------
(* One step of rwlock_read_lock().                                         *)
LEMMA ReadLockPreserves ==
  ASSUME IInv, NEW p \in Procs, ReadLockStep(p)
  PROVE  IInv'
<1> USE DEF Sem, MutexAt, CountedAt, GroupAt, OwnerAt, Label
<1>1. CASE pc[p] = "r_mutex"
  <2>1. \/ Goto(p, "r_inc") /\ Waited(p, "mutex")
        \/ Goto(p, "idle") /\ Fails(p, "mutex", -1) /\ UNCHANGED <<sem, adj>>
    BY <1>1, Waits DEF ReadLockStep
  <2>2. TypeOK' /\ ~gone'
    BY <2>1, TypeStep DEF ReadLockStep
  <2>6. ~Fails(p, "mutex", -1)
    BY <1>1, InRange DEF InMutex
  <2>3. MutexInv'
    BY <1>1, <2>1, <2>6, MutexStep DEF Waited
  <2>4. CountInv'
    BY <1>1, <2>1, <2>6, CountStep DEF Waited
  <2>5. TokenInv'
    BY <1>1, <2>1, <2>6, TokenStep DEF Waited
  <2> QED BY <2>2, <2>3, <2>4, <2>5 DEF IInv
<1>2. CASE pc[p] = "r_inc"
  <2>1. \/ Goto(p, "r_check") /\ Signalled(p, "readers")
        \/ Goto(p, "f_rel") /\ Fails(p, "readers", 1) /\ UNCHANGED <<sem, adj>>
    BY <1>2, Signals DEF ReadLockStep
  <2>2. TypeOK' /\ ~gone'
    BY <2>1, TypeStep DEF ReadLockStep
  <2>3. MutexInv'
    BY <1>2, <2>1, MutexStep DEF Signalled
  <2>4. CountInv'
    BY <1>2, <2>1, CountStep, CountChange DEF Signalled
  <2>5. TokenInv'
    BY <1>2, <2>1, TokenStep DEF Signalled
  <2> QED BY <2>2, <2>3, <2>4, <2>5 DEF IInv
<1>3. CASE pc[p] = "r_check"
  <2>1. /\ Goto(p, IF FirstReader THEN "r_waitw" ELSE "r_rel")
        /\ UNCHANGED <<sem, adj>>
    BY <1>3 DEF ReadLockStep
  <2>2. TypeOK' /\ ~gone'
    BY <2>1, TypeStep DEF ReadLockStep
  <2>3. MutexInv'
    BY <1>3, <2>1, MutexStep
  <2>4. p \in Counted /\ ReaderCount = Cardinality(Counted)
    BY <1>3 DEF Counted, ReaderCount, IInv, CountInv, ReaderCountExact
  <2>5. FirstReader => Counted = {p}
    BY <2>4, CountedSize DEF FirstReader
  <2>6. ~FirstReader => \E q \in Counted : q # p
    <3>1. (\A q \in Counted : q = p) => Counted = {p}
      BY <2>4
    <3> QED BY <2>4, <3>1, CountedSize DEF FirstReader
  <2>7. ~FirstReader => Group \ {p} # {}
    BY <1>3, <2>6 DEF Counted, Group, InMutex, IInv, MutexInv
  <2>8. CountInv'
    BY <1>3, <2>1, <2>5, CountStep
  <2>9. TokenInv'
    BY <1>3, <2>1, <2>7, TokenStep
  <2> QED BY <2>2, <2>3, <2>8, <2>9 DEF IInv
<1>4. CASE pc[p] = "r_waitw"
  <2>1. \/ Goto(p, "r_rel") /\ Waited(p, "writers")
        \/ Goto(p, "f_dec") /\ Fails(p, "writers", -1) /\ UNCHANGED <<sem, adj>>
    BY <1>4, Waits DEF ReadLockStep
  <2>2. TypeOK' /\ ~gone'
    BY <2>1, TypeStep DEF ReadLockStep
  <2>6. Counted = {p}
    BY <1>4 DEF IInv, CountInv
  <2>3. MutexInv'
    BY <1>4, <2>1, MutexStep DEF Waited
  <2>4. CountInv'
    BY <1>4, <2>1, CountStep, <2>6 DEF Waited
  <2>5. TokenInv'
    BY <1>4, <2>1, TokenStep DEF Waited
  <2> QED BY <2>2, <2>3, <2>4, <2>5 DEF IInv
<1>5. CASE pc[p] = "r_rel"
  <2>1. \/ Goto(p, "reading") /\ Signalled(p, "mutex")
        \/ Goto(p, "reading") /\ Fails(p, "mutex", 1) /\ UNCHANGED <<sem, adj>>
    BY <1>5, Signals DEF ReadLockStep
  <2>2. TypeOK' /\ ~gone'
    BY <2>1, TypeStep DEF ReadLockStep
  <2>6. ~Fails(p, "mutex", 1)
    BY <1>5, InRange DEF InMutex
  <2>3. MutexInv'
    BY <1>5, <2>1, <2>6, MutexStep DEF Signalled
  <2>4. CountInv'
    BY <1>5, <2>1, <2>6, CountStep DEF Signalled
  <2>5. TokenInv'
    BY <1>5, <2>1, <2>6, TokenStep DEF Signalled
  <2> QED BY <2>2, <2>3, <2>4, <2>5 DEF IInv
<1>6. CASE pc[p] = "f_dec"
  <2>1. \/ Goto(p, "f_rel") /\ Waited(p, "readers")
        \/ Goto(p, "f_rel") /\ Fails(p, "readers", -1) /\ UNCHANGED <<sem, adj>>
    BY <1>6, Waits DEF ReadLockStep
  <2>2. TypeOK' /\ ~gone'
    BY <2>1, TypeStep DEF ReadLockStep
  <2>6. ~Fails(p, "readers", -1)
    BY <1>6, InRange DEF Counted
  <2>3. MutexInv'
    BY <1>6, <2>1, MutexStep DEF Waited
  <2>4. CountInv'
    BY <1>6, <2>1, CountChange, <2>6 DEF Waited
  <2>5. TokenInv'
    BY <1>6, <2>1, TokenStep DEF Waited
  <2> QED BY <2>2, <2>3, <2>4, <2>5 DEF IInv
<1>7. CASE pc[p] = "f_rel"
  <2>1. \/ Goto(p, "idle") /\ Signalled(p, "mutex")
        \/ Goto(p, "idle") /\ Fails(p, "mutex", 1) /\ UNCHANGED <<sem, adj>>
    BY <1>7, Signals DEF ReadLockStep
  <2>2. TypeOK' /\ ~gone'
    BY <2>1, TypeStep DEF ReadLockStep
  <2>6. ~Fails(p, "mutex", 1)
    BY <1>7, InRange DEF InMutex
  <2>3. MutexInv'
    BY <1>7, <2>1, <2>6, MutexStep DEF Signalled
  <2>4. CountInv'
    BY <1>7, <2>1, <2>6, CountStep DEF Signalled
  <2>5. TokenInv'
    BY <1>7, <2>1, <2>6, TokenStep DEF Signalled
  <2> QED BY <2>2, <2>3, <2>4, <2>5 DEF IInv
<1> QED BY <1>1, <1>2, <1>3, <1>4, <1>5, <1>6, <1>7 DEF ReadLockStep

(* One step of rwlock_read_unlock().                                       *)
LEMMA ReadUnlockPreserves ==
  ASSUME IInv, NEW p \in Procs, ReadUnlockStep(p)
  PROVE  IInv'
<1> USE DEF Sem, MutexAt, CountedAt, GroupAt, OwnerAt, Label
<1>1. CASE pc[p] = "u_mutex"
  <2>1. \/ Goto(p, "u_dec") /\ Waited(p, "mutex")
        \/ Goto(p, "idle") /\ Fails(p, "mutex", -1) /\ UNCHANGED <<sem, adj>>
    BY <1>1, Waits DEF ReadUnlockStep
  <2>2. TypeOK' /\ ~gone'
    BY <2>1, TypeStep DEF ReadUnlockStep
  <2>6. ~Fails(p, "mutex", -1)
    BY <1>1, InRange DEF InMutex
  <2>3. MutexInv'
    BY <1>1, <2>1, <2>6, MutexStep DEF Waited
  <2>4. CountInv'
    BY <1>1, <2>1, <2>6, CountStep DEF Waited
  <2>5. TokenInv'
    BY <1>1, <2>1, <2>6, TokenStep DEF Waited
  <2> QED BY <2>2, <2>3, <2>4, <2>5 DEF IInv
<1>2. CASE pc[p] = "u_dec"
  <2>1. \/ Goto(p, "u_check") /\ Waited(p, "readers")
        \/ Goto(p, "f_rel") /\ Fails(p, "readers", -1) /\ UNCHANGED <<sem, adj>>
    BY <1>2, Waits DEF ReadUnlockStep
  <2>2. TypeOK' /\ ~gone'
    BY <2>1, TypeStep DEF ReadUnlockStep
  <2>6. ~Fails(p, "readers", -1)
    BY <1>2, InRange DEF Counted
  <2>3. MutexInv'
    BY <1>2, <2>1, MutexStep DEF Waited
  <2>4. CountInv'
    BY <1>2, <2>1, CountChange, <2>6 DEF Waited
  <2>5. TokenInv'
    BY <1>2, <2>1, TokenStep, <2>6 DEF Waited
  <2> QED BY <2>2, <2>3, <2>4, <2>5 DEF IInv
<1>3. CASE pc[p] = "u_check"
  <2>1. /\ Goto(p, IF LastReader THEN "u_sigw" ELSE "u_rel")
        /\ UNCHANGED <<sem, adj>>
    BY <1>3 DEF ReadUnlockStep
  <2>2. TypeOK' /\ ~gone'
    BY <2>1, TypeStep DEF ReadUnlockStep
  <2>3. MutexInv'
    BY <1>3, <2>1, MutexStep
  <2>4. p \notin Counted /\ ReaderCount = Cardinality(Counted)
    BY <1>3 DEF Counted, ReaderCount, IInv, CountInv, ReaderCountExact
  <2>5. LastReader <=> Counted = {}
    BY <2>4, CountedSize DEF LastReader
  <2>6. ~LastReader => Group \ {p} # {}
    BY <1>3, <2>4, <2>5 DEF Counted, Group, InMutex, IInv, MutexInv
  <2>7. CountInv'
    BY <1>3, <2>1, <2>5, CountStep
  <2>8. TokenInv'
    BY <1>3, <2>1, <2>6, TokenStep
  <2> QED BY <2>2, <2>3, <2>7, <2>8 DEF IInv
<1>4. CASE pc[p] = "u_sigw"
  <2>1. \/ Goto(p, "u_rel") /\ Signalled(p, "writers")
        \/ Goto(p, "u_rel") /\ Fails(p, "writers", 1) /\ UNCHANGED <<sem, adj>>
    BY <1>4, Signals DEF ReadUnlockStep
  <2>2. TypeOK' /\ ~gone'
    BY <2>1, TypeStep DEF ReadUnlockStep
  <2>6. Group \union Owners = {p}
    BY <1>4 DEF Counted, Group, Owners, InMutex, IInv, MutexInv, CountInv, TokenInv
  <2>3. MutexInv'
    BY <1>4, <2>1, MutexStep DEF Signalled
  <2>4. CountInv'
    BY <1>4, <2>1, CountStep DEF Signalled
  <2>5. TokenInv'
    BY <1>4, <2>1, TokenStep, <2>6 DEF Signalled
  <2> QED BY <2>2, <2>3, <2>4, <2>5 DEF IInv
<1>5. CASE pc[p] = "u_rel"
  <2>1. \/ Goto(p, "idle") /\ Signalled(p, "mutex")
        \/ Goto(p, "idle") /\ Fails(p, "mutex", 1) /\ UNCHANGED <<sem, adj>>
    BY <1>5, Signals DEF ReadUnlockStep
  <2>2. TypeOK' /\ ~gone'
    BY <2>1, TypeStep DEF ReadUnlockStep
  <2>6. ~Fails(p, "mutex", 1)
    BY <1>5, InRange DEF InMutex
  <2>3. MutexInv'
    BY <1>5, <2>1, <2>6, MutexStep DEF Signalled
  <2>4. CountInv'
    BY <1>5, <2>1, <2>6, CountStep DEF Signalled
  <2>5. TokenInv'
    BY <1>5, <2>1, <2>6, TokenStep DEF Signalled
  <2> QED BY <2>2, <2>3, <2>4, <2>5 DEF IInv
<1> QED BY <1>1, <1>2, <1>3, <1>4, <1>5 DEF ReadUnlockStep

(* The steps of the writers, and the steps outside the lock's functions.   *)
LEMMA WriterPreserves ==
  ASSUME IInv, NEW p \in Procs, WriteLockStep(p) \/ WriteUnlockStep(p)
  PROVE  IInv'
<1> USE DEF Sem, MutexAt, CountedAt, GroupAt, OwnerAt, Label
<1>1. CASE pc[p] = "w_wait"
  <2>1. \/ Goto(p, "writing") /\ Waited(p, "writers")
        \/ Goto(p, "idle") /\ Fails(p, "writers", -1) /\ UNCHANGED <<sem, adj>>
    BY <1>1, Waits DEF WriteLockStep, WriteUnlockStep
  <2>2. TypeOK' /\ ~gone'
    BY <2>1, TypeStep DEF WriteLockStep, WriteUnlockStep
  <2>3. MutexInv'
    BY <1>1, <2>1, MutexStep DEF Waited
  <2>4. CountInv'
    BY <1>1, <2>1, CountStep DEF Waited
  <2>5. TokenInv'
    BY <1>1, <2>1, TokenStep DEF Waited
  <2> QED BY <2>2, <2>3, <2>4, <2>5 DEF IInv
<1>2. CASE pc[p] = "w_sig"
  <2>1. \/ Goto(p, "idle") /\ Signalled(p, "writers")
        \/ Goto(p, "idle") /\ Fails(p, "writers", 1) /\ UNCHANGED <<sem, adj>>
    BY <1>2, Signals DEF WriteLockStep, WriteUnlockStep
  <2>2. TypeOK' /\ ~gone'
    BY <2>1, TypeStep DEF WriteLockStep, WriteUnlockStep
  <2>6. Group \union Owners = {p}
    BY <1>2 DEF Group, Owners, IInv, TokenInv
  <2>3. MutexInv'
    BY <1>2, <2>1, MutexStep DEF Signalled
  <2>4. CountInv'
    BY <1>2, <2>1, CountStep DEF Signalled
  <2>5. TokenInv'
    BY <1>2, <2>1, TokenStep, <2>6 DEF Signalled
  <2> QED BY <2>2, <2>3, <2>4, <2>5 DEF IInv
<1> QED BY <1>1, <1>2 DEF WriteLockStep, WriteUnlockStep

LEMMA CallPreserves ==
  ASSUME IInv, NEW p \in Procs,
         ReadLock(p) \/ ReadUnlock(p) \/ WriteLock(p) \/ WriteUnlock(p)
  PROVE  IInv'
<1> USE DEF Sem, MutexAt, CountedAt, GroupAt, OwnerAt, Label
<1>1. PICK l \in Label :
        /\ Goto(p, l) /\ UNCHANGED <<sem, adj, gone>>
        /\ <<pc[p], l>> \in {<<"idle", "r_mutex">>, <<"reading", "u_mutex">>,
                             <<"idle", "w_wait">>, <<"writing", "w_sig">>}
  BY DEF ReadLock, ReadUnlock, WriteLock, WriteUnlock
<1>2. TypeOK' /\ ~gone'
  BY <1>1, TypeStep
<1>3. MutexInv'
  BY <1>1, MutexStep
<1>4. CountInv'
  BY <1>1, CountStep
<1>5. TokenInv'
  BY <1>1, TokenStep
<1> QED BY <1>2, <1>3, <1>4, <1>5 DEF IInv

LEMMA InitInv == Init => IInv
<1> SUFFICES ASSUME Init PROVE IInv
  OBVIOUS
<1>1. TypeOK /\ ~gone
  <2>1. 0 \in -MaxAdj .. MaxAdj
    BY MaxAdjAssumption
  <2> QED BY <2>1 DEF Init, TypeOK
<1>2. InMutex = {} /\ Counted = {} /\ Group = {} /\ Owners = {}
  BY DEF Init, InMutex, Counted, Group, Owners, MutexAt, CountedAt, GroupAt, OwnerAt
<1>3. Cardinality({}) = 0
  BY FS_EmptySet
<1> QED BY <1>1, <1>2, <1>3
  DEF IInv, Init, MutexInv, CountInv, TokenInv, ReaderCountExact, Sem

LEMMA StepInv == IInv /\ LockNext => IInv'
  BY CallPreserves, ReadLockPreserves, ReadUnlockPreserves, WriterPreserves
  DEF LockNext, Step

LEMMA Invariance == Spec => []IInv
<1>1. IInv /\ [LockNext]_vars => IInv'
  <2>1. IInv /\ UNCHANGED vars => IInv'
    BY DEF vars, IInv, TypeOK, MutexInv, CountInv, TokenInv,
       ReaderCountExact, Counted, InMutex, Group, Owners
  <2> QED BY <2>1, StepInv
<1> QED BY <1>1, InitInv, PTL DEF Spec

(* The lock of ipc.c excludes, for every finite set of processes and every *)
(* range of adjustments, while no process ends and the set exists; a       *)
(* semop() that fails with ERANGE on the way does not break it.            *)
THEOREM LockExcludes == Spec => []Exclusion
<1>1. IInv => Exclusion
  BY DEF IInv, TokenInv, Exclusion, Group, Owners, GroupAt, OwnerAt
<1> QED BY <1>1, Invariance, PTL

(* SEM_READERS is the true number of readers whenever it is tested.        *)
THEOREM LockCountsReaders == Spec => []ReaderCountExact
<1>1. IInv => ReaderCountExact
  BY DEF IInv, CountInv
<1> QED BY <1>1, Invariance, PTL

(* No semaphore becomes negative and no adjustment leaves its range.       *)
THEOREM LockTypeCorrect == Spec => []TypeOK
<1>1. IInv => TypeOK
  BY DEF IInv
<1> QED BY <1>1, Invariance, PTL

-----------------------------------------------------------------------------
(* Processes that end.  SEM_WRITERS is taken by the first reader and given *)
(* back by the last, so that with two readers the kernel may give it back  *)
(* for a process that still reads.  With one reader each semaphore is      *)
(* given back by who took it, and its adjustments say what it holds.       *)
OneReader == \A p, q \in Readers : p = q

HoldAt == GroupAt \union OwnerAt
ReadAt == {"r_mutex", "reading", "u_mutex"} \union MutexAt

Sound ==
  /\ pc \in [Procs -> Label]
  /\ sem \in [Sem -> 0 .. 1]
  /\ adj \in [Procs -> [Sem -> -1 .. 1]]
  /\ \A p \in Procs :
       /\ pc[p] # "f_dec"
       /\ pc[p] \in ReadAt => p \in Readers
       /\ adj[p]["mutex"] = IF pc[p] \in MutexAt THEN 1 ELSE 0
       /\ adj[p]["readers"] = IF pc[p] \in CountedAt THEN -1 ELSE 0
       /\ adj[p]["writers"] = IF pc[p] \in HoldAt THEN 1 ELSE 0
  /\ \A p, q \in Procs : pc[p] \in HoldAt /\ pc[q] \in HoldAt => p = q
  /\ sem["mutex"] = 0 <=> \E p \in Procs : pc[p] \in MutexAt
  /\ sem["readers"] = 1 <=> \E p \in Procs : pc[p] \in CountedAt
  /\ sem["writers"] = 0 <=> \E p \in Procs : pc[p] \in HoldAt

FaultInv == gone \/ Sound

(* A step of p to label l that changes the semaphores by what p holds more *)
(* or less there.                                                          *)
LEMMA SoundMove ==
  ASSUME OneReader, Sound, NEW p \in Procs, NEW l \in Label, Goto(p, l),
         l # "f_dec", l \in ReadAt => p \in Readers,
         l \in HoldAt => pc[p] \in HoldAt \/ sem["writers"] = 1,
         sem' \in [Sem -> 0 .. 1], adj' \in [Procs -> [Sem -> -1 .. 1]],
         \A n \in Sem : /\ \A q \in Procs : q # p => adj'[q][n] = adj[q][n]
                        /\ sem'[n] + adj'[p][n] = sem[n] + adj[p][n],
         adj'[p]["mutex"] = IF l \in MutexAt THEN 1 ELSE 0,
         adj'[p]["readers"] = IF l \in CountedAt THEN -1 ELSE 0,
         adj'[p]["writers"] = IF l \in HoldAt THEN 1 ELSE 0
  PROVE  Sound'
<1>1. \A q \in Procs : pc'[q] = IF q = p THEN l ELSE pc[q]
  BY DEF Sound, Goto
<1>2. pc' \in [Procs -> Label]
  BY DEF Sound, Goto
<1>3. \A q \in Procs :
        pc[q] \in MutexAt \union CountedAt \union (HoldAt \ OwnerAt) => q \in Readers
  BY DEF Sound, ReadAt, MutexAt, CountedAt, HoldAt, GroupAt, OwnerAt
<1>4. l \in MutexAt \union CountedAt \union (HoldAt \ OwnerAt) => p \in Readers
  BY DEF ReadAt, MutexAt, CountedAt, HoldAt, GroupAt, OwnerAt
<1>5. sem'["mutex"] = 0 <=> \E q \in Procs : pc'[q] \in MutexAt
  <2>1. (\E q \in Procs : q # p /\ pc[q] \in MutexAt) => pc[p] \notin MutexAt /\ l \notin MutexAt
    BY <1>3, <1>4 DEF OneReader
  <2>2. sem'["mutex"] + adj'[p]["mutex"] = sem["mutex"] + adj[p]["mutex"]
    BY DEF Sem
  <2>3. /\ sem["mutex"] \in 0 .. 1 /\ adj[p]["mutex"] = IF pc[p] \in MutexAt THEN 1 ELSE 0
        /\ sem["mutex"] = 0 <=> \E q \in Procs : pc[q] \in MutexAt
        /\ sem'["mutex"] \in 0 .. 1
    BY DEF Sound, Sem
  <2> QED BY <1>1, <2>1, <2>2, <2>3
<1>6. sem'["readers"] = 1 <=> \E q \in Procs : pc'[q] \in CountedAt
  <2>1. (\E q \in Procs : q # p /\ pc[q] \in CountedAt)
          => pc[p] \notin CountedAt /\ l \notin CountedAt
    BY <1>3, <1>4 DEF OneReader
  <2>2. sem'["readers"] + adj'[p]["readers"] = sem["readers"] + adj[p]["readers"]
    BY DEF Sem
  <2>3. /\ sem["readers"] \in 0 .. 1 /\ adj[p]["readers"] = IF pc[p] \in CountedAt THEN -1 ELSE 0
        /\ sem["readers"] = 1 <=> \E q \in Procs : pc[q] \in CountedAt
        /\ sem'["readers"] \in 0 .. 1
    BY DEF Sound, Sem
  <2> QED BY <1>1, <2>1, <2>2, <2>3
<1>7. \A q, r \in Procs : pc'[q] \in HoldAt /\ pc'[r] \in HoldAt => q = r
  BY <1>1 DEF Sound, Sem
<1>8. sem'["writers"] = 0 <=> \E q \in Procs : pc'[q] \in HoldAt
  BY <1>1, <1>7 DEF Sound, Sem
<1>9. \A q \in Procs :
        /\ pc'[q] # "f_dec"
        /\ pc'[q] \in ReadAt => q \in Readers
        /\ adj'[q]["mutex"] = IF pc'[q] \in MutexAt THEN 1 ELSE 0
        /\ adj'[q]["readers"] = IF pc'[q] \in CountedAt THEN -1 ELSE 0
        /\ adj'[q]["writers"] = IF pc'[q] \in HoldAt THEN 1 ELSE 0
  BY <1>1 DEF Sound, Sem
<1> QED BY <1>2, <1>5, <1>6, <1>7, <1>8, <1>9 DEF Sound

(* No adjustment leaves its range, so that no semop() fails.               *)
LEMMA SoundOps ==
  ASSUME Sound, ~gone, NEW p \in Procs, NEW n \in Sem, NEW ok, NEW err
  PROVE  /\ SemWait(p, n, ok, err) /\ adj[p][n] < 1 =>
              /\ Goto(p, ok) /\ sem[n] = 1
              /\ sem' = [sem EXCEPT ![n] = 0] /\ adj' = [adj EXCEPT ![p][n] = @ + 1]
         /\ SemSignal(p, n, ok, err) /\ adj[p][n] > -1 =>
              /\ Goto(p, ok)
              /\ sem' = [sem EXCEPT ![n] = @ + 1] /\ adj' = [adj EXCEPT ![p][n] = @ - 1]
<1>1. sem[n] \in 0 .. 1 /\ adj[p][n] \in -1 .. 1
  BY DEF Sound
<1>2. adj[p][n] < 1 => ~Fails(p, n, -1)
  BY <1>1, MaxAdjAssumption DEF Fails
<1>3. adj[p][n] > -1 => ~Fails(p, n, 1)
  BY <1>1, MaxAdjAssumption DEF Fails
<1>4. ASSUME SemWait(p, n, ok, err), adj[p][n] < 1
      PROVE  /\ Goto(p, ok) /\ sem[n] = 1
             /\ sem' = [sem EXCEPT ![n] = 0] /\ adj' = [adj EXCEPT ![p][n] = @ + 1]
  <2>1. Goto(p, ok) /\ SemOp(p, n, -1) /\ sem[n] = 1
    BY <1>1, <1>2, <1>4 DEF SemWait
  <2>2. sem[n] + (-1) = 0 /\ adj[p][n] - (-1) = adj[p][n] + 1
    BY <1>1, <2>1
  <2> QED BY <2>1, <2>2 DEF SemOp
<1>5. ASSUME SemSignal(p, n, ok, err), adj[p][n] > -1
      PROVE  /\ Goto(p, ok)
             /\ sem' = [sem EXCEPT ![n] = @ + 1] /\ adj' = [adj EXCEPT ![p][n] = @ - 1]
  BY <1>3, <1>5 DEF SemSignal, SemOp
<1> QED BY <1>4, <1>5

(* What a semop() of p does to what p holds.                               *)
Changes(p, n, d) ==
  /\ sem' \in [Sem -> 0 .. 1] /\ adj' \in [Procs -> [Sem -> -1 .. 1]]
  /\ \A m \in Sem : /\ \A q \in Procs : q # p => adj'[q][m] = adj[q][m]
                    /\ sem'[m] + adj'[p][m] = sem[m] + adj[p][m]
                    /\ adj'[p][m] = IF m = n THEN adj[p][m] + d ELSE adj[p][m]

LEMMA Takes ==
  ASSUME Sound, ~gone, NEW p \in Procs, NEW n \in Sem, NEW ok, NEW err,
         adj[p][n] < 1, SemWait(p, n, ok, err)
  PROVE  Goto(p, ok) /\ sem[n] = 1 /\ Changes(p, n, 1)
<1>1. /\ Goto(p, ok) /\ sem[n] = 1
      /\ sem' = [sem EXCEPT ![n] = 0] /\ adj' = [adj EXCEPT ![p][n] = @ + 1]
  BY SoundOps
<1> QED BY <1>1 DEF Sound, Changes

LEMMA Gives ==
  ASSUME Sound, ~gone, NEW p \in Procs, NEW n \in Sem, NEW ok, NEW err,
         adj[p][n] > -1, sem[n] = 0, SemSignal(p, n, ok, err)
  PROVE  Goto(p, ok) /\ Changes(p, n, -1)
<1>1. /\ Goto(p, ok)
      /\ sem' = [sem EXCEPT ![n] = @ + 1] /\ adj' = [adj EXCEPT ![p][n] = @ - 1]
  BY SoundOps
<1> QED BY <1>1 DEF Sound, Changes

LEMMA NoChange ==
  ASSUME Sound, NEW p \in Procs, UNCHANGED <<sem, adj>>
  PROVE  Changes(p, "none", 0)
BY DEF Sound, Changes, Sem

(* The call that each label stands for.                                    *)
LEMMA CallAt ==
  ASSUME NEW p \in Procs, ReadLock(p) \/ WriteLock(p) \/ Step(p)
  PROVE  /\ pc[p] = "idle" =>
              /\ UNCHANGED <<sem, adj>>
              /\ (p \in Readers /\ Goto(p, "r_mutex")) \/ Goto(p, "w_wait")
         /\ pc[p] = "r_mutex" => SemWait(p, "mutex", "r_inc", "idle")
         /\ pc[p] = "r_inc" => SemSignal(p, "readers", "r_check", "f_rel")
         /\ pc[p] = "r_check" =>
              Goto(p, IF FirstReader THEN "r_waitw" ELSE "r_rel") /\ UNCHANGED <<sem, adj>>
         /\ pc[p] = "r_waitw" => SemWait(p, "writers", "r_rel", "f_dec")
         /\ pc[p] = "r_rel" => SemSignal(p, "mutex", "reading", "reading")
         /\ pc[p] = "f_rel" => SemSignal(p, "mutex", "idle", "idle")
         /\ pc[p] = "reading" => Goto(p, "u_mutex") /\ UNCHANGED <<sem, adj>>
         /\ pc[p] = "u_mutex" => SemWait(p, "mutex", "u_dec", "idle")
         /\ pc[p] = "u_dec" => SemWait(p, "readers", "u_check", "f_rel")
         /\ pc[p] = "u_check" =>
              Goto(p, IF LastReader THEN "u_sigw" ELSE "u_rel") /\ UNCHANGED <<sem, adj>>
         /\ pc[p] = "u_sigw" => SemSignal(p, "writers", "u_rel", "u_rel")
         /\ pc[p] = "u_rel" => SemSignal(p, "mutex", "idle", "idle")
         /\ pc[p] = "w_wait" => SemWait(p, "writers", "writing", "idle")
         /\ pc[p] = "writing" => Goto(p, "w_sig") /\ UNCHANGED <<sem, adj>>
         /\ pc[p] = "w_sig" => SemSignal(p, "writers", "idle", "idle")
BY DEF Step, ReadLock, WriteLock, ReadLockStep, ReadUnlock, ReadUnlockStep,
   WriteLockStep, WriteUnlock, WriteUnlockStep

(* A process that has counted itself is the only one: it is the first      *)
(* reader and it is the last.                                              *)
LEMMA SoundStep ==
  ASSUME OneReader, Sound, ~gone, NEW p \in Procs, ReadLock(p) \/ WriteLock(p) \/ Step(p)
  PROVE  Sound'
<1> USE DEF Sem, MutexAt, CountedAt, GroupAt, OwnerAt, HoldAt, ReadAt, Label
<1>0. /\ adj[p]["mutex"] = IF pc[p] \in MutexAt THEN 1 ELSE 0
      /\ adj[p]["readers"] = IF pc[p] \in CountedAt THEN -1 ELSE 0
      /\ adj[p]["writers"] = IF pc[p] \in HoldAt THEN 1 ELSE 0
      /\ pc[p] \in ReadAt => p \in Readers
      /\ pc[p] \in HoldAt => sem["writers"] = 0
      /\ pc[p] \in MutexAt => sem["mutex"] = 0
      /\ pc[p] \in ReadAt => (sem["readers"] = 1 <=> pc[p] \in CountedAt)
      /\ sem["readers"] \in 0 .. 1
  BY DEF Sound, OneReader
<1>1. CASE pc[p] = "r_mutex"
  <2>1. Goto(p, "r_inc") /\ sem["mutex"] = 1 /\ Changes(p, "mutex", 1)
    BY <1>0, <1>1, CallAt, Takes
  <2>2. /\ adj'[p]["mutex"] = 1 /\ adj'[p]["readers"] = 0
        /\ adj'[p]["writers"] = 0
    BY <1>0, <1>1, <2>1 DEF Changes
  <2> QED BY <1>0, <1>1, <2>1, <2>2, SoundMove DEF Changes
<1>2. CASE pc[p] = "r_inc"
  <2>1. Goto(p, "r_check") /\ Changes(p, "readers", -1)
    BY <1>0, <1>2, CallAt, Gives
  <2>2. /\ adj'[p]["mutex"] = 1 /\ adj'[p]["readers"] = -1
        /\ adj'[p]["writers"] = 0
    BY <1>0, <1>2, <2>1 DEF Changes
  <2> QED BY <1>0, <1>2, <2>1, <2>2, SoundMove DEF Changes
<1>3. CASE pc[p] = "r_check"
  <2>1. Goto(p, "r_waitw") /\ Changes(p, "none", 0)
    BY <1>0, <1>3, CallAt, NoChange DEF FirstReader, ReaderCount
  <2>2. /\ adj'[p]["mutex"] = 1 /\ adj'[p]["readers"] = -1
        /\ adj'[p]["writers"] = 0
    BY <1>0, <1>3, <2>1 DEF Changes
  <2> QED BY <1>0, <1>3, <2>1, <2>2, SoundMove DEF Changes
<1>4. CASE pc[p] = "r_waitw"
  <2>1. Goto(p, "r_rel") /\ sem["writers"] = 1 /\ Changes(p, "writers", 1)
    BY <1>0, <1>4, CallAt, Takes
  <2>2. /\ adj'[p]["mutex"] = 1 /\ adj'[p]["readers"] = -1
        /\ adj'[p]["writers"] = 1
    BY <1>0, <1>4, <2>1 DEF Changes
  <2> QED BY <1>0, <1>4, <2>1, <2>2, SoundMove DEF Changes
<1>5. CASE pc[p] = "r_rel"
  <2>1. Goto(p, "reading") /\ Changes(p, "mutex", -1)
    BY <1>0, <1>5, CallAt, Gives
  <2>2. /\ adj'[p]["mutex"] = 0 /\ adj'[p]["readers"] = -1
        /\ adj'[p]["writers"] = 1
    BY <1>0, <1>5, <2>1 DEF Changes
  <2> QED BY <1>0, <1>5, <2>1, <2>2, SoundMove DEF Changes
<1>6. CASE pc[p] = "f_rel"
  <2>1. Goto(p, "idle") /\ Changes(p, "mutex", -1)
    BY <1>0, <1>6, CallAt, Gives
  <2>2. /\ adj'[p]["mutex"] = 0 /\ adj'[p]["readers"] = 0
        /\ adj'[p]["writers"] = 0
    BY <1>0, <1>6, <2>1 DEF Changes
  <2> QED BY <1>0, <1>6, <2>1, <2>2, SoundMove DEF Changes
<1>7. CASE pc[p] = "reading"
  <2>1. Goto(p, "u_mutex") /\ Changes(p, "none", 0)
    BY <1>0, <1>7, CallAt, NoChange
  <2>2. /\ adj'[p]["mutex"] = 0 /\ adj'[p]["readers"] = -1
        /\ adj'[p]["writers"] = 1
    BY <1>0, <1>7, <2>1 DEF Changes
  <2> QED BY <1>0, <1>7, <2>1, <2>2, SoundMove DEF Changes
<1>8. CASE pc[p] = "u_mutex"
  <2>1. Goto(p, "u_dec") /\ sem["mutex"] = 1 /\ Changes(p, "mutex", 1)
    BY <1>0, <1>8, CallAt, Takes
  <2>2. /\ adj'[p]["mutex"] = 1 /\ adj'[p]["readers"] = -1
        /\ adj'[p]["writers"] = 1
    BY <1>0, <1>8, <2>1 DEF Changes
  <2> QED BY <1>0, <1>8, <2>1, <2>2, SoundMove DEF Changes
<1>9. CASE pc[p] = "u_dec"
  <2>1. Goto(p, "u_check") /\ sem["readers"] = 1 /\ Changes(p, "readers", 1)
    BY <1>0, <1>9, CallAt, Takes
  <2>2. /\ adj'[p]["mutex"] = 1 /\ adj'[p]["readers"] = 0
        /\ adj'[p]["writers"] = 1
    BY <1>0, <1>9, <2>1 DEF Changes
  <2> QED BY <1>0, <1>9, <2>1, <2>2, SoundMove DEF Changes
<1>10. CASE pc[p] = "u_check"
  <2>1. Goto(p, "u_sigw") /\ Changes(p, "none", 0)
    BY <1>0, <1>10, CallAt, NoChange DEF LastReader, ReaderCount
  <2>2. /\ adj'[p]["mutex"] = 1 /\ adj'[p]["readers"] = 0
        /\ adj'[p]["writers"] = 1
    BY <1>0, <1>10, <2>1 DEF Changes
  <2> QED BY <1>0, <1>10, <2>1, <2>2, SoundMove DEF Changes
<1>11. CASE pc[p] = "u_sigw"
  <2>1. Goto(p, "u_rel") /\ Changes(p, "writers", -1)
    BY <1>0, <1>11, CallAt, Gives
  <2>2. /\ adj'[p]["mutex"] = 1 /\ adj'[p]["readers"] = 0
        /\ adj'[p]["writers"] = 0
    BY <1>0, <1>11, <2>1 DEF Changes
  <2> QED BY <1>0, <1>11, <2>1, <2>2, SoundMove DEF Changes
<1>12. CASE pc[p] = "u_rel"
  <2>1. Goto(p, "idle") /\ Changes(p, "mutex", -1)
    BY <1>0, <1>12, CallAt, Gives
  <2>2. /\ adj'[p]["mutex"] = 0 /\ adj'[p]["readers"] = 0
        /\ adj'[p]["writers"] = 0
    BY <1>0, <1>12, <2>1 DEF Changes
  <2> QED BY <1>0, <1>12, <2>1, <2>2, SoundMove DEF Changes
<1>13. CASE pc[p] = "w_wait"
  <2>1. Goto(p, "writing") /\ sem["writers"] = 1 /\ Changes(p, "writers", 1)
    BY <1>0, <1>13, CallAt, Takes
  <2>2. /\ adj'[p]["mutex"] = 0 /\ adj'[p]["readers"] = 0
        /\ adj'[p]["writers"] = 1
    BY <1>0, <1>13, <2>1 DEF Changes
  <2> QED BY <1>0, <1>13, <2>1, <2>2, SoundMove DEF Changes
<1>14. CASE pc[p] = "writing"
  <2>1. Goto(p, "w_sig") /\ Changes(p, "none", 0)
    BY <1>0, <1>14, CallAt, NoChange
  <2>2. /\ adj'[p]["mutex"] = 0 /\ adj'[p]["readers"] = 0
        /\ adj'[p]["writers"] = 1
    BY <1>0, <1>14, <2>1 DEF Changes
  <2> QED BY <1>0, <1>14, <2>1, <2>2, SoundMove DEF Changes
<1>15. CASE pc[p] = "w_sig"
  <2>1. Goto(p, "idle") /\ Changes(p, "writers", -1)
    BY <1>0, <1>15, CallAt, Gives
  <2>2. /\ adj'[p]["mutex"] = 0 /\ adj'[p]["readers"] = 0
        /\ adj'[p]["writers"] = 0
    BY <1>0, <1>15, <2>1 DEF Changes
  <2> QED BY <1>0, <1>15, <2>1, <2>2, SoundMove DEF Changes
<1>16. CASE pc[p] = "idle"
  <2>1. PICK l \in {"r_mutex", "w_wait"} :
          Goto(p, l) /\ Changes(p, "none", 0) /\ (l \in ReadAt => p \in Readers)
    BY <1>16, CallAt, NoChange
  <2> QED BY <1>0, <1>16, <2>1, SoundMove DEF Changes
<1>17. pc[p] \in Label \ {"f_dec"}
  BY DEF Sound
<1> QED BY <1>1, <1>2, <1>3, <1>4, <1>5, <1>6, <1>7, <1>8, <1>9, <1>10, <1>11, <1>12,
           <1>13, <1>14, <1>15, <1>16, <1>17

(* The kernel gives back what the process holds, wherever it ends.         *)
LEMMA SoundExit ==
  ASSUME OneReader, Sound, NEW p \in Procs, Exit(p)
  PROVE  Sound'
<1> USE DEF Sem, MutexAt, CountedAt, GroupAt, OwnerAt, HoldAt, ReadAt, Label
<1>1. /\ pc[p] \in HoldAt <=> adj[p]["writers"] = 1
      /\ pc[p] \in HoldAt => sem["writers"] = 0
      /\ pc[p] \in MutexAt => sem["mutex"] = 0
      /\ pc[p] \in CountedAt => sem["readers"] = 1
  BY DEF Sound
<1>2. \A n \in Sem : sem[n] + adj[p][n] \in 0 .. 1
  BY <1>1 DEF Sound
<1>3. sem' \in [Sem -> 0 .. 1] /\ adj' \in [Procs -> [Sem -> -1 .. 1]]
  BY <1>2 DEF Exit, Sound
<1>4. \A n \in Sem : /\ \A q \in Procs : q # p => adj'[q][n] = adj[q][n]
                     /\ adj'[p][n] = 0 /\ sem'[n] = sem[n] + adj[p][n]
  BY <1>2 DEF Exit, Sound
<1>5. Goto(p, "idle") /\ adj[p] \in [Sem -> -1 .. 1] /\ sem \in [Sem -> 0 .. 1]
  BY DEF Exit, Sound
<1>6. \A n \in Sem : sem'[n] + adj'[p][n] = sem[n] + adj[p][n]
  BY <1>3, <1>4, <1>5
<1> QED BY <1>3, <1>4, <1>5, <1>6, SoundMove

LEMMA FaultInvariance ==
  ASSUME OneReader
  PROVE  SpecFaults => []FaultInv
<1>1. Init => FaultInv
  <2> SUFFICES ASSUME Init PROVE Sound
    BY DEF FaultInv
  <2>1. /\ pc \in [Procs -> {"idle"}] /\ sem \in [Sem -> 0 .. 1]
        /\ adj \in [Procs -> [Sem -> {0}]]
    BY DEF Init
  <2>2. sem["mutex"] = 1 /\ sem["readers"] = 0 /\ sem["writers"] = 1
    BY DEF Init, Sem
  <2> QED BY <2>1, <2>2
    DEF Sound, Sem, Label, MutexAt, CountedAt, GroupAt, OwnerAt, HoldAt, ReadAt
<1>2. FaultInv /\ [NextFaults]_vars => FaultInv'
  <2> SUFFICES ASSUME FaultInv, [NextFaults]_vars PROVE FaultInv'
    OBVIOUS
  <2>1. CASE Destroy
    BY <2>1 DEF Destroy, FaultInv
  <2>2. CASE ~gone /\ \E p \in Procs : Exit(p)
    BY <2>2, SoundExit DEF FaultInv
  <2>3. CASE ~gone /\ LockNext
    BY <2>3, SoundStep DEF FaultInv, LockNext
  <2>4. CASE gone /\ ~Destroy
    <3>1. gone'
      BY <2>4, Zenon DEF NextFaults, LockNext, Exit, Step, ReadLock, WriteLock, ReadLockStep,
         ReadUnlock, ReadUnlockStep, WriteLockStep, WriteUnlock, WriteUnlockStep, vars
    <3> QED BY <3>1 DEF FaultInv
  <2>5. CASE UNCHANGED vars
    BY <2>5 DEF vars, FaultInv, Sound
  <2> QED BY <2>1, <2>2, <2>3, <2>4, <2>5 DEF NextFaults
<1> QED BY <1>1, <1>2, PTL DEF SpecFaults

(* With one reader among any number of writers the lock excludes also when *)
(* processes end inside it, anywhere, and others take their place.         *)
THEOREM LoneReaderExcludes ==
  ASSUME OneReader
  PROVE  SpecFaults => []Exclusion
<1>1. FaultInv => Exclusion
  BY DEF FaultInv, Sound, Exclusion, HoldAt, GroupAt, OwnerAt
<1> QED BY <1>1, FaultInvariance, PTL

(* Then nothing is left in the semaphores when nobody is inside, however   *)
(* many processes have ended inside: SEM_UNDO gives back exactly what they *)
(* held.                                                                   *)
THEOREM LoneReaderReleases ==
  ASSUME OneReader
  PROVE  SpecFaults => []AllReleased
<1>1. FaultInv => AllReleased
  BY DEF FaultInv, Sound, AllReleased, Sem, MutexAt, CountedAt, HoldAt, GroupAt, OwnerAt
<1> QED BY <1>1, FaultInvariance, PTL

-----------------------------------------------------------------------------
(***************************************************************************)
(* Several readers, and processes that end while they only write.  A       *)
(* writer takes SEM_WRITERS for itself, so that the kernel gives back what *)
(* the writer itself would have given: the readers may be as many as they  *)
(* like.  It is the end of a reader that breaks the lock, and no other.    *)
(***************************************************************************)
PureWriters == Writers \ Readers

NextWriterExits == LockNext \/ Destroy \/ \E p \in PureWriters : Exit(p)
SpecWriterExits == Init /\ [][NextWriterExits]_vars

(* What a process that never reads has taken.                              *)
WritersHold ==
  \A p \in PureWriters :
    /\ pc[p] \in OwnerAt \union {"idle", "w_wait"}
    /\ adj[p]["writers"] = IF pc[p] \in OwnerAt THEN 1 ELSE 0

WriterInv == gone \/ (IInv /\ WritersHold)

LEMMA WritersHoldStep ==
  ASSUME IInv, WritersHold, NEW p \in Procs, ReadLock(p) \/ WriteLock(p) \/ Step(p)
  PROVE  WritersHold'
<1> USE DEF Sem, OwnerAt
<1>1. ASSUME NEW q \in PureWriters, q # p
      PROVE  pc'[q] = pc[q] /\ adj'[q]["writers"] = adj[q]["writers"]
  <2>1. \E l : Goto(p, l)
    BY DEF Step, ReadLock, WriteLock, ReadLockStep, ReadUnlock, ReadUnlockStep,
       WriteLockStep, WriteUnlock, WriteUnlockStep, SemWait, SemSignal
  <2>2. adj' = adj \/ \E n \in Sem, d \in {-1, 1} : SemOp(p, n, d)
    BY DEF Step, ReadLock, WriteLock, ReadLockStep, ReadUnlock, ReadUnlockStep,
       WriteLockStep, WriteUnlock, WriteUnlockStep, SemWait, SemSignal
  <2>3. pc'[q] = pc[q]
    BY <1>1, <2>1 DEF Goto, IInv, TypeOK, PureWriters, Procs
  <2>4. adj'[q] = adj[q]
    BY <1>1, <2>2 DEF SemOp, IInv, TypeOK, PureWriters, Procs
  <2> QED BY <2>3, <2>4
<1>2. ASSUME p \in PureWriters
      PROVE  /\ pc'[p] \in OwnerAt \union {"idle", "w_wait"}
             /\ adj'[p]["writers"] = IF pc'[p] \in OwnerAt THEN 1 ELSE 0
  <2>1. /\ pc[p] \in OwnerAt \union {"idle", "w_wait"} /\ p \notin Readers
        /\ adj[p]["writers"] = IF pc[p] \in OwnerAt THEN 1 ELSE 0
    BY <1>2 DEF WritersHold, PureWriters
  <2>2. \A l : Goto(p, l) => pc'[p] = l
    BY DEF Goto, IInv, TypeOK
  <2>3. \A d \in {-1, 1} : SemOp(p, "writers", d) => adj'[p]["writers"] = adj[p]["writers"] - d
    BY DEF SemOp, IInv, TypeOK
  <2>4. ~Fails(p, "writers", IF pc[p] \in OwnerAt THEN 1 ELSE -1)
    BY <2>1, MaxAdjAssumption DEF Fails, IInv
  <2>5. CASE pc[p] = "idle"
    BY <2>1, <2>2, <2>5, CallAt
  <2>6. CASE pc[p] = "w_wait"
    <3>1. Goto(p, "writing") /\ SemOp(p, "writers", -1)
      BY <2>4, <2>6, CallAt DEF SemWait
    <3> QED BY <2>1, <2>2, <2>3, <2>6, <3>1
  <2>7. CASE pc[p] = "writing"
    BY <2>1, <2>2, <2>7, CallAt
  <2>8. CASE pc[p] = "w_sig"
    <3>1. Goto(p, "idle") /\ SemOp(p, "writers", 1)
      BY <2>4, <2>8, CallAt DEF SemSignal
    <3> QED BY <2>1, <2>2, <2>3, <2>8, <3>1
  <2> QED BY <2>1, <2>5, <2>6, <2>7, <2>8
<1> QED BY <1>1, <1>2 DEF WritersHold

(* The end of a writer is its unlocking, wherever it ends.                 *)
LEMMA WriterExitStep ==
  ASSUME IInv, WritersHold, NEW p \in PureWriters, Exit(p)
  PROVE  IInv' /\ WritersHold'
<1> USE DEF Sem, MutexAt, CountedAt, GroupAt, OwnerAt, Label
<1>1. /\ p \in Procs /\ pc[p] \in OwnerAt \union {"idle", "w_wait"}
      /\ adj[p]["mutex"] = 0 /\ adj[p]["readers"] = 0
      /\ adj[p]["writers"] = IF pc[p] \in OwnerAt THEN 1 ELSE 0
  BY DEF PureWriters, Procs, WritersHold, IInv, MutexInv, CountInv, InMutex, Counted
<1>2. /\ Goto(p, "idle") /\ sem' \in [Sem -> Nat]
      /\ sem'["mutex"] = sem["mutex"] /\ sem'["readers"] = sem["readers"]
      /\ sem'["writers"] = sem["writers"] + (IF pc[p] \in OwnerAt THEN 1 ELSE 0)
  BY <1>1 DEF Exit, IInv, TypeOK
<1>3. /\ adj' \in [Procs -> [Sem -> -MaxAdj .. MaxAdj]]
      /\ \A q \in Procs, n \in Sem : adj'[q][n] = IF q = p THEN 0 ELSE adj[q][n]
  BY <1>1, MaxAdjAssumption DEF Exit, IInv, TypeOK
<1>4. TypeOK' /\ ~gone'
  BY <1>2, <1>3 DEF Exit, IInv, TypeOK, Goto
<1>5. MutexInv'
  BY <1>1, <1>2, <1>3, MutexStep
<1>6. CountInv'
  BY <1>1, <1>2, <1>3, CountStep
<1>7. TokenInv'
  <2>1. CASE pc[p] \in OwnerAt
    <3>1. Group \union Owners = {p}
      BY <1>1, <2>1 DEF IInv, TokenInv, Group, Owners
    <3> QED BY <1>2, <2>1, <3>1, <1>1, TokenStep DEF IInv, TypeOK
  <2>2. CASE pc[p] \notin OwnerAt
    <3>1. sem'["writers"] = sem["writers"]
      BY <1>2, <2>2 DEF IInv, TypeOK
    <3> QED BY <1>1, <1>2, <2>2, <3>1, TokenStep
  <2> QED BY <2>1, <2>2
<1>8. WritersHold'
  <2>1. \A q \in Procs : pc'[q] = IF q = p THEN "idle" ELSE pc[q]
    BY <1>1, <1>2, Move DEF IInv
  <2> QED BY <1>3, <2>1 DEF WritersHold, PureWriters, Procs
<1> QED BY <1>4, <1>5, <1>6, <1>7, <1>8 DEF IInv

LEMMA WriterInvariance == SpecWriterExits => []WriterInv
<1>1. Init => WriterInv
  <2>1. Init => IInv
    BY InitInv
  <2>2. Init => WritersHold
    BY DEF Init, WritersHold, OwnerAt, PureWriters, Procs, Sem
  <2> QED BY <2>1, <2>2 DEF WriterInv
<1>2. WriterInv /\ [NextWriterExits]_vars => WriterInv'
  <2> SUFFICES ASSUME WriterInv, [NextWriterExits]_vars PROVE WriterInv'
    OBVIOUS
  <2>1. CASE Destroy
    BY <2>1 DEF Destroy, WriterInv
  <2>2. CASE ~gone /\ \E p \in PureWriters : Exit(p)
    BY <2>2, WriterExitStep DEF WriterInv
  <2>3. CASE ~gone /\ LockNext
    <3>1. IInv'
      BY <2>3, StepInv DEF WriterInv
    <3> QED BY <2>3, <3>1, WritersHoldStep DEF WriterInv, LockNext
  <2>4. CASE gone /\ ~Destroy
    <3>1. gone'
      BY <2>4, Zenon DEF NextWriterExits, LockNext, Exit, Step, ReadLock, WriteLock,
         ReadLockStep, ReadUnlock, ReadUnlockStep, WriteLockStep, WriteUnlock,
         WriteUnlockStep, vars
    <3> QED BY <3>1 DEF WriterInv
  <2>5. CASE UNCHANGED vars
    BY <2>5 DEF vars, WriterInv, IInv, TypeOK, MutexInv, CountInv, TokenInv,
       ReaderCountExact, Counted, InMutex, Group, Owners, WritersHold
  <2> QED BY <2>1, <2>2, <2>3, <2>4, <2>5 DEF NextWriterExits
<1> QED BY <1>1, <1>2, PTL DEF SpecWriterExits

(* However many processes read, a process that only writes may end at any  *)
(* place of rwlock_write_lock() and rwlock_write_unlock(): the lock goes   *)
(* on excluding, and SEM_READERS goes on counting.                         *)
THEOREM WriterExitsExclude == SpecWriterExits => [](Exclusion /\ ReaderCountExact)
<1>1. WriterInv => Exclusion /\ ReaderCountExact
  BY DEF WriterInv, IInv, TokenInv, CountInv, Exclusion, ReaderCountExact,
     Group, Owners, GroupAt, OwnerAt
<1> QED BY <1>1, WriterInvariance, PTL

-----------------------------------------------------------------------------
(***************************************************************************)
(* The lock never gets stuck, which is what LockProgressInRange and        *)
(* LockProgress need besides the fairness of the scheduler: while anybody  *)
(* is inside it, somebody can make the next step.  The first reader waits  *)
(* for SEM_WRITERS while it holds SEM_MUTEX; it must never wait for a      *)
(* process that needs SEM_MUTEX to give SEM_WRITERS back.                  *)
(***************************************************************************)

(* The guards of Step(p) while the set exists.                             *)
Ready(p) ==
  /\ pc[p] # "idle"
  /\ pc[p] \in {"r_mutex", "u_mutex"} => sem["mutex"] > 0
  /\ pc[p] \in {"r_waitw", "w_wait"} => sem["writers"] > 0
  /\ pc[p] \in {"f_dec", "u_dec"} => sem["readers"] > 0

SomebodyInside == \E p \in Procs : pc[p] # "idle"
AtLimit == \E p \in Procs : adj[p]["writers"] = -MaxAdj

NeverStuck == ~gone /\ SomebodyInside => AtLimit \/ \E p \in Procs : Ready(p)

(* A semaphore that is taken has a holder, unless somebody could not give  *)
(* SEM_WRITERS back.                                                       *)
HeldInv ==
  /\ InMutex = {} => sem["mutex"] = 1
  /\ sem["writers"] = 0 => Group \union Owners # {} \/ AtLimit

LEMMA HeldMove ==
  ASSUME IInv, HeldInv, NEW p \in Procs, NEW l, Goto(p, l),
         \/ (pc[p] \in MutexAt <=> l \in MutexAt) /\ sem'["mutex"] = sem["mutex"]
         \/ l \in MutexAt
         \/ pc[p] \in MutexAt /\ sem'["mutex"] = sem["mutex"] + 1,
         \/ l \in GroupAt \union OwnerAt
         \/ Group \ {p} # {}
         \/ sem'["writers"] > 0
         \/ adj'[p]["writers"] = -MaxAdj
         \/ /\ pc[p] \notin GroupAt \union OwnerAt /\ sem'["writers"] = sem["writers"]
            /\ \A q \in Procs : adj'[q]["writers"] = adj[q]["writers"]
  PROVE  HeldInv'
<1>1. /\ InMutex' = IF l \in MutexAt THEN InMutex \union {p} ELSE InMutex \ {p}
      /\ Group' = IF l \in GroupAt THEN Group \union {p} ELSE Group \ {p}
      /\ Owners' = IF l \in OwnerAt THEN Owners \union {p} ELSE Owners \ {p}
      /\ p \in InMutex <=> pc[p] \in MutexAt
      /\ p \in Group <=> pc[p] \in GroupAt
      /\ p \in Owners <=> pc[p] \in OwnerAt
  BY Move DEF IInv, InMutex, Group, Owners
<1>2. InMutex' = {} => sem'["mutex"] = 1
  BY <1>1 DEF IInv, MutexInv, HeldInv
<1>3. sem'["writers"] = 0 => Group' \union Owners' # {} \/ AtLimit'
  BY <1>1 DEF HeldInv, AtLimit
<1> QED BY <1>2, <1>3 DEF HeldInv

LEMMA HeldStep ==
  ASSUME IInv, HeldInv, NEW p \in Procs, ReadLock(p) \/ WriteLock(p) \/ Step(p)
  PROVE  HeldInv'
<1> USE DEF Sem, MutexAt, GroupAt, OwnerAt
<1>1. CASE pc[p] = "r_mutex"
  <2>1. Goto(p, "r_inc") /\ Waited(p, "mutex")
    BY <1>1, CallAt, Waits, InRange DEF InMutex
  <2> QED BY <1>1, <2>1, HeldMove DEF Waited
<1>2. CASE pc[p] = "r_inc"
  <2>1. \/ Goto(p, "r_check") /\ Signalled(p, "readers")
        \/ Goto(p, "f_rel") /\ UNCHANGED <<sem, adj>>
    BY <1>2, CallAt, Signals
  <2> QED BY <1>2, <2>1, HeldMove DEF Signalled
<1>3. CASE pc[p] = "r_check"
  <2>1. (Goto(p, "r_waitw") \/ Goto(p, "r_rel")) /\ UNCHANGED <<sem, adj>>
    BY <1>3, CallAt
  <2> QED BY <1>3, <2>1, HeldMove
<1>4. CASE pc[p] = "r_waitw"
  <2>1. \/ Goto(p, "r_rel") /\ Waited(p, "writers")
        \/ Goto(p, "f_dec") /\ UNCHANGED <<sem, adj>>
    BY <1>4, CallAt, Waits
  <2> QED BY <1>4, <2>1, HeldMove DEF Waited
<1>5. CASE pc[p] = "r_rel"
  <2>1. Goto(p, "reading") /\ Signalled(p, "mutex")
    BY <1>5, CallAt, Signals, InRange DEF InMutex
  <2> QED BY <1>5, <2>1, HeldMove DEF Signalled
<1>6. CASE pc[p] = "f_dec"
  <2>1. Goto(p, "f_rel") /\ (Waited(p, "readers") \/ UNCHANGED <<sem, adj>>)
    BY <1>6, Waits DEF Step, ReadLockStep, ReadUnlock, ReadUnlockStep, WriteLockStep,
       WriteUnlock, WriteUnlockStep, ReadLock, WriteLock
  <2> QED BY <1>6, <2>1, HeldMove DEF Waited
<1>7. CASE pc[p] \in {"f_rel", "u_rel"}
  <2>1. Goto(p, "idle") /\ Signalled(p, "mutex")
    BY <1>7, CallAt, Signals, InRange DEF InMutex
  <2> QED BY <1>7, <2>1, HeldMove DEF Signalled
<1>8. CASE pc[p] = "reading"
  <2>1. Goto(p, "u_mutex") /\ UNCHANGED <<sem, adj>>
    BY <1>8, CallAt
  <2> QED BY <1>8, <2>1, HeldMove
<1>9. CASE pc[p] = "u_mutex"
  <2>1. Goto(p, "u_dec") /\ Waited(p, "mutex")
    BY <1>9, CallAt, Waits, InRange DEF InMutex
  <2> QED BY <1>9, <2>1, HeldMove DEF Waited
<1>10. CASE pc[p] = "u_dec"
  <2>1. Goto(p, "u_check") /\ Waited(p, "readers")
    BY <1>10, CallAt, Waits, InRange DEF Counted, CountedAt
  <2> QED BY <1>10, <2>1, HeldMove DEF Waited
<1>11. CASE pc[p] = "u_check"
  <2>1. /\ Goto(p, IF LastReader THEN "u_sigw" ELSE "u_rel")
        /\ UNCHANGED <<sem, adj>>
    BY <1>11, CallAt
  <2>2. CASE LastReader
    BY <1>11, <2>1, <2>2, HeldMove
  <2>3. CASE ~LastReader
    <3>1. Counted # {}
      BY <2>3, CountedSize DEF LastReader, ReaderCount, IInv, CountInv, ReaderCountExact
    <3>2. Group \ {p} # {}
      BY <1>11, <3>1 DEF Counted, CountedAt, Group, InMutex, IInv, MutexInv
    <3> QED BY <1>11, <2>1, <2>3, <3>2, HeldMove
  <2> QED BY <2>2, <2>3
<1>12. CASE pc[p] \in {"u_sigw", "w_sig"}
  <2>1. PICK l \in {"u_rel", "idle"} :
          /\ Goto(p, l) /\ (l = "u_rel" <=> pc[p] = "u_sigw")
          /\ \/ Signalled(p, "writers")
             \/ Fails(p, "writers", 1) /\ UNCHANGED <<sem, adj>>
    BY <1>12, CallAt, Signals
  <2>2. CASE Signalled(p, "writers")
    <3>1. sem'["writers"] > 0 /\ sem'["mutex"] = sem["mutex"]
      BY <2>2 DEF Signalled, IInv, TypeOK
    <3> QED BY <1>12, <2>1, <3>1, HeldMove
  <2>3. CASE Fails(p, "writers", 1) /\ UNCHANGED <<sem, adj>>
    <3>1. adj'[p]["writers"] = -MaxAdj
      BY <2>3, MaxAdjAssumption DEF Fails, IInv, TypeOK
    <3> QED BY <1>12, <2>1, <2>3, <3>1, HeldMove
  <2> QED BY <2>1, <2>2, <2>3
<1>13. CASE pc[p] = "w_wait"
  <2>1. \/ Goto(p, "writing") /\ Waited(p, "writers")
        \/ Goto(p, "idle") /\ UNCHANGED <<sem, adj>>
    BY <1>13, CallAt, Waits
  <2> QED BY <1>13, <2>1, HeldMove DEF Waited
<1>14. CASE pc[p] = "writing"
  <2>1. Goto(p, "w_sig") /\ UNCHANGED <<sem, adj>>
    BY <1>14, CallAt
  <2> QED BY <1>14, <2>1, HeldMove
<1>15. CASE pc[p] = "idle"
  <2>1. (Goto(p, "r_mutex") \/ Goto(p, "w_wait")) /\ UNCHANGED <<sem, adj>>
    BY <1>15, CallAt
  <2> QED BY <1>15, <2>1, HeldMove
<1> QED BY <1>1, <1>2, <1>3, <1>4, <1>5, <1>6, <1>7, <1>8, <1>9, <1>10, <1>11, <1>12,
           <1>13, <1>14, <1>15 DEF IInv, TypeOK

(* A writer that ends gives back what it holds; who could not give back    *)
(* SEM_WRITERS is a reader, and stays.                                     *)
LEMMA HeldExit ==
  ASSUME IInv, HeldInv, WritersHold, NEW p \in PureWriters, Exit(p)
  PROVE  HeldInv'
<1> USE DEF Sem, OwnerAt
<1>1. /\ p \in Procs /\ pc[p] \in OwnerAt \union {"idle", "w_wait"}
      /\ adj[p]["mutex"] = 0 /\ adj[p]["writers"] = IF pc[p] \in OwnerAt THEN 1 ELSE 0
  BY DEF PureWriters, Procs, WritersHold, IInv, MutexInv, InMutex, MutexAt
<1>2. /\ Goto(p, "idle") /\ sem'["mutex"] = sem["mutex"]
      /\ sem'["writers"] = sem["writers"] + (IF pc[p] \in OwnerAt THEN 1 ELSE 0)
      /\ sem["writers"] \in Nat
  BY <1>1 DEF Exit, IInv, TypeOK
<1>3. \A q \in Procs : adj'[q]["writers"] = IF q = p THEN 0 ELSE adj[q]["writers"]
  BY DEF Exit, IInv, TypeOK
<1>4. pc[p] \notin MutexAt /\ "idle" \notin MutexAt /\ pc[p] \notin GroupAt
  BY <1>1 DEF MutexAt, GroupAt
<1>5. CASE pc[p] \in OwnerAt
  <2>1. sem'["writers"] > 0
    BY <1>2, <1>5
  <2> QED BY <1>1, <1>2, <1>4, <2>1, HeldMove
<1>6. CASE pc[p] \notin OwnerAt
  <2>1. \A q \in Procs : adj'[q]["writers"] = adj[q]["writers"]
    BY <1>1, <1>3, <1>6
  <2>2. sem'["writers"] = sem["writers"]
    BY <1>2, <1>6
  <2> QED BY <1>1, <1>2, <1>4, <1>6, <2>1, <2>2, HeldMove
<1> QED BY <1>5, <1>6

LEMMA HeldInvariance == SpecWriterExits => [](WriterInv /\ (gone \/ HeldInv))
<1>1. Init => HeldInv
  BY DEF Init, HeldInv, Sem
<1>2. WriterInv /\ (gone \/ HeldInv) /\ [NextWriterExits]_vars => (gone \/ HeldInv)'
  <2> SUFFICES ASSUME WriterInv, gone \/ HeldInv, [NextWriterExits]_vars, ~gone, ~gone'
               PROVE  HeldInv'
    <3>1. gone /\ [NextWriterExits]_vars => gone'
      BY Zenon DEF NextWriterExits, LockNext, Destroy, Exit, Step, ReadLock, WriteLock,
         ReadLockStep, ReadUnlock, ReadUnlockStep, WriteLockStep, WriteUnlock,
         WriteUnlockStep, vars
    <3> QED BY <3>1
  <2>1. IInv /\ WritersHold /\ HeldInv
    BY DEF WriterInv
  <2>2. CASE LockNext
    BY <2>1, <2>2, HeldStep DEF LockNext
  <2>3. CASE \E p \in PureWriters : Exit(p)
    BY <2>1, <2>3, HeldExit
  <2>4. CASE UNCHANGED vars
    BY <2>1, <2>4 DEF vars, HeldInv, InMutex, Group, Owners, AtLimit
  <2> QED BY <2>2, <2>3, <2>4 DEF NextWriterExits, Destroy
<1> QED BY <1>1, <1>2, WriterInvariance, PTL DEF SpecWriterExits

(* Any number of readers and writers, and writers that end anywhere:       *)
(* unless a process has come to the end of its adjustments, readers and    *)
(* writers are never all blocked in sem_wait().                            *)
THEOREM LockNeverStuck ==
  /\ Spec => []NeverStuck
  /\ SpecWriterExits => []NeverStuck
<1>1. WriterInv /\ (gone \/ HeldInv) => NeverStuck
  <2> SUFFICES ASSUME IInv, HeldInv, SomebodyInside, ~AtLimit,
                      \A p \in Procs : ~Ready(p)
               PROVE  FALSE
    BY DEF WriterInv, NeverStuck
  <2> USE DEF MutexAt, GroupAt, OwnerAt
  <2>1. sem["mutex"] \in Nat /\ sem["writers"] \in Nat /\ sem["readers"] \in Nat
    BY DEF IInv, TypeOK, Sem
  <2>2. ASSUME NEW p \in Procs PROVE pc[p] \notin {"f_dec", "u_dec"}
    <3> SUFFICES ASSUME pc[p] \in {"f_dec", "u_dec"} PROVE FALSE
      OBVIOUS
    <3>1. p \in Counted
      BY DEF Counted, CountedAt
    <3>2. sem["readers"] > 0
      BY <2>1, <3>1, CountedSize DEF IInv, CountInv, ReaderCountExact
    <3> QED BY <3>2 DEF Ready
  <2>3. \A p \in Procs : \/ pc[p] = "idle"
                         \/ pc[p] \in {"r_mutex", "u_mutex"} /\ sem["mutex"] = 0
                         \/ pc[p] \in {"r_waitw", "w_wait"} /\ sem["writers"] = 0
    BY <2>1, <2>2 DEF Ready
  <2>4. sem["writers"] = 0 => \E q \in Procs : pc[q] = "u_mutex"
    BY <2>3 DEF HeldInv, Group, Owners
  <2>5. CASE InMutex = {}
    <3>1. sem["mutex"] = 1
      BY <2>5 DEF HeldInv
    <3> QED BY <2>3, <2>4, <2>5, <3>1 DEF SomebodyInside, InMutex
  <2>6. CASE InMutex # {}
    <3>1. PICK p \in Procs : pc[p] = "r_waitw" /\ sem["writers"] = 0
      BY <2>3, <2>6 DEF InMutex
    <3>2. PICK q \in Procs : pc[q] = "u_mutex"
      BY <2>4, <3>1
    <3> QED BY <3>1, <3>2 DEF IInv, CountInv, Counted, CountedAt
  <2> QED BY <2>5, <2>6
<1>2. [LockNext]_vars => [NextWriterExits]_vars
  BY DEF NextWriterExits
<1>3. Spec => SpecWriterExits
  BY <1>2, PTL DEF Spec, SpecWriterExits
<1> QED BY <1>1, <1>3, HeldInvariance, PTL

(* One reader, any number of writers, and processes that end at any place: *)
(* the kernel always gives back enough for somebody to go on.              *)
THEOREM LoneReaderNeverStuck ==
  ASSUME OneReader
  PROVE  SpecFaults => [](~gone /\ SomebodyInside => \E p \in Procs : Ready(p))
<1>1. FaultInv => (~gone /\ SomebodyInside => \E p \in Procs : Ready(p))
  <2> SUFFICES ASSUME Sound, SomebodyInside, \A p \in Procs : ~Ready(p)
               PROVE  FALSE
    BY DEF FaultInv
  <2> USE DEF MutexAt, GroupAt, OwnerAt, HoldAt, CountedAt, ReadAt, Sem
  <2>1. \A p \in Procs : pc[p] \notin {"f_dec", "u_dec"}
    BY DEF Sound, Ready
  <2>2. sem["mutex"] \in 0 .. 1 /\ sem["writers"] \in 0 .. 1
    BY DEF Sound
  <2>3. \A p \in Procs : \/ pc[p] = "idle"
                         \/ pc[p] \in {"r_mutex", "u_mutex"} /\ sem["mutex"] = 0
                         \/ pc[p] \in {"r_waitw", "w_wait"} /\ sem["writers"] = 0
    BY <2>1, <2>2 DEF Ready
  <2>4. sem["writers"] = 0 => \E q \in Procs : pc[q] = "u_mutex" /\ q \in Readers
    BY <2>3 DEF Sound
  <2>5. sem["mutex"] = 0 => \E p \in Procs : pc[p] = "r_waitw" /\ p \in Readers
    BY <2>3 DEF Sound
  <2>6. sem["mutex"] = 0
    BY <2>2, <2>3, <2>4 DEF SomebodyInside
  <2>7. sem["writers"] = 0
    BY <2>3, <2>5, <2>6
  <2> QED BY <2>4, <2>5, <2>6, <2>7 DEF OneReader
<1> QED BY <1>1, FaultInvariance, PTL
=============================================================================

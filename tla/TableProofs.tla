------------------------------ MODULE TableProofs ------------------------------
(***************************************************************************)
(* The rows of a list of processes stay with their processes, for every    *)
(* number of rows and whichever of them are dropped or fail to answer.     *)
(*                                                                         *)
(* The loop of run_watch_mode() that moves the valid rows to the front is  *)
(* taken apart first: it fills the first places with all of the valid      *)
(* rows.  The invariant then adds to RowsKeepTheirProcess that the older   *)
(* row of an index is of the process of that index, or not valid.          *)
(***************************************************************************)
EXTENDS Table, FiniteSetTheorems, WellFoundedInduction, TLAPS

(* A set of numbers that is not empty has a least one.                     *)
LEMMA LeastNumber ==
  ASSUME NEW T \in SUBSET Nat, T # {}
  PROVE  \E m \in T : \A n \in T : m <= n
<1>1. PICK m \in T : \A n \in T : <<n, m>> \notin OpToRel(<, Nat)
  BY NatLessThanWellFounded, WFMin, Zenon
<1>2. \A n \in T : n \in Nat /\ m \in Nat /\ ~(n < m)
  <2>1. TAKE n \in T
  <2>2. n \in Nat /\ m \in Nat /\ <<n, m>> \in Nat \X Nat
    OBVIOUS
  <2>3. n < m => <<n, m>> \in OpToRel(<, Nat)
    BY <2>2 DEF OpToRel
  <2> QED BY <1>1, <2>2, <2>3
<1> QED BY <1>2

-----------------------------------------------------------------------------
(* How many valid rows there are up to a row.                              *)
UpTo(ok, i) == {k \in ok : k <= i}

LEMMA AliveCounts ==
  ASSUME NEW n \in Nat, NEW ok \in SUBSET (1 .. n)
  PROVE  /\ Cardinality(ok) \in 0 .. n
         /\ Alive(ok, 0) = 0 /\ Alive(ok, n) = Cardinality(ok)
         /\ \A i \in 0 .. n : Alive(ok, i) \in 0 .. Cardinality(ok)
         /\ \A i \in 1 .. n : Alive(ok, i) = Alive(ok, i - 1) + (IF i \in ok THEN 1 ELSE 0)
         /\ \A i, j \in 0 .. n : i <= j => Alive(ok, i) <= Alive(ok, j)
<1>0. \A k \in ok : k \in 1 .. n /\ k \in Nat
  OBVIOUS
<1>1. IsFiniteSet(1 .. n) /\ Cardinality(1 .. n) = n
  BY FS_Interval
<1>2. IsFiniteSet(ok) /\ Cardinality(ok) \in Nat /\ Cardinality(ok) <= n
  BY <1>1, FS_Subset, FS_CardinalityType
<1>3. \A i : Alive(ok, i) = Cardinality(UpTo(ok, i))
  BY DEF Alive, UpTo
<1>4. ASSUME NEW i \in 0 .. n, NEW j \in 0 .. n, i <= j
      PROVE  /\ IsFiniteSet(UpTo(ok, i)) /\ Alive(ok, i) \in Nat
             /\ Alive(ok, i) <= Alive(ok, j) /\ Alive(ok, j) <= Cardinality(ok)
  <2>1. UpTo(ok, j) \subseteq ok
    BY DEF UpTo
  <2>2. UpTo(ok, i) \subseteq UpTo(ok, j)
    <3>1. \A k \in ok : k <= i => k <= j
      BY <1>0, <1>4
    <3> QED BY <3>1, Zenon DEF UpTo
  <2>3. IsFiniteSet(UpTo(ok, j)) /\ Cardinality(UpTo(ok, j)) <= Cardinality(ok)
    BY <1>2, <2>1, FS_Subset
  <2>4. /\ IsFiniteSet(UpTo(ok, i))
        /\ Cardinality(UpTo(ok, i)) <= Cardinality(UpTo(ok, j))
    BY <2>2, <2>3, FS_Subset
  <2>5. Cardinality(UpTo(ok, i)) \in Nat
    BY <2>4, FS_CardinalityType
  <2> QED BY <1>3, <2>3, <2>4, <2>5
<1>5. Alive(ok, 0) = 0
  <2>1. UpTo(ok, 0) = {}
    <3>1. \A k \in ok : ~(k <= 0)
      BY <1>0
    <3> QED BY <3>1, Zenon DEF UpTo
  <2> QED BY <1>3, <2>1, FS_EmptySet
<1>6. Alive(ok, n) = Cardinality(ok)
  <2>1. UpTo(ok, n) = ok
    <3>1. \A k \in ok : k <= n
      BY <1>0
    <3> QED BY <3>1, Zenon DEF UpTo
  <2> QED BY <1>3, <2>1
<1>7. ASSUME NEW i \in 1 .. n
      PROVE  Alive(ok, i) = Alive(ok, i - 1) + (IF i \in ok THEN 1 ELSE 0)
  <2>1. i - 1 \in 0 .. n /\ i - 1 <= i - 1
    OBVIOUS
  <2>2. IsFiniteSet(UpTo(ok, i - 1)) /\ Alive(ok, i - 1) \in Nat
    BY <1>4, <2>1
  <2>3. CASE i \in ok
    <3>1. UpTo(ok, i) = UpTo(ok, i - 1) \union {i} /\ i \notin UpTo(ok, i - 1)
      <4>1. ~(i <= i - 1) /\ \A k \in ok : k <= i <=> k <= i - 1 \/ k = i
        BY <1>0
      <4> QED BY <2>3, <4>1, Zenon DEF UpTo
    <3>2. Cardinality(UpTo(ok, i - 1) \union {i}) = Cardinality(UpTo(ok, i - 1)) + 1
      BY <2>2, <3>1, FS_AddElement
    <3> QED BY <1>3, <2>3, <3>1, <3>2
  <2>4. CASE i \notin ok
    <3>1. UpTo(ok, i) = UpTo(ok, i - 1)
      <4>1. \A k \in ok : k <= i <=> k <= i - 1
        BY <1>0, <2>4
      <4> QED BY <4>1, Zenon DEF UpTo
    <3> QED BY <1>3, <2>2, <2>4, <3>1
  <2> QED BY <2>3, <2>4
<1> QED BY <1>2, <1>4, <1>5, <1>6, <1>7

(* The loop fills the first places with the valid rows, all of them.       *)
LEMMA KeptRows ==
  ASSUME NEW n \in Nat, NEW ok \in SUBSET (1 .. n)
  PROVE  /\ Cardinality(ok) \in 0 .. n
         /\ Kept(ok) \in [1 .. Cardinality(ok) -> ok]
         /\ \A i \in ok : \E j \in 1 .. Cardinality(ok) : Kept(ok)[j] = i
<1>1. /\ Cardinality(ok) \in 0 .. n
      /\ Alive(ok, 0) = 0 /\ Alive(ok, n) = Cardinality(ok)
      /\ \A i \in 0 .. n : Alive(ok, i) \in 0 .. Cardinality(ok)
      /\ \A i \in 1 .. n : Alive(ok, i) = Alive(ok, i - 1) + (IF i \in ok THEN 1 ELSE 0)
      /\ \A i, j \in 0 .. n : i <= j => Alive(ok, i) <= Alive(ok, j)
  BY AliveCounts
<1>2. ASSUME NEW j \in 1 .. Cardinality(ok)
      PROVE  \E i \in ok : Alive(ok, i) = j
  <2> DEFINE T == {i \in 0 .. n : Alive(ok, i) >= j}
  <2>1. n \in T /\ T \in SUBSET Nat
    BY <1>1
  <2>2. PICK m \in T : \A i \in T : m <= i
    BY <2>1, LeastNumber
  <2>3. m \in 1 .. n /\ Alive(ok, m) >= j /\ Alive(ok, m - 1) < j
    <3>1. m \in 0 .. n /\ Alive(ok, m) >= j /\ m # 0
      BY <1>1
    <3>2. m - 1 \in 0 .. n /\ m - 1 \notin T
      BY <2>2, <3>1
    <3> QED BY <1>1, <3>1, <3>2
  <2>4. Alive(ok, m) = Alive(ok, m - 1) + (IF m \in ok THEN 1 ELSE 0)
    BY <1>1, <2>3
  <2>5. Alive(ok, m) \in Nat /\ Alive(ok, m - 1) \in Nat /\ j \in Nat
    BY <1>1, <2>3
  <2> HIDE DEF T
  <2>6. m \in ok /\ Alive(ok, m) = j
    BY <2>3, <2>4, <2>5
  <2> QED BY <2>6
<1>3. ASSUME NEW i \in ok, NEW k \in ok, Alive(ok, i) = Alive(ok, k), i < k
      PROVE  FALSE
  <2>1. i \in 0 .. n /\ k \in 1 .. n /\ k - 1 \in 0 .. n /\ i <= k - 1
    BY <1>3
  <2>2. Alive(ok, k) = Alive(ok, k - 1) + 1 /\ Alive(ok, i) <= Alive(ok, k - 1)
        /\ Alive(ok, k - 1) \in Nat /\ Alive(ok, i) \in Nat
    BY <1>1, <2>1
  <2> QED BY <1>3, <2>2
<1>4. \A i \in ok : i \in 1 .. n /\ Alive(ok, i) \in 1 .. Cardinality(ok)
  BY <1>1
<1>5. \A i, k \in ok : Alive(ok, i) = Alive(ok, k) => i = k
  BY <1>3, <1>4
<1> DEFINE from == [j \in 1 .. Cardinality(ok) |-> CHOOSE i \in ok : Alive(ok, i) = j]
<1>6. \A j \in 1 .. Cardinality(ok) : from[j] \in ok /\ Alive(ok, from[j]) = j
  BY <1>2
<1>7. from \in [1 .. Cardinality(ok) -> ok] /\ Kept(ok) = from
  BY <1>6 DEF Kept, Compacted
<1> HIDE DEF from
<1>8. \A i \in ok : from[Alive(ok, i)] = i
  BY <1>4, <1>5, <1>6
<1> QED BY <1>1, <1>4, <1>7, <1>8

-----------------------------------------------------------------------------
(* What an index of the list keeps is of the process of that index.        *)
Own(i) ==
  /\ prev[i] \in {None, pids[i]}
  /\ \A x \in hist[i] : x.of = pids[i] /\ x.base \in {None, x.of}

TableInv ==
  /\ TypeOK
  /\ DOMAIN pids \subseteq Rows /\ (pids # <<>> => mode # "top")
  /\ \A i \in DOMAIN pids : Own(i)

LEMMA RowsFinite ==
  /\ Cardinality(Procs) \in Nat
  /\ Cardinality(Listed) \in Nat /\ Cardinality(Listed) <= Cardinality(Procs)
  BY ProcsAssumption, FS_Subset, FS_CardinalityType

LEMMA TableInit == Init => TableInv
<1> SUFFICES ASSUME Init PROVE TableInv
  OBVIOUS
<1>1. /\ pids \in Seq(Procs) /\ Len(pids) <= MaxWatch
      /\ DOMAIN pids \subseteq Rows /\ (pids # <<>> => mode # "top")
  <2>1. CASE mode \in {"watch", "stream"} /\ \E n \in Rows : n <= MaxWatch /\ pids \in [1 .. n -> Procs]
    <3>1. PICK n \in Rows : n <= MaxWatch /\ pids \in [1 .. n -> Procs]
      BY <2>1
    <3>2. n \in Nat /\ 1 .. n \subseteq Rows
      BY RowsFinite DEF Rows
    <3> QED BY <2>1, <3>1, <3>2
  <2>2. CASE pids = <<>>
    BY <2>2, BoundsAssumption
  <2> QED BY <2>1, <2>2 DEF Init
<1>2. /\ mode \in Modes /\ live \subseteq Procs /\ undefined \in BOOLEAN
      /\ prev = [i \in Rows |-> None] /\ hist = [i \in Rows |-> {}]
  BY DEF Init
<1> QED BY <1>1, <1>2 DEF TableInv, TypeOK, Own

(* A function on the first numbers is a sequence.                          *)
LEMMA ListOf ==
  ASSUME NEW S, NEW n \in Nat, NEW f \in [1 .. n -> S]
  PROVE  f \in Seq(S) /\ Len(f) = n /\ DOMAIN f = 1 .. n
  OBVIOUS

(* A refresh of watch mode: index j is filled from row from[j].            *)
LEMMA WatchStep == ASSUME TableInv, WatchRefresh PROVE TableInv'
<1>1. PICK ok \in Answers(pids, live, live') :
        /\ pids' = [j \in 1 .. Len(Kept(ok)) |-> pids[Kept(ok)[j]]]
        /\ hist' = [i \in Rows |->
                      IF i <= Len(Kept(ok))
                      THEN MovedHistory(Kept(ok), i)
                             \union {NewSample(Kept(ok)[i], pids[Kept(ok)[i]])}
                      ELSE hist[i]]
        /\ prev' = [i \in Rows |-> IF i <= Len(Kept(ok)) THEN Saved(Kept(ok), i) ELSE prev[i]]
  BY DEF WatchRefresh
<1>2. PICK m \in Nat : /\ m = Len(pids) /\ m <= MaxWatch /\ DOMAIN pids = 1 .. m
                       /\ 1 .. m \subseteq Rows /\ \A i \in 1 .. m : pids[i] \in Procs
  BY DEF TableInv, TypeOK
<1>3. ok \in SUBSET (1 .. m)
  <2>1. ok \in SUBSET DOMAIN pids
    BY Zenon DEF Answers
  <2>2. DOMAIN pids = 1 .. m
    BY <1>2
  <2> QED BY <2>1, <2>2, Zenon
<1>4. PICK n \in 0 .. m : n = Cardinality(ok) /\ Kept(ok) \in [1 .. n -> ok]
  BY <1>3, KeptRows
<1>5. PICK from \in [1 .. n -> 1 .. m] : Kept(ok) = from /\ Len(Kept(ok)) = n
  <2>1. Kept(ok) \in [1 .. n -> 1 .. m]
    BY <1>3, <1>4
  <2> QED BY <2>1, ListOf
<1>6. /\ pids' = [j \in 1 .. n |-> pids[from[j]]]
      /\ hist' = [i \in Rows |->
                    IF i <= n THEN hist[from[i]] \union {NewSample(from[i], pids[from[i]])}
                    ELSE hist[i]]
      /\ prev' = [i \in Rows |-> IF i <= n THEN pids[from[i]] ELSE prev[i]]
  BY <1>1, <1>5, Zenon DEF MovedHistory, Saved
<1>7. \A j \in 1 .. n : /\ from[j] \in 1 .. m /\ pids[from[j]] \in Procs
                        /\ Own(from[j]) /\ from[j] \in Rows
                        /\ NewSample(from[j], pids[from[j]]) \in Sample
  <2> SUFFICES ASSUME NEW j \in 1 .. n
               PROVE  /\ from[j] \in 1 .. m /\ pids[from[j]] \in Procs
                      /\ Own(from[j]) /\ from[j] \in Rows
                      /\ NewSample(from[j], pids[from[j]]) \in Sample
    OBVIOUS
  <2>1. from[j] \in 1 .. m
    OBVIOUS
  <2>2. pids[from[j]] \in Procs /\ from[j] \in Rows /\ Own(from[j])
    BY <1>2, <2>1 DEF TableInv
  <2>3. prev[from[j]] \in Procs \union {None}
    BY <2>2 DEF TableInv, TypeOK
  <2> QED BY <2>1, <2>2, <2>3 DEF NewSample, Sample
<1>8. /\ pids' \in Seq(Procs) /\ Len(pids') = n /\ DOMAIN pids' = 1 .. n
      /\ 1 .. n \subseteq Rows
  <2>1. pids' \in [1 .. n -> Procs]
    BY <1>6, <1>7
  <2>2. 1 .. n \subseteq 1 .. m
    OBVIOUS
  <2> QED BY <1>2, <2>1, <2>2, ListOf
<1>9. \A i \in 1 .. n : Own(i)'
  <2> SUFFICES ASSUME NEW i \in 1 .. n PROVE Own(i)'
    OBVIOUS
  <2>1. /\ i \in Rows /\ i <= n /\ pids'[i] = pids[from[i]] /\ prev'[i] = pids[from[i]]
        /\ hist'[i] = hist[from[i]] \union {NewSample(from[i], pids[from[i]])}
    BY <1>6, <1>8
  <2>2. /\ prev[from[i]] \in {None, pids[from[i]]}
        /\ \A x \in hist[from[i]] : x.of = pids[from[i]] /\ x.base \in {None, x.of}
    BY <1>7 DEF Own
  <2>3. \A x \in hist'[i] : x.of = pids[from[i]] /\ x.base \in {None, x.of}
    BY <2>1, <2>2 DEF NewSample
  <2> QED BY <2>1, <2>3 DEF Own
<1>10. hist' \in [Rows -> SUBSET Sample] /\ prev' \in [Rows -> Procs \union {None}]
  <2>1. \A i \in Rows : i <= n => i \in 1 .. n
    BY RowsFinite DEF Rows
  <2>2. \A i \in Rows : hist[i] \in SUBSET Sample /\ prev[i] \in Procs \union {None}
    BY DEF TableInv, TypeOK
  <2>3. hist' \in [Rows -> SUBSET Sample]
    BY <1>6, <1>7, <2>1, <2>2
  <2>4. prev' \in [Rows -> Procs \union {None}]
    BY <1>6, <1>7, <2>1, <2>2
  <2> QED BY <2>3, <2>4
<1>11. UNCHANGED <<mode, undefined>> /\ live' \subseteq Procs /\ mode = "watch"
  BY DEF WatchRefresh, TableInv, TypeOK
<1>12. Len(pids') <= MaxWatch
  BY <1>2, <1>8, BoundsAssumption
<1>13. TypeOK'
  BY <1>8, <1>10, <1>11, <1>12 DEF TableInv, TypeOK
<1> QED BY <1>8, <1>9, <1>11, <1>13 DEF TableInv

(* A stream of listed processes: nothing moves.                            *)
LEMMA StreamStep == ASSUME TableInv, StreamRefresh PROVE TableInv'
<1>1. PICK ok \in Answers(pids, live, live') :
        /\ hist' = [i \in Rows |->
                      IF i \in ok THEN hist[i] \union {NewSample(i, pids[i])} ELSE hist[i]]
        /\ prev' = [i \in Rows |-> IF i \in ok THEN pids[i]
                                   ELSE IF i <= Len(pids) THEN None ELSE prev[i]]
  BY DEF StreamRefresh
<1>2. /\ UNCHANGED <<mode, pids, undefined>> /\ live' \subseteq Procs
      /\ DOMAIN pids \subseteq Rows
  BY DEF StreamRefresh, TableInv, TypeOK
<1>3. \A i \in ok : i \in DOMAIN pids
  BY Zenon DEF Answers
<1>4. \A i \in DOMAIN pids : pids[i] \in Procs /\ i <= Len(pids)
  BY DEF TableInv, TypeOK
<1>5. ASSUME NEW i \in Rows
      PROVE  /\ prev[i] \in Procs \union {None} /\ hist[i] \in SUBSET Sample
             /\ i \in DOMAIN pids => Own(i)
  BY DEF TableInv, TypeOK
<1>6. ASSUME NEW i \in DOMAIN pids
      PROVE  Own(i)'
  <2>1. /\ hist'[i] \in {hist[i], hist[i] \union {NewSample(i, pids[i])}}
        /\ prev'[i] \in {None, pids[i]}
    BY <1>1, <1>2, <1>4
  <2>2. \A x \in hist[i] \union {NewSample(i, pids[i])} :
          x.of = pids[i] /\ x.base \in {None, x.of}
    BY <1>2, <1>5 DEF Own, NewSample
  <2> QED BY <1>2, <2>1, <2>2 DEF Own
<1>7. ASSUME NEW i \in ok
      PROVE  NewSample(i, pids[i]) \in Sample
  BY <1>2, <1>3, <1>4, <1>5 DEF NewSample, Sample
<1>8. hist' \in [Rows -> SUBSET Sample]
  BY <1>1, <1>5, <1>7
<1>9. prev' \in [Rows -> Procs \union {None}]
  BY <1>1, <1>3, <1>4, <1>5
<1>10. TypeOK'
  BY <1>2, <1>8, <1>9 DEF TableInv, TypeOK
<1> QED BY <1>2, <1>6, <1>10 DEF TableInv

(* The lists of get_all_pids() are at most as long as the rows.            *)
LEMMA ListedRows ==
  ASSUME NEW list \in Lists
  PROVE  /\ \A i \in DOMAIN list : i \in Rows /\ list[i] \in Procs
         /\ Len(list) \in Nat /\ DOMAIN list = 1 .. Len(list)
<1>1. PICK n \in 0 .. Cardinality(Listed) : list \in [1 .. n -> Listed]
  BY Zenon DEF Lists
<1>2. n \in Nat /\ 1 .. n \subseteq Rows
  BY RowsFinite DEF Rows
<1>3. Len(list) = n /\ DOMAIN list = 1 .. n
  BY <1>1, <1>2, ListOf
<1> QED BY <1>1, <1>2, <1>3, ProcsAssumption

(* Without a list there is nothing to keep apart but the types.            *)
LEMMA NoListStep ==
  ASSUME TableInv, TopRefresh \/ StreamAllRefresh \/ Undefined \/ UNCHANGED vars
  PROVE  TableInv'
<1>0. /\ \A i \in Rows : prev[i] \in Procs \union {None} /\ hist[i] \in SUBSET Sample
      /\ prev \in [Rows -> Procs \union {None}] /\ hist \in [Rows -> SUBSET Sample]
  BY DEF TableInv, TypeOK
<1>1. CASE TopRefresh
  <2>1. PICK list \in Lists : \E ok \in SUBSET DOMAIN list : \E o \in Orders(list) :
          /\ Len(list) <= MaxWatch
          /\ hist' = [i \in Rows |->
                        IF i <= Len(list) /\ i <= TopN /\ o[i] \in ok
                        THEN hist[i] \union {NewSample(o[i], list[o[i]])}
                        ELSE hist[i]]
          /\ prev' = [i \in Rows |->
                        IF i > Len(list) THEN prev[i]
                        ELSE IF o[i] \in ok THEN list[o[i]] ELSE None]
    BY <1>1, Zenon DEF TopRefresh
  <2>2. PICK ok \in SUBSET DOMAIN list : \E o \in Orders(list) :
          /\ hist' = [i \in Rows |->
                        IF i <= Len(list) /\ i <= TopN /\ o[i] \in ok
                        THEN hist[i] \union {NewSample(o[i], list[o[i]])}
                        ELSE hist[i]]
          /\ prev' = [i \in Rows |->
                        IF i > Len(list) THEN prev[i]
                        ELSE IF o[i] \in ok THEN list[o[i]] ELSE None]
    BY <2>1
  <2>3. \A i \in ok : i \in Rows /\ list[i] \in Procs /\ NewSample(i, list[i]) \in Sample
    BY <1>0, ListedRows DEF NewSample, Sample
  <2>4. hist' \in [Rows -> SUBSET Sample]
    BY <1>0, <2>2, <2>3
  <2>5. prev' \in [Rows -> Procs \union {None}]
    BY <1>0, <2>2, <2>3
  <2>6. mode = "top" /\ UNCHANGED <<mode, live, pids, undefined>>
    BY <1>1 DEF TopRefresh
  <2> QED BY <2>4, <2>5, <2>6 DEF TableInv, TypeOK
<1>2. CASE StreamAllRefresh
  <2>1. PICK list \in Lists : \E ok \in SUBSET {i \in DOMAIN list : i <= TopN} :
          /\ hist' = [i \in Rows |->
                        IF i \in ok THEN hist[i] \union {NewSample(i, list[i])} ELSE hist[i]]
          /\ prev' = [i \in Rows |->
                        IF i > Len(list) \/ i > TopN THEN prev[i]
                        ELSE IF i \in ok THEN list[i] ELSE None]
    BY <1>2 DEF StreamAllRefresh
  <2>2. PICK ok \in SUBSET DOMAIN list :
          /\ hist' = [i \in Rows |->
                        IF i \in ok THEN hist[i] \union {NewSample(i, list[i])} ELSE hist[i]]
          /\ prev' = [i \in Rows |->
                        IF i > Len(list) \/ i > TopN THEN prev[i]
                        ELSE IF i \in ok THEN list[i] ELSE None]
    BY <2>1
  <2>3. \A i \in ok : i \in Rows /\ list[i] \in Procs /\ NewSample(i, list[i]) \in Sample
    BY <1>0, ListedRows DEF NewSample, Sample
  <2>4. hist' \in [Rows -> SUBSET Sample]
    BY <1>0, <2>2, <2>3
  <2>5. prev' \in [Rows -> Procs \union {None}]
    BY <1>0, <2>2, <2>3
  <2>6. pids = <<>> /\ UNCHANGED <<mode, live, pids, undefined>>
    BY <1>2 DEF StreamAllRefresh
  <2> QED BY <2>4, <2>5, <2>6 DEF TableInv, TypeOK
<1>3. CASE Undefined
  BY <1>3 DEF Undefined, TableInv, TypeOK, Own
<1>4. CASE UNCHANGED vars
  BY <1>4 DEF vars, TableInv, TypeOK, Own
<1> QED BY <1>1, <1>2, <1>3, <1>4

LEMMA TableStep == TableInv /\ [Next]_vars => TableInv'
  BY WatchStep, StreamStep, NoListStep DEF Next

LEMMA TableInvAlways == Spec => []TableInv
  BY TableInit, TableStep, PTL DEF Spec

-----------------------------------------------------------------------------
(* No index of the tables leaves its range.                                *)
THEOREM TableTypeCorrect == Spec => []TypeOK
<1>1. TableInv => TypeOK
  BY DEF TableInv
<1> QED BY <1>1, TableInvAlways, PTL

(* run_watch_mode() and run_stream_mode() show of every listed process     *)
(* samples of that process only, computed from snapshots of that process,  *)
(* whichever rows are dropped or fail to answer.                           *)
THEOREM TableKeepsRows == Spec => []RowsKeepTheirProcess
<1>1. TableInv => RowsKeepTheirProcess
  BY DEF TableInv, Own, RowsKeepTheirProcess
<1> QED BY <1>1, TableInvAlways, PTL

(* The loop of run_watch_mode() that moves the rows drops only the         *)
(* processes that have exited, if collect_parallel() does not fail.        *)
THEOREM TableDropsExited ==
  ASSUME "collect" \notin Failures
  PROVE  Spec => OnlyExitedDropped
<1>1. ASSUME TableInv, [Next]_vars, NEW i \in DOMAIN pids, pids[i] \in live'
      PROVE  \E j \in DOMAIN pids' : pids'[j] = pids[i]
  <2>1. CASE WatchRefresh
    <3>1. PICK ok \in Answers(pids, live, live') :
            pids' = [j \in 1 .. Len(Kept(ok)) |-> pids[Kept(ok)[j]]]
      BY <2>1 DEF WatchRefresh
    <3>2. ok \in SUBSET DOMAIN pids /\ i \in ok
      BY <1>1, Zenon DEF Answers
    <3>3. PICK m \in Nat : DOMAIN pids = 1 .. m
      BY <1>1 DEF TableInv, TypeOK
    <3>4. ok \in SUBSET (1 .. m)
      BY <3>2, <3>3, Zenon
    <3>5. PICK n \in Nat : n = Cardinality(ok)
      BY <3>4, KeptRows
    <3>6. Kept(ok) \in [1 .. n -> ok] /\ \E j \in 1 .. n : Kept(ok)[j] = i
      BY <3>2, <3>4, <3>5, KeptRows
    <3>7. Len(Kept(ok)) = n
      BY <3>6, ListOf
    <3>8. DOMAIN pids' = 1 .. n /\ \A j \in 1 .. n : pids'[j] = pids[Kept(ok)[j]]
      BY <3>1, <3>7
    <3> QED BY <3>6, <3>8
  <2>2. CASE ~WatchRefresh
    <3>1. pids' = pids
      BY <1>1, <2>2 DEF Next, StreamRefresh, TopRefresh, StreamAllRefresh, Undefined, vars
    <3> QED BY <1>1, <3>1
  <2> QED BY <2>1, <2>2
<1>2. TableInv /\ [Next]_vars =>
        [\A i \in DOMAIN pids :
           pids[i] \in live' => \E j \in DOMAIN pids' : pids'[j] = pids[i]]_vars
  BY <1>1
<1> QED BY <1>2, TableInvAlways, PTL DEF Spec, OnlyExitedDropped
================================================================================

-------------------------- MODULE MeasurementsProofs --------------------------
(***************************************************************************)
(* The three places of module Measurements where measured values are kept: *)
(* the alert, the ring of prices, and the file of histories.  Each part is *)
(* proved by itself, as a specification of its own; a behaviour of the     *)
(* whole is one of every part, in which the other parts change nothing.    *)
(***************************************************************************)
EXTENDS Measurements, SequenceTheorems, WellFoundedInduction, TLAPS

-----------------------------------------------------------------------------
(***************************************************************************)
(* One alert for one excursion, for any number of samples.                 *)
(*                                                                         *)
(* OneAlertPerExcursion looks back over everything printed; the code keeps *)
(* a single flag per value.  The invariant that connects them says that    *)
(* the flag is up if and only if an alert was printed with no sample of at *)
(* most 90% since.                                                         *)
(***************************************************************************)
(* The alert of row i has not been followed by a low sample up to row j.   *)
StillUp(c, i, j) == c \in log[i].alerts /\ \A k \in i .. j : log[k].level[c] # "low"

FlagInv ==
  \A c \in Channels : triggered[c] <=> \E i \in 1 .. Len(log) : StillUp(c, i, Len(log))

(* Row j has an alert for c where one is due, and only there.              *)
AlertIsDue(c, j) ==
  c \in log[j].alerts <=>
    log[j].level[c] = "high" /\ ~\E i \in 1 .. j - 1 : StillUp(c, i, j)

DueInv == \A c \in Channels : \A j \in 1 .. Len(log) : AlertIsDue(c, j)

AlertInv == TypeOK /\ FlagInv /\ DueInv

-----------------------------------------------------------------------------
LEMMA AlertInvInit == Init => AlertInv
<1> SUFFICES ASSUME Init PROVE AlertInv
  OBVIOUS
<1>1. TypeOK
  <2>1. NoRow \in Row
    BY DEF NoRow, Row, Levels
  <2>2. log \in Seq(Printed)
    BY DEF Init
  <2> QED BY <2>1, <2>2 DEF Init, TypeOK
<1>2. FlagInv /\ DueInv
  BY DEF Init, FlagInv, DueInv
<1> QED BY <1>1, <1>2 DEF AlertInv

(* Every step but Check leaves the flags and what was printed alone.       *)
LEMMA NothingPrinted ==
  ASSUME AlertInv,
         \/ Poll \/ PipeFails \/ Leave \/ ReportExit \/ Sleep
         \/ TargetExits \/ PidReused \/ Interrupt \/ UNCHANGED vars
  PROVE  AlertInv'
<1>1. UNCHANGED <<triggered, log>>
  BY DEF Poll, PipeFails, Leave, ReportExit, Sleep, TargetExits, PidReused,
         Interrupt, vars
<1>2. FlagInv' /\ DueInv'
  <2>1. FlagInv'
    BY <1>1 DEF AlertInv, FlagInv, StillUp
  <2>2. DueInv'
    BY <1>1 DEF AlertInv, DueInv, AlertIsDue, StillUp
  <2> QED BY <2>1, <2>2
<1>3. TypeOK'
  <2> USE DEF AlertInv, TypeOK
  <2>1. NoRow \in Row
    BY DEF NoRow, Row, Levels
  <2>2. CASE Poll
    BY <2>1, <2>2 DEF Poll, Rows
  <2>3. CASE \/ PipeFails \/ Leave \/ ReportExit \/ Sleep \/ TargetExits
             \/ PidReused \/ Interrupt \/ UNCHANGED vars
    BY <2>3 DEF PipeFails, Leave, ReportExit, GivesUp, Sleep, TargetExits,
                PidReused, Interrupt, vars
  <2> QED BY <2>2, <2>3
<1> QED BY <1>2, <1>3 DEF AlertInv

(* Check prints one row behind the others.                                 *)
LEMMA OneMorePrinted ==
  ASSUME AlertInv, Check
  PROVE  /\ TypeOK'
         /\ Len(log') = Len(log) + 1
         /\ \A i \in 1 .. Len(log) : log'[i] = log[i]
         /\ log'[Len(log) + 1].level = curr.level
         /\ log'[Len(log) + 1].alerts = {c \in Channels : Fires(c)}
<1> DEFINE row == [level |-> curr.level, alerts |-> {c \in Channels : Fires(c)}]
<1>1. row \in Printed /\ log \in Seq(Printed)
  BY DEF AlertInv, TypeOK, Row, Printed
<1>2. log' = Append(log, row)
  BY DEF Check
<1>3. triggered' \in [Channels -> BOOLEAN]
  BY DEF Check, AlertInv, TypeOK, Fires
<1>4. TypeOK'
  BY <1>1, <1>2, <1>3 DEF Check, AlertInv, TypeOK
<1> HIDE DEF row
<1>5. /\ Len(log') = Len(log) + 1
      /\ \A i \in 1 .. Len(log) : log'[i] = log[i]
      /\ log'[Len(log) + 1] = row
  BY <1>1, <1>2
<1> QED BY <1>4, <1>5 DEF row

(* The flags after Check, and the alerts printed with the row.             *)
LEMMA CheckStep == ASSUME AlertInv, Check PROVE AlertInv'
<1>1. PICK n \in Nat : n = Len(log)
  BY DEF AlertInv, TypeOK
<1>2. /\ TypeOK' /\ Len(log') = n + 1
      /\ \A i \in 1 .. n : log'[i] = log[i]
      /\ log'[n + 1].level = curr.level
      /\ log'[n + 1].alerts = {c \in Channels : Fires(c)}
  BY <1>1, OneMorePrinted
<1>3. ASSUME NEW c \in Channels, NEW i \in 1 .. n, NEW j \in 1 .. n
      PROVE  StillUp(c, i, j)' <=> StillUp(c, i, j)
  BY <1>2, <1>1, <1>3 DEF StillUp
<1>4. ASSUME NEW c \in Channels, NEW i \in 1 .. n
      PROVE  StillUp(c, i, n + 1)' <=> StillUp(c, i, n) /\ curr.level[c] # "low"
  <2>1. \A k \in i .. n + 1 : k \in i .. n \/ k = n + 1
    BY <1>1
  <2>2. n + 1 \in i .. n + 1 /\ \A k \in i .. n : k \in i .. n + 1 /\ k \in 1 .. n
    BY <1>1
  <2> QED BY <1>2, <2>1, <2>2 DEF StillUp
<1>5. ASSUME NEW c \in Channels
      PROVE  StillUp(c, n + 1, n + 1)' <=> Fires(c)
  <2>1. \A k \in n + 1 .. n + 1 : k = n + 1
    BY <1>1
  <2> QED BY <1>2, <2>1 DEF StillUp, Fires
<1>6. FlagInv'
  <2> SUFFICES ASSUME NEW c \in Channels
               PROVE  triggered'[c] <=> \E i \in 1 .. n + 1 : StillUp(c, i, n + 1)'
    BY <1>2 DEF FlagInv
  <2>1. triggered[c] <=> \E i \in 1 .. n : StillUp(c, i, n)
    BY <1>1 DEF AlertInv, FlagInv
  <2>2. triggered'[c] <=> Fires(c) \/ (triggered[c] /\ curr.level[c] # "low")
    BY DEF Check, Rearms
  <2>3. /\ \A i \in 1 .. n + 1 : i \in 1 .. n \/ i = n + 1
        /\ n + 1 \in 1 .. n + 1 /\ \A i \in 1 .. n : i \in 1 .. n + 1
    BY <1>1
  <2> QED BY <1>4, <1>5, <2>1, <2>2, <2>3
<1>7. DueInv'
  <2> SUFFICES ASSUME NEW c \in Channels, NEW j \in 1 .. n + 1
               PROVE  AlertIsDue(c, j)'
    BY <1>2 DEF DueInv
  <2>1. CASE j \in 1 .. n
    <3>1. AlertIsDue(c, j)
      BY <1>1, <2>1 DEF AlertInv, DueInv
    <3>2. \A i \in 1 .. j - 1 : i \in 1 .. n
      BY <1>1, <2>1
    <3> QED BY <1>2, <1>3, <2>1, <3>1, <3>2 DEF AlertIsDue
  <2>2. CASE j = n + 1
    <3>1. (n + 1) - 1 = n
      BY <1>1
    <3>2. triggered[c] <=> \E i \in 1 .. n : StillUp(c, i, n)
      BY <1>1 DEF AlertInv, FlagInv
    <3>3. c \in log'[n + 1].alerts <=> curr.level[c] = "high" /\ ~triggered[c]
      BY <1>2 DEF Fires
    <3> QED BY <1>2, <1>4, <2>2, <3>1, <3>2, <3>3 DEF AlertIsDue
  <2> QED BY <1>1, <2>1, <2>2
<1> QED BY <1>2, <1>6, <1>7 DEF AlertInv

LEMMA AlertInvStep == AlertInv /\ [Next]_vars => AlertInv'
  BY NothingPrinted, CheckStep DEF Next, Step

(* What the user sees is what DueInv says.                                 *)
LEMMA DueIsOnePerExcursion == ASSUME TypeOK, DueInv PROVE OneAlertPerExcursion
<1>1. DOMAIN log = 1 .. Len(log)
  BY DEF TypeOK
<1> QED BY <1>1 DEF DueInv, AlertIsDue, StillUp, OneAlertPerExcursion

LEMMA AlertSays == AlertInv => OneAlertPerExcursion
  BY DueIsOnePerExcursion DEF AlertInv

(* run_alert_mode() prints one alert for each excursion above a threshold  *)
(* and misses none, for any set of values and any number of samples.       *)
THEOREM AlertsOnce == Spec => []OneAlertPerExcursion
  BY AlertSays, AlertInvInit, AlertInvStep, PTL DEF Spec

-----------------------------------------------------------------------------
(***************************************************************************)
(* The ring of prices of ai.c gives back the last prices added, for every  *)
(* size of the ring, every set of prices and any number of them.           *)
(*                                                                         *)
(* The proof is about the places of the ring: Back is the place of the     *)
(* k-th price before position i.  Adding a price moves the position by     *)
(* one, so that the k-th price before it was the (k-1)-th until then, and  *)
(* the place that is overwritten is none of those that are still counted.  *)
(***************************************************************************)
Back(i, k) == (i - 1 - k + RingSize) % RingSize
Behind(i) == (i + 1) % RingSize

LEMMA BackIs ==
  ASSUME NEW i \in RingPlace, NEW k \in RingPlace
  PROVE  /\ Back(i, k) = IF k < i THEN i - 1 - k ELSE i - 1 - k + RingSize
         /\ Back(i, k) \in RingPlace
<1> USE RingAssumption DEF RingPlace
<1>1. CASE k < i
  <2>1. i - 1 - k + RingSize = (i - 1 - k) + 1 * RingSize /\ i - 1 - k \in 0 .. RingSize - 1
    BY <1>1
  <2>2. (i - 1 - k + RingSize) % RingSize = i - 1 - k
    BY <2>1
  <2> QED BY <1>1, <2>1, <2>2 DEF Back
<1>2. CASE k >= i
  <2>1. i - 1 - k + RingSize \in 0 .. RingSize - 1
    BY <1>2
  <2>2. (i - 1 - k + RingSize) % RingSize = i - 1 - k + RingSize
    BY <2>1
  <2> QED BY <1>2, <2>1, <2>2 DEF Back
<1> QED BY <1>1, <1>2

LEMMA BehindIs ==
  ASSUME NEW i \in RingPlace
  PROVE  /\ Behind(i) = IF i + 1 = RingSize THEN 0 ELSE i + 1
         /\ Behind(i) \in RingPlace
<1> USE RingAssumption DEF RingPlace
<1>1. CASE i + 1 = RingSize
  BY <1>1 DEF Behind
<1>2. CASE i + 1 < RingSize
  BY <1>2 DEF Behind
<1> QED BY <1>1, <1>2

(* After a step the most recent price is where the position was.           *)
LEMMA BackOfNew ==
  ASSUME NEW i \in RingPlace
  PROVE  Back(Behind(i), 0) = i
<1>1. 0 \in RingPlace
  BY RingAssumption DEF RingPlace
<1>2. Behind(i) \in RingPlace /\ Behind(i) = IF i + 1 = RingSize THEN 0 ELSE i + 1
  BY BehindIs
<1>3. Back(Behind(i), 0) =
        IF 0 < Behind(i) THEN Behind(i) - 1 - 0 ELSE Behind(i) - 1 - 0 + RingSize
  BY <1>1, <1>2, BackIs
<1> QED BY <1>2, <1>3, RingAssumption DEF RingPlace

(* The others are one further back, and were not overwritten.              *)
LEMMA BackOfOlder ==
  ASSUME NEW i \in RingPlace, NEW k \in 1 .. RingSize - 1
  PROVE  Back(Behind(i), k) = Back(i, k - 1) /\ Back(i, k - 1) # i
<1>1. k \in RingPlace /\ k - 1 \in RingPlace
  BY RingAssumption DEF RingPlace
<1>2. Back(i, k - 1) = IF k - 1 < i THEN i - 1 - (k - 1) ELSE i - 1 - (k - 1) + RingSize
  BY <1>1, BackIs
<1>3. CASE i + 1 = RingSize
  <2>1. Behind(i) = 0 /\ 0 \in RingPlace
    BY <1>3, BehindIs
  <2>2. Back(0, k) = IF k < 0 THEN 0 - 1 - k ELSE 0 - 1 - k + RingSize
    BY <1>1, <2>1, BackIs
  <2> QED BY <1>2, <1>3, <2>1, <2>2, RingAssumption DEF RingPlace
<1>4. CASE i + 1 # RingSize
  <2>1. Behind(i) = i + 1 /\ i + 1 \in RingPlace
    BY <1>4, BehindIs
  <2>2. Back(i + 1, k) = IF k < i + 1 THEN i + 1 - 1 - k ELSE i + 1 - 1 - k + RingSize
    BY <1>1, <2>1, BackIs
  <2> QED BY <1>2, <1>4, <2>1, <2>2, RingAssumption DEF RingPlace
<1> QED BY <1>3, <1>4

-----------------------------------------------------------------------------
(* How many prices are counted, and where each of them is.                 *)
CountInv == count = IF Len(added) < RingSize THEN Len(added) ELSE RingSize
PlacesInv == \A k \in 0 .. count - 1 : prices[Back(index, k)] = added[Len(added) - k]
RingInv == PriceTypeOK /\ CountInv /\ PlacesInv

LEMMA RingInit == PriceInit => RingInv
<1> SUFFICES ASSUME PriceInit PROVE RingInv
  OBVIOUS
<1>1. Len(added) = 0 /\ added \in Seq(Accepted)
  BY DEF PriceInit
<1>2. PriceTypeOK
  BY <1>1, RingAssumption DEF PriceInit, PriceTypeOK, RingPlace
<1>3. CountInv
  BY <1>1, RingAssumption DEF PriceInit, CountInv
<1>4. PlacesInv
  BY DEF PriceInit, PlacesInv
<1> QED BY <1>2, <1>3, <1>4 DEF RingInv

LEMMA RingAdd ==
  ASSUME RingInv, NEW p \in Prices, AddPrice(p)
  PROVE  RingInv'
<1> USE RingAssumption
<1>1. /\ prices \in [RingPlace -> Accepted \union {0}] /\ count \in 0 .. RingSize
      /\ index \in RingPlace /\ added \in Seq(Accepted) /\ p \in Accepted
      /\ count = IF Len(added) < RingSize THEN Len(added) ELSE RingSize
  BY DEF RingInv, PriceTypeOK, CountInv, AddPrice, Accepted
<1>2. /\ prices' = [prices EXCEPT ![index] = p]
      /\ index' = Behind(index)
      /\ count' = IF count < RingSize THEN count + 1 ELSE count
      /\ added' = Append(added, p)
  BY DEF AddPrice, Advanced, Behind
<1>3. /\ added' \in Seq(Accepted) /\ Len(added') = Len(added) + 1 /\ Len(added) \in Nat
      /\ \A j \in 1 .. Len(added) : added'[j] = added[j]
      /\ added'[Len(added) + 1] = p
  BY <1>1, <1>2
<1>4. PriceTypeOK'
  <2>1. prices' \in [RingPlace -> Accepted \union {0}]
    BY <1>1, <1>2
  <2>2. index' \in RingPlace
    BY <1>1, <1>2, BehindIs
  <2>3. count' \in 0 .. RingSize
    BY <1>1, <1>2
  <2> QED BY <1>3, <2>1, <2>2, <2>3 DEF PriceTypeOK
<1>5. CountInv'
  BY <1>1, <1>2, <1>3 DEF CountInv
<1>6. PlacesInv'
  <2> SUFFICES ASSUME NEW k \in 0 .. count' - 1
               PROVE  prices'[Back(index', k)] = added'[Len(added') - k]
    BY DEF PlacesInv
  <2>1. CASE k = 0
    <3>1. Back(index', k) = index
      BY <1>1, <1>2, <2>1, BackOfNew
    <3>2. prices'[index] = p
      BY <1>1, <1>2
    <3>3. added'[Len(added') - k] = p
      BY <1>3, <2>1
    <3> QED BY <3>1, <3>2, <3>3
  <2>2. CASE k # 0
    <3>1. k \in 1 .. RingSize - 1 /\ k - 1 \in 0 .. count - 1 /\ count <= Len(added)
          /\ k - 1 \in RingPlace
      BY <1>1, <1>2, <1>3, <2>2 DEF RingPlace
    <3>2. Back(index', k) = Back(index, k - 1) /\ Back(index, k - 1) # index
      BY <1>1, <1>2, <3>1, BackOfOlder
    <3>3. Back(index, k - 1) \in RingPlace
      BY <1>1, <3>1, BackIs
    <3>4. prices'[Back(index, k - 1)] = prices[Back(index, k - 1)]
      BY <1>1, <1>2, <3>2, <3>3
    <3>5. prices[Back(index, k - 1)] = added[Len(added) - (k - 1)]
      BY <3>1 DEF RingInv, PlacesInv
    <3>6. Len(added) - (k - 1) \in 1 .. Len(added)
          /\ Len(added') - k = Len(added) - (k - 1)
      BY <1>1, <1>3, <3>1
    <3>7. added'[Len(added') - k] = added[Len(added) - (k - 1)]
      BY <1>3, <3>6
    <3> QED BY <3>2, <3>4, <3>5, <3>7
  <2> QED BY <2>1, <2>2
<1> QED BY <1>4, <1>5, <1>6 DEF RingInv

LEMMA RingStep == RingInv /\ [PriceNext]_priceVars => RingInv'
<1> SUFFICES ASSUME RingInv, [PriceNext]_priceVars PROVE RingInv'
  OBVIOUS
<1>1. CASE PriceNext
  BY <1>1, RingAdd DEF PriceNext
<1>2. CASE UNCHANGED priceVars
  BY <1>2 DEF priceVars, RingInv, PriceTypeOK, CountInv, PlacesInv
<1> QED BY <1>1, <1>2

LEMMA RingReads == RingInv => PriceAtExact
<1> SUFFICES ASSUME RingInv, NEW k \in -1 .. RingSize
             PROVE  PriceAt(k) = IF 0 <= k /\ k < RingSize /\ k < Len(added)
                                 THEN added[Len(added) - k] ELSE -1
  BY DEF PriceAtExact
<1>1. /\ count = IF Len(added) < RingSize THEN Len(added) ELSE RingSize
      /\ Len(added) \in Nat /\ RingSize \in Nat
  BY RingAssumption DEF RingInv, CountInv, PriceTypeOK
<1>2. CASE k < 0 \/ k >= count
  BY <1>1, <1>2 DEF PriceAt
<1>3. CASE ~(k < 0 \/ k >= count)
  <2>1. k \in 0 .. count - 1 /\ k < RingSize /\ k < Len(added)
    BY <1>1, <1>3
  <2>2. prices[Back(index, k)] = added[Len(added) - k]
    BY <2>1 DEF RingInv, PlacesInv
  <2> QED BY <1>3, <2>1, <2>2 DEF PriceAt, Back
<1> QED BY <1>2, <1>3

(* The fields of a PriceHistory stay within their ranges: no place outside *)
(* the array is written, however many prices are added.                    *)
THEOREM PriceTypeCorrect == PriceSpec => []PriceTypeOK
<1>1. RingInv => PriceTypeOK
  BY DEF RingInv
<1> QED BY RingInit, RingStep, <1>1, PTL DEF PriceSpec

(* get_price_at() gives the last prices added, most recent first, and -1   *)
(* for every other position, for every size of the ring.                   *)
THEOREM PricesExact == PriceSpec => []PriceAtExact
<1> QED BY RingInit, RingStep, RingReads, PTL DEF PriceSpec

-----------------------------------------------------------------------------
(***************************************************************************)
(* The verdicts of ai.c are borne out by the prices, for every size of the *)
(* ring, all periods and whatever prices are added.                        *)
(*                                                                         *)
(* Induction takes the form of a least counterexample.  If no price of the *)
(* window was higher than the one before, the prices do not decrease from  *)
(* the most recent one backwards, so that the short average, being over    *)
(* the most recent ones, is not above the long one.                        *)
(***************************************************************************)
(* A set of numbers that is not empty has a least one.                     *)
LEMMA LeastNumber ==
  ASSUME NEW T \in SUBSET Nat, T # {}
  PROVE  \E m \in T : \A n \in T : m <= n
<1>1. PICK m \in T : \A n \in T : <<n, m>> \notin OpToRel(<, Nat)
  BY NatLessThanWellFounded, WFMin, Zenon
<1>2. \A n \in T : m <= n
  <2> SUFFICES ASSUME NEW n \in T PROVE ~(n < m)
    OBVIOUS
  <2>1. n < m => <<n, m>> \in OpToRel(<, Nat)
    BY DEF OpToRel
  <2> QED BY <1>1, <2>1
<1> QED BY <1>2

(* The sums of a series exist as a function of the number of summands.     *)
LEMMA SumsExist ==
  ASSUME NEW N \in Nat, NEW g \in [0 .. N - 1 -> Int]
  PROVE  \E f \in [0 .. N -> Int] : f[0] = 0 /\ \A k \in 1 .. N : f[k] = f[k - 1] + g[k - 1]
<1> DEFINE Sums(m, f) == f[0] = 0 /\ \A k \in 1 .. m : f[k] = f[k - 1] + g[k - 1]
           Missing == {m \in 0 .. N : ~\E f \in [0 .. m -> Int] : Sums(m, f)}
<1>1. SUFFICES ASSUME Missing # {} PROVE FALSE
  <2>1. N \in 0 .. N
    OBVIOUS
  <2>2. N \notin Missing => \E f \in [0 .. N -> Int] : Sums(N, f)
    <3> HIDE DEF Sums
    <3> QED BY <2>1
  <2>3. Missing = {} => N \notin Missing
    <3> HIDE DEF Missing
    <3> QED OBVIOUS
  <2> HIDE DEF Missing
  <2> QED BY <2>2, <2>3
<1>2. PICK m \in Missing : \A n \in Missing : m <= n
  <2> HIDE DEF Missing
  <2>1. Missing \in SUBSET Nat
    BY DEF Missing
  <2> QED BY <1>1, <2>1, LeastNumber
<1>3. m \in 0 .. N /\ ~\E f \in [0 .. m -> Int] : Sums(m, f)
  OBVIOUS
<1>4. m # 0
  <2>1. [k \in 0 .. 0 |-> 0] \in [0 .. 0 -> Int] /\ Sums(0, [k \in 0 .. 0 |-> 0])
    OBVIOUS
  <2> QED BY <1>3, <2>1
<1>5. PICK f \in [0 .. m - 1 -> Int] : Sums(m - 1, f)
  <2>1. m - 1 \in 0 .. N /\ ~(m <= m - 1)
    BY <1>3, <1>4
  <2>2. m - 1 \notin Missing
    <3> HIDE DEF Missing
    <3> QED BY <1>2, <2>1
  <2> QED BY <2>1, <2>2
<1> DEFINE h == [k \in 0 .. m |-> IF k < m THEN f[k] ELSE f[m - 1] + g[m - 1]]
<1>6. h \in [0 .. m -> Int]
  <2>1. f[m - 1] \in Int /\ g[m - 1] \in Int
    BY <1>3, <1>4
  <2>2. \A k \in 0 .. m : k < m => f[k] \in Int
    BY <1>3, <1>4
  <2> QED BY <2>1, <2>2
<1>7. Sums(m, h)
  <2>1. h[0] = 0
    BY <1>3, <1>4, <1>5
  <2>2. ASSUME NEW k \in 1 .. m PROVE h[k] = h[k - 1] + g[k - 1]
    <3>1. h[k - 1] = f[k - 1]
      BY <1>3
    <3>2. CASE k = m
      BY <1>3, <3>1, <3>2
    <3>3. CASE k < m
      BY <1>3, <1>5, <3>1, <3>3
    <3> QED BY <1>3, <3>2, <3>3
  <2> QED BY <2>1, <2>2
<1> QED BY <1>3, <1>6, <1>7

(* Every counted price is positive.                                        *)
LEMMA PricesPositive ==
  ASSUME RingInv
  PROVE  /\ count \in 0 .. RingSize /\ count <= Len(added) /\ Len(added) \in Nat
         /\ (count < RingSize => count = Len(added))
         /\ \A k \in 0 .. count - 1 : /\ PriceAt(k) = added[Len(added) - k]
                                      /\ PriceAt(k) \in Int /\ PriceAt(k) > 0
         /\ \A k \in -1 .. RingSize : PriceAt(k) \in Int
<1> USE RingAssumption
<1>1. /\ count \in 0 .. RingSize /\ added \in Seq(Accepted) /\ Len(added) \in Nat
      /\ count = IF Len(added) < RingSize THEN Len(added) ELSE RingSize
  BY DEF RingInv, PriceTypeOK, CountInv
<1>2. \A k \in 1 .. Len(added) : added[k] \in Int /\ added[k] > 0
  <2>1. \A k \in 1 .. Len(added) : added[k] \in Accepted
    BY <1>1
  <2>2. \A p \in Accepted : p \in Int /\ p > 0
    BY DEF Accepted
  <2> QED BY <2>1, <2>2
<1>3. ASSUME NEW k \in -1 .. RingSize
      PROVE  PriceAt(k) = IF 0 <= k /\ k < RingSize /\ k < Len(added)
                          THEN added[Len(added) - k] ELSE -1
  BY RingReads DEF PriceAtExact
<1>4. ASSUME NEW k \in 0 .. count - 1
      PROVE  /\ PriceAt(k) = added[Len(added) - k]
             /\ PriceAt(k) \in Int /\ PriceAt(k) > 0
  <2>1. k \in -1 .. RingSize /\ k < RingSize /\ k < Len(added)
        /\ Len(added) - k \in 1 .. Len(added)
    BY <1>1
  <2> QED BY <1>2, <1>3, <2>1
<1>5. ASSUME NEW k \in -1 .. RingSize
      PROVE  PriceAt(k) \in Int
  <2>1. CASE k \in 0 .. count - 1
    BY <1>4, <2>1
  <2>2. CASE k \notin 0 .. count - 1
    BY <1>1, <2>2 DEF PriceAt
  <2> QED BY <2>1, <2>2
<1> QED BY <1>1, <1>4, <1>5

(* The recursive definition of Total is one of a function.                 *)
LEMMA TotalIs ==
  ASSUME RingInv
  PROVE  /\ Total \in [0 .. RingSize -> Int]
         /\ Total[0] = 0
         /\ \A k \in 1 .. RingSize : Total[k] = Total[k - 1] + PriceAt(k - 1)
<1> USE RingAssumption
<1> DEFINE g == [k \in 0 .. RingSize - 1 |-> PriceAt(k)]
           Eqn(t) == t = [n \in 0 .. RingSize |-> IF n = 0 THEN 0 ELSE t[n - 1] + PriceAt(n - 1)]
<1>1. g \in [0 .. RingSize - 1 -> Int]
  BY PricesPositive
<1>2. PICK f \in [0 .. RingSize -> Int] :
        f[0] = 0 /\ \A k \in 1 .. RingSize : f[k] = f[k - 1] + g[k - 1]
  <2> HIDE DEF g
  <2> QED BY <1>1, SumsExist
<1>3. \A k \in 1 .. RingSize : g[k - 1] = PriceAt(k - 1)
  OBVIOUS
<1>4. Eqn(f)
  <2>1. \A n \in 0 .. RingSize : f[n] = IF n = 0 THEN 0 ELSE f[n - 1] + PriceAt(n - 1)
    BY <1>2, <1>3
  <2> QED BY <2>1
<1>5. Total = CHOOSE t : Eqn(t)
  BY DEF Total
<1>6. Eqn(Total)
  <2> HIDE DEF Eqn
  <2> QED BY <1>4, <1>5
<1>7. /\ DOMAIN Total = 0 .. RingSize /\ Total[0] = 0
      /\ \A k \in 1 .. RingSize : Total[k] = Total[k - 1] + PriceAt(k - 1)
  BY <1>6
<1>8. \A k \in 0 .. RingSize : Total[k] \in Int
  <2> DEFINE Bad == {k \in 0 .. RingSize : Total[k] \notin Int}
  <2>1. SUFFICES ASSUME Bad # {} PROVE FALSE
    OBVIOUS
  <2>2. PICK m \in Bad : \A n \in Bad : m <= n
    <3> HIDE DEF Bad
    <3>1. Bad \in SUBSET Nat
      BY DEF Bad
    <3> QED BY <2>1, <3>1, LeastNumber
  <2>3. m # 0
    BY <1>7
  <2>4. m - 1 \in 0 .. RingSize /\ m \in 1 .. RingSize /\ m - 1 \notin Bad
    BY <2>2, <2>3
  <2>5. Total[m - 1] \in Int /\ PriceAt(m - 1) \in Int
    BY <2>4, PricesPositive
  <2> QED BY <1>7, <2>2, <2>4, <2>5
<1>9. Total = [k \in 0 .. RingSize |-> Total[k]]
  BY <1>6
<1> QED BY <1>7, <1>8, <1>9

(* A bound on the summands is one on the difference of two sums.           *)
LEMMA SumsAbove ==
  ASSUME RingInv, NEW a \in 0 .. RingSize, NEW b \in a .. RingSize, NEW M \in Int,
         \A k \in a .. b - 1 : PriceAt(k) >= M
  PROVE  Total[b] - Total[a] >= (b - a) * M
<1> USE RingAssumption
<1> DEFINE Bad == {k \in a .. b : ~(Total[k] - Total[a] >= (k - a) * M)}
<1>1. SUFFICES ASSUME Bad # {} PROVE FALSE
  OBVIOUS
<1>2. PICK m \in Bad : \A n \in Bad : m <= n
  <2> HIDE DEF Bad
  <2>1. Bad \in SUBSET Nat
    BY DEF Bad
  <2> QED BY <1>1, <2>1, LeastNumber
<1>3. m # a
  <2>1. Total[a] \in Int
    BY TotalIs
  <2>2. Total[a] - Total[a] = 0 /\ (a - a) * M = 0
    BY <2>1
  <2> QED BY <1>2, <2>2
<1>4. m - 1 \in a .. b /\ m \in 1 .. RingSize /\ m - 1 \in a .. b - 1 /\ ~(m <= m - 1)
  BY <1>2, <1>3
<1>5. m - 1 \notin Bad
  <2> HIDE DEF Bad
  <2> QED BY <1>2, <1>4
<1>6. Total[m - 1] - Total[a] >= (m - 1 - a) * M
  BY <1>4, <1>5
<1>7. Total[m] = Total[m - 1] + PriceAt(m - 1) /\ PriceAt(m - 1) >= M
      /\ PriceAt(m - 1) \in Int /\ Total[m - 1] \in Int /\ Total[a] \in Int
  BY <1>4, TotalIs, PricesPositive
<1>8. (m - a) * M = (m - 1 - a) * M + M
  BY <1>4
<1>9. (m - 1 - a) * M \in Int
  BY <1>4
<1>10. Total[m] - Total[a] >= (m - a) * M
  BY <1>6, <1>7, <1>8, <1>9
<1> QED BY <1>2, <1>10

LEMMA SumsBelow ==
  ASSUME RingInv, NEW a \in 0 .. RingSize, NEW b \in a .. RingSize, NEW M \in Int,
         \A k \in a .. b - 1 : PriceAt(k) <= M
  PROVE  Total[b] - Total[a] <= (b - a) * M
<1> USE RingAssumption
<1> DEFINE Bad == {k \in a .. b : ~(Total[k] - Total[a] <= (k - a) * M)}
<1>1. SUFFICES ASSUME Bad # {} PROVE FALSE
  OBVIOUS
<1>2. PICK m \in Bad : \A n \in Bad : m <= n
  <2> HIDE DEF Bad
  <2>1. Bad \in SUBSET Nat
    BY DEF Bad
  <2> QED BY <1>1, <2>1, LeastNumber
<1>3. m # a
  <2>1. Total[a] \in Int
    BY TotalIs
  <2>2. Total[a] - Total[a] = 0 /\ (a - a) * M = 0
    BY <2>1
  <2> QED BY <1>2, <2>2
<1>4. m - 1 \in a .. b /\ m \in 1 .. RingSize /\ m - 1 \in a .. b - 1 /\ ~(m <= m - 1)
  BY <1>2, <1>3
<1>5. m - 1 \notin Bad
  <2> HIDE DEF Bad
  <2> QED BY <1>2, <1>4
<1>6. Total[m - 1] - Total[a] <= (m - 1 - a) * M
  BY <1>4, <1>5
<1>7. Total[m] = Total[m - 1] + PriceAt(m - 1) /\ PriceAt(m - 1) <= M
      /\ PriceAt(m - 1) \in Int /\ Total[m - 1] \in Int /\ Total[a] \in Int
  BY <1>4, TotalIs, PricesPositive
<1>8. (m - a) * M = (m - 1 - a) * M + M
  BY <1>4
<1>9. (m - 1 - a) * M \in Int
  BY <1>4
<1>10. Total[m] - Total[a] <= (m - a) * M
  BY <1>6, <1>7, <1>8, <1>9
<1> QED BY <1>2, <1>10

(* Prices none of which rose do not decrease backwards, and those none of  *)
(* which fell do not increase.                                             *)
LEMMA NotMoved ==
  ASSUME RingInv, NEW up \in BOOLEAN, NEW n \in 1 .. RingSize, ~Moved(up, n),
         NEW j \in 0 .. n - 1, j < count, NEW i \in 0 .. j
  PROVE  IF up THEN PriceAt(i) <= PriceAt(j) ELSE PriceAt(i) >= PriceAt(j)
<1> USE RingAssumption
<1> DEFINE InOrder(k) == IF up THEN PriceAt(i) <= PriceAt(k) ELSE PriceAt(i) >= PriceAt(k)
           Bad == {k \in i .. j : ~InOrder(k)}
<1>1. SUFFICES ASSUME Bad # {} PROVE FALSE
  <2>1. j \in i .. j
    OBVIOUS
  <2> QED BY <2>1
<1>2. PICK m \in Bad : \A k \in Bad : m <= k
  <2> HIDE DEF Bad
  <2>1. Bad \in SUBSET Nat
    BY DEF Bad
  <2> QED BY <1>1, <2>1, LeastNumber
<1>3. m \in i .. j /\ i \in 0 .. count - 1 /\ count \in Nat
  BY <1>2, PricesPositive
<1>4. m # i
  <2>1. InOrder(i)
    BY <1>3, PricesPositive
  <2> QED BY <1>2, <2>1
<1>5. m - 1 \in i .. j /\ ~(m <= m - 1)
  BY <1>3, <1>4
<1>6. InOrder(m - 1)
  <2>1. m - 1 \notin Bad
    <3> HIDE DEF Bad
    <3> QED BY <1>2, <1>5
  <2> QED BY <1>5, <2>1
<1>7. m \in 0 .. count - 1 /\ m - 1 \in 0 .. count - 1
  BY <1>3, <1>4
<1>8. /\ PriceAt(m) = added[Len(added) - m] /\ PriceAt(m) \in Int
      /\ PriceAt(m - 1) = added[Len(added) - (m - 1)] /\ PriceAt(m - 1) \in Int
      /\ PriceAt(i) \in Int
  BY <1>3, <1>7, PricesPositive
<1> DEFINE l == Len(added) - (m - 1)
<1>9. /\ l \in 2 .. Len(added) /\ l > Len(added) - n + 1 /\ l - 1 = Len(added) - m
  BY <1>3, <1>4, <1>7, PricesPositive
<1>10. IF up THEN ~(added[l] > added[l - 1]) ELSE ~(added[l] < added[l - 1])
  BY <1>9 DEF Moved
<1>11. InOrder(m)
  <2>1. /\ PriceAt(m - 1) = added[l] /\ PriceAt(m) = added[l - 1]
        /\ added[l] \in Int /\ added[l - 1] \in Int /\ PriceAt(i) \in Int
    BY <1>8, <1>9
  <2>2. CASE up
    <3>1. PriceAt(i) <= added[l] /\ added[l] <= added[l - 1]
      BY <1>6, <1>10, <2>1, <2>2
    <3> HIDE DEF l
    <3> QED BY <2>1, <2>2, <3>1
  <2>3. CASE ~up
    <3>1. PriceAt(i) >= added[l] /\ added[l] >= added[l - 1]
      BY <1>6, <1>10, <2>1, <2>3
    <3> HIDE DEF l
    <3> QED BY <2>1, <2>3, <3>1
  <2> QED BY <2>2, <2>3
<1> QED BY <1>2, <1>11

LEMMA NotRisen ==
  ASSUME RingInv, NEW n \in 1 .. RingSize, ~Moved(TRUE, n),
         NEW j \in 0 .. n - 1, j < count, NEW i \in 0 .. j
  PROVE  PriceAt(i) <= PriceAt(j)
<1>1. IF TRUE THEN PriceAt(i) <= PriceAt(j) ELSE PriceAt(i) >= PriceAt(j)
  BY NotMoved, Zenon
<1> QED BY <1>1

LEMMA NotFallen ==
  ASSUME RingInv, NEW n \in 1 .. RingSize, ~Moved(FALSE, n),
         NEW j \in 0 .. n - 1, j < count, NEW i \in 0 .. j
  PROVE  PriceAt(i) >= PriceAt(j)
<1>1. IF FALSE THEN PriceAt(i) <= PriceAt(j) ELSE PriceAt(i) >= PriceAt(j)
  BY NotMoved, Zenon
<1> QED BY <1>1

(* The averages are apart only if a price of the long window moved.        *)
LEMMA CrossoverMoved ==
  ASSUME RingInv
  PROVE  /\ Crossover \in {-1, 0, 1}
         /\ Crossover # 0 => count >= Long
         /\ Crossover > 0 => Moved(TRUE, Long)
         /\ Crossover < 0 => Moved(FALSE, Long)
<1> DEFINE S == Total[Short]
           L == Total[Long]
<1>1. /\ Short \in Nat /\ Long \in Nat /\ Short >= 1 /\ Short < Long /\ Long < RingSize
      /\ S \in Int /\ L \in Int /\ count \in Nat /\ RingSize \in Nat
  <2> USE RingAssumption
  <2>1. Short \in 1 .. RingSize - 1 /\ Long \in 1 .. RingSize - 1 /\ Short < Long
    BY PeriodsAssumption
  <2>2. Total \in [0 .. RingSize -> Int] /\ count \in 0 .. RingSize
    BY TotalIs, PricesPositive
  <2> QED BY <2>1, <2>2
<1>2. /\ Crossover \in {-1, 0, 1}
      /\ Crossover # 0 => count >= Long
      /\ Crossover > 0 => 200 * (Long * S - Short * L) > Short * L
      /\ Crossover < 0 => 200 * (Long * S - Short * L) < -(Short * L)
  BY <1>1 DEF Crossover, HasAverage
<1> DEFINE M == PriceAt(Short - 1)
<1>3. ASSUME count >= Long
      PROVE  M \in Int /\ Short * L >= 0
  <2>1. ASSUME NEW k \in 0 .. Long - 1 PROVE PriceAt(k) >= 0
    <3>1. k \in 0 .. count - 1
      BY <1>1, <1>3
    <3> QED BY <3>1, PricesPositive
  <2>2. 0 \in 0 .. RingSize /\ Long \in 0 .. RingSize /\ 0 \in Int
    BY <1>1
  <2>3. L - Total[0] >= (Long - 0) * 0
    BY <2>1, <2>2, SumsAbove
  <2>4. Total[0] = 0
    BY TotalIs
  <2>5. L >= 0
    BY <1>1, <2>3, <2>4
  <2>6. M \in Int
    <3>1. Short - 1 \in -1 .. RingSize
      BY <1>1
    <3> QED BY <3>1, PricesPositive
  <2> HIDE DEF L, M
  <2> QED BY <1>1, <2>5, <2>6
<1>4. ASSUME count >= Long, \A k \in 0 .. Short - 1 : PriceAt(k) <= M,
             \A k \in Short .. Long - 1 : PriceAt(k) >= M
      PROVE  Long * S <= Short * L
  <2>1. S <= Short * M
    <3> HIDE DEF M
    <3>1. 0 \in 0 .. RingSize /\ Short \in 0 .. RingSize
      BY <1>1
    <3>2. S - Total[0] <= (Short - 0) * M
      BY <1>3, <1>4, <3>1, SumsBelow
    <3>3. Total[0] = 0
      BY TotalIs
    <3> QED BY <1>1, <1>3, <1>4, <3>2, <3>3
  <2>2. L - S >= (Long - Short) * M
    BY <1>1, <1>3, <1>4, SumsAbove
  <2> HIDE DEF S, L, M
  <2>3. (Long - Short) * S <= (Long - Short) * (Short * M)
    BY <1>1, <1>3, <1>4, <2>1
  <2>4. Short * ((Long - Short) * M) <= Short * (L - S)
    BY <1>1, <1>3, <1>4, <2>2
  <2>5. (Long - Short) * (Short * M) = Short * ((Long - Short) * M)
    BY <1>1, <1>3, <1>4
  <2>6. (Long - Short) * S = Long * S - Short * S /\ Short * (L - S) = Short * L - Short * S
    BY <1>1
  <2> QED BY <1>1, <1>3, <1>4, <2>3, <2>4, <2>5, <2>6
<1>5. ASSUME count >= Long, \A k \in 0 .. Short - 1 : PriceAt(k) >= M,
             \A k \in Short .. Long - 1 : PriceAt(k) <= M
      PROVE  Short * L <= Long * S
  <2>1. S >= Short * M
    <3> HIDE DEF M
    <3>1. 0 \in 0 .. RingSize /\ Short \in 0 .. RingSize
      BY <1>1
    <3>2. S - Total[0] >= (Short - 0) * M
      BY <1>3, <1>5, <3>1, SumsAbove
    <3>3. Total[0] = 0
      BY TotalIs
    <3> QED BY <1>1, <1>3, <1>5, <3>2, <3>3
  <2>2. L - S <= (Long - Short) * M
    BY <1>1, <1>3, <1>5, SumsBelow
  <2> HIDE DEF S, L, M
  <2>3. (Long - Short) * (Short * M) <= (Long - Short) * S
    BY <1>1, <1>3, <1>5, <2>1
  <2>4. Short * (L - S) <= Short * ((Long - Short) * M)
    BY <1>1, <1>3, <1>5, <2>2
  <2>5. (Long - Short) * (Short * M) = Short * ((Long - Short) * M)
    BY <1>1, <1>3, <1>5
  <2>6. (Long - Short) * S = Long * S - Short * S /\ Short * (L - S) = Short * L - Short * S
    BY <1>1
  <2> QED BY <1>1, <1>3, <1>5, <2>3, <2>4, <2>5, <2>6
<1>6. ASSUME Crossover > 0, ~Moved(TRUE, Long) PROVE FALSE
  <2>1. count >= Long
    BY <1>2, <1>6
  <2>2. ASSUME NEW k \in 0 .. Short - 1 PROVE PriceAt(k) <= M
    <3>1. Long \in 1 .. RingSize /\ Short - 1 \in 0 .. Long - 1 /\ Short - 1 < count
      BY <1>1, <2>1
    <3> QED BY <1>6, <3>1, NotRisen
  <2>3. ASSUME NEW k \in Short .. Long - 1 PROVE PriceAt(k) >= M
    <3>1. /\ Long \in 1 .. RingSize /\ k \in 0 .. Long - 1 /\ k < count
          /\ Short - 1 \in 0 .. k
      BY <1>1, <2>1
    <3> QED BY <1>6, <3>1, NotRisen
  <2>4. Long * S <= Short * L /\ Short * L >= 0
    BY <1>3, <1>4, <2>1, <2>2, <2>3
  <2> HIDE DEF S, L
  <2> QED BY <1>1, <1>2, <1>6, <2>4
<1>7. ASSUME Crossover < 0, ~Moved(FALSE, Long) PROVE FALSE
  <2>1. count >= Long
    BY <1>2, <1>7
  <2>2. ASSUME NEW k \in 0 .. Short - 1 PROVE PriceAt(k) >= M
    <3>1. Long \in 1 .. RingSize /\ Short - 1 \in 0 .. Long - 1 /\ Short - 1 < count
      BY <1>1, <2>1
    <3> QED BY <1>7, <3>1, NotFallen
  <2>3. ASSUME NEW k \in Short .. Long - 1 PROVE PriceAt(k) <= M
    <3>1. /\ Long \in 1 .. RingSize /\ k \in 0 .. Long - 1 /\ k < count
          /\ Short - 1 \in 0 .. k
      BY <1>1, <2>1
    <3> QED BY <1>7, <3>1, NotFallen
  <2>4. Short * L <= Long * S /\ Short * L >= 0
    BY <1>3, <1>5, <2>1, <2>2, <2>3
  <2> HIDE DEF S, L
  <2> QED BY <1>1, <1>2, <1>7, <2>4
<1> QED BY <1>2, <1>6, <1>7

(* So does the momentum, whose signs exclude each other.                   *)
LEMMA MomentumMoved ==
  ASSUME RingInv, NEW t \in Nat
  PROVE  /\ MomentumAbove(t) => /\ MomentumAbove(0) /\ ~MomentumBelow(0) /\ HasMomentum
                                /\ Moved(TRUE, Lookback + 1)
         /\ MomentumBelow(t) => /\ MomentumBelow(0) /\ ~MomentumAbove(0) /\ HasMomentum
                                /\ Moved(FALSE, Lookback + 1)
<1> DEFINE new == PriceAt(0)
           old == PriceAt(Lookback)
<1>1. Lookback \in Nat /\ Lookback >= 1 /\ Lookback + 1 \in 1 .. RingSize /\ count \in Nat
  <2> USE RingAssumption
  <2>1. Lookback \in 1 .. RingSize - 1
    BY PeriodsAssumption
  <2>2. count \in 0 .. RingSize
    BY PricesPositive
  <2> QED BY <2>1, <2>2
<1>2. ASSUME HasMomentum
      PROVE  /\ new \in Int /\ old \in Int /\ old > 0 /\ t * old \in Int /\ t * old >= 0
             /\ ~Moved(TRUE, Lookback + 1) => new <= old
             /\ ~Moved(FALSE, Lookback + 1) => new >= old
  <2>1. Lookback \in 0 .. count - 1 /\ 0 \in 0 .. count - 1
    BY <1>1, <1>2 DEF HasMomentum
  <2>2. new \in Int /\ old \in Int /\ old > 0
    BY <2>1, PricesPositive
  <2>3. t * old \in Int /\ t * old >= 0
    <3> HIDE DEF old
    <3> QED BY <2>2
  <2>4. /\ Lookback \in 0 .. (Lookback + 1) - 1 /\ Lookback < count
        /\ 0 \in 0 .. Lookback
    BY <1>1, <2>1
  <2>5. /\ ~Moved(TRUE, Lookback + 1) => new <= old
        /\ ~Moved(FALSE, Lookback + 1) => new >= old
    BY <1>1, <2>4, NotRisen, NotFallen
  <2> QED BY <2>2, <2>3, <2>5
<1>3. /\ MomentumAbove(t) <=> HasMomentum /\ 100 * (new - old) > t * old
      /\ MomentumBelow(t) <=> HasMomentum /\ 100 * (new - old) < -t * old
      /\ MomentumAbove(0) <=> HasMomentum /\ 100 * (new - old) > 0 * old
      /\ MomentumBelow(0) <=> HasMomentum /\ 100 * (new - old) < -0 * old
  BY DEF MomentumAbove, MomentumBelow, Change
<1> HIDE DEF new, old
<1>4. ASSUME HasMomentum
      PROVE  -t * old = -(t * old) /\ 0 * old = 0 /\ -0 * old = 0
  BY <1>2, <1>4
<1>5. ASSUME MomentumAbove(t)
      PROVE  HasMomentum /\ 100 * (new - old) > 0 /\ Moved(TRUE, Lookback + 1)
  <2>1. HasMomentum /\ 100 * (new - old) > t * old
    BY <1>3, <1>5
  <2>2. new > old /\ 100 * (new - old) > 0
    BY <1>2, <2>1
  <2>3. ~(new <= old)
    BY <1>2, <2>1, <2>2
  <2> QED BY <1>2, <2>1, <2>2, <2>3, Zenon
<1>6. ASSUME MomentumBelow(t)
      PROVE  HasMomentum /\ 100 * (new - old) < 0 /\ Moved(FALSE, Lookback + 1)
  <2>1. HasMomentum /\ 100 * (new - old) < -t * old
    BY <1>3, <1>6
  <2>2. 100 * (new - old) < -(t * old)
    BY <1>4, <2>1
  <2>3. new < old /\ 100 * (new - old) < 0
    BY <1>2, <2>1, <2>2
  <2>4. ~(new >= old)
    BY <1>2, <2>1, <2>3
  <2> QED BY <1>2, <2>1, <2>3, <2>4, Zenon
<1>7. HasMomentum => ~(100 * (new - old) > 0 /\ 100 * (new - old) < 0)
  BY <1>2
<1>8. /\ MomentumAbove(0) <=> HasMomentum /\ 100 * (new - old) > 0
      /\ MomentumBelow(0) <=> HasMomentum /\ 100 * (new - old) < 0
  BY <1>3, <1>4
<1> QED BY <1>5, <1>6, <1>7, <1>8, Zenon

LEMMA MomentumLess ==
  ASSUME RingInv, NEW t \in Nat, NEW u \in 0 .. t
  PROVE  /\ MomentumAbove(t) => MomentumAbove(u)
         /\ MomentumBelow(t) => MomentumBelow(u)
<1> DEFINE new == PriceAt(0)
           old == PriceAt(Lookback)
<1>1. ASSUME HasMomentum
      PROVE  /\ new \in Int /\ old \in Int /\ old > 0
  <2>1. Lookback \in 1 .. RingSize - 1 /\ count \in 0 .. RingSize /\ RingSize \in Nat
    BY PeriodsAssumption, RingAssumption, PricesPositive
  <2>2. Lookback \in 0 .. count - 1 /\ 0 \in 0 .. count - 1
    BY <1>1, <2>1 DEF HasMomentum
  <2> QED BY <2>2, PricesPositive
<1>2. ASSUME NEW v \in Nat
      PROVE  /\ MomentumAbove(v) <=> HasMomentum /\ 100 * (new - old) > v * old
             /\ MomentumBelow(v) <=> HasMomentum /\ 100 * (new - old) < -v * old
  BY DEF MomentumAbove, MomentumBelow, Change
<1> HIDE DEF new, old
<1>3. ASSUME HasMomentum
      PROVE  /\ 100 * (new - old) > t * old => 100 * (new - old) > u * old
             /\ 100 * (new - old) < -t * old => 100 * (new - old) < -u * old
  <2>1. t * old = u * old + (t - u) * old /\ (t - u) * old >= 0 /\ t * old \in Int
        /\ u * old \in Int /\ -t * old = -(t * old) /\ -u * old = -(u * old)
    BY <1>1, <1>3
  <2>2. 100 * (new - old) \in Int /\ (t - u) * old \in Int
    BY <1>1, <1>3
  <2> HIDE DEF new, old
  <2> QED BY <2>1, <2>2
<1>4. u \in Nat
  OBVIOUS
<1> QED BY <1>2, <1>3, <1>4, Zenon

LEMMA MovedWider ==
  ASSUME RingInv, NEW up, NEW n \in Nat, NEW m \in Nat, n <= m, Moved(up, n)
  PROVE  Moved(up, m)
<1>1. Len(added) \in Nat
  BY PricesPositive
<1>2. PICK i \in 2 .. Len(added) :
        /\ i > Len(added) - n + 1
        /\ IF up THEN added[i] > added[i - 1] ELSE added[i] < added[i - 1]
  BY Zenon DEF Moved
<1>3. i > Len(added) - m + 1
  BY <1>1, <1>2
<1> QED BY <1>2, <1>3, Zenon DEF Moved

(* A verdict that would contradict another one is not given, whatever RSI  *)
(* says, and none is given of a window that moved the other way only.      *)
LEMMA VerdictsHold == RingInv => VerdictsBacked
<1> SUFFICES ASSUME RingInv PROVE VerdictsBacked
  OBVIOUS
<1> DEFINE window == IF Long > Lookback THEN Long ELSE Lookback + 1
<1>0. /\ Short \in Nat /\ Long \in Nat /\ Lookback \in Nat /\ window \in Nat /\ count \in Nat
      /\ Short > 0 /\ Short < Long /\ Short <= Lookback + 1
      /\ Long <= window /\ Lookback + 1 <= window
  <2>1. /\ Lookback \in 1 .. RingSize - 1 /\ Short \in 1 .. RingSize - 1
        /\ Long \in 1 .. RingSize - 1 /\ RingSize \in Nat /\ count \in 0 .. RingSize
        /\ Short < Long /\ Short <= Lookback + 1
    BY PeriodsAssumption, RingAssumption, PricesPositive
  <2> QED BY <2>1
<1>1. /\ Crossover \in {-1, 0, 1}
      /\ Crossover # 0 => HasAverage(Short)
      /\ Crossover > 0 => Moved(TRUE, window)
      /\ Crossover < 0 => Moved(FALSE, window)
  <2>1. /\ Crossover \in {-1, 0, 1}
        /\ Crossover # 0 => count >= Long
        /\ Crossover > 0 => Moved(TRUE, Long)
        /\ Crossover < 0 => Moved(FALSE, Long)
    BY CrossoverMoved
  <2>2. count >= Long => HasAverage(Short)
    BY <1>0 DEF HasAverage
  <2>3. /\ Moved(TRUE, Long) => Moved(TRUE, window)
        /\ Moved(FALSE, Long) => Moved(FALSE, window)
    <3> HIDE DEF window
    <3> QED BY <1>0, MovedWider, Zenon
  <2> HIDE DEF window
  <2> QED BY <2>1, <2>2, <2>3, Zenon
<1>2. ASSUME NEW t \in Nat
      PROVE  /\ MomentumAbove(t) => MomentumAbove(0) /\ ~MomentumBelow(0) /\ HasMomentum
             /\ MomentumAbove(t) => Moved(TRUE, window)
             /\ MomentumBelow(t) => MomentumBelow(0) /\ ~MomentumAbove(0) /\ HasMomentum
             /\ MomentumBelow(t) => Moved(FALSE, window)
  <2>1. Lookback + 1 \in Nat
    BY <1>0
  <2> HIDE DEF window
  <2>2. /\ Moved(TRUE, Lookback + 1) => Moved(TRUE, window)
        /\ Moved(FALSE, Lookback + 1) => Moved(FALSE, window)
    BY <1>0, <2>1, MovedWider, Zenon
  <2> QED BY <2>2, MomentumMoved, Zenon
<1>3. HasMomentum => HasAverage(Short)
  BY <1>0 DEF HasMomentum, HasAverage
<1>4. /\ MomentumAbove(5) => MomentumAbove(2)
      /\ MomentumBelow(5) => MomentumBelow(2)
      /\ MomentumAbove(2) => MomentumAbove(1)
      /\ MomentumBelow(2) => MomentumBelow(1)
  <2>1. 1 \in 0 .. 2 /\ 2 \in 0 .. 5 /\ 2 \in Nat /\ 5 \in Nat
    OBVIOUS
  <2> QED BY <2>1, MomentumLess, Zenon
<1> HIDE DEF window
<1>5. /\ Trend = "Bullish" => Upward
      /\ Trend = "Bearish" => Downward
      /\ Trend = "Neutral" => ~Upward /\ ~Downward
  BY DEF Trend
<1>6. /\ Upward => EnoughData /\ (Crossover > 0 \/ MomentumAbove(2))
      /\ Downward => ~Upward /\ (Crossover < 0 \/ MomentumBelow(2))
      /\ EnoughData /\ (Crossover > 0 \/ MomentumAbove(2)) => Upward
      /\ EnoughData /\ ~Upward /\ (Crossover < 0 \/ MomentumBelow(2)) => Downward
  BY Zenon DEF Upward, Downward
<1>7. /\ ~(MomentumAbove(0) /\ MomentumBelow(0)) /\ ~(MomentumAbove(2) /\ MomentumBelow(2))
      /\ MomentumAbove(2) => MomentumAbove(0) /\ ~MomentumBelow(0)
      /\ MomentumBelow(2) => MomentumBelow(0) /\ ~MomentumAbove(0)
      /\ ~(MomentumAbove(1) /\ MomentumBelow(1))
  <2>1. 0 \in Nat /\ 1 \in Nat /\ 2 \in Nat
    OBVIOUS
  <2> QED BY <1>2, <2>1, Zenon
<1>8. /\ Quick = "Bullish" => Crossover > 0
      /\ Quick = "Rising" => MomentumAbove(2)
      /\ Quick = "Bearish" => Crossover < 0
      /\ Quick = "Falling" => MomentumBelow(2)
  BY <1>1, <1>7 DEF Quick
<1>9. Recommendation \notin {"insufficient", "consolidating"} => Upward \/ Downward
  BY <1>6 DEF Recommendation
<1>10. Strength = "Strong" => EnoughData /\ (MomentumAbove(5) \/ MomentumBelow(5))
  <2>1. Exceeds(5) => EnoughData /\ (MomentumAbove(5) \/ MomentumBelow(5))
    BY Zenon DEF Exceeds
  <2>2. Exceeds(2) => EnoughData
    BY Zenon DEF Exceeds
  <2>3. Exceeds(5) => Exceeds(2)
    BY <1>4, Zenon DEF Exceeds
  <2> QED BY <2>1, <2>2, <2>3 DEF Strength
<1> DEFINE m == Signal(MomentumAbove(1), MomentumBelow(1))
           r == Signal(Oversold, Overbought)
<1>11. /\ m \in {-1, 0, 1} /\ r \in {-1, 0, 1}
       /\ m = 1 => MomentumAbove(1)
       /\ m = -1 => MomentumBelow(1)
       /\ m # 1 => ~MomentumAbove(1)
       /\ m # -1 => ~MomentumBelow(1)
  BY <1>7 DEF Signal
<1>12. /\ Predicted = 1 => m + Crossover + r >= 2
       /\ Predicted = -1 => m + Crossover + r <= -2
  <2>1. Score = m + Crossover + r
    BY DEF Score
  <2> QED BY <2>1 DEF Predicted, Signal
<1> HIDE DEF m, r
<1>13. /\ Predicted = 1 => Crossover >= 0 /\ m >= 0 /\ (Crossover > 0 \/ m = 1)
       /\ Predicted = -1 => Crossover <= 0 /\ m <= 0 /\ (Crossover < 0 \/ m = -1)
  <2>1. Crossover \in {-1, 0, 1}
    BY <1>1
  <2> QED BY <1>11, <1>12, <2>1
<1>14. /\ Predicted = 1 => ~(Crossover < 0) /\ m # -1 /\ (Crossover > 0 \/ m = 1)
       /\ Predicted = -1 => ~(Crossover > 0) /\ m # 1 /\ (Crossover < 0 \/ m = -1)
  <2>1. Crossover \in {-1, 0, 1}
    BY <1>1
  <2> QED BY <1>11, <1>13, <2>1
<1>15. /\ Trend = "Bullish" \/ Quick \in {"Bullish", "Rising"} \/ Predicted = 1
          => Moved(TRUE, window)
       /\ Trend = "Bearish" \/ Quick \in {"Bearish", "Falling"} \/ Predicted = -1
          => Moved(FALSE, window)
  <2>1. 1 \in Nat /\ 2 \in Nat
    OBVIOUS
  <2>2. /\ MomentumAbove(1) \/ MomentumAbove(2) => Moved(TRUE, window)
        /\ MomentumBelow(1) \/ MomentumBelow(2) => Moved(FALSE, window)
    BY <1>2, <2>1, Zenon
  <2>3. /\ Quick \in {"Bullish", "Rising"} => Quick = "Bullish" \/ Quick = "Rising"
        /\ Quick \in {"Bearish", "Falling"} => Quick = "Bearish" \/ Quick = "Falling"
    BY Zenon
  <2> QED BY <1>1, <1>5, <1>6, <1>8, <1>11, <1>14, <2>2, <2>3, Zenon
<1>16. Recommendation \notin {"insufficient", "consolidating"} => HasAverage(Short)
  <2>1. 2 \in Nat
    OBVIOUS
  <2>2. MomentumAbove(2) \/ MomentumBelow(2) => HasAverage(Short)
    BY <1>2, <1>3, <2>1, Zenon
  <2>3. Crossover > 0 \/ Crossover < 0 => Crossover # 0
    BY <1>1
  <2> QED BY <1>1, <1>6, <1>9, <2>2, <2>3, Zenon
<1>17. /\ Predicted = 1 => Trend # "Bearish"
       /\ Predicted = -1 => Trend # "Bullish"
  BY <1>4, <1>5, <1>6, <1>11, <1>14, Zenon
<1>18. Strength = "Strong" => Trend # "Neutral"
  BY <1>4, <1>5, <1>6, <1>10, Zenon
<1> QED BY <1>15, <1>16, <1>17, <1>18, Zenon DEF VerdictsBacked, window

(* The verdicts of analyze_stock(), get_quick_insight() and                *)
(* predict_direction() are borne out by the prices and do not contradict   *)
(* each other, for every size of the ring and all periods of which the     *)
(* short one is no longer than the look back of the momentum.              *)
THEOREM VerdictsSound == PriceSpec => []VerdictsBacked
  BY RingInit, RingStep, VerdictsHold, PTL DEF PriceSpec

-----------------------------------------------------------------------------
(***************************************************************************)
(* What was saved in the history file is loaded again, for any symbols,    *)
(* any number of restarts and kills anywhere.                              *)
(*                                                                         *)
(* HistoryKept is about the first entry of a symbol, once the file is      *)
(* ready.  It is inductive together with two facts: a symbol has one entry *)
(* at most, so that no older one is found; and while the magic number is   *)
(* missing nothing has been saved, so that clearing the file loses         *)
(* nothing.                                                                *)
(***************************************************************************)
(* Clearing the file is the beginning of its use.                          *)
MagicInv ==
  /\ ~sized => ~magic
  /\ opener = "mapped" /\ isNew => ~magic
  /\ opener = "cleared" => ~magic
  /\ opener = "ready" => magic
  /\ opener \in {"mapped", "cleared", "ready"} => sized
  /\ ~magic => entryCount = 0 /\ lastSaved = [s \in Stocks |-> "zero"]

(* A symbol has one entry, and one that is too long has none.              *)
OneEntry ==
  \A i, j \in FilePlace :
    /\ i < entryCount => entries[i].symbol \notin LongStocks
    /\ i < entryCount /\ j < entryCount /\ entries[i].symbol \in Stocks
         /\ entries[i].symbol = entries[j].symbol => i = j

(* The entry of a symbol nobody was killed over is what was last saved.    *)
EntriesRight ==
  \A s \in Stocks \ LongStocks :
    s \notin halfSaved =>
      /\ \A i \in FilePlace :
           i < entryCount /\ entries[i].symbol = s =>
             entries[i].head = lastSaved[s] /\ entries[i].prices = lastSaved[s]
      /\ ~Known(s) => lastSaved[s] = "zero"

FileInv == FileTypeOK /\ MagicInv /\ OneEntry /\ EntriesRight

-----------------------------------------------------------------------------
LEMMA FileInvInit == FileInit => FileInv
<1> SUFFICES ASSUME FileInit PROVE FileInv
  OBVIOUS
<1> USE StocksAssumption, SeriesAssumption, MaxStocksAssumption DEF FileInit
<1>1. FileTypeOK
  <2>1. BlankEntry \in FileEntry
    BY DEF FileEntry, BlankEntry, Saved
  <2>2. entries \in [FilePlace -> FileEntry]
    BY <2>1
  <2>3. lastSaved \in [Stocks -> Series \union {"zero"}] /\ entryCount \in 0 .. MaxStocks
    OBVIOUS
  <2> QED BY <2>2, <2>3 DEF FileTypeOK
<1>2. MagicInv
  BY DEF MagicInv
<1>3. OneEntry
  BY DEF OneEntry, FilePlace
<1>4. EntriesRight
  BY DEF EntriesRight, FilePlace
<1> QED BY <1>1, <1>2, <1>3, <1>4 DEF FileInv

(* The search finds an entry of the symbol, the only one.                  *)
LEMMA EntryFound ==
  ASSUME OneEntry, NEW s \in Stocks, Known(s)
  PROVE  /\ EntryOf(s) \in FilePlace /\ EntryOf(s) < entryCount
         /\ entries[EntryOf(s)].symbol = s
<1>1. PICK i \in FilePlace : i < entryCount /\ entries[i].symbol = s
  BY DEF Known, EntriesOf
<1>2. i \in EntriesOf(s) /\ \A j \in EntriesOf(s) : i <= j
  BY <1>1 DEF EntriesOf, OneEntry, FilePlace
<1> QED BY <1>2 DEF EntryOf, EntriesOf

(* The place a call of history_save() writes to.                           *)
LEMMA SavePlace ==
  ASSUME FileInv, NEW s \in Stocks, CanSave(s)
  PROVE  /\ SaveAt(s) \in FilePlace /\ SaveAt(s) <= entryCount
         /\ Known(s) => SaveAt(s) < entryCount /\ entries[SaveAt(s)].symbol = s
         /\ ~Known(s) => SaveAt(s) = entryCount
         /\ Known(s) => s \notin LongStocks
<1>1. CASE Known(s)
  <2>1. SaveAt(s) = EntryOf(s)
    BY <1>1 DEF SaveAt
  <2> QED BY <1>1, <2>1, EntryFound, MaxStocksAssumption
          DEF FileInv, FileTypeOK, FilePlace, OneEntry
<1>2. CASE ~Known(s)
  BY <1>2, MaxStocksAssumption DEF SaveAt, CanSave, FileInv, FileTypeOK, FilePlace
<1> QED BY <1>1, <1>2

(* What both ways through history_save() do to the file: one entry, e, is  *)
(* stored.  Only its own symbol is touched.                                *)
Stores(s, e) ==
  /\ entries' = [entries EXCEPT ![SaveAt(s)] = e]
  /\ entryCount' = IF Known(s) THEN entryCount ELSE entryCount + 1
  /\ UNCHANGED <<sized, magic, isNew>>

LEMMA StoreKeepsOthers ==
  ASSUME FileInv, NEW s \in Stocks, CanSave(s),
         NEW e \in FileEntry, Stores(s, e),
         e.symbol \in {CutTo15(s)} \/ (~Known(s) /\ e.symbol = "blank")
  PROVE  /\ entries' \in [FilePlace -> FileEntry] /\ entryCount' \in 0 .. MaxStocks
         /\ OneEntry'
         /\ \A t \in Stocks \ {s} : \A i \in FilePlace :
              (i < entryCount' /\ entries'[i].symbol = t) <=>
                (i < entryCount /\ entries[i].symbol = t)
         /\ \A i \in FilePlace : i # SaveAt(s) => entries'[i] = entries[i]
<1> USE MaxStocksAssumption
<1>1. /\ SaveAt(s) \in FilePlace /\ SaveAt(s) <= entryCount
      /\ Known(s) => SaveAt(s) < entryCount /\ entries[SaveAt(s)].symbol = s
      /\ ~Known(s) => SaveAt(s) = entryCount
      /\ Known(s) => s \notin LongStocks
  BY SavePlace
<1>2. /\ entries \in [FilePlace -> FileEntry] /\ entryCount \in 0 .. MaxStocks
      /\ OneEntry
  BY DEF FileInv, FileTypeOK
<1>3. entries' \in [FilePlace -> FileEntry]
  BY <1>1, <1>2 DEF Stores
<1>4. entryCount' \in 0 .. MaxStocks /\ entryCount' >= entryCount
  BY <1>1, <1>2 DEF Stores, CanSave
<1>5. /\ entries'[SaveAt(s)] = e /\ SaveAt(s) < entryCount'
      /\ \A i \in FilePlace : i # SaveAt(s) =>
           entries'[i] = entries[i] /\ (i < entryCount' <=> i < entryCount)
  BY <1>1, <1>2 DEF Stores, FilePlace
<1>6. e.symbol \in {s, "cut", "blank"} /\ e.symbol \notin LongStocks
  BY StocksAssumption DEF CutTo15
<1>7. \A i \in FilePlace : i # SaveAt(s) /\ i < entryCount => entries[i].symbol # s
  BY <1>1, <1>2 DEF OneEntry, Known, EntriesOf
<1>8. OneEntry'
  BY <1>1, <1>2, <1>5, <1>6, <1>7, StocksAssumption DEF OneEntry
<1>9. \A t \in Stocks \ {s} : \A i \in FilePlace :
        (i < entryCount' /\ entries'[i].symbol = t) <=>
          (i < entryCount /\ entries[i].symbol = t)
  BY <1>1, <1>2, <1>5, <1>6, StocksAssumption
<1> QED BY <1>3, <1>4, <1>5, <1>8, <1>9

(* EntriesRight for the other symbols.                                     *)
LEMMA OthersRight ==
  ASSUME FileInv, NEW s \in Stocks, CanSave(s),
         NEW e \in FileEntry, Stores(s, e),
         e.symbol \in {CutTo15(s)} \/ (~Known(s) /\ e.symbol = "blank"),
         NEW t \in Stocks \ LongStocks, t # s, t \notin halfSaved,
         lastSaved'[t] = lastSaved[t]
  PROVE  /\ \A i \in FilePlace :
              i < entryCount' /\ entries'[i].symbol = t =>
                entries'[i].head = lastSaved'[t] /\ entries'[i].prices = lastSaved'[t]
         /\ ~Known(t)' => lastSaved'[t] = "zero"
<1>1. /\ \A i \in FilePlace :
           (i < entryCount' /\ entries'[i].symbol = t) <=>
             (i < entryCount /\ entries[i].symbol = t)
      /\ \A i \in FilePlace : i # SaveAt(s) => entries'[i] = entries[i]
  BY StoreKeepsOthers
<1>2. /\ \A i \in FilePlace :
           i < entryCount /\ entries[i].symbol = t =>
             entries[i].head = lastSaved[t] /\ entries[i].prices = lastSaved[t]
      /\ ~Known(t) => lastSaved[t] = "zero"
  BY DEF FileInv, EntriesRight
<1>3. SaveAt(s) < entryCount => entries[SaveAt(s)].symbol # t
  BY SavePlace, MaxStocksAssumption DEF FileInv, FileTypeOK
<1>4. Known(t)' <=> Known(t)
  BY <1>1 DEF Known, EntriesOf
<1> QED BY <1>1, <1>2, <1>3, <1>4

-----------------------------------------------------------------------------
(* Opening, initialising and closing.                                      *)
LEMMA OpenerStep ==
  ASSUME FileInv,
         \/ OpenHistory \/ MapHistory \/ MapFails \/ UseHistory \/ ClearHistory
         \/ StoreMagic \/ CloseHistory \/ UNCHANGED fileVars
  PROVE  FileInv'
<1> USE MaxStocksAssumption DEF FileInv, FileTypeOK, MagicInv
<1>1. CASE ClearHistory
  <2>1. ~magic /\ lastSaved' = [s \in Stocks |-> "zero"] /\ entryCount' = 0
    BY <1>1 DEF ClearHistory, Clears
  <2>2. BlankEntry \in FileEntry
    BY DEF FileEntry, BlankEntry, Saved
  <2>3. FileTypeOK' /\ MagicInv'
    BY <1>1, <2>1, <2>2 DEF ClearHistory
  <2>4. OneEntry' /\ EntriesRight'
    BY <2>1 DEF OneEntry, EntriesRight, FilePlace
  <2> QED BY <2>3, <2>4
<1>2. CASE \/ OpenHistory \/ MapHistory \/ MapFails \/ UseHistory
           \/ StoreMagic \/ CloseHistory \/ UNCHANGED fileVars
  <2>1. UNCHANGED <<entries, entryCount, lastSaved, halfSaved>>
    BY <1>2 DEF OpenHistory, MapHistory, MapFails, UseHistory, StoreMagic,
                CloseHistory, fileVars
  <2>2. OneEntry' /\ EntriesRight'
    BY <2>1 DEF OneEntry, EntriesRight, Known, EntriesOf
  <2>3. CASE OpenHistory
    BY <2>1, <2>2, <2>3 DEF OpenHistory
  <2>4. CASE MapHistory
    BY <2>1, <2>2, <2>4 DEF MapHistory
  <2>5. CASE MapFails
    BY <2>1, <2>2, <2>5 DEF MapFails
  <2>6. CASE StoreMagic
    BY <2>1, <2>2, <2>6 DEF StoreMagic
  <2>7. CASE UseHistory
    <3>1. magic
      BY <2>7 DEF UseHistory, Clears
    <3> QED BY <2>1, <2>2, <2>7, <3>1 DEF UseHistory
  <2>8. CASE UNCHANGED fileVars
    BY <2>1, <2>2, <2>8 DEF fileVars
  <2>9. CASE CloseHistory
    BY <2>1, <2>2, <2>9 DEF CloseHistory
  <2> QED BY <1>2, <2>3, <2>4, <2>5, <2>6, <2>7, <2>8, <2>9
<1> QED BY <1>1, <1>2

(* A whole call of history_save().                                         *)
LEMMA SaveStep ==
  ASSUME FileInv, NEW s \in Stocks, NEW v \in Series, SaveHistory(s, v)
  PROVE  FileInv'
<1> DEFINE e == [symbol |-> CutTo15(s), head |-> v, prices |-> v]
<1>1. e \in FileEntry /\ e.symbol = CutTo15(s) /\ e.head = v /\ e.prices = v
  BY DEF FileEntry, Saved, CutTo15
<1>2. Stores(s, e) /\ CanSave(s)
  BY DEF SaveHistory, Stores
<1> HIDE DEF e
<1>3. /\ entries' \in [FilePlace -> FileEntry] /\ entryCount' \in 0 .. MaxStocks
      /\ OneEntry'
  BY <1>1, <1>2, StoreKeepsOthers
<1>4. FileTypeOK' /\ MagicInv'
  BY <1>3 DEF SaveHistory, CanSave, FileInv, FileTypeOK, MagicInv
<1>5. ASSUME NEW t \in Stocks \ LongStocks, t # s, t \notin halfSaved'
      PROVE  /\ \A i \in FilePlace :
                  i < entryCount' /\ entries'[i].symbol = t =>
                    entries'[i].head = lastSaved'[t] /\ entries'[i].prices = lastSaved'[t]
             /\ ~Known(t)' => lastSaved'[t] = "zero"
  <2>1. t \notin halfSaved /\ lastSaved'[t] = lastSaved[t]
    BY <1>5 DEF SaveHistory, FileInv, FileTypeOK
  <2> QED BY <1>1, <1>2, <1>5, <2>1, OthersRight
<1>6. ASSUME s \notin LongStocks
      PROVE  /\ \A i \in FilePlace :
                  i < entryCount' /\ entries'[i].symbol = s =>
                    entries'[i].head = lastSaved'[s] /\ entries'[i].prices = lastSaved'[s]
             /\ Known(s)'
  <2>1. SaveAt(s) \in FilePlace /\ SaveAt(s) < entryCount' /\ entries'[SaveAt(s)] = e
    BY <1>2, SavePlace, MaxStocksAssumption DEF Stores, FileInv, FileTypeOK
  <2>2. e.symbol = s /\ lastSaved'[s] = v
    BY <1>1, <1>6 DEF CutTo15, SaveHistory, FileInv, FileTypeOK
  <2>3. \A i \in FilePlace : i < entryCount' /\ entries'[i].symbol = s => i = SaveAt(s)
    BY <1>3, <2>1, <2>2 DEF OneEntry
  <2> QED BY <1>1, <2>1, <2>2, <2>3 DEF Known, EntriesOf
<1>7. EntriesRight'
  BY <1>5, <1>6 DEF EntriesRight
<1> QED BY <1>3, <1>4, <1>7 DEF FileInv

(* A call that is cut short.                                               *)
LEMMA KilledSaveStep ==
  ASSUME FileInv, NEW s \in Stocks, NEW v \in Series, KilledSave(s, v)
  PROVE  FileInv'
<1>1. CanSave(s) /\ SaveAt(s) \in FilePlace
      /\ (Known(s) => entries[SaveAt(s)].symbol = s /\ s \notin LongStocks)
  BY SavePlace DEF KilledSave
<1>2. entries[SaveAt(s)] \in FileEntry
  BY <1>1 DEF FileInv, FileTypeOK
<1>3. PICK e \in FileEntry :
        /\ Stores(s, e)
        /\ e.symbol \in {CutTo15(s)} \/ (~Known(s) /\ e.symbol = "blank")
  <2> DEFINE old == entries[SaveAt(s)]
             stages == {[old EXCEPT !.symbol = IF Known(s) THEN s ELSE "blank"],
                        [old EXCEPT !.symbol = CutTo15(s)],
                        [symbol |-> CutTo15(s), head |-> "mixed", prices |-> old.prices],
                        [symbol |-> CutTo15(s), head |-> v, prices |-> old.prices],
                        [symbol |-> CutTo15(s), head |-> v, prices |-> "mixed"]}
  <2>1. \A e \in stages :
          /\ e \in FileEntry
          /\ e.symbol \in {CutTo15(s)} \/ (~Known(s) /\ e.symbol = "blank")
    BY <1>1, <1>2 DEF FileEntry, Saved, CutTo15
  <2>2. \E e \in stages : Stores(s, e)
    BY DEF KilledSave, Stores
  <2> QED BY <2>1, <2>2
<1>4. /\ entries' \in [FilePlace -> FileEntry] /\ entryCount' \in 0 .. MaxStocks
      /\ OneEntry'
  BY <1>1, <1>3, StoreKeepsOthers
<1>5. FileTypeOK' /\ MagicInv'
  BY <1>1, <1>4 DEF KilledSave, CanSave, FileInv, FileTypeOK, MagicInv
<1>6. ASSUME NEW t \in Stocks \ LongStocks, t \notin halfSaved'
      PROVE  /\ \A i \in FilePlace :
                  i < entryCount' /\ entries'[i].symbol = t =>
                    entries'[i].head = lastSaved'[t] /\ entries'[i].prices = lastSaved'[t]
             /\ ~Known(t)' => lastSaved'[t] = "zero"
  <2>1. t # s /\ t \notin halfSaved /\ lastSaved'[t] = lastSaved[t]
    BY <1>6 DEF KilledSave
  <2> QED BY <1>1, <1>3, <2>1, OthersRight
<1>7. EntriesRight'
  BY <1>6 DEF EntriesRight
<1> QED BY <1>4, <1>5, <1>7 DEF FileInv

LEMMA FileInvStep == FileInv /\ [FileNext]_fileVars => FileInv'
  BY OpenerStep, SaveStep, KilledSaveStep DEF FileNext

LEMMA FileSays == FileInv => HistoryKept
<1> SUFFICES ASSUME FileInv, NEW s \in Stocks \ LongStocks, s \notin halfSaved
             PROVE  Loaded(s) = <<lastSaved[s], lastSaved[s]>>
  BY DEF HistoryKept
<1>1. CASE Known(s)
  BY <1>1, EntryFound DEF FileInv, EntriesRight, Loaded
<1>2. CASE ~Known(s)
  BY <1>2 DEF FileInv, EntriesRight, Loaded
<1> QED BY <1>1, <1>2

(* history_load() gives back what history_save() has stored, whenever and  *)
(* wherever processes were killed, but for the symbol one was killed over. *)
THEOREM HistorySurvives == FileSpec => []HistoryKept
  BY FileSays, FileInvInit, FileInvStep, PTL DEF FileSpec

-----------------------------------------------------------------------------
(* A step of the whole is a step of one part.                              *)
LEMMA StepOfEach ==
  [AllNext]_allVars => [Next]_vars /\ [PriceNext]_priceVars /\ [FileNext]_fileVars
<1> SUFFICES ASSUME [AllNext]_allVars
             PROVE  [Next]_vars /\ [PriceNext]_priceVars /\ [FileNext]_fileVars
  OBVIOUS
<1>1. CASE part = "alert" /\ Next /\ UNCHANGED <<priceVars, fileVars>>
  BY <1>1
<1>2. CASE part = "ring" /\ PriceNext /\ UNCHANGED <<vars, fileVars>>
  BY <1>2
<1>3. CASE part = "file" /\ FileNext /\ UNCHANGED <<vars, priceVars>>
  BY <1>3
<1>4. CASE UNCHANGED allVars
  BY <1>4 DEF allVars
<1> QED BY <1>1, <1>2, <1>3, <1>4 DEF AllNext

(* The alert, the prices, the verdicts and the saved histories are right   *)
(* whichever of them a run of the program is about.                        *)
THEOREM MeasurementsKept ==
  AllSpec => [](OneAlertPerExcursion /\ PriceAtExact /\ VerdictsBacked /\ HistoryKept)
<1>1. AllInit => AlertInv /\ RingInv /\ FileInv
  BY AlertInvInit, RingInit, FileInvInit DEF AllInit
<1>2. AlertInv /\ RingInv /\ FileInv /\ [AllNext]_allVars
        => (AlertInv /\ RingInv /\ FileInv)'
  BY StepOfEach, AlertInvStep, RingStep, FileInvStep
<1>3. AlertInv /\ RingInv /\ FileInv
        => OneAlertPerExcursion /\ PriceAtExact /\ VerdictsBacked /\ HistoryKept
  BY AlertSays, RingReads, VerdictsHold, FileSays
<1> QED BY <1>1, <1>2, <1>3, PTL DEF AllSpec
===============================================================================

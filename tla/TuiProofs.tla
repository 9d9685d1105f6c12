------------------------------ MODULE TuiProofs -------------------------------
(***************************************************************************)
(* What the keys of the live views can and cannot do, for tables, numbers  *)
(* of rows and intervals of any size.                                      *)
(***************************************************************************)
EXTENDS Tui, TLAPS

(* top_n stays within the arrays of run_top_mode().                        *)
RowsFit == TopN <= MaxCount

(* Rows that are not of the last refresh get into curr only where top mode *)
(* shows fewer than top_n: S then sorts more rows than there are.          *)
MixedOnlyBelow == mixed => mode = "top" /\ count < TopN

TuiInv == TypeOK /\ MixedOnlyBelow

LEMMA TuiInvInit == Init => TuiInv
<1> SUFFICES ASSUME Init PROVE TuiInv
  OBVIOUS
<1>1. /\ running \in BOOLEAN /\ raw \in BOOLEAN /\ mixed \in BOOLEAN
      /\ paused \in BOOLEAN /\ insights \in BOOLEAN /\ ai \in BOOLEAN
  BY Zenon DEF Init
<1>2. /\ mode \in Modes /\ pc = "loop" /\ count \in 0 .. MaxCount
      /\ idx \in 0 .. MaxCount - 1 /\ interval \in 1 .. MaxInterval
      /\ elapsed \in 0 .. MaxInterval
  BY BoundsAssumption DEF Init
<1>3. ~mixed
  BY DEF Init
<1> QED BY <1>1, <1>2, <1>3 DEF TuiInv, TypeOK, MixedOnlyBelow

(* What handle_keypress() leaves behind, within the arrays.                *)
KeyType ==
  /\ running \in BOOLEAN /\ mixed \in BOOLEAN
  /\ paused \in BOOLEAN /\ insights \in BOOLEAN /\ ai \in BOOLEAN
  /\ idx \in 0 .. MaxCount - 1 /\ interval \in 1 .. MaxInterval

LEMMA KeysKeep ==
  ASSUME RowsFit, TypeOK, MixedOnlyBelow, Keypress
  PROVE  KeyType' /\ (mixed' => mode = "top" /\ count < TopN)
<1> USE BoundsAssumption, ModesAssumption DEF TypeOK, KeyType, MixedOnlyBelow, keyVars
<1>1. KeyCount \in 0 .. MaxCount
  BY DEF KeyCount, RowsFit
<1>2. CASE KeyQuit
  BY <1>2 DEF KeyQuit
<1>3. CASE KeySort
  <2>1. mixed' \in BOOLEAN /\ (mixed' => mixed \/ KeyCount > count)
    BY <1>3, Zenon DEF KeySort
  <2>2. KeyCount > count => mode = "top" /\ count < TopN
    BY DEF KeyCount
  <2> QED BY <1>3, <2>1, <2>2 DEF KeySort
<1>4. CASE KeyOther
  BY <1>4 DEF KeyOther
<1>5. CASE KeyInterval
  BY <1>5 DEF KeyInterval, Faster, Slower
<1>6. CASE KeyPause
  <2>1. paused' \in BOOLEAN
    BY <1>6, Zenon DEF KeyPause
  <2> QED BY <1>6, <2>1 DEF KeyPause
<1>7. CASE KeyInsights
  <2>1. idx' \in 0 .. MaxCount - 1
    <3>1. ASSUME NEW n \in 1 .. MaxCount PROVE (idx + 1) % n \in 0 .. MaxCount - 1
      OBVIOUS
    <3> QED BY <1>1, <1>7, <3>1 DEF KeyInsights
  <2>2. insights' \in BOOLEAN
    BY <1>7, Zenon DEF KeyInsights
  <2> QED BY <1>7, <2>1, <2>2 DEF KeyInsights
<1>8. CASE KeyAI
  BY <1>8 DEF KeyAI
<1>9. CASE KeyEscape
  BY <1>9 DEF KeyEscape
<1> QED BY <1>2, <1>3, <1>4, <1>5, <1>6, <1>7, <1>8, <1>9 DEF Keypress

LEMMA TuiInvStep ==
  ASSUME RowsFit
  PROVE  TuiInv /\ [Next]_vars => TuiInv'
<1> SUFFICES ASSUME TuiInv, [Next]_vars PROVE TuiInv'
  OBVIOUS
<1> USE BoundsAssumption, ModesAssumption
    DEF TuiInv, TypeOK, MixedOnlyBelow, keyVars
<1>1. CASE Refresh
  <2>1. count' \in 0 .. MaxCount
    BY <1>1 DEF Refresh, Lower
  <2>2. mixed' = FALSE /\ mixed' \in BOOLEAN
    BY <1>1, Zenon DEF Refresh
  <2> QED BY <1>1, <2>1, <2>2 DEF Refresh
<1>2. CASE SkipRefresh
  BY <1>2 DEF SkipRefresh
<1>3. CASE Leave
  BY <1>3 DEF Leave, TerminalRestored
<1>4. CASE SleepSlice
  BY <1>4 DEF SleepSlice, Sleeping, SliceCounted
<1>5. CASE SleepEnd
  BY <1>5 DEF SleepEnd
<1>6. CASE AfterSleep
  BY <1>6 DEF AfterSleep
<1>7. CASE PausedEnd
  BY <1>7 DEF PausedEnd
<1>8. CASE OverlayEnd
  BY <1>8 DEF OverlayEnd
<1>9. CASE SleepKey
  <2>1. KeyType' /\ (mixed' => mode = "top" /\ count < TopN)
    BY <1>9, KeysKeep DEF SleepKey
  <2>2. pc' \in {"after", "sleep"} /\ elapsed' \in 0 .. MaxInterval
    BY <1>9 DEF SleepKey, Sleeping, KeyCounted
  <2> QED BY <1>9, <2>1, <2>2 DEF SleepKey, KeyType
<1>10. CASE PausedKey
  <2>1. KeyType' /\ (mixed' => mode = "top" /\ count < TopN)
    BY <1>10, KeysKeep DEF PausedKey
  <2> QED BY <1>10, <2>1 DEF PausedKey, KeyType
<1>11. CASE KeyUndefined
  BY <1>11 DEF KeyUndefined
<1>12. CASE Interrupt
  BY <1>12 DEF Interrupt
<1>13. CASE UNCHANGED vars
  BY <1>13 DEF vars
<1>14. CASE RefreshUndefined
  BY <1>14 DEF RefreshUndefined
<1> QED BY <1>1, <1>2, <1>3, <1>4, <1>5, <1>6, <1>7, <1>8, <1>9, <1>10, <1>11, <1>12,
           <1>13, <1>14 DEF Next, LoopStep

(* The AI overlay shows rows of the last refresh, whatever was sorted      *)
(* since, unless top mode found fewer processes than top_n.                *)
THEOREM OverlayFresh ==
  ASSUME RowsFit
  PROVE  Spec => []OverlayRowsFresh
<1>1. TuiInv => OverlayRowsFresh
  BY BoundsAssumption DEF TuiInv, TypeOK, MixedOnlyBelow, OverlayRowsFresh
<1> QED BY <1>1, TuiInvInit, TuiInvStep, PTL DEF Spec

(* The interval stays within its limits and the insight index within the   *)
(* rows of the arrays.                                                     *)
THEOREM TuiTypeCorrect ==
  ASSUME RowsFit
  PROVE  Spec => []TypeOK
<1>1. TuiInv => TypeOK
  BY DEF TuiInv
<1> QED BY <1>1, TuiInvInit, TuiInvStep, PTL DEF Spec
=============================================================================

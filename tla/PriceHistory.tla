----------------------------- MODULE PriceHistory -----------------------------
(***************************************************************************)
(* The price history of ai.c, a ring the live views fill with the CPU      *)
(* percentages of a row, and the verdicts that are computed from it.       *)
(*                                                                         *)
(* A price is an integer.  The code divides doubles; here both sides of a  *)
(* comparison are multiplied by the denominators instead, so that a        *)
(* verdict is the exact one.  An average over n prices is kept as its sum. *)
(* The texts are left out, but which of them is chosen is not.             *)
(***************************************************************************)
EXTENDS Integers, Sequences
LOCAL INSTANCE FiniteSetsExt

CONSTANTS
  Prices,      \* what add_price() is called with
  RingSize,    \* MAX_PRICE_HISTORY (60)
  Short, Long, \* the periods of the two moving averages (5 and 10)
  Lookback,    \* of the momentum (5)
  RsiPeriods,  \* of the relative strength index (14)
  MinData,     \* prices that are needed for a verdict (3)
  MaxPrices    \* bound on the number of prices added

ASSUME RingAssumption == RingSize \in Nat \ {0} /\ Prices \subseteq Int
ASSUME PeriodsAssumption ==
  /\ {Short, Long, Lookback, RsiPeriods, MinData} \subseteq 1 .. RingSize - 1
  /\ Short < Long /\ Short <= Lookback + 1
ASSUME MaxPricesAssumption == MaxPrices \in Nat

VARIABLES
  prices, count, index,   \* the fields of a PriceHistory
  added                   \* every price that was accepted, in order

priceVars == <<prices, count, index, added>>

RingPlace == 0 .. RingSize - 1
Accepted == {p \in Prices : p > 0}

PriceTypeOK ==
  /\ prices \in [RingPlace -> Accepted \union {0}]
  /\ count \in 0 .. RingSize
  /\ index \in RingPlace
  /\ added \in Seq(Accepted)

(* init_price_history()                                                    *)
PriceInit ==
  /\ prices = [i \in RingPlace |-> 0]
  /\ count = 0 /\ index = 0
  /\ added = <<>>

(* A price of 0 or below is not added: a process that is idle has no       *)
(* sample of that refresh.  (And a mutant that stops at the end.)          *)
AdvancedUntilFull == IF count < RingSize THEN (index + 1) % RingSize ELSE index
Advanced == (index + 1) % RingSize

AddPrice(p) ==
  /\ p > 0 /\ Len(added) < MaxPrices
  /\ prices' = [prices EXCEPT ![index] = p]
  /\ index' = Advanced
  /\ count' = IF count < RingSize THEN count + 1 ELSE count
  /\ added' = Append(added, p)

PriceNext == \E p \in Prices : AddPrice(p)

PriceSpec == PriceInit /\ [][PriceNext]_priceVars

-----------------------------------------------------------------------------
(* get_price_at(): 0 is the most recent price.  (And a mutant that takes   *)
(* the ring for an array.)                                                 *)
PriceInArray(k) == IF k < 0 \/ k >= count THEN -1 ELSE prices[k]
PriceAt(k) ==
  IF k < 0 \/ k >= count THEN -1
  ELSE prices[(index - 1 - k + RingSize) % RingSize]

(* calculate_moving_average(), times its periods; Total[n] is sum after n  *)
(* rounds of the loop.                                                     *)
HasAverage(n) == count >= n /\ n > 0
Total[n \in 0 .. RingSize] == IF n = 0 THEN 0 ELSE Total[n - 1] + PriceAt(n - 1)

(* calculate_volatility() is the root of Variance / count^2.               *)
Variance ==
  IF count < 2 THEN 0
  ELSE count * MapThenSumSet(LAMBDA k : PriceAt(k) * PriceAt(k), 0 .. count - 1)
         - Total[count] * Total[count]

(* calculate_momentum(): it is above t, or below -t, percent.              *)
HasMomentum == count >= Lookback + 1
Change == PriceAt(0) - PriceAt(Lookback)
MomentumAbove(t) == HasMomentum /\ 100 * Change > t * PriceAt(Lookback)
MomentumBelow(t) == HasMomentum /\ 100 * Change < -t * PriceAt(Lookback)

(* calculate_rsi(): 50 without enough prices, 100 without a loss.          *)
Gain(k) == IF PriceAt(k) > PriceAt(k + 1) THEN PriceAt(k) - PriceAt(k + 1) ELSE 0
Loss(k) == IF PriceAt(k) < PriceAt(k + 1) THEN PriceAt(k + 1) - PriceAt(k) ELSE 0
Gains == MapThenSumSet(Gain, 0 .. RsiPeriods - 1)
Losses == MapThenSumSet(Loss, 0 .. RsiPeriods - 1)
HasRsi == count >= RsiPeriods + 1
Overbought == HasRsi /\ (Losses = 0 \/ 100 * Gains > 70 * (Gains + Losses))
Oversold == HasRsi /\ Losses > 0 /\ 100 * Gains < 30 * (Gains + Losses)

(* detect_ma_crossover(): half a percent apart.                            *)
Crossover ==
  LET short == Long * Total[Short]
      long == Short * Total[Long]
  IN IF ~HasAverage(Short) \/ ~HasAverage(Long) THEN 0
     ELSE IF 200 * (short - long) > long THEN 1
     ELSE IF 200 * (short - long) < -long THEN -1
     ELSE 0

(* analyze_stock(): insight->trend, insight->momentum, and which text is   *)
(* the recommendation.  volatility > ma5 * 0.02 is compared in squares.    *)
EnoughData == count >= MinData
Upward == EnoughData /\ (Crossover > 0 \/ MomentumAbove(2))
Downward == EnoughData /\ ~Upward /\ (Crossover < 0 \/ MomentumBelow(2))
Exceeds(t) == EnoughData /\ (MomentumAbove(t) \/ MomentumBelow(t))
Volatile ==
  2500 * Short * Short * Variance > count * count * Total[Short] * Total[Short]

Trend == IF Upward THEN "Bullish" ELSE IF Downward THEN "Bearish" ELSE "Neutral"
Strength ==
  CASE ~EnoughData -> "Stable"
    [] Exceeds(5) -> "Strong"
    [] Exceeds(2) /\ ~Exceeds(5) -> "Moderate"
    [] EnoughData /\ ~Exceeds(2) -> "Weak"
Recommendation ==
  CASE ~EnoughData -> "insufficient"
    [] Upward /\ Overbought -> "overbought"
    [] Upward /\ ~Overbought -> IF Volatile THEN "volatile" ELSE "steady"
    [] Downward -> IF Oversold THEN "oversold" ELSE "falling"
    [] EnoughData /\ ~Upward /\ ~Downward -> "consolidating"

(* get_quick_insight()                                                     *)
Quick ==
  CASE ~EnoughData -> "Gathering"
    [] EnoughData /\ Crossover > 0 /\ MomentumAbove(0) -> "Bullish"
    [] EnoughData /\ Crossover < 0 /\ MomentumBelow(0) -> "Bearish"
    [] EnoughData /\ Crossover <= 0 /\ MomentumAbove(2) -> "Rising"
    [] EnoughData /\ Crossover >= 0 /\ MomentumBelow(2) -> "Falling"
    [] OTHER -> "Stable"

(* predict_direction(): three signals, two of which must agree.            *)
Signal(up, down) == IF up THEN 1 ELSE IF down THEN -1 ELSE 0
Score ==
  Signal(MomentumAbove(1), MomentumBelow(1)) + Crossover + Signal(Oversold, Overbought)
Predicted == Signal(Score >= 2, Score <= -2)

-----------------------------------------------------------------------------
(* The ring gives back the last RingSize prices, the most recent first,    *)
(* and -1 for every other position, however often it has wrapped around.   *)
PriceAtExact ==
  \A k \in -1 .. RingSize :
    PriceAt(k) = IF 0 <= k /\ k < RingSize /\ k < Len(added)
                 THEN added[Len(added) - k] ELSE -1

(* Some price among the last n was higher, or lower, than the one before.  *)
Moved(up, n) ==
  \E i \in 2 .. Len(added) :
    /\ i > Len(added) - n + 1
    /\ IF up THEN added[i] > added[i - 1] ELSE added[i] < added[i - 1]

(* No verdict without a reason: "Bullish" and "Rising" are said only of    *)
(* prices that rose somewhere in the window, "Bearish" and "Falling" only  *)
(* of prices that fell, and a recommendation quotes MA5 only if there is   *)
(* one; and the prediction never contradicts the trend, though RSI counts  *)
(* against the trend and the trend looks at the averages first.            *)
VerdictsBacked ==
  LET window == IF Long > Lookback THEN Long ELSE Lookback + 1
      up == Trend = "Bullish" \/ Quick \in {"Bullish", "Rising"} \/ Predicted = 1
      down == Trend = "Bearish" \/ Quick \in {"Bearish", "Falling"} \/ Predicted = -1
  IN /\ up => Moved(TRUE, window)
     /\ down => Moved(FALSE, window)
     /\ Recommendation \notin {"insufficient", "consolidating"} => HasAverage(Short)
     /\ Predicted = 1 => Trend # "Bearish"
     /\ Predicted = -1 => Trend # "Bullish"
     /\ Strength = "Strong" => Trend # "Neutral"
===============================================================================

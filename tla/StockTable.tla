----------------------------- MODULE StockTable ------------------------------
(***************************************************************************)
(* The stock data in the shared memory segment of ipc.c: an array that is  *)
(* filled from the front, searched by symbol and closed up on removal.     *)
(*                                                                         *)
(* As in module MsgQueue a call is one step under the lock, and a Killed   *)
(* action is a call that ends after some of its stores.  A call that fails *)
(* or finds nothing to do changes nothing and is no step.  Of an entry there *)
(* remain its symbol and its data as one value.  The symbol field has room *)
(* for 15 characters: shm_add_stock() cuts a longer one, and the searches  *)
(* compare with the whole of it.  The caller of shm_update_stock() passes  *)
(* an entry, whose symbol is short.                                        *)
(***************************************************************************)
EXTENDS Integers, FiniteSets

CONSTANTS
  Symbols,    \* the symbols the callers use
  Long,       \* those of them with more than 15 characters
  Values,     \* the data of a SharedStockData
  Capacity    \* MAX_SHARED_STOCKS (50)

ASSUME CapacityAssumption == Capacity \in Nat
ASSUME SymbolsAssumption ==
  Long \subseteq Symbols /\ Symbols \intersect {"cut", "blank"} = {}
    /\ Values \intersect {"unset", "mixed", "none"} = {}

Place == 0 .. Capacity - 1
Short == Symbols \ Long

(* "cut": a long symbol without its end, "blank": no symbol, or half of it; *)
(* "unset": valid = 0, "mixed": half of an old and half of a new entry.    *)
Entry == [symbol : Symbols \union {"cut", "blank"},
          data : Values \union {"unset", "mixed"}]

VARIABLES
  stocks, stockCount,   \* stocks and stock_count
  last,        \* what was last stored for each symbol by a call that
               \* succeeded, "none" if it is not there
  stockTorn    \* a process was killed inside a change of the table

stockVars == <<stocks, stockCount, last, stockTorn>>

StockTypeOK ==
  /\ stocks \in [Place -> Entry]
  /\ stockCount \in 0 .. Capacity
  /\ last \in [Symbols -> Values \union {"unset", "none"}]
  /\ stockTorn \in BOOLEAN

(* shm_init_master()                                                       *)
StockInit ==
  /\ stocks = [i \in Place |-> [symbol |-> "blank", data |-> "unset"]]
  /\ stockCount = 0
  /\ last = [s \in Symbols |-> "none"]
  /\ stockTorn = FALSE

-----------------------------------------------------------------------------
(* shm_find_stock_index(): the first entry with the symbol, or -1.         *)
Matches(s) == {i \in Place : i < stockCount /\ stocks[i].symbol = s}
FindIndex(s) ==
  IF Matches(s) = {} THEN -1
  ELSE CHOOSE i \in Matches(s) : \A j \in Matches(s) : i <= j
Present(s) == FindIndex(s) >= 0

(* stock_count < MAX_SHARED_STOCKS                                         *)
HasRoom == stockCount < Capacity

(* strncpy() into the symbol field.                                        *)
Stored(s) == IF s \in Long THEN "cut" ELSE s

AddStock(s) ==
  /\ ~Present(s) /\ HasRoom
  /\ stocks' = [stocks EXCEPT ![stockCount] = [symbol |-> Stored(s), data |-> "unset"]]
  /\ stockCount' = stockCount + 1
  /\ last' = [last EXCEPT ![s] = "unset"]
  /\ UNCHANGED stockTorn

(* Killed after memset(), or after strncpy(): the entry is not counted.    *)
KilledAdd(s) ==
  /\ ~Present(s) /\ HasRoom
  /\ \E name \in {"blank", Stored(s)} :
       stocks' = [stocks EXCEPT ![stockCount] = [symbol |-> name, data |-> "unset"]]
  /\ UNCHANGED <<stockCount, last, stockTorn>>

(* Where shm_update_stock() writes: the entry of the symbol, or the first  *)
(* free one (and a mutant that always takes a free one).                   *)
PlaceAlwaysNew(s) == stockCount
PlaceFor(s) == IF Present(s) THEN FindIndex(s) ELSE stockCount

UpdateStock(s, v) ==
  /\ Present(s) \/ HasRoom
  /\ PlaceFor(s) \in Place
  /\ stocks' = [stocks EXCEPT ![PlaceFor(s)] = [symbol |-> s, data |-> v]]
  /\ stockCount' = IF PlaceFor(s) = stockCount THEN stockCount + 1 ELSE stockCount
  /\ last' = [last EXCEPT ![s] = v]
  /\ UNCHANGED stockTorn

(* Killed inside memcpy(), or before it: a new entry is counted already,   *)
(* with whatever was in its place.                                         *)
KilledUpdate(s) ==
  /\ Present(s) \/ HasRoom
  /\ LET i == PlaceFor(s)
     IN /\ i \in Place
        /\ \/ stocks' = [stocks EXCEPT ![i] = [symbol |-> s, data |-> "mixed"]]
           \/ ~Present(s) /\ stocks' = [stocks EXCEPT ![i].symbol = "blank"]
           \/ ~Present(s) /\ UNCHANGED stocks
        /\ stockCount' = IF i = stockCount THEN stockCount + 1 ELSE stockCount
  /\ stockTorn' = TRUE
  /\ UNCHANGED last

(* stocks[i] = stocks[i+1] for i from first to before end (and a mutant    *)
(* that runs through them from the end).                                   *)
ShiftedBackwards(first, end) ==
  [i \in Place |-> IF first <= i /\ i < end THEN stocks[end] ELSE stocks[i]]
Shifted(first, end) ==
  [i \in Place |-> IF first <= i /\ i < end THEN stocks[i + 1] ELSE stocks[i]]

(* stock_count--                                                           *)
CountLess == stockCount - 1

RemoveStock(s) ==
  /\ Present(s)
  /\ stocks' = Shifted(FindIndex(s), stockCount - 1)
  /\ stockCount' = CountLess
  /\ last' = [last EXCEPT ![s] = "none"]
  /\ UNCHANGED stockTorn

(* Killed between two of the copies, or inside one; or before stock_count--. *)
KilledRemove(s) ==
  /\ Present(s)
  /\ \E end \in FindIndex(s) .. stockCount - 1 :
       \/ stocks' = Shifted(FindIndex(s), end)
       \/ /\ end < stockCount - 1
          /\ \E name \in {stocks[end + 1].symbol, "blank"} :
               stocks' = [Shifted(FindIndex(s), end) EXCEPT
                            ![end] = [symbol |-> name, data |-> "mixed"]]
  /\ stockTorn' = TRUE
  /\ UNCHANGED <<stockCount, last>>

StockNext ==
  \E s \in Symbols :
    \/ AddStock(s) \/ KilledAdd(s) \/ RemoveStock(s) \/ KilledRemove(s)
    \/ s \in Short /\ ((\E v \in Values : UpdateStock(s, v)) \/ KilledUpdate(s))

-----------------------------------------------------------------------------
(* As long as no process was killed inside a change, shm_get_stock() finds *)
(* for a short symbol what the last successful call stored for it, and     *)
(* nothing after its removal: neither the cut symbols around it nor the    *)
(* shifting on removal of others get in its way.  No short symbol is there *)
(* twice, so that there is nothing an update would miss.                   *)
LookupExact ==
  ~stockTorn =>
    \A s \in Short :
      IF Present(s) THEN Cardinality(Matches(s)) = 1 /\ stocks[FindIndex(s)].data = last[s]
                    ELSE last[s] = "none"

(* Wherever a process is killed, only the stock that was to be removed can *)
(* disappear: closing the gap never loses another one.                     *)
OthersSurvive ==
  [][\A s \in Symbols :
       Present(s) /\ ~Present(s)' => RemoveStock(s) \/ KilledRemove(s)]_stockVars
=============================================================================

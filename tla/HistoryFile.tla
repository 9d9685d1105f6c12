------------------------------ MODULE HistoryFile ------------------------------
(***************************************************************************)
(* The price histories that history.c keeps in a file mapped into memory:  *)
(* opening and initialising the file, saving and loading by symbol.        *)
(*                                                                         *)
(* One process at a time has the file open; it may be killed anywhere, and *)
(* what it has stored by then stays in the file.  A PriceHistory is one    *)
(* value, saved in two parts: head (count, index, last_update) and prices. *)
(* The symbol field has room for 15 characters, as in module StockTable.   *)
(***************************************************************************)
EXTENDS Integers

CONSTANTS
  Stocks,         \* the symbols
  LongStocks,     \* those of them with more than 15 characters
  Series,         \* the price histories that are saved
  MaxStocks       \* MAX_HISTORY_STOCKS (50)

ASSUME StocksAssumption ==
  LongStocks \subseteq Stocks /\ Stocks \intersect {"cut", "blank"} = {}
ASSUME SeriesAssumption == Series \intersect {"zero", "mixed"} = {}
ASSUME MaxStocksAssumption == MaxStocks \in Nat

FilePlace == 0 .. MaxStocks - 1
Saved == Series \union {"zero", "mixed"}
FileEntry == [symbol : Stocks \union {"cut", "blank"}, head : Saved, prices : Saved]
BlankEntry == [symbol |-> "blank", head |-> "zero", prices |-> "zero"]

VARIABLES
  sized,        \* the file exists and has the size of a PriceHistoryFile
  magic,        \* it has the magic number
  entries, entryCount,   \* stocks and stock_count
  opener,       \* the process: "down", "opened" the file, "mapped" it,
                \* "cleared" it, or "ready"
  isNew,        \* is_new
  lastSaved,    \* what was last saved for each symbol ("zero": nothing)
  halfSaved     \* the symbols a process was killed over

fileVars ==
  <<sized, magic, entries, entryCount, opener, isNew, lastSaved, halfSaved>>

FileTypeOK ==
  /\ sized \in BOOLEAN /\ magic \in BOOLEAN /\ isNew \in BOOLEAN
  /\ entries \in [FilePlace -> FileEntry]
  /\ entryCount \in 0 .. MaxStocks
  /\ opener \in {"down", "opened", "mapped", "cleared", "ready"}
  /\ lastSaved \in [Stocks -> Series \union {"zero"}]
  /\ halfSaved \subseteq Stocks

FileInit ==
  /\ sized = FALSE /\ magic = FALSE /\ isNew = FALSE
  /\ entries = [i \in FilePlace |-> BlankEntry] /\ entryCount = 0
  /\ opener = "down"
  /\ lastSaved = [s \in Stocks |-> "zero"] /\ halfSaved = {}

-----------------------------------------------------------------------------
(* open() with O_CREAT.                                                    *)
OpenHistory ==
  /\ opener = "down" /\ opener' = "opened" /\ isNew' = FALSE
  /\ UNCHANGED <<sized, magic, entries, entryCount, lastSaved, halfSaved>>

(* fstat(), ftruncate() and mmap().                                        *)
MapHistory ==
  /\ opener = "opened" /\ opener' = "mapped"
  /\ isNew' = ~sized /\ sized' = TRUE
  /\ UNCHANGED <<magic, entries, entryCount, lastSaved, halfSaved>>

(* ftruncate() or mmap() fails; a file that was extended keeps its size.   *)
MapFails ==
  /\ opener = "opened" /\ opener' = "down"
  /\ sized' \in {sized, TRUE}
  /\ UNCHANGED <<magic, entries, entryCount, isNew, lastSaved, halfSaved>>

(* is_new || magic != HISTORY_MAGIC (and a mutant that does not ask).  *)
ClearsAlways == TRUE
Clears == isNew \/ ~magic

UseHistory ==
  /\ opener = "mapped" /\ ~Clears /\ opener' = "ready"
  /\ UNCHANGED <<sized, magic, entries, entryCount, isNew, lastSaved, halfSaved>>

(* memset(); then the magic number.                                        *)
ClearHistory ==
  /\ opener = "mapped" /\ Clears /\ opener' = "cleared"
  /\ magic' = FALSE
  /\ entries' = [i \in FilePlace |-> BlankEntry] /\ entryCount' = 0
  /\ UNCHANGED <<sized, isNew, lastSaved, halfSaved>>

StoreMagic ==
  /\ opener = "cleared" /\ opener' = "ready"
  /\ magic' = TRUE
  /\ UNCHANGED <<sized, entries, entryCount, isNew, lastSaved, halfSaved>>

(* history_close(), or the process is killed.                              *)
CloseHistory ==
  /\ opener # "down" /\ opener' = "down"
  /\ UNCHANGED <<sized, magic, entries, entryCount, isNew, lastSaved, halfSaved>>

-----------------------------------------------------------------------------
(* The first entry with the symbol, for history_load() and history_save(). *)
EntriesOf(s) == {i \in FilePlace : i < entryCount /\ entries[i].symbol = s}
Known(s) == EntriesOf(s) # {}
EntryOf(s) == CHOOSE i \in EntriesOf(s) : \A j \in EntriesOf(s) : i <= j

(* history_load(); the caller's PriceHistory is all zero before.           *)
Loaded(s) == IF Known(s) THEN <<entries[EntryOf(s)].head, entries[EntryOf(s)].prices>>
                         ELSE <<"zero", "zero">>

SaveAt(s) == IF Known(s) THEN EntryOf(s) ELSE entryCount
CutTo15(s) == IF s \in LongStocks THEN "cut" ELSE s
CanSave(s) == opener = "ready" /\ (Known(s) \/ entryCount < MaxStocks)

SaveHistory(s, v) ==
  /\ CanSave(s)
  /\ entries' = [entries EXCEPT ![SaveAt(s)] =
                   [symbol |-> CutTo15(s), head |-> v, prices |-> v]]
  /\ entryCount' = IF Known(s) THEN entryCount ELSE entryCount + 1
  /\ lastSaved' = [lastSaved EXCEPT ![s] = v]
  /\ halfSaved' = halfSaved \ {s}
  /\ UNCHANGED <<sized, magic, opener, isNew>>

(* Killed after stock_count++ or inside strncpy(), after strncpy(), inside *)
(* or after the head, inside memcpy().                                     *)
KilledSave(s, v) ==
  /\ CanSave(s)
  /\ LET old == entries[SaveAt(s)]
     IN \E e \in {[old EXCEPT !.symbol = IF Known(s) THEN s ELSE "blank"],
                  [old EXCEPT !.symbol = CutTo15(s)],
                  [symbol |-> CutTo15(s), head |-> "mixed", prices |-> old.prices],
                  [symbol |-> CutTo15(s), head |-> v, prices |-> old.prices],
                  [symbol |-> CutTo15(s), head |-> v, prices |-> "mixed"]} :
          entries' = [entries EXCEPT ![SaveAt(s)] = e]
  /\ entryCount' = IF Known(s) THEN entryCount ELSE entryCount + 1
  /\ halfSaved' = halfSaved \union {s}
  /\ opener' = "down"
  /\ UNCHANGED <<sized, magic, isNew, lastSaved>>

FileNext ==
  \/ OpenHistory \/ MapHistory \/ MapFails \/ UseHistory \/ ClearHistory
  \/ StoreMagic \/ CloseHistory
  \/ \E s \in Stocks : \E v \in Series : SaveHistory(s, v) \/ KilledSave(s, v)

FileSpec == FileInit /\ [][FileNext]_fileVars

-----------------------------------------------------------------------------
(* What was saved is loaded again, after any number of restarts and kills, *)
(* in the middle of initialising the file, of saving this symbol earlier,  *)
(* or of saving others: only the symbol a process was killed over is not   *)
(* known until it is saved again.  Long symbols are left out: they are     *)
(* never found.                                                            *)
HistoryKept ==
  opener = "ready" =>
    \A s \in Stocks \ LongStocks :
      s \notin halfSaved => Loaded(s) = <<lastSaved[s], lastSaved[s]>>
================================================================================

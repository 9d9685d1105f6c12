-------------------------------- MODULE Table --------------------------------
(***************************************************************************)
(* The rows of the live views of monitor.c and of stream.c, from one       *)
(* refresh to the next: run_watch_mode() follows a list of PIDs and drops  *)
(* the ones that do not answer; run_top_mode() lists every process anew;   *)
(* run_stream_mode() does either, but drops nobody.  All keep parallel     *)
(* arrays, curr, prev and (not in a stream) histories, which are matched   *)
(* by index alone.                                                         *)
(*                                                                         *)
(* A ProcessData row is abstracted to its PID and to the PID of the older  *)
(* snapshot its cpu_percent was computed from (None: no older snapshot,    *)
(* 0.0).  A history is the set of the samples added to it; in a stream it  *)
(* stands for the records written for that index.  A refresh is one step:  *)
(* collect_parallel() is the subject of module Collector, and only         *)
(* signal_handler() interleaves with it.  Of the keys only S matters to    *)
(* the rows: by it a refresh of top mode may sort in any way.  What S does *)
(* to curr itself is overwritten by the next refresh before it is drawn;   *)
(* the loop around the refresh is module Tui.                              *)
(***************************************************************************)
EXTENDS Integers, Sequences, FiniteSets

CONSTANTS
  Procs,      \* process IDs
  Listed,     \* those of them that get_all_pids() may find
  Modes,      \* "watch", "top", "stream"
  TopN,       \* top_n, and the 10 of run_stream_mode()
  MaxWatch,   \* MAX_WATCH_PIDS (32), the size of collect_parallel's arrays
  Failures    \* "collect": pipe(), fork() or proc_pidinfo() may fail,
              \* "list": sysctl() or malloc() in get_all_pids()

ASSUME ProcsAssumption ==
  IsFiniteSet(Procs) /\ Procs \subseteq Nat \ {0} /\ Listed \subseteq Procs
ASSUME ModesAssumption == Modes \subseteq {"watch", "top", "stream"}
ASSUME BoundsAssumption ==
  TopN \in Nat \ {0} /\ MaxWatch \in Nat /\ Failures \subseteq {"collect", "list"}

None == 0
Rows == 1 .. Cardinality(Procs)
Sample == [of : Procs, base : Procs \union {None}]

VARIABLES
  mode,      \* which of the functions runs
  live,      \* the listed processes that exist (not used without a list)
  pids,      \* watch_pids[0 .. watch_count-1] or stream_pids; empty in top
             \* mode and in a stream of all processes (stream_all)
  prev,      \* prev[i]: the PID of a valid older row, or None
  hist,      \* histories[i]
  undefined  \* the refresh has met undefined behaviour

vars == <<mode, live, pids, prev, hist, undefined>>

TypeOK ==
  /\ mode \in Modes
  /\ live \subseteq Procs
  /\ pids \in Seq(Procs) /\ Len(pids) <= MaxWatch
  /\ prev \in [Rows -> Procs \union {None}]
  /\ hist \in [Rows -> SUBSET Sample]
  /\ undefined \in BOOLEAN

(* The list as run_watch_mode() or run_stream_mode() resolved it, which is *)
(* the subject of module Targets: the PIDs may no longer exist, and one    *)
(* may be listed twice.  An empty list ends watch mode at once.            *)
Init ==
  /\ mode \in Modes
  /\ \/ /\ mode \in {"watch", "stream"} /\ live \in SUBSET Procs
        /\ \E n \in Rows : n <= MaxWatch /\ pids \in [1 .. n -> Procs]
     \/ mode \in {"top", "stream"} /\ live = {} /\ pids = <<>>
  /\ prev = [i \in Rows |-> None]
  /\ hist = [i \in Rows |-> {}]
  /\ undefined = FALSE

-----------------------------------------------------------------------------
(* The row of index i for process p: compute_cpu_percent(&prev[i], &pd)    *)
(* whenever prev[i] is valid.                                              *)
NewSample(i, p) == [of |-> p, base |-> prev[i]]

(* Which of the listed processes answer: the living ones, if collecting    *)
(* does not fail.  A process may exit while the list is being collected.   *)
Answers(list, before, after) ==
  {ok \in SUBSET DOMAIN list :
     \A i \in DOMAIN list :
       /\ i \in ok => list[i] \in before
       /\ "collect" \notin Failures /\ list[i] \in after => i \in ok}

(* The loop that moves the valid rows, their histories and PIDs to the     *)
(* front: a row goes to the place its counter alive has reached.           *)
(* Kept(ok)[j] is where row j came from (and a mutant that skips the last  *)
(* row).                                                                   *)
Alive(ok, i) == Cardinality({k \in ok : k <= i})
Compacted(ok) == [j \in 1 .. Cardinality(ok) |-> CHOOSE i \in ok : Alive(ok, i) = j]
KeptOffByOne(ok) == Compacted(ok \ {Len(pids)})
Kept(ok) == Compacted(ok)
MovedHistory(from, j) == hist[from[j]]

(* memcpy(prev, curr) after the rows have moved (and a mutant that copies  *)
(* before).                                                                *)
SavedBeforeMove(from, j) == pids[j]
Saved(from, j) == pids[from[j]]

WatchRefresh ==
  /\ mode = "watch" /\ ~undefined
  /\ live' \in SUBSET live
  /\ \E ok \in Answers(pids, live, live') :
       LET from == Kept(ok)
           n == Len(from)
       IN /\ pids' = [j \in 1 .. n |-> pids[from[j]]]
          /\ hist' = [i \in Rows |->
                        IF i <= n
                        THEN MovedHistory(from, i)
                               \union {NewSample(from[i], pids[from[i]])}
                        ELSE hist[i]]
          /\ prev' = [i \in Rows |-> IF i <= n THEN Saved(from, i) ELSE prev[i]]
  /\ UNCHANGED <<mode, undefined>>

(* A stream of listed processes: nobody is dropped, and a process that     *)
(* does not answer has no record and no older row the next time.           *)
StreamRefresh ==
  /\ mode = "stream" /\ pids # <<>>
  /\ live' \in SUBSET live
  /\ \E ok \in Answers(pids, live, live') :
       /\ hist' = [i \in Rows |->
                     IF i \in ok THEN hist[i] \union {NewSample(i, pids[i])} ELSE hist[i]]
       /\ prev' = [i \in Rows |-> IF i \in ok THEN pids[i]
                                  ELSE IF i <= Len(pids) THEN None ELSE prev[i]]
  /\ UNCHANGED <<mode, pids, undefined>>

(* get_all_pids() lists the processes in the kernel's order.               *)
Lists == UNION {{l \in [1 .. n -> Listed] : \A i, j \in 1 .. n : l[i] = l[j] => i = j} :
                  n \in 0 .. Cardinality(Listed)}

(* sort_processes(), by any of its keys: o[i] is where row i of the table  *)
(* was in the list.                                                        *)
Orders(list) ==
  {o \in [DOMAIN list -> DOMAIN list] :
     \A i, j \in DOMAIN list : o[i] = o[j] => i = j}

(* A listed process that exits before it is sampled gives an invalid row.  *)
(* ok are the places in the list that answered.                            *)
TopRefresh ==
  /\ mode = "top" /\ ~undefined
  /\ \E list \in Lists : \E ok \in SUBSET DOMAIN list : \E o \in Orders(list) :
       /\ Len(list) <= MaxWatch
       /\ hist' = [i \in Rows |->
                     IF i <= Len(list) /\ i <= TopN /\ o[i] \in ok
                     THEN hist[i] \union {NewSample(o[i], list[o[i]])}
                     ELSE hist[i]]
       /\ prev' = [i \in Rows |->
                     IF i > Len(list) THEN prev[i]
                     ELSE IF o[i] \in ok THEN list[o[i]] ELSE None]
  /\ UNCHANGED <<mode, live, pids, undefined>>

(* A stream of all processes: the first ones of the list, unsorted.        *)
StreamAllRefresh ==
  /\ mode = "stream" /\ pids = <<>> /\ ~undefined
  /\ \E list \in Lists : \E ok \in SUBSET {i \in DOMAIN list : i <= TopN} :
       /\ hist' = [i \in Rows |->
                     IF i \in ok THEN hist[i] \union {NewSample(i, list[i])} ELSE hist[i]]
       /\ prev' = [i \in Rows |->
                     IF i > Len(list) \/ i > TopN THEN prev[i]
                     ELSE IF i \in ok THEN list[i] ELSE None]
  /\ UNCHANGED <<mode, live, pids, undefined>>

(* In top mode collect_parallel() writes past its arrays when there are    *)
(* more processes than MAX_WATCH_PIDS.  get_all_pids() returning -1 gives  *)
(* qsort() and memcpy() a huge size, memcpy() in a stream as well.         *)
Undefined ==
  /\ mode # "watch" /\ pids = <<>> /\ ~undefined
  /\ \/ "list" \in Failures
     \/ mode = "top" /\ \E list \in Lists : Len(list) > MaxWatch
  /\ undefined' = TRUE
  /\ UNCHANGED <<mode, live, pids, prev, hist>>

Next == WatchRefresh \/ StreamRefresh \/ TopRefresh \/ StreamAllRefresh \/ Undefined

Spec == Init /\ [][Next]_vars

-----------------------------------------------------------------------------
(* Every cpu_percent ever shown or kept was computed from two snapshots of *)
(* one and the same process: prev[i] belongs to the process of row i.      *)
CpuFromSameProcess ==
  \A i \in Rows : \A x \in hist[i] : x.base \in {None, x.of}

(* In watch mode and in a stream of listed processes it is so, whichever   *)
(* rows are dropped or fail to answer; and the samples of a row are all of *)
(* the process of that row: a history moves with it when the rows before   *)
(* it are dropped.                                                         *)
RowsKeepTheirProcess ==
  \A i \in DOMAIN pids : \A x \in hist[i] : x.of = pids[i] /\ x.base \in {None, x.of}

(* As long as collecting does not fail, only processes that have exited    *)
(* are dropped from the watch list.                                        *)
OnlyExitedDropped ==
  [][\A i \in DOMAIN pids :
       pids[i] \in live' => \E j \in DOMAIN pids' : pids'[j] = pids[i]]_vars
=============================================================================

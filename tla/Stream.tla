-------------------------------- MODULE Stream --------------------------------
(***************************************************************************)
(* run_stream_mode() of stream.c: the life of the FIFO a streamer creates, *)
(* opens, writes its records to and removes, with the readers that come    *)
(* and go at the other end.  Several streamers share one path.             *)
(*                                                                         *)
(* The FIFO a streamer creates is named after it; path is what             *)
(* STREAM_FIFO_PATH names.  Of the pipe's content only "full" matters, of  *)
(* the records only whether a cycle has one to write.                      *)
(* setup_signal_handlers() asks for SA_RESTART, so that a blocked write()  *)
(* is restarted after SIGINT and SIGTERM; a blocked open() is restarted or *)
(* fails with EINTR, depending on the system.                              *)
(***************************************************************************)
EXTENDS Integers, FiniteSets

CONSTANT Streamers   \* the streamers, by number

ASSUME StreamersAssumption == IsFiniteSet(Streamers) /\ Streamers \subseteq Nat \ {0}

None == 0
Stale == -1     \* a FIFO left by a killed streamer
Fifos == Streamers \union {Stale}

VARIABLES
  pc,        \* "start", "mkfifo", "open", "opening", "loop", "writing",
             \* "sleep", "closed", "done"
  running,   \* keep_running
  path,      \* the FIFO at STREAM_FIFO_PATH, or None
  fifo,      \* the FIFO a streamer's open() found
  reader,    \* the FIFOs with a reader
  full,      \* the FIFOs with no room
  rows,      \* there are processes to stream
  shared     \* two streamers have been at work at the same time

vars == <<pc, running, path, fifo, reader, full, rows, shared>>

Writing == {"loop", "writing", "sleep"}   \* the FIFO is open

TypeOK ==
  /\ pc \in [Streamers -> {"start", "mkfifo", "open", "opening", "closed",
                           "done"} \union Writing]
  /\ running \in [Streamers -> BOOLEAN]
  /\ path \in Fifos \union {None}
  /\ fifo \in [Streamers -> Fifos \union {None}]
  /\ \A s \in Streamers : pc[s] \in {"opening"} \union Writing => fifo[s] # None
  /\ reader \subseteq Fifos /\ full \subseteq reader
  /\ rows \in [Streamers -> BOOLEAN]
  /\ shared \in BOOLEAN

Init ==
  /\ pc = [s \in Streamers |-> "start"]
  /\ running = [s \in Streamers |-> TRUE]
  /\ path \in {None, Stale}
  /\ fifo = [s \in Streamers |-> None]
  /\ reader = {} /\ full = {}
  /\ rows = [s \in Streamers |-> TRUE]
  /\ shared = FALSE

Goes(s, from, to) == pc[s] = from /\ pc' = [pc EXCEPT ![s] = to]

-----------------------------------------------------------------------------
(* unlink() of whatever is at the path, its own FIFO or not (and a mutant  *)
(* that leaves it).                                                        *)
PathLeft == UNCHANGED path
Unlinked == path' = None

Unlink(s) ==
  /\ Goes(s, "start", "mkfifo")
  /\ path' = None
  /\ shared' = (shared \/ \E t \in Streamers : pc[t] \notin {"start", "done"})
  /\ UNCHANGED <<running, fifo, reader, full, rows>>

Mkfifo(s) ==
  /\ path = None
  /\ Goes(s, "mkfifo", "open")
  /\ path' = s
  /\ UNCHANGED <<running, fifo, reader, full, rows, shared>>

MkfifoFails(s) ==
  /\ path # None
  /\ Goes(s, "mkfifo", "done")
  /\ UNCHANGED <<running, path, fifo, reader, full, rows, shared>>

(* open() finds the FIFO that is at the path now, and waits for a reader.  *)
Finds(s) == fifo' = [fifo EXCEPT ![s] = path]

Open(s) ==
  /\ path # None
  /\ Goes(s, "open", "opening")
  /\ Finds(s)
  /\ UNCHANGED <<running, path, reader, full, rows, shared>>

OpenFails(s) ==
  /\ path = None
  /\ Goes(s, "open", "done")
  /\ Unlinked
  /\ UNCHANGED <<running, fifo, reader, full, rows, shared>>

(* The open() returns (and a mutant that unlinks the path at once).        *)
OpenedUnlinks(s) ==
  /\ fifo[s] \in reader
  /\ Goes(s, "opening", "loop")
  /\ path' = None
  /\ UNCHANGED <<running, fifo, reader, full, rows, shared>>
Opened(s) ==
  /\ fifo[s] \in reader
  /\ Goes(s, "opening", "loop")
  /\ UNCHANGED <<running, path, fifo, reader, full, rows, shared>>

-----------------------------------------------------------------------------
(* while (keep_running) (and a mutant that never looks).                   *)
LoopForever(s) == TRUE
LoopGoesOn(s) == running[s]

(* One cycle: collect, write a record per process, sleep.                  *)
CycleEmpty(s) ==
  /\ LoopGoesOn(s) /\ ~rows[s]
  /\ Goes(s, "loop", "sleep")
  /\ UNCHANGED <<running, path, fifo, reader, full, rows, shared>>

CycleBegins(s) ==
  /\ LoopGoesOn(s) /\ rows[s]
  /\ Goes(s, "loop", "writing")
  /\ UNCHANGED <<running, path, fifo, reader, full, rows, shared>>

(* write() blocks while the FIFO is full; its records may fill it.         *)
Write(s) ==
  /\ fifo[s] \in reader /\ fifo[s] \notin full
  /\ Goes(s, "writing", "sleep")
  /\ full' \in {full, full \union {fifo[s]}}
  /\ UNCHANGED <<running, path, fifo, reader, rows, shared>>

(* EPIPE, SIGPIPE being ignored (and a mutant that goes on).               *)
NoticesNothing(s) == UNCHANGED running
NoticesReaderGone(s) == running' = [running EXCEPT ![s] = FALSE]

WriteFails(s) ==
  /\ fifo[s] \notin reader
  /\ Goes(s, "writing", "sleep")
  /\ NoticesReaderGone(s)
  /\ UNCHANGED <<path, fifo, reader, full, rows, shared>>

Sleep(s) ==
  /\ Goes(s, "sleep", "loop")
  /\ UNCHANGED <<running, path, fifo, reader, full, rows, shared>>

(* The loop has ended: close().                                            *)
Close(s) ==
  /\ ~LoopGoesOn(s)
  /\ Goes(s, "loop", "closed")
  /\ UNCHANGED <<running, path, fifo, reader, full, rows, shared>>

Remove(s) ==
  /\ Goes(s, "closed", "done")
  /\ Unlinked
  /\ UNCHANGED <<running, fifo, reader, full, rows, shared>>

Step(s) ==
  \/ Unlink(s) \/ Mkfifo(s) \/ MkfifoFails(s)
  \/ Open(s) \/ OpenFails(s) \/ Opened(s)
  \/ CycleEmpty(s) \/ CycleBegins(s) \/ Write(s) \/ WriteFails(s) \/ Sleep(s)
  \/ Close(s) \/ Remove(s)

-----------------------------------------------------------------------------
(* signal_handler() clears keep_running; what was blocked is restarted.    *)
Interrupt(s) ==
  /\ pc[s] \notin {"start", "done"} /\ running[s]
  /\ running' = [running EXCEPT ![s] = FALSE]
  /\ UNCHANGED <<pc, path, fifo, reader, full, rows, shared>>

(* Or the blocked open() returns EINTR; the path is unlinked.              *)
InterruptOpen(s) ==
  /\ Goes(s, "opening", "done")
  /\ running' = [running EXCEPT ![s] = FALSE]
  /\ Unlinked
  /\ UNCHANGED <<fifo, reader, full, rows, shared>>

(* The listed processes have all exited.                                   *)
RowsGone(s) ==
  /\ rows[s] /\ rows' = [rows EXCEPT ![s] = FALSE]
  /\ UNCHANGED <<pc, running, path, fifo, reader, full, shared>>

ReaderOpens ==
  /\ path # None /\ path \notin reader
  /\ reader' = reader \union {path}
  /\ UNCHANGED <<pc, running, path, fifo, full, rows, shared>>

ReaderReads ==
  /\ \E f \in full : full' = full \ {f}
  /\ UNCHANGED <<pc, running, path, fifo, reader, rows, shared>>

ReaderCloses ==
  /\ \E f \in reader : reader' = reader \ {f} /\ full' = full \ {f}
  /\ UNCHANGED <<pc, running, path, fifo, rows, shared>>

Environment ==
  \/ \E s \in Streamers : Interrupt(s) \/ InterruptOpen(s) \/ RowsGone(s)
  \/ ReaderOpens \/ ReaderReads \/ ReaderCloses

Next == (\E s \in Streamers : Step(s)) \/ Environment

(* A streamer goes on when it can, and its open() meets a reader sooner or *)
(* later when readers come and go.  Nobody has to read.                    *)
Spec ==
  /\ Init /\ [][Next]_vars
  /\ \A s \in Streamers : WF_vars(Step(s)) /\ SF_vars(Opened(s))

(* A reader comes when there is a FIFO without one, and what is in a FIFO  *)
(* is read.                                                                *)
Read == WF_vars(ReaderOpens) /\ SF_vars(ReaderReads)

-----------------------------------------------------------------------------
(* A FIFO does not outlive its streamer: every way out after mkfifo()      *)
(* removes it, whatever other streamers do to the path.                    *)
NoFifoLeft == \A s \in Streamers : path = s => pc[s] # "done"

(* While a streamer is at work, the path leads to its FIFO: the printed    *)
(* "cat /tmp/procscope.fifo" shows this stream, if no two streamers have   *)
(* worked at the same time.                                                *)
PathLeadsToStream ==
  \A s \in Streamers :
    ~shared /\ pc[s] \in {"opening"} \union Writing => path = s /\ fifo[s] = s

(* A streamer ends when its reader has gone, as soon as it has a record to *)
(* write.                                                                  *)
ReaderGoneEnds ==
  \A s \in Streamers :
    (pc[s] \in Writing /\ fifo[s] \notin reader)
      ~> (pc[s] = "done" \/ fifo[s] \in reader \/ ~rows[s])

(* Ctrl-C stops the mode wherever it is, if the readers read and the FIFO  *)
(* was not taken away by another streamer.  Without a reader that reads it *)
(* does not: a write() to a full FIFO is restarted after the signal.       *)
StopEnds ==
  Read => \A s \in Streamers : ~running[s] ~> (pc[s] = "done" \/ shared)
===============================================================================

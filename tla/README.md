# A TLA+ model of procscope

procscope is a process monitor for macOS, written in C.  It lists processes,
follows some of them in a live table, raises alerts, streams samples through a
FIFO, asks an AI service about what it sees, and runs in the background as a
daemon.  Its library also holds a shared memory segment with a lock, tables and
a message queue, made for a master and worker processes, a log with rotation and
a file of histories.  This directory models the parts of it that can go wrong in
more than one step: processes that are forked and reaped, signals, PID files,
FIFOs, semaphores, shared memory, files that survive a kill, rings and tables
that are kept in step by index, and the texts and words that pass through fixed
buffers.

Paths below are relative to the repository (`src/monitor.c` is listed as
`src/src/monitor.c` in `PROJECT.json`).

## 1. The system

| Component | State | Operations | Interacts with |
|---|---|---|---|
| `collect_parallel` (monitor.c 249-282) | arrays `curr`, `pipes`, `children`; the workers | pipe, fork, read, reap, per slot | kernel, workers; called by both live views, the daemon, and in reduced form by alert and stream mode |
| live tables (monitor.c 349-402, 521-576; stream.c 69-120) | `curr`, `prev`, `histories`, `watch_pids`, `stream_pids` | refresh, drop rows, sort, save | collector |
| live view loop (monitor.c 120-170, 328-643) | `keep_running`, raw mode, pause, panel, AI request, interval, sleep | refresh, slice of the sleep, every key, overlay, pause, leave | user, signals |
| alert mode (alert.c) | `prev`, two trigger flags | poll, compare, report, sleep | one worker per poll, signals |
| stream mode (stream.c) | the FIFO at `/tmp/procscope.fifo` | unlink, mkfifo, open, write, sleep, close, unlink | readers, other streamers, signals |
| daemon commands (daemon.c, main.c 60-110) | the PID file | start, stop, status; the daemon's boot and end | daemon, other commands, other users |
| reader-writer lock (ipc.c 139-345) | three System V semaphores, undo adjustments | read and write lock and unlock | every user of the segment, kernel |
| shared memory (ipc.c 38-126, 353-483) | segment, semaphore set, their keys | create, initialise, attach, clean up | masters, workers |
| stock table (ipc.c 491-621) | `stocks`, `stock_count` | add, update, get, remove | callers under the lock |
| worker table (ipc.c 628-719) | `workers`, `worker_count`, `active_workers` | register, unregister, heartbeat, dead workers | callers under the lock |
| message queue (ipc.c 726-805) | ring, `head`, `tail`, `count` | send, receive, peek, clear | callers under the lock |
| statistics (ipc.c 809-839) | counters | increment, running average | callers under the lock |
| price history, local insights (ai.c) | ring of prices | add, averages, momentum, RSI, verdicts | live views |
| Claude request (ai_insights.c) | a temporary file, text buffers | escape, write the request, run curl, extract and wrap the answer | live views, other instances, network |
| command line (cli.c), dispatch (main.c) | the options, the followed processes | parse, resolve names, dispatch | every mode |
| process data (proc.c) | none | list, find by name, sample | kernel |
| logger (logger.c) | log file, numbered older files, level | open, write, rotate, close | file system |
| history file (history.c) | a mapped file of histories | open, initialise, save, load | file system |
| configuration (config.c), memory map, system memory (memmap.c, system.c), helpers (utils.c) | none that lasts | format, walk, print | kernel |

The hard behaviours are these.  Workers are forked while pipe ends of earlier
workers are open, and every system call of the loop may fail on its own.
Parallel arrays are matched by index while rows are dropped and sorted.  Keys
and signals arrive at every place of loops that sleep, block or draw.  Commands
find a process through a number in a file, and the number may have been given
away.  Files are written by one process and found by the next, or by two at
once, after a kill at any place.  A lock built from three semaphores relies on
the kernel to undo what a killed process has done, once per process and not once
per lock.  Calls on shared data are cut short by kills.  The hazards are listed
with their lines in `PROJECT.json`.

What makes each component correct:

* a collector call returns, leaves neither child nor descriptor behind, and
  never shows an old row as a new one;
* every CPU percentage is computed from two samples of one process, and
  histories stay with their process; only processes that have exited are
  dropped;
* the processes followed are the ones the command line asks for;
* the price ring gives back the latest prices, and no verdict is given that the
  prices do not bear out or that another one contradicts;
* an answer of the AI service belongs to the question, and a text is neither
  changed nor cut inside an escape;
* the log is in order and without gaps, and what was saved is loaded again,
  whenever the process was killed;
* however the live view is left, the terminal is restored; sleeps end; a request
  for the AI overlay is served;
* one alert per excursion; one daemon at a time, found by its PID file; no FIFO
  left behind; Ctrl-C ends every mode;
* a writer excludes everybody else, and nobody waits for ever;
* the queue is a FIFO, the tables give back what was stored in them, and a
  worker that is alive is not reported dead.

## 2. Modules

| Module | Models | Role |
|---|---|---|
| `Collector` | `collect_parallel()` and its workers | component |
| `Table` | rows of watch, top and stream mode from refresh to refresh | component; uses a refresh as one step, which is what `Collector` justifies |
| `Tui` | loop and keyboard of watch and top mode | component; of the rows only their number |
| `Alert` | alert mode | component |
| `PriceHistory` | price ring, indicators, verdicts | component |
| `HistoryFile` | the mapped file of histories | component |
| `Measurements` | the three above | composition |
| `Targets` | from the command line to the followed processes | operators over initial states |
| `Stream` | stream mode, readers, other streamers | component |
| `Logger` | log file and rotation | component |
| `AiRequest` | the request file, curl, other instances | component |
| `AiText` | escaping, extraction, wrapping | operators over initial states |
| `Paths` | the five above | composition |
| `Daemon` | daemon commands, PID file, daemon process | component |
| `RWLock` | the reader-writer lock, semop by semop | component |
| `MsgQueue` | the message queue | component |
| `BoundedFifo` | what the message queue promises | abstract specification |
| `StockTable`, `WorkerTable` | the two tables | components |
| `ShmSegment` | creation, attaching, removal of segment and set | component |
| `SharedMemory` | the four together | composition |
| `CollectorProofs`, `TableProofs`, `TuiProofs`, `DaemonProofs`, `RWLockProofs` | | theorems about one component each |
| `MeasurementsProofs`, `SharedMemoryProofs`, `PathsProofs` | | theorems about the parts and the composition |

`RWLock` shows that calls on the segment exclude each other; `MsgQueue`,
`StockTable` and `WorkerTable` therefore take a call as one step.  A process
that is killed inside a call ends it early, and the kernel releases its lock:
every call that writes has a `Killed` action beside it, which performs a prefix
of the stores in the order of the source.

The parts of `SharedMemory`, `Measurements` and `Paths` share no state: a
behaviour of a composition exercises one part, named by `part`, while the others
stay in an initial state.  Nothing is lost by that, since no step of one part
reads what another one changes, and every part keeps its own fairness.

### How states and actions correspond to the code

**Collector.**  `pc` and `idx` are the place in the two loops; `rfd`, `wr` and
`buf` the ends and the content of each pipe, with all processes that hold the
write end; `kid` is `children[s]` with the state of the worker.  `pd` and `curr`
are the valid flags in the worker and in the parent.  `waitpid(-1)` after a
failed `fork()` is `WaitAny`.  A worker inherits the write ends the parent still
has open, which is what makes end of file depend on the other workers.

**Table.**  A sample is the pair of the process it is about and the process
whose older row its CPU percentage was computed from.  `WatchRefresh` is one
iteration of watch mode from `collect_parallel()` to the copy into `prev`,
`TopRefresh` one of top mode with the sort, `StreamRefresh` and
`StreamAllRefresh` one cycle of a stream of listed and of all processes.
`Undefined` ends the behaviour where more processes are collected than the
arrays have room for.

**Tui.**  `pc` is the place in the loop, which is the same in both modes up to
the differences named in the actions.  `Keypress` has one disjunct per key of
`handle_keypress()`.  `mixed` records that `S` sorted rows into `curr` that are
not from the last refresh.  `KeyUndefined` is a key whose handling is undefined
in C, `RefreshUndefined` a refresh of top mode without a list of the processes
or with more of them than fit; the behaviour ends there.

**Alert.**  A value is low, mid or high with respect to its threshold.  `log` is
what has been printed.  `Poll` is pipe, fork, read and reap together; the
collector's interleavings are not repeated for one worker.

**PriceHistory.**  The fields of a `PriceHistory`, with `AddPrice` as the only
action; every indicator and every verdict of ai.c is an operator over the ring.
The code computes with doubles; the model multiplies both sides of a comparison
by the denominators and is exact.  `added` is a history variable, the plain
sequence of the prices.

**HistoryFile.**  The file outlives the process that maps it.  Opening it takes
several steps, each of which may fail or be the last; `KilledSave` stores a
prefix of what `history_save()` stores.  `lastSaved` and `halfSaved` are history
variables: what was last saved, and which symbols a process was killed over.

**Targets, AiText.**  Pure functions of their inputs; the inputs are the initial
states.  A loop over words, characters or processes is a recursive function of
the number of turns, whose value is what the loop has made by then: `Resolution`
and `OptionsRead` (the lists of `run_stream_mode()` and the thresholds),
`Buffer` (`json_escape()`), `Extraction` (`extract_text_field()`), `Cursor`
(`print_wrapped_text()`).  A name is the set of the processes it is found in; it
is neither a PID nor 0 (`NamedAssumption`: digits are read as a number).  A
search looks through the first `MaxProcesses` of the kernel's list, or through
nothing when `get_all_pids()` fails (`unlisted`).  A character is one of the
classes the code tells apart, a word its length.

**Logger.**  A rotation is one step per `rename()`, so that a kill leaves every
intermediate set of files.  `log_write()` uses a `FILE` pointer it took before
the rotation closed that file; the line then lands in the new file or is lost
(`EndRotation`).

**AiRequest.**  One step is one system call on `AI_REQ_FILE`.  The API answers
what curl sent it, or fails; a file may be there from the start, left by this
user or by another.

**Stream.**  `path` is what the path names, `fifo` what a streamer's `open()`
found, so that a FIFO that was unlinked under its streamer is not the one at the
path.  A FIFO is full or not, and it has a reader or not.

**Daemon.**  One step is one system call of a command: read the file, probe,
signal, poll, unlink.  The PID file is empty between `fopen("w")` and
`fclose()`.  `DaemonOpenFails` and `DaemonWriteFails` are the failures of
`create_pid_file()`, which `daemonize()` does not look at: the daemon runs on,
and the history variable `untracked` has it until it ends.  `Begin` reads 0 also
where the file is there but cannot be opened.  PIDs are reused by other
processes, of the same user or of another.  `disturbed` is a history variable:
a command was begun while another one ran or a daemon booted, or it could not
open the file.

**RWLock.**  One step is one `semop()` or `semctl()`.  `adj` is what the kernel
adds at exit; a `semop()` whose adjustment would leave its range fails with
ERANGE.  `SpecFaults` adds exits inside the lock and the removal of the set.

**MsgQueue, StockTable, WorkerTable.**  The fields of the structures, one action
per function.  `queueTorn`, `stockTorn` and `workerTorn` record a kill between
two stores that belong together.  A symbol of more than 15 characters is stored
as `"cut"` and is not found by its full name.  `last` and `quiet` are history
variables: what was last stored, and how long a worker has been silent.

**ShmSegment.**  One step is one system call of `shm_init_master()`,
`shm_attach_worker()` or `shm_cleanup()`, each of which may fail.  Segments and
sets are named after the master that created them.  Of the lock there remains
`SEM_WRITERS`, for which the first reader and every writer wait.

## 3. The runs

| Run | Question | Bounds |
|---|---|---|
| `collector` | Does every call return, clean and with fresh rows? | 3 slots: a failed slot, the worker `waitpid(-1)` steals, and one that is not involved; any number of calls |
| `rwlock` | Does somebody always get on, with ERANGE? (Exclusion is proved.) | 3 processes, each reader and writer; adjustments up to 2, so that the limit is met |
| `rwlock_faults` | Exclusion and progress with exits inside the lock and removal of the set | 1 reader, 4 writers |
| `rwlock_undo` | A reader exits while another one reads | 2 readers: **violates** `Exclusion` |
| `daemon` | Are the answers of the commands true, and do they come, with PID files that fail, too? | 2 commands at a time, 2 PIDs, 2 users, 2 polls |
| `daemon_race` | Is there only one daemon whatever happens? | 2 commands: **violates** `SingleDaemon` |
| `table` | Do the arrays stay in step? | 3 processes, array of 3, all three modes |
| `table_top_cpu` | Are the percentages of top and stream mode about one process? | 2 processes: **violates** `CpuFromSameProcess` |
| `tui` | Does the loop end with the terminal restored, serve, and go on under a held key? | up to 3 rows, top_n 2, intervals 1 to 3 |
| `shared_memory` | Do queue, tables and segment keep their promises? | ring of 3 and 2 messages; 3 stocks, one symbol too long; 2 workers in 3 slots; 2 masters, 1 worker |
| `measurements` | Are alerts, prices and saved histories what was measured? | 2 values, 4 samples; ring of 5, 7 prices; 3 symbols, one too long, 3 entries |
| `paths` | Do FIFO, log, request, texts and targets reach whom they should? | 2 streamers; 2 lines a file, 3 older files, 11 lines; 2 instances; texts of 5 characters; 3 words for 2 places, 3 processes of which 2 are searched |

Why the bounds are enough: a collector with three slots has a slot before and
after the failing one; a ring of three is neither of the special sizes one and
two and wraps around with every fill; three slots for two workers leave room for
a gap in front of a registered one and for a second entry; three table rows have
a first, a middle and a last one to drop; two masters are enough for every
overlap and for one to find what a killed one has left.  In `shared_memory`
`MaxActive` bounds `active_workers`, which nothing in the code limits, and ages
stop one above the limit, where all are alike.  In `measurements` `MaxLog`
bounds the printed rows (up, back to mid, down, up again); seven prices in a
ring of five overwrite it, the periods 3, 4, 3, 4 and 2 stand for 5, 10, 5, 14
and 3 and leave room for every combination of indicators that have enough data
and that do not, and the prices are chosen on both sides of the thresholds of
0.5, 1, 2 and 5 percent.  In `paths` eleven lines fill four files of two and
drop the oldest one; buffers of 12 and 5 are filled by texts of five characters,
the first of them only by texts with escapes; three words ask for up to six
processes, in a list of two.

Deadlock is checked where the system cannot stop.  It is not in `rwlock` (a
process that met ERANGE may keep a semaphore), in the modes that end, in `table`
(undefined behaviour ends it) and in `shared_memory` (a table full of cut
symbols rejects every call, and masters and workers end).

The type invariants document the state of each module and are part of the
inductive invariants of the proofs; no run repeats them.

What the properties say is in the comment of each definition.  The conditions in
some of them are part of the result:

* `AtMostOneDaemon`, `RunningIsFindable`, `StopMeansStopped`, `NotRunningIsTrue`
  hold while commands do not overlap with each other or with a booting daemon
  and can open the PID file, and speak of daemons whose `create_pid_file()` did
  not fail: one that runs untracked is found and stopped by no command, but it
  does no harm to the tracking of another;
* `TargetsExact` takes the words the program hears, the first `MAX_WATCH_PIDS`,
  and lets a name ask for processes among the first `MAX_PROCESSES` only, and
  for none when they cannot be listed; it says nothing of a stream whose words
  ask for no process, which follows the first ten of all;
* `AiServed` excuses the pause and the loss of all rows;
* `rwlock_faults` has a single reader, since exits with two break exclusion;
* `LockProgressInRange` (`rwlock`) speaks of processes whose adjustments are not
  at the limit;
* `OnlyExitedDropped` is checked without failing `pipe()` and `fork()`;
* `PathLeadsToStream` and `StopEnds` need a streamer that is alone, and
  `StopEnds` readers that read; `OwnAnswer` needs an instance that is alone;
* `HistoryKept` excepts symbols that are too long and those a process was killed
  over; `LogInOrder` excepts lines that were never written to a file;
* `TextSurvives` speaks of texts escaped by this program: an answer with
  `\uXXXX` loses the backslash;
* `ImplementsFifo` and `WholeMessages` hold until a kill tears a call and from
  the next `msg_clear()` on; `LookupExact` and `ActiveExact` until a kill inside
  a change;
* `InitUndisturbed` needs masters that do not start at the same time.

### Fairness

The scheduler runs every process that can run: weak fairness of the parent and
of each worker (`Collector`), of each command and daemon (`Daemon`), of the loop
(`Tui`: `select()` returns within a second, but a key held down may end every
slice, so that no slice is ever promised to pass without one; `Alert`: sleeps
end), of each streamer (`Stream`), and of each process inside the functions of
the lock (`RWLock`; nothing says that the kernel wakes waiters in turn, so that
progress of the lock and not of each process is stated).  A blocked `open()` of
a FIFO is strongly fair: it ends when readers are there again and again.  In the
compositions the fairness is that of the part which is exercised.  Nothing is
assumed of the user, of signals, of failures, of targets that exit, or of
readers; where a property needs a reader that reads (`StopEnds` of `Stream`) or
a `pipe()` that succeeds (`ExitNoticed`), the property says so.

## 4. What is proved

All for every value of the constants, from the named assumptions only.

* `CollectorTypeCorrect`, `CollectorCleanReturn`, `CollectorFreshResult`
  (`CollectorProofs`), from `Count \in Nat`.  The invariant `IInv` adds to the
  types: what the loop has not reached is untouched; a pipe belongs to its
  worker; the write end of a pipe that has not been read to its end is held by
  the parent or by its worker; every slot the second loop has passed is settled;
  and a row is sampled once.  `CleanReturn` alone is not inductive: it speaks of
  the end, and needs to know what each passed slot has left.
* `CollectorNeverStuck` (`CollectorProofs`), the part of `CollectReturns` that
  needs no fairness: a parent blocked in `read()` has a running worker at the
  other end, and one blocked in `waitpid()` a running worker to wait for, also
  where a failed `fork()` makes it wait for any.  `EndsInv` says that whoever
  has a write end is running, and that no pipe is closed before it is read.
* `LockTypeCorrect`, `LockExcludes`, `LockCountsReaders` (`RWLockProofs`), from
  finitely many processes and a positive limit, for `Spec` (no exit inside the
  lock).  The invariant has three parts: `MutexInv` (at most one process between
  taking and giving back SEM_MUTEX), `CountInv` (SEM_READERS is the number of
  processes counted in it; who waits for the writers is the only one counted,
  who signals them the last) and `TokenInv` (SEM_WRITERS is 0 while readers or a
  writer hold it, and not both).  Exclusion follows from the third, which needs
  the second to know that only the first reader takes the token, which needs the
  first because counting and looking are two calls.
* `LoneReaderExcludes`, `LoneReaderReleases` (`RWLockProofs`), for `SpecFaults`
  and the hypothesis `OneReader`: processes exit at any place, inside the lock
  too, and the set is removed.  `rwlock_undo` shows why the hypothesis is
  needed.  The invariant `Sound` says that the adjustments of a process are what
  it holds: 1 for SEM_MUTEX and SEM_WRITERS, -1 for SEM_READERS, by its place in
  the functions and nothing else; so what the kernel undoes is what the process
  would have given back.  That also keeps every adjustment within -1 to 1, and
  no `semop()` meets ERANGE.  After the removal nothing is claimed (`gone`).
* `WriterExitsExclude` (`RWLockProofs`), for `SpecWriterExits`: any number of
  readers, the set may be removed, and processes that only write end at any
  place.  A writer takes SEM_WRITERS for itself (`WritersHold`), so the kernel
  gives back what is its own; it is the end of a reader, and no other, that
  breaks the lock in `rwlock_undo`.
* `LockNeverStuck`, `LoneReaderNeverStuck` (`RWLockProofs`), the part of
  `LockProgressInRange` and `LockProgress` that needs no fairness: while
  somebody is inside the lock, somebody's next `semop()` does not block.  The
  first for any readers and writers, with writers that end, unless a process has
  come to the end of its adjustments and could not give SEM_WRITERS back; the
  second for one reader and exits anywhere, with no exception.  `HeldInv` says
  that a semaphore that is taken has a holder.  The first reader waits for
  SEM_WRITERS inside SEM_MUTEX; the holder is then a writer, which needs no
  SEM_MUTEX, since the waiting reader is the only one counted (`CountInv`).
* `OneDaemon`, `DaemonFindable`, `StoppedIsGone`, `NotRunningTrue`
  (`DaemonProofs`), for the hypothesis `OneOperator`: one user runs all
  commands, while PIDs may be reused by anybody, and any number of daemons may
  run without a PID file because they could not make it.  With two users `daemon
  status` takes EPERM for a stale file and may remove that of a running daemon.
  The properties speak of daemons and of commands that are through; `Orderly`
  adds what a command relies on in the middle of its work: until it has probed,
  the number it read is that of the only daemon that is tracked, if there is
  one; on its way to `unlink()` or `fork()` there is none.
* `TableTypeCorrect`, `TableKeepsRows`, `TableDropsExited` (`TableProofs`), from
  finitely many processes.  The loop that moves the valid rows to the front is
  taken apart first: `AliveCounts` and `KeptRows` show that it fills the first
  places with all valid rows and no other.  `RowsKeepTheirProcess` becomes
  inductive with what the next sample is computed from: `prev[i]` is of the
  process of row i, or not valid (`Own`).  `TableDropsExited` has the hypothesis
  that collecting does not fail, under which the run checks it.
* `TuiTypeCorrect`, `OverlayFresh` (`TuiProofs`), for the hypothesis `RowsFit`:
  `top_n` is within the arrays.  Without it S sorts past them, as section 5
  says.  `MixedOnlyBelow` says where rows that are not of the
  last refresh come from: only S in top mode, with fewer than `top_n` rows.
* `QueueTypeCorrect`, `QueueImplementsFifo`, `QueueWholeMessages`
  (`SharedMemoryProofs`), from a positive size and a blank that is no message.
  The invariant `QueueInv` is the types, and unless the ring is torn `tail =
  (head + count) % Size` and contents that are whole messages.  The lemmas
  `Keep`, `Drop`, `Grow` and `Replace` say what a store behind the counted
  slots, a moved read position and both do to the sequence of the contents;
  `Simulation` maps every action to one of `BoundedFifo` or to no step.
* `StockLookup`, `StocksSurvive` (`SharedMemoryProofs`), for any capacity, from
  the assumption that a cut symbol is no symbol.  `StockRows` is the table as a
  function: a short symbol has one row at most, that row holds what was last
  stored, and a symbol that was stored and not removed has a row.  A kill while
  the gap is closed leaves one row twice and none out.
* `WorkersCounted`, `ReportedAreQuiet` (`SharedMemoryProofs`).  `ActiveExact` is
  inductive with the types; that the dead were silent needs `OneSlotEach`: one
  slot for a worker, whose heartbeat is not older than its last sign of life.
* `InitAlone`, `LockNeverLost` (`SharedMemoryProofs`), from the assumption that
  a process is master or worker and not both (`RolesAssumption`).  Nobody has a
  set before it is made, a segment is valid only after its set was cleared, and
  its SEM_WRITERS stays 0 until the master sets it (`SetUnused`, `ValidLate`,
  `ClosedUntilReady`); `OneAtATime` adds that a worker which finds the segment
  of a starting master finds its set too, unless two masters overlap.
* `SharedMemoryKept` puts the four together for the specification the run
  checks; `StepOfEachPart` is why nothing is lost by that.
* `PriceTypeCorrect`, `PricesExact` (`MeasurementsProofs`), from a positive
  size.  `RingInv` adds to the types that `count` is the number of prices added
  up to the size, and that the place k behind `index` holds the k-th latest
  price.  The lemmas `BackIs`, `BehindIs`, `BackOfNew` and `BackOfOlder` take
  the remainders apart once, so that the step is about positions only.
* `AlertsOnce` (`MeasurementsProofs`).  The property looks back over all rows
  printed; the code has one flag per value.  `FlagInv` connects them: the flag
  is up if and only if an alert was printed with no low sample since.
* `HistorySurvives` (`MeasurementsProofs`), from the assumptions that a cut
  symbol is no symbol.  A symbol has one entry at most (`OneEntry`), so that
  none hides behind an older one, and without the magic number nothing was saved
  yet (`MagicInv`), so that clearing the file loses nothing.
* `VerdictsSound` (`MeasurementsProofs`), for any size of the ring and any
  periods in it.  A verdict that speaks of a rise rests on the short average
  being above the long one or on the momentum; the prediction too, since RSI
  alone does not reach its threshold.  If no price in the window had risen, each
  would be at most the one before it, so that no average of the latest prices
  could be above one that reaches further back and no price above an older one
  (`CrossoverMoved`, `MomentumMoved`).  The step from one price to the next is
  taken to sums and to a whole window by the least position at which it fails.
  A recommendation that quotes MA5 may rest on the momentum alone: that MA5
  exists then needs Short <= Lookback + 1 (`PeriodsAssumption`; the code has 5
  and 5).
* `MeasurementsKept` states all of these for the composition.
* `StreamLeavesNoFifo`, `StreamIsAtItsPath` (`PathsProofs`).  `Owned` says
  where a streamer is while its FIFO is at the path; `OwnPath` that without an
  overlap one streamer is at work and the path is free or its own.
* `RequestAnswered` (`PathsProofs`).  `OwnRequest` follows the request from the
  file to what curl sends: while nobody else is at work, the file at the path is
  the one that was opened and holds this request or no whole one.
* `LogKept` (`PathsProofs`), for any number of files and lines.  A file is
  ascending, an older file holds older lines, and no line is missing between
  two that are kept (`Ascending`, `OlderFirst`, `NoGap`).  In the middle of a
  rotation `TargetEmpty` is needed: the target of the next rename is empty
  unless it is the oldest file, so that a rename can drop no other lines; it is
  why the loop goes from the oldest file to the newest.
* `TextsSurvive` (`PathsProofs`), for texts of any length and buffers of any
  size.  After each character of the text the extraction stands at the end of
  its code, not inside an escape, and has given back that character or is full;
  and the buffer of the escaping has all codes so far unless it is full
  (`Reached`).  A code is one or two bytes and a quote never stands alone in it,
  which is why no text ends early (`ExtractCode`).
* `WordsWrapped` (`PathsProofs`).  `PrintedBefore` compares the cursor with all
  words printed so far, so that the order of two words is known without the ones
  between them; `LinesPrinted` counts the lines by their two reasons.
* `TargetsFollowed` (`PathsProofs`), from finitely many processes and names that
  are no PIDs.  After k words the list holds only processes asked for by them,
  and all of them in the number asked for, or it is full (`ResolvedSoFar`).
  `FoundIs` says the same of the search for a name among the processes that
  `get_all_pids()` gives, which are the first `MAX_PROCESSES` (`AllPidsIs`).
* `PathsKept` puts the five together for the specification the run checks.

No library theorem of induction that takes a formula as its parameter can be
used here.  Where a loop is involved, a least number is taken instead, from the
well-foundedness of the natural numbers (`LeastNumber`, `LeastOf`).  `Induct`
says it for a set of positions.  That a recursive function over positions exists
at all, and satisfies its equation, is proved from it (`RecursionExists`,
`RecursionTyped` in `PathsProofs`): a table of its first n values can be made
one longer.

Only model-checked are the properties of liveness: `CollectReturns`,
`LockProgress`, `LockProgressInRange`, `CommandReturns`, `StopRestores`,
`AiServed`, `ViewGoesOn`, `StopEnds`, `ReaderGoneEnds`, `ExitNoticed`.  They
rest on fairness, and fairness on ENABLED, which the prover does not know.  For
the first three the theorems `CollectorNeverStuck`, `LockNeverStuck` and
`LoneReaderNeverStuck` show that nobody waits for what cannot come.  Every
safety property that a passing run checks is proved.

## 5. What was found

Three runs end in a counterexample to a sentence of the repository, described
under `findings`: a reader that exits gives the writers' semaphore back for all
readers (ipc.c:224); a second `daemon start` before the first daemon has written
its PID file starts a second daemon (main.c:72); top mode, and a stream of all
processes, compute CPU percentages from rows of different processes
(monitor.c:263, stream.c:76).

Other limits of the code that the models contain, or that bound what they say:

* top mode passes up to 512 rows to arrays of 32 (monitor.c:251, 355); `S` in
  top mode sorts `top_n` rows whatever was found (monitor.c:413); `I` with no
  rows divides by zero (monitor.c:154); watch mode never sorts (monitor.c:543);
* a failed `fork()` drops a living process from the watch list (monitor.c:527)
  and lets alert mode report an exit (alert.c:98);
* `select()` on a closed standard input returns at once, so that the daemon does
  not sleep between refreshes (monitor.c:410);
* `daemon stop` signals whichever process has the PID by then (daemon.c:322);
  `daemon status` takes EPERM for a stale file (daemon.c:297);
* `create_pid_file()` may fail (daemon.c:27), its write and close are not
  checked (daemon.c:31), and `daemonize()` ignores its result (daemon.c:144):
  the daemon then runs without a PID file, no command finds it, and the next
  start makes another one; a command that cannot open the file says that no
  daemon is running (daemon.c:55);
* a name is searched among the first 512 processes only (proc.c:168), and finds
  nothing, without a message, when `get_all_pids()` fails (proc.c:170);
* a second streamer takes the path from the first (stream.c:18); a `write()` to
  a FIFO whose reader does not read is restarted after Ctrl-C (alert.c:26,
  stream.c:107); a stream whose words match nothing streams the first ten of all
  processes, under a comment that says "top 10 by RSS" (stream.c:55);
  `get_all_pids()` returning -1 gives `memcpy()` a huge size (stream.c:114);
  names in a record are not escaped;
* the result of the last `semop()` of an unlock is ignored (ipc.c:324), and a
  `GETVAL` of a removed set counts as -1 readers (ipc.c:294);
* a symbol of more than 15 characters can be added again and again and never be
  found or removed (ipc.c:527);
* a worker that registers again while a slot in front of its own is free gets a
  second entry; `active_workers` stays too high and the first entry is reported
  dead (ipc.c:635);
* a kill between two stores of a queue call leaves `head`, `tail` and `count`
  out of step until `msg_clear()` (ipc.c:731, 737, 757);
* a master killed before it has set SEM_WRITERS leaves everybody waiting
  (ipc.c:410), and a worker that attaches while a master starts may keep the old
  segment with the new lock (ipc.c:443);
* `add_price()` ignores samples of 0 % (ai.c:36), so that an idle process has no
  falling trend; the sparkline draws the ring in the order of the array
  (monitor.c:52); with three or four prices the neutral text prints a volatility
  divided by the missing average of -1 (ai.c:337); the text "MA5 above MA10" is
  also chosen by momentum alone (ai.c:321); the quick insight can say Falling
  where the trend is Bullish; flat prices have an RSI of 100 (ai.c:222);
* two instances share the request file and may be shown each other's answers
  (ai_insights.c:17); `fputs()` and `fclose()` of the request are not checked
  (ai_insights.c:266); curl has no time limit (ai_insights.c:121), and the
  models assume that it ends; the prompt heads its rows "by CPU" where
  `insights` has sorted them by memory (ai_insights.c:208, 308);
* `log_write()` writes through a `FILE` the rotation has closed (logger.c:158);
  the results of the renames are ignored (logger.c:127), and the model has no
  `rename()` that fails while its source is there;
* a symbol of more than 15 characters is never found in the history file and
  takes a new entry with every save (history.c:104); two processes that map the
  file have no lock.

## 6. What is not modelled

* Drawing, formatting and the values read from the kernel: rows are identities
  and flags.  The clock: a slice, a poll or an age is a step.
* `list` and `mem` modes, `memmap.c` and `system.c`: one walk over what the
  kernel reports, printed, with no state from one call to the next.  `utils.c`
  holds string, time and number helpers without state; what matters of them
  (cutting a symbol, resolving a name) is in the modules that use them.
* `config.c`: lists in memory that no part of the program calls; `config_load()`
  does not read the file it is given and `config_save()` writes the defaults, so
  that there is no file format to speak of.
* The statistics functions of ipc.c (809-839): three counters and an average
  under the lock, without a caller, and with nothing to say beyond their
  assignments.
* `daemon_restart()`, `daemon_setup_signals()`, `daemon_loop()`,
  `sem_trywait()` and `calculate_ema()`, which have no caller.
* `main()` and `parse_command()` beyond what `Daemon` and `Targets` take from
  them: the choice of the mode by its name, and the help texts.
* Rounding in ai.c: a comparison that is decided by the last bit of a double may
  come out differently.
* Two processes in the history file at once, which the code does nothing about.

## 7. Plan

The order was: the collector, which everything else relies on; the tables and
the loop around it; the lock; the daemon; alert and stream mode; the structures
under the lock; then the price history, the files (history, log, request) and
the texts and words at the borders of the program.  These are the modules above.
Every safety property that a passing run checks is proved for all values of the
constants.  What is left: exclusion and progress for readers that end can only
be had from another lock, one whose `SEM_WRITERS` is not given back for all
readers by the end of one; and liveness, which stays with TLC.

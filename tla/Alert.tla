-------------------------------- MODULE Alert --------------------------------
(***************************************************************************)
(* run_alert_mode() of alert.c: a worker samples one process every second, *)
(* and an alert is printed when a value crosses its threshold.  An alert   *)
(* is armed again by a value of at most 90% of the threshold.              *)
(*                                                                         *)
(* Of a value only its place counts: "low" (at most 90% of the threshold), *)
(* "mid", or "high" (above the threshold).  The process may exit, and its  *)
(* PID may be given to another process, which the code does not notice,    *)
(* between any two steps; SIGINT and SIGTERM may arrive likewise.          *)
(***************************************************************************)
EXTENDS Integers, Sequences

CONSTANTS
  Channels,   \* the values with a threshold: some of "cpu" and "rss"
  MaxLog      \* bound on the number of samples

ASSUME ChannelsAssumption == Channels \subseteq {"cpu", "rss"} /\ Channels # {}
ASSUME MaxLogAssumption == MaxLog \in Nat \ {0}

Levels == {"low", "mid", "high"}

VARIABLES
  pc,          \* "loop" head, "check" the sample, "sleep", "done"
  running,     \* keep_running
  alive,       \* a process has the target's PID
  prev,        \* prev.valid
  curr,        \* what was read from the worker: whether it is a valid row,
               \* and the levels of its values
  triggered,   \* cpu_triggered and rss_triggered
  log          \* every row printed: the levels, and the alerts printed with it

vars == <<pc, running, alive, prev, curr, triggered, log>>

Row == [valid : BOOLEAN, level : [Channels -> Levels]]
Printed == [level : [Channels -> Levels], alerts : SUBSET Channels]

TypeOK ==
  /\ pc \in {"loop", "check", "sleep", "done"}
  /\ running \in BOOLEAN /\ alive \in BOOLEAN /\ prev \in BOOLEAN
  /\ curr \in Row
  /\ triggered \in [Channels -> BOOLEAN]
  /\ log \in Seq(Printed)

(* No row: curr.valid = 0, or a short read.                                *)
NoRow == [valid |-> FALSE, level |-> [c \in Channels |-> "low"]]

(* The target was found by its name, or named by a PID that may not exist. *)
Init ==
  /\ pc = "loop" /\ running = TRUE /\ alive \in BOOLEAN
  /\ prev = FALSE /\ curr = NoRow
  /\ triggered = [c \in Channels |-> FALSE]
  /\ log = <<>>

-----------------------------------------------------------------------------
(* get_process_data() and compute_cpu_percent() in the worker: without an  *)
(* older row cpu_percent is 0.                                             *)
Rows ==
  {r \in Row : /\ r.valid
               /\ "cpu" \in Channels /\ ~prev => r.level["cpu"] = "low"}

(* while (keep_running)                                                    *)
LoopGoesOn == running

(* pipe(), fork(), the worker's row and waitpid(); the parent is in read() *)
(* while the worker works.  There is no row when the process has gone,     *)
(* when fork() failed, or when proc_pidinfo() was refused.                 *)
Poll ==
  /\ pc = "loop" /\ LoopGoesOn
  /\ \/ curr' = NoRow
     \/ alive /\ Len(log) < MaxLog /\ curr' \in Rows
  /\ pc' = "check"
  /\ UNCHANGED <<running, alive, prev, triggered, log>>

(* pipe() fails: sleep and try again.                                      *)
PipeFails ==
  /\ pc = "loop" /\ LoopGoesOn
  /\ pc' = "sleep"
  /\ UNCHANGED <<running, alive, prev, curr, triggered, log>>

Leave ==
  /\ pc = "loop" /\ ~LoopGoesOn
  /\ pc' = "done"
  /\ UNCHANGED <<running, alive, prev, curr, triggered, log>>

(* No row: "Process %d has exited.", and the loop is left (and a mutant    *)
(* that tries again).                                                      *)
TriesAgain == "sleep"
GivesUp == "done"

ReportExit ==
  /\ pc = "check" /\ ~curr.valid
  /\ pc' = GivesUp
  /\ UNCHANGED <<running, alive, prev, curr, triggered, log>>

(* An alert fires above the threshold unless it has.                       *)
Fires(c) == curr.level[c] = "high" /\ ~triggered[c]

(* Armed again at 90% (and a mutant that does so below the threshold).     *)
RearmsEarly(c) == curr.level[c] # "high"
Rearms(c) == curr.level[c] = "low"

Check ==
  /\ pc = "check" /\ curr.valid
  /\ triggered' = [c \in Channels |-> Fires(c) \/ (triggered[c] /\ ~Rearms(c))]
  /\ log' = Append(log, [level |-> curr.level,
                         alerts |-> {c \in Channels : Fires(c)}])
  /\ prev' = TRUE
  /\ pc' = "sleep"
  /\ UNCHANGED <<running, alive, curr>>

(* select() or usleep() ends, by a signal or in time.                      *)
Sleep ==
  /\ pc = "sleep"
  /\ pc' = "loop"
  /\ UNCHANGED <<running, alive, prev, curr, triggered, log>>

Step == Poll \/ PipeFails \/ Leave \/ ReportExit \/ Check \/ Sleep

-----------------------------------------------------------------------------
TargetExits ==
  /\ alive /\ pc # "done"
  /\ alive' = FALSE
  /\ UNCHANGED <<pc, running, prev, curr, triggered, log>>

PidReused ==
  /\ ~alive /\ pc # "done"
  /\ alive' = TRUE
  /\ UNCHANGED <<pc, running, prev, curr, triggered, log>>

(* signal_handler(): SIGINT or SIGTERM.                                    *)
Interrupt ==
  /\ running /\ pc # "done"
  /\ running' = FALSE
  /\ UNCHANGED <<pc, alive, prev, curr, triggered, log>>

Next == Step \/ TargetExits \/ PidReused \/ Interrupt

(* The worker ends, and so does every sleep: the loop goes on.             *)
Spec == Init /\ [][Next]_vars /\ WF_vars(Step)

-----------------------------------------------------------------------------
(* One alert for one excursion: between two alerts for a value there is a  *)
(* sample of at most 90% of its threshold, and none is missed: a sample    *)
(* above the threshold without an alert follows an alert with no such      *)
(* sample in between.                                                      *)
OneAlertPerExcursion ==
  \A c \in Channels :
    LET Alerted(i) == c \in log[i].alerts
        LowBetween(i, j) == \E k \in i .. j : log[k].level[c] = "low"
    IN \A j \in DOMAIN log :
         Alerted(j) <=>
           /\ log[j].level[c] = "high"
           /\ \A i \in 1 .. j - 1 : Alerted(i) => LowBetween(i, j)

(* The exit of the process ends the mode, unless its PID is taken again or *)
(* pipe() never succeeds any more.                                         *)
ExitNoticed == SF_vars(Poll) => (~alive ~> (pc = "done" \/ alive))
=============================================================================

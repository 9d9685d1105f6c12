--------------------------------- MODULE Tui ---------------------------------
(***************************************************************************)
(* The loop of the live views of monitor.c, run_watch_mode() and           *)
(* run_top_mode(): refresh, sleep in slices of one second while keys are   *)
(* handled, AI overlay, pause, and the way out with the terminal restored. *)
(* Of the rows only their number matters here, and whether curr still      *)
(* holds the last refresh; module Table has the rest.                      *)
(* SIGINT and SIGTERM may arrive between any two steps.                    *)
(***************************************************************************)
EXTENDS Integers

CONSTANTS
  MaxCount,     \* the size of curr: MAX_WATCH_PIDS, or MAX_PROCESSES for top
  Modes,        \* "watch", "top"
  TopN,         \* top_n, a number from the command line
  Interval,     \* DEFAULT_REFRESH_INTERVAL (2)
  MaxInterval   \* the longest refresh interval (30)

ASSUME ModesAssumption == Modes \subseteq {"watch", "top"}
ASSUME BoundsAssumption ==
  /\ MaxCount \in Nat \ {0} /\ TopN \in Nat \ {0}
  /\ MaxInterval \in Nat /\ Interval \in 1 .. MaxInterval

VARIABLES
  mode,      \* which of the two functions runs
  pc,        \* "loop" head, "sleep", "after" it, "overlay", "paused",
             \* "done", or "crashed" by undefined behaviour
  running,   \* keep_running
  raw,       \* g_raw_mode: the terminal is in raw mode
  count,     \* watch_count, or display_count in top mode
  mixed,     \* rows that are not of the last refresh were sorted into curr
  paused, insights, idx, ai,   \* show_insights, insight_idx, needs_ai
  interval, elapsed

keyVars == <<paused, insights, idx, ai, interval>>
vars == <<mode, pc, running, raw, count, mixed, elapsed, keyVars>>

TypeOK ==
  /\ mode \in Modes
  /\ pc \in {"loop", "sleep", "after", "overlay", "paused", "done", "crashed"}
  /\ running \in BOOLEAN /\ raw \in BOOLEAN
  /\ count \in 0 .. MaxCount /\ mixed \in BOOLEAN
  /\ paused \in BOOLEAN /\ insights \in BOOLEAN /\ ai \in BOOLEAN
  /\ idx \in 0 .. MaxCount - 1
  /\ interval \in 1 .. MaxInterval
  /\ elapsed \in 0 .. MaxInterval

(* setup_raw_terminal() leaves the terminal alone when stdin is none (the  *)
(* daemon).  run_watch_mode() returns before the loop without a process.   *)
Init ==
  /\ mode \in Modes
  /\ pc = "loop" /\ running = TRUE /\ raw \in BOOLEAN
  /\ count \in (IF mode = "watch" THEN 1 .. MaxCount ELSE {0})
  /\ mixed = FALSE
  /\ paused = FALSE /\ insights = FALSE /\ idx = 0 /\ ai = FALSE
  /\ interval = Interval /\ elapsed = 0

-----------------------------------------------------------------------------
Lower(a, b) == IF a < b THEN a ELSE b

(* The head of the loop.  A watched process that has gone never comes      *)
(* back; top mode shows up to top_n of those there are.                    *)
Refresh ==
  /\ pc = "loop" /\ running /\ ~paused
  /\ count' \in 0 .. (IF mode = "watch" THEN count ELSE Lower(TopN, MaxCount))
  /\ mixed' = FALSE
  /\ pc' = "sleep" /\ elapsed' = 0
  /\ UNCHANGED <<mode, running, raw, keyVars>>

(* In top mode, get_all_pids() fails, and a negative size is copied, or     *)
(* there are more processes than collect_parallel() has places for.        *)
RefreshUndefined ==
  /\ pc = "loop" /\ running /\ ~paused /\ mode = "top"
  /\ pc' = "crashed"
  /\ UNCHANGED <<mode, running, raw, elapsed, keyVars, count, mixed>>

SkipRefresh ==
  /\ pc = "loop" /\ running /\ paused
  /\ pc' = "sleep" /\ elapsed' = 0
  /\ UNCHANGED <<mode, running, raw, count, mixed, keyVars>>

(* restore_terminal() and return (and a mutant that forgets to restore).   *)
TerminalKept == UNCHANGED raw
TerminalRestored == raw' = FALSE

Leave ==
  /\ pc = "loop" /\ ~running
  /\ TerminalRestored
  /\ pc' = "done"
  /\ UNCHANGED <<mode, running, count, mixed, elapsed, keyVars>>

-----------------------------------------------------------------------------
(* for (elapsed = 0; elapsed < current_interval && keep_running; elapsed++) *)
Sleeping == pc = "sleep" /\ elapsed < interval /\ running

(* while (paused && keep_running)                                          *)
Holds == paused /\ running

(* handle_keypress().  The argument count is watch_count or top_n (and     *)
(* a mutant that always passes top_n).                                     *)
KeyCountTopN == TopN
KeyCount == IF mode = "watch" THEN count ELSE TopN

KeyQuit == running' = FALSE /\ UNCHANGED <<mixed, keyVars>>

(* S sorts that many rows of curr, also when the refresh filled fewer.     *)
KeySort ==
  /\ KeyCount <= MaxCount
  /\ mixed' = (mixed \/ KeyCount > count)
  /\ UNCHANGED <<running, keyVars>>

KeyOther == UNCHANGED <<running, mixed, keyVars>>

(* The interval stays within 1 .. 30.                                      *)
Faster == IF interval - 1 < 1 THEN 1 ELSE interval - 1
Slower == IF interval + 1 > MaxInterval THEN MaxInterval ELSE interval + 1

KeyInterval ==
  /\ interval' \in {Faster, Slower}
  /\ UNCHANGED <<running, mixed, paused, insights, idx, ai>>

KeyPause ==
  /\ paused' = ~paused
  /\ UNCHANGED <<running, mixed, insights, idx, ai, interval>>

KeyInsights ==
  /\ \/ ~insights /\ insights' = TRUE /\ idx' = 0
     \/ /\ insights /\ KeyCount > 0
        /\ idx' = (idx + 1) % KeyCount
        /\ UNCHANGED insights
  /\ UNCHANGED <<running, mixed, paused, ai, interval>>

KeyAI ==
  ai' = TRUE /\ UNCHANGED <<running, mixed, paused, insights, idx, interval>>

KeyEscape ==
  insights' = FALSE /\ UNCHANGED <<running, mixed, paused, idx, ai, interval>>

Keypress ==
  \/ KeyQuit \/ KeySort \/ KeyOther \/ KeyInterval \/ KeyPause \/ KeyInsights \/ KeyAI
  \/ KeyEscape

(* I: insight_idx % count with no process left.  S: more rows than curr has. *)
KeyUndefined ==
  /\ Sleeping \/ (pc = "paused" /\ Holds)
  /\ (insights /\ KeyCount = 0) \/ KeyCount > MaxCount
  /\ pc' = "crashed"
  /\ UNCHANGED <<mode, running, raw, elapsed, keyVars, count, mixed>>

-----------------------------------------------------------------------------
(* select() times out or is interrupted.                                   *)
SliceCounted == elapsed' = elapsed + 1

SleepSlice ==
  /\ Sleeping
  /\ SliceCounted
  /\ UNCHANGED <<mode, pc, running, raw, keyVars, count, mixed>>

(* A key ends the slice, which counts as a whole one (and a mutant where   *)
(* it does not count); needs_ai ends the sleep.                            *)
KeyNotCounted == UNCHANGED elapsed
KeyCounted == elapsed' = elapsed + 1

SleepKey ==
  /\ Sleeping
  /\ Keypress
  /\ KeyCounted
  /\ pc' = IF ai' THEN "after" ELSE "sleep"
  /\ UNCHANGED <<mode, raw, count>>

SleepEnd ==
  /\ pc = "sleep" /\ ~Sleeping
  /\ pc' = "after"
  /\ UNCHANGED <<mode, running, raw, elapsed, keyVars, count, mixed>>

(* needs_ai && watch_count > 0, display_count in top mode (and a mutant     *)
(* that wants a second row).                                               *)
WantsOverlayOffByOne == ai /\ count > 1
WantsOverlay == ai /\ count > 0

(* The overlay ends the iteration; without it the paused loop follows.     *)
AfterSleep ==
  /\ pc = "after"
  /\ pc' = IF WantsOverlay THEN "overlay" ELSE "paused"
  /\ UNCHANGED <<mode, running, raw, elapsed, keyVars, count, mixed>>

(* The AI answer, or its error, is dismissed with any key or by a signal.  *)
OverlayEnd ==
  /\ pc = "overlay"
  /\ ai' = FALSE /\ pc' = "loop"
  /\ UNCHANGED <<mode, running, raw, elapsed, paused, insights, idx, interval, count, mixed>>

PausedKey ==
  /\ pc = "paused" /\ Holds
  /\ Keypress
  /\ UNCHANGED <<mode, pc, raw, elapsed, count>>

PausedEnd ==
  /\ pc = "paused" /\ ~Holds
  /\ pc' = "loop"
  /\ UNCHANGED <<mode, running, raw, elapsed, keyVars, count, mixed>>

(* SIGINT or SIGTERM.                                                      *)
Interrupt ==
  /\ pc \notin {"done", "crashed"} /\ running
  /\ running' = FALSE
  /\ UNCHANGED <<mode, pc, raw, elapsed, keyVars, count, mixed>>

(* What the program does without a key or a signal.                        *)
LoopStep ==
  \/ Refresh \/ SkipRefresh \/ Leave \/ SleepSlice \/ SleepEnd
  \/ AfterSleep \/ PausedEnd
  \/ ~running /\ OverlayEnd

Next ==
  \/ LoopStep
  \/ SleepKey \/ PausedKey \/ KeyUndefined \/ OverlayEnd \/ RefreshUndefined
  \/ Interrupt

(* select() always returns within a second, without a key or with one: a   *)
(* key held down may take every slice of a sleep.  No key is ever promised. *)
Spec == Init /\ [][Next]_vars /\ WF_vars(LoopStep \/ SleepKey)

-----------------------------------------------------------------------------
(* The AI overlay is about the processes of the last refresh, whatever was *)
(* sorted in between, unless top mode found fewer than top_n.              *)
OverlayRowsFresh ==
  pc = "overlay" /\ (mode = "watch" \/ count >= TopN) => ~mixed

(* Quit or a signal ends the mode with the terminal restored, from the     *)
(* sleep, the overlay and the pause alike.                                 *)
StopRestores == ~running ~> (pc = "done" /\ ~raw)

(* A request for the AI overlay is never forgotten: while there are rows   *)
(* it is shown, unless the user pauses, quits or the program is stopped.   *)
AiServed ==
  (ai /\ count > 0) ~> (pc = "overlay" \/ paused \/ ~running \/ count = 0 \/ pc = "crashed")

(* The view goes on: every sleep ends in the next turn of the loop, in the *)
(* overlay or in the pause that were asked for.  No key held down, not     *)
(* even the one that makes the interval longer, keeps it from refreshing.  *)
ViewGoesOn ==
  pc = "sleep" ~> (pc \in {"loop", "overlay", "crashed"} \/ (pc = "paused" /\ paused))
=============================================================================

------------------------------- MODULE Targets -------------------------------
(***************************************************************************)
(* From the words of a command line to the processes that are followed:    *)
(* parse_pid_or_name() and parse_command() of cli.c, find_pids_by_name()   *)
(* of proc.c, and the beginnings of run_watch_mode(), run_stream_mode()    *)
(* and run_alert_mode().  The module has no steps: command line and        *)
(* processes are chosen in the initial state.                              *)
(*                                                                         *)
(* A word is a PID, 0 for the words that parse to no PID and no name ("0"  *)
(* and ""), or a name, that is, a string with a character that is not a    *)
(* digit; of a name only the set of the processes whose names contain it   *)
(* matters, and whether the search for it gets the list of the processes   *)
(* at all: two occurrences of one name that fare differently are two       *)
(* members of Named.  Of a threshold only its sign matters.                *)
(***************************************************************************)
EXTENDS Integers, Sequences, FiniteSets

CONSTANTS
  Pids,         \* process IDs
  Named,        \* names, as model values
  MaxTokens,    \* bound on the words after the command
  MaxOptions,   \* bound on the words after an alert's target
  MaxTargets,   \* MAX_WATCH_PIDS (32)
  MaxProcesses, \* MAX_PROCESSES (512)
  StreamTop     \* the 10 of run_stream_mode()

ASSUME PidsAssumption == IsFiniteSet(Pids) /\ Pids \subseteq Nat \ {0}
ASSUME NamedAssumption == Named \intersect (Pids \union {0}) = {}
ASSUME TargetBoundsAssumption ==
  /\ MaxTokens \in Nat /\ MaxOptions \in Nat /\ StreamTop \in Nat
  /\ MaxTargets \in Nat \ {0} /\ MaxProcesses \in Nat \ {0}

Words == Pids \union {0} \union Named
Options == {"cpu", "mem", "zero", "positive"}

VARIABLES
  verb,      \* "watch", "stream" or "alert"
  tokens,    \* the words after it, without an alert's options
  options,   \* an alert's options
  matches,   \* the processes whose names contain a name
  unlisted   \* the names in whose search get_all_pids() fails

targetVars == <<verb, tokens, options, matches, unlisted>>

Sentences(S, max) == UNION {[1 .. n -> S] : n \in 0 .. max}

TargetsInit ==
  /\ \/ /\ verb \in {"watch", "stream"} /\ options = <<>>
        /\ tokens \in Sentences(Words, MaxTokens)
     \/ /\ verb = "alert" /\ tokens \in Sentences(Words, 1)
        /\ options \in Sentences(Options, MaxOptions)
  /\ matches \in [Named -> SUBSET Pids] /\ unlisted \in SUBSET Named

Cut(s, n) == SubSeq(s, 1, IF Len(s) < n THEN Len(s) ELSE n)

-----------------------------------------------------------------------------
(* parse_pid_or_name(): words beyond the limit are ignored.                *)
Parsed == Cut(tokens, MaxTargets)

(* The kernel's list of the processes, in its order.                       *)
ProcessList ==
  CHOOSE s \in [1 .. Cardinality(Pids) -> Pids] : \A i, j \in DOMAIN s : s[i] = s[j] => i = j

(* get_all_pids() where it succeeds: all callers have MAX_PROCESSES places.*)
AllPids == Cut(ProcessList, MaxProcesses)

(* find_pids_by_name(), in the order of that list; nothing is found where  *)
(* get_all_pids() returns -1.                                              *)
FindPidsByName(name, max) ==
  LET found[i \in 0 .. Len(AllPids)] ==
        IF i = 0 THEN <<>>
        ELSE IF AllPids[i] \in matches[name] /\ Len(found[i - 1]) < max
        THEN Append(found[i - 1], AllPids[i])
        ELSE found[i - 1]
  IN IF name \in unlisted THEN <<>> ELSE found[Len(AllPids)]

(* The loops of run_watch_mode() and run_stream_mode() (and a mutant whose *)
(* names displace what is already there).                                  *)
FollowDisplaces(list, word) ==
  IF word \in Pids THEN Cut(Append(list, word), MaxTargets)
  ELSE IF word \in Named THEN FindPidsByName(word, MaxTargets)
  ELSE list
Follow(list, word) ==
  IF word \in Pids THEN Cut(Append(list, word), MaxTargets)
  ELSE IF word \in Named
  THEN Cut(list \o FindPidsByName(word, MaxTargets), MaxTargets)
  ELSE list
Resolution[k \in 0 .. Len(Parsed)] ==
  IF k = 0 THEN <<>> ELSE Follow(Resolution[k - 1], Parsed[k])
Resolved == Resolution[Len(Parsed)]

(* An option at the end has no value and is ignored; the value may be any  *)
(* word, and one that is not a number is 0.                                *)
ReadOption(s, word) ==
  IF s.want # "" THEN [s EXCEPT ![s.want] = (word = "positive"), !.want = ""]
  ELSE IF word \in {"cpu", "mem"} THEN [s EXCEPT !.want = word] ELSE s
OptionsRead[k \in 0 .. Len(options)] ==
  IF k = 0 THEN [cpu |-> FALSE, mem |-> FALSE, want |-> ""]
  ELSE ReadOption(OptionsRead[k - 1], options[k])
Thresholds == OptionsRead[Len(options)]

-----------------------------------------------------------------------------
(* The processes each mode follows; <<>> stands for an error message.      *)
WatchList == Resolved
StreamList == IF Resolved = <<>> THEN Cut(AllPids, StreamTop) ELSE Resolved
AlertList ==
  IF tokens = <<>> \/ ~(Thresholds.cpu \/ Thresholds.mem) THEN <<>>
  ELSE IF tokens[1] \in Named THEN FindPidsByName(tokens[1], 1)
  ELSE IF tokens[1] \in Pids THEN <<tokens[1]>> ELSE <<>>

Followed ==
  CASE verb = "watch" -> WatchList
    [] verb = "stream" -> StreamList
    [] verb = "alert" -> AlertList

-----------------------------------------------------------------------------
(* What a word asks for: its PID, or those of the processes it matches     *)
(* that are among the first MAX_PROCESSES, if they can be listed.          *)
Searched == {ProcessList[i] : i \in {j \in DOMAIN ProcessList : j <= MaxProcesses}}
Asked(w) ==
  IF w \in Named THEN {p \in matches[w] : p \in Searched /\ w \notin unlisted}
  ELSE {w} \intersect Pids

(* The words that are heard are the first MAX_WATCH_PIDS.                  *)
Heard == {i \in DOMAIN tokens : i <= MaxTargets}
AllAsked == UNION {Asked(tokens[i]) : i \in Heard}
Total == Cardinality({a \in Heard \X Pids : a[2] \in Asked(tokens[a[1]])})
Listed(list) == {list[i] : i \in DOMAIN list}

(* The processes followed are those the command line asks for, by PID or   *)
(* by name: none besides, and all of them as long as they are within       *)
(* MAX_WATCH_PIDS; beyond it as many as there is room for.  A stream whose *)
(* words ask for no process follows the first of all processes instead; an *)
(* alert follows one process.                                              *)
TargetsExact ==
  /\ verb = "watch" \/ (verb = "stream" /\ Total > 0) =>
       /\ Listed(Followed) \subseteq AllAsked
       /\ Total <= MaxTargets => Listed(Followed) = AllAsked /\ Len(Followed) = Total
       /\ Total >= MaxTargets => Len(Followed) = MaxTargets
  /\ verb = "alert" => Listed(Followed) \subseteq AllAsked /\ Len(Followed) <= 1
==============================================================================

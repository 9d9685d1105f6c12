-------------------------------- MODULE Logger --------------------------------
(***************************************************************************)
(* The log file of logger.c and its rotation: when the file has reached    *)
(* its limit, the older files move up by one number, and a new one is      *)
(* opened.  The process may be killed between any two system calls, and a  *)
(* later one goes on with the files it finds.                              *)
(*                                                                         *)
(* Lines are numbered.  logFiles[0] is the log file, logFiles[i] the file  *)
(* with the suffix .i; an empty sequence is also a file that is not there, *)
(* which rename() does not move.  Sizes count lines.                       *)
(*                                                                         *)
(* log_write() takes the FILE pointer before it rotates, and the rotation  *)
(* closes that FILE.  Writing to it is undefined: as a rule fopen() has    *)
(* reused it and the line is in the new file, else it is lost.             *)
(***************************************************************************)
EXTENDS Integers, Sequences

CONSTANTS
  FileLimit,       \* max_file_size (10 MB), in lines
  RotationCount,   \* rotation_count (5)
  LogLevels,       \* levels, by number
  MaxLines         \* bound on the number of lines

ASSUME FileLimitAssumption == FileLimit \in Nat \ {0}
ASSUME RotationAssumption == RotationCount \in Nat \ {0} /\ MaxLines \in Nat
ASSUME LevelsAssumption == LogLevels \subseteq Nat

VARIABLES
  logFiles,    \* the files
  file,        \* g_logger.file: "null", or "open" on logFiles[0]
  minLevel,    \* g_logger.min_level
  rotating,    \* RotationCount - 1 .. 0: the i of the renaming loop of a
               \* rotation, -1: the file is to be opened, -2: no rotation
  lines,       \* the number of lines log_write() has taken
  astray       \* the lines that went to stderr or to a closed FILE

logVars == <<logFiles, file, minLevel, rotating, lines, astray>>

Suffix == 0 .. RotationCount

LogTypeOK ==
  /\ logFiles \in [Suffix -> Seq(1 .. MaxLines)]
  /\ file \in {"null", "open"} /\ minLevel \in LogLevels
  /\ rotating \in -2 .. RotationCount - 1
  /\ lines \in 0 .. MaxLines /\ astray \subseteq 1 .. MaxLines

LogInit ==
  /\ logFiles = [i \in Suffix |-> <<>>]
  /\ file = "null" /\ minLevel \in LogLevels
  /\ rotating = -2 /\ lines = 0 /\ astray = {}

Idle == rotating = -2

-----------------------------------------------------------------------------
(* logger_init(): fopen() appends, or fails and leaves no file.            *)
LoggerInit ==
  /\ Idle
  /\ minLevel' \in LogLevels /\ file' \in {"open", "null"}
  /\ UNCHANGED <<logFiles, rotating, lines, astray>>

LoggerClose ==
  /\ Idle /\ file = "open" /\ file' = "null"
  /\ UNCHANGED <<logFiles, minLevel, rotating, lines, astray>>

LoggerSetLevel(l) ==
  /\ Idle /\ minLevel' = l
  /\ UNCHANGED <<logFiles, file, rotating, lines, astray>>

(* log_debug() to log_fatal() and log_write(): without a file to stderr,   *)
(* with a file that has not reached its limit at its end.                  *)
Takes(l) == Idle /\ l >= minLevel /\ lines < MaxLines
AtLimit == Len(logFiles[0]) >= FileLimit

WriteToStderr(l) ==
  /\ Takes(l) /\ file = "null"
  /\ lines' = lines + 1 /\ astray' = astray \union {lines'}
  /\ UNCHANGED <<logFiles, file, minLevel, rotating>>

WriteToFile(l) ==
  /\ Takes(l) /\ file = "open" /\ ~AtLimit
  /\ lines' = lines + 1
  /\ logFiles' = [logFiles EXCEPT ![0] = Append(@, lines')]
  /\ UNCHANGED <<file, minLevel, rotating, astray>>

BeginRotation(l) ==
  /\ Takes(l) /\ file = "open" /\ AtLimit
  /\ rotating' = RotationCount - 1
  /\ lines' = lines + 1
  /\ UNCHANGED <<logFiles, file, minLevel, astray>>

(* logger_check_rotation() renames from the oldest file on (and a mutant   *)
(* that begins with the log file).                                         *)
RenamedAscending == RotationCount - 1 - rotating
Renamed == rotating

Rename ==
  /\ rotating >= 0 /\ rotating' = rotating - 1
  /\ logFiles' = IF logFiles[Renamed] = <<>> THEN logFiles
                 ELSE [logFiles EXCEPT ![Renamed + 1] = logFiles[Renamed],
                                       ![Renamed] = <<>>]
  /\ UNCHANGED <<file, minLevel, lines, astray>>

(* fopen(), which may fail, and the line that began the rotation.          *)
EndRotation ==
  /\ rotating = -1 /\ rotating' = -2
  /\ \/ file' = "open" /\ logFiles' = [logFiles EXCEPT ![0] = Append(@, lines)]
        /\ UNCHANGED astray
     \/ file' \in {"open", "null"} /\ astray' = astray \union {lines}
        /\ UNCHANGED logFiles
  /\ UNCHANGED <<minLevel, lines>>

(* Killed; a line that was being written is gone.                          *)
LoggerKilled ==
  /\ file = "open" /\ file' = "null" /\ rotating' = -2
  /\ astray' = IF Idle THEN astray ELSE astray \union {lines}
  /\ UNCHANGED <<logFiles, minLevel, lines>>

LogNext ==
  \/ LoggerInit \/ LoggerClose \/ Rename \/ EndRotation \/ LoggerKilled
  \/ \E l \in LogLevels :
       LoggerSetLevel(l) \/ WriteToStderr(l) \/ WriteToFile(l) \/ BeginRotation(l)

LogSpec == LogInit /\ [][LogNext]_logVars

-----------------------------------------------------------------------------
(* The lines in a file, and in all of them.                                *)
LinesIn(i) == {logFiles[i][k] : k \in DOMAIN logFiles[i]}
Kept == UNION {LinesIn(i) : i \in Suffix}

(* Whenever the process is killed and wherever a rotation stops, the files *)
(* hold the lines in the order they were written, each once, and without a *)
(* gap: every line of an older file is older than every line of a newer    *)
(* one, and only lines older than all that are left have been dropped,     *)
(* except for the lines that never reached a file.                         *)
LogInOrder ==
  /\ \A i \in Suffix : \A k, m \in DOMAIN logFiles[i] :
       k < m => logFiles[i][k] < logFiles[i][m]
  /\ \A i, j \in Suffix : \A old \in LinesIn(i), new \in LinesIn(j) :
       j < i => old < new
  /\ \A n \in 1 .. lines :
       n \in Kept \/ n \in astray \/ (n = lines /\ ~Idle) \/ \A k \in Kept : n < k
===============================================================================

------------------------------- MODULE Daemon --------------------------------
(***************************************************************************)
(* The daemon's life cycle: `procscope daemon start`, `stop` and `status`  *)
(* (main.c, daemon.c), the daemon process they act on and the PID file     *)
(* they find it by.                                                        *)
(*                                                                         *)
(* A client is one invocation of the command.  It reads the PID file, then *)
(* probes or signals the process with that number, then removes the file:  *)
(* between any two of these calls a daemon may start, exit or be killed,   *)
(* and another process may get its number.  The daemon creates the file    *)
(* with fopen("w"), which truncates, and fills it when it closes it; it    *)
(* never removes the file when it exits.  Both calls may fail, and the     *)
(* daemon goes on without a PID file: daemonize() ignores the result of    *)
(* create_pid_file().                                                      *)
(*                                                                         *)
(* PID_FILE is in /tmp: only the owner of the file can unlink it.  The     *)
(* intermediate process of the double fork is not modelled: the command's  *)
(* process is gone as soon as it has forked, before the daemon has written *)
(* its PID file.                                                           *)
(***************************************************************************)
EXTENDS Integers, FiniteSets

CONSTANTS
  Pids,      \* the process numbers
  Clients,   \* concurrent invocations of the command
  Users,     \* a user can signal its own processes
  Operators, \* the users who run the command
  Timeout    \* polls of daemon_stop() before SIGKILL (10 in the code)

ASSUME PidsAssumption == Pids \subseteq Nat \ {0}
ASSUME TimeoutAssumption == Timeout \in Nat
ASSUME UsersAssumption == Operators \subseteq Users

Absent == 0
Empty == -1

VARIABLES
  file,      \* the content of the PID file: Absent, Empty or a PID
  fowner,    \* the user who owns the PID file
  proc,      \* what each PID is: "free", "other", or a daemon's state
  powner,    \* the user each process belongs to
  term,      \* the daemons that got SIGTERM: their keep_running is 0
  linked,    \* the daemons that have the current PID file open
  cpc,       \* where each client is
  user,      \* the user who runs it
  target,    \* its local variable pid
  tries,     \* its local variable timeout
  said,      \* what it has reported
  untracked, \* the living daemons whose create_pid_file() failed
  disturbed  \* a command was begun while another one ran or a daemon booted,
             \* or it could not open the PID file although it was there

procVars == <<proc, powner, term>>
fileVars == <<file, fowner, linked>>
clientVars == <<cpc, user, target, tries, said>>
vars == <<procVars, fileVars, clientVars, untracked, disturbed>>

(* "boot": forked, no PID file yet; "open": PID file truncated, not yet    *)
(* written; "run": in run_top_mode().                                      *)
DaemonState == {"boot", "open", "run"}

TypeOK ==
  /\ file \in Pids \union {Absent, Empty}
  /\ fowner \in Users
  /\ proc \in [Pids -> DaemonState \union {"free", "other"}]
  /\ powner \in [Pids -> Users]
  /\ term \subseteq Pids
  /\ linked \subseteq Pids
  /\ cpc \in [Clients -> {"idle", "probe", "start_rm", "fork", "term", "poll",
                          "stop_rm", "status", "status_rm"}]
  /\ user \in [Clients -> Users]
  /\ target \in [Clients -> Pids \union {0}]
  /\ tries \in [Clients -> 0 .. Timeout]
  /\ said \in [Clients -> {"nothing", "running", "not_running", "started",
                           "stopped", "failed"}]
  /\ untracked \subseteq Pids
  /\ disturbed \in BOOLEAN

Init ==
  /\ file = Absent /\ fowner \in Users /\ linked = {}
  /\ proc \in [Pids -> {"free", "other"}]
  /\ powner \in [Pids -> Users]
  /\ term = {}
  /\ cpc = [c \in Clients |-> "idle"]
  /\ user \in [Clients -> Users]
  /\ target = [c \in Clients |-> 0]
  /\ tries = [c \in Clients |-> 0]
  /\ said = [c \in Clients |-> "nothing"]
  /\ untracked = {} /\ disturbed = FALSE

-----------------------------------------------------------------------------
(* read_pid_file(): a missing and an empty file both give 0; so does one   *)
(* that cannot be opened, see Begin.                                       *)
ReadPid == IF file \in Pids THEN file ELSE 0

(* The result of kill(pid, sig) for the client's user.                     *)
Kill(c) ==
  IF proc[target[c]] = "free" THEN "ESRCH"
  ELSE IF powner[target[c]] # user[c] THEN "EPERM"
  ELSE "OK"

(* remove_pid_file(); an error is only reported.                           *)
RemovePidFile(c) ==
  IF file # Absent /\ fowner = user[c]
  THEN file' = Absent /\ linked' = {} /\ UNCHANGED fowner
  ELSE UNCHANGED fileVars

Goto(c, l) == cpc' = [cpc EXCEPT ![c] = l]

(* The client reports r and exits.                                         *)
Finish(c, r) ==
  /\ Goto(c, "idle")
  /\ said' = [said EXCEPT ![c] = r]
  /\ UNCHANGED <<user, target, tries>>

(* A careful operator: no other command is running, no daemon is booting.  *)
Quiet ==
  /\ \A c \in Clients : cpc[c] = "idle"
  /\ \A p \in Pids : proc[p] \notin {"boot", "open"}

(* A user runs a command, which begins by reading the PID file (0 when     *)
(* fopen() fails); without a PID it goes to label zero, with one to label  *)
(* some.                                                                   *)
Begin(c, u, zero, some) ==
  \E pid \in {ReadPid, 0} :
    /\ cpc[c] = "idle"
    /\ disturbed' = (disturbed \/ ~Quiet \/ pid # ReadPid)
    /\ user' = [user EXCEPT ![c] = u]
    /\ target' = [target EXCEPT ![c] = pid]
    /\ tries' = [tries EXCEPT ![c] = Timeout]
    /\ said' = [said EXCEPT ![c] =
                  IF pid = 0 /\ zero = "idle" THEN "not_running" ELSE "nothing"]
    /\ Goto(c, IF pid = 0 THEN zero ELSE some)
    /\ UNCHANGED <<procVars, fileVars, untracked>>

-----------------------------------------------------------------------------
(* `daemon start`: is_daemon_running(), then daemonize().                  *)
Start(c, u) == Begin(c, u, "fork", "probe")

(* kill(pid, 0) succeeds, or fails other than with ESRCH (and a mutant     *)
(* with the test the wrong way round).                                     *)
AliveInverted(c) == Kill(c) # "OK"
Alive(c) == Kill(c) # "ESRCH"

StartProbe(c) ==
  /\ cpc[c] = "probe"
  /\ \/ Alive(c) /\ Finish(c, "running")
     \/ ~Alive(c) /\ Goto(c, "start_rm") /\ UNCHANGED <<user, target, tries, said>>
  /\ UNCHANGED <<procVars, fileVars, untracked, disturbed>>

StartRemove(c) ==
  /\ cpc[c] = "start_rm"
  /\ RemovePidFile(c)
  /\ Goto(c, "fork")
  /\ UNCHANGED <<procVars, user, target, tries, said, untracked, disturbed>>

(* daemonize() up to the daemon's own first step; the client is gone.      *)
StartFork(c, p) ==
  /\ cpc[c] = "fork" /\ proc[p] = "free"
  /\ proc' = [proc EXCEPT ![p] = "boot"]
  /\ powner' = [powner EXCEPT ![p] = user[c]]
  /\ Finish(c, "started")
  /\ UNCHANGED <<term, fileVars, untracked, disturbed>>

(* Either fork() or setsid() fails.                                        *)
StartFails(c) ==
  /\ cpc[c] = "fork"
  /\ Finish(c, "failed")
  /\ UNCHANGED <<procVars, fileVars, untracked, disturbed>>

-----------------------------------------------------------------------------
(* `daemon stop`: daemon_stop().                                           *)
Stop(c, u) == Begin(c, u, "idle", "term")

StopTerm(c) ==
  /\ cpc[c] = "term"
  /\ \/ /\ Kill(c) = "OK" /\ Goto(c, "poll")
        /\ term' = IF proc[target[c]] \in DaemonState THEN term \union {target[c]} ELSE term
        /\ UNCHANGED <<user, target, tries, said>>
     \/ /\ Kill(c) = "ESRCH" /\ Goto(c, "stop_rm")
        /\ UNCHANGED <<term, user, target, tries, said>>
     \/ /\ Kill(c) = "EPERM" /\ Finish(c, "failed")
        /\ UNCHANGED term
  /\ UNCHANGED <<proc, powner, fileVars, untracked, disturbed>>

(* timeout > 0, and timeout-- (and a mutant that forgets it).              *)
MorePolls(c) == tries[c] > 0
PollKeepsTries(c) == tries' = tries
PollDecrements(c) == tries' = [tries EXCEPT ![c] = @ - 1]

StopPoll(c) ==
  /\ cpc[c] = "poll" /\ MorePolls(c)
  /\ \/ Kill(c) = "ESRCH" /\ Goto(c, "stop_rm") /\ UNCHANGED tries
     \/ Kill(c) # "ESRCH" /\ PollDecrements(c) /\ UNCHANGED cpc
  /\ UNCHANGED <<procVars, fileVars, user, target, said, untracked, disturbed>>

(* kill(pid, SIGKILL), whatever that process is by now and whatever the    *)
(* call returns (and a mutant that only sends SIGTERM again).              *)
SigkillForgotten(c) == UNCHANGED <<proc, term, untracked>>
Sigkill(c) ==
  IF Kill(c) = "OK"
  THEN /\ proc' = [proc EXCEPT ![target[c]] = "free"]
       /\ term' = term \ {target[c]}
       /\ untracked' = untracked \ {target[c]}
  ELSE UNCHANGED <<proc, term, untracked>>

StopForce(c) ==
  /\ cpc[c] = "poll" /\ ~MorePolls(c)
  /\ Sigkill(c)
  /\ Goto(c, "stop_rm")
  /\ UNCHANGED <<powner, fileVars, user, target, tries, said, disturbed>>

StopRemove(c) ==
  /\ cpc[c] = "stop_rm"
  /\ RemovePidFile(c)
  /\ Finish(c, "stopped")
  /\ UNCHANGED <<procVars, untracked, disturbed>>

-----------------------------------------------------------------------------
(* `daemon status`: daemon_status().                                       *)
Status(c, u) == Begin(c, u, "idle", "status")

(* Any failure of kill(pid, 0) counts as a stale file (and a mutant that   *)
(* takes every file for stale).                                            *)
StaleAlways(c) == TRUE
Stale(c) == Kill(c) # "OK"

StatusProbe(c) ==
  /\ cpc[c] = "status"
  /\ \/ ~Stale(c) /\ Finish(c, "running")
     \/ /\ Stale(c) /\ Goto(c, "status_rm")
        /\ said' = [said EXCEPT ![c] = "not_running"]
        /\ UNCHANGED <<user, target, tries>>
  /\ UNCHANGED <<procVars, fileVars, untracked, disturbed>>

StatusRemove(c) ==
  /\ cpc[c] = "status_rm"
  /\ RemovePidFile(c)
  /\ Finish(c, said[c])
  /\ UNCHANGED <<procVars, untracked, disturbed>>

-----------------------------------------------------------------------------
(* The daemon: create_pid_file(getpid()), then run_top_mode() until        *)
(* keep_running is 0.                                                      *)
BootStep(p, from, to) == proc[p] = from /\ proc' = [proc EXCEPT ![p] = to]

(* fopen(PID_FILE, "w").  The daemon's umask is 0, so the file is writable *)
(* by every user; truncating it does not change its owner.                 *)
DaemonOpen(p) ==
  /\ BootStep(p, "boot", "open")
  /\ file' = Empty
  /\ fowner' = IF file = Absent THEN powner[p] ELSE fowner
  /\ linked' = linked \union {p}
  /\ UNCHANGED <<powner, term, clientVars, untracked, disturbed>>

(* fopen() fails; the -1 of create_pid_file() is ignored.                  *)
DaemonOpenFails(p) ==
  /\ BootStep(p, "boot", "run")
  /\ untracked' = untracked \union {p}
  /\ UNCHANGED <<powner, term, fileVars, clientVars, disturbed>>

(* fclose() writes the PID into the file that was opened, which may have   *)
(* been unlinked since.                                                    *)
Content(p) == IF p \in linked THEN p ELSE file

DaemonWrite(p) ==
  /\ BootStep(p, "open", "run")
  /\ file' = Content(p)
  /\ linked' = linked \ {p}
  /\ UNCHANGED <<fowner, powner, term, clientVars, untracked, disturbed>>

(* The write fails (a full disk), and the file stays as fopen() made it;   *)
(* the results of fprintf() and fclose() are ignored.                      *)
DaemonWriteFails(p) ==
  /\ BootStep(p, "open", "run")
  /\ linked' = linked \ {p}
  /\ untracked' = untracked \union {p}
  /\ UNCHANGED <<file, fowner, powner, term, clientVars, disturbed>>

(* while (keep_running)                                                    *)
StopsLoop(p) == p \in term

(* The process ends and the PID file stays (and a mutant whose daemon      *)
(* removes the file when it exits, whoever it belongs to).                 *)
FileRemoved(p) == file' = Absent /\ linked' = {}
FileStays(p) == linked' = linked \ {p} /\ UNCHANGED file

Dies(p) ==
  /\ proc' = [proc EXCEPT ![p] = "free"]
  /\ term' = term \ {p}
  /\ FileStays(p)
  /\ untracked' = untracked \ {p}
  /\ UNCHANGED <<fowner, powner, clientVars, disturbed>>

DaemonExit(p) == proc[p] = "run" /\ StopsLoop(p) /\ Dies(p)

DaemonStep(p) ==
  \/ DaemonOpen(p) \/ DaemonOpenFails(p)
  \/ DaemonWrite(p) \/ DaemonWriteFails(p)
  \/ DaemonExit(p)

(* The daemon is killed from outside or crashes, at any point.             *)
Crash(p) == proc[p] \in DaemonState /\ Dies(p)

(* Other processes come and go and take free PIDs.                         *)
OtherStarts(p, u) ==
  /\ proc[p] = "free"
  /\ proc' = [proc EXCEPT ![p] = "other"]
  /\ powner' = [powner EXCEPT ![p] = u]
  /\ UNCHANGED <<term, fileVars, clientVars, untracked, disturbed>>

OtherExits(p) ==
  /\ proc[p] = "other"
  /\ proc' = [proc EXCEPT ![p] = "free"]
  /\ UNCHANGED <<powner, term, fileVars, clientVars, untracked, disturbed>>

-----------------------------------------------------------------------------
ClientStep(c) ==
  \/ StartProbe(c) \/ StartRemove(c) \/ StartFails(c)
  \/ \E p \in Pids : StartFork(c, p)
  \/ StopTerm(c) \/ StopPoll(c) \/ StopForce(c) \/ StopRemove(c)
  \/ StatusProbe(c) \/ StatusRemove(c)

Next ==
  \/ \E c \in Clients :
       \/ \E u \in Operators : Start(c, u) \/ Stop(c, u) \/ Status(c, u)
       \/ ClientStep(c)
  \/ \E p \in Pids :
       \/ DaemonStep(p) \/ Crash(p) \/ OtherExits(p)
       \/ \E u \in Users : OtherStarts(p, u)

(* The scheduler runs every client and every daemon; usleep() ends.        *)
Fairness ==
  /\ \A c \in Clients : WF_vars(ClientStep(c))
  /\ \A p \in Pids : WF_vars(DaemonStep(p))

Spec == Init /\ [][Next]_vars /\ Fairness

-----------------------------------------------------------------------------
Daemons == {p \in Pids : proc[p] \in DaemonState}

(* At most one daemon exists, besides those that run although their        *)
(* create_pid_file() failed: is_daemon_running() keeps `daemon start` from *)
(* starting a second one.                                                  *)
SingleDaemon == \A p, q \in Daemons \ untracked : p = q

(* It is so while commands are issued one after the other and not while a  *)
(* daemon boots, and can open the PID file, whatever crashes, whichever    *)
(* PIDs are reused and whatever daemons run untracked.                     *)
AtMostOneDaemon == ~disturbed => SingleDaemon

(* Then, between commands, a daemon that runs can be found by its PID file *)
(* if it could create it: neither a command nor another daemon that cannot *)
(* be found removes or overwrites the file of a living daemon.             *)
RunningIsFindable ==
  \A p \in Pids :
    ~disturbed /\ proc[p] = "run" /\ p \notin untracked /\ (\A c \in Clients : cpc[c] = "idle")
      => file = p

(* Then only untracked daemons are left when `daemon stop` reports that    *)
(* the daemon is stopped, also when it ignored SIGTERM through all of the  *)
(* polls.                                                                  *)
StopMeansStopped ==
  [][\A c \in Clients :
       ~disturbed /\ said'[c] = "stopped" /\ said[c] # "stopped" => Daemons' \subseteq untracked']_vars

SaysNotRunning(c) ==
  /\ said'[c] = "not_running"
  /\ said[c] # "not_running" \/ \E u \in Operators : Stop(c, u) \/ Status(c, u)

(* Then `daemon status` and `daemon stop` report "not running" only when   *)
(* no daemon is running that could create its PID file.                    *)
NotRunningIsTrue ==
  [][\A c \in Clients :
       ~disturbed' /\ SaysNotRunning(c) => \A p \in Pids : proc[p] = "run" => p \in untracked]_vars

(* Every command comes to an end.                                          *)
CommandReturns == \A c \in Clients : cpc[c] # "idle" ~> cpc[c] = "idle"
=============================================================================

----------------------------- MODULE DaemonProofs -----------------------------
(***************************************************************************)
(* What the daemon commands promise when they are issued one after the     *)
(* other by one user, not while a daemon boots, and can open the PID file: *)
(* for any number of process numbers, commands and polls, whatever         *)
(* crashes, whichever numbers are reused, and however many daemons run     *)
(* without a PID file because they could not create or write it.           *)
(*                                                                         *)
(* The four properties rest on one invariant.  What they say of daemons    *)
(* and commands at rest is not inductive: it has to be known, too, what a  *)
(* command in the middle of its work may rely on.  Before it has probed    *)
(* the process it has read the number of the only daemon that is tracked,  *)
(* if there is one; after that, on its way to remove the file or to fork,  *)
(* there is none.                                                          *)
(***************************************************************************)
EXTENDS Daemon, TLAPS

Probing == {"probe", "term", "poll", "status"}
Sure == {"start_rm", "fork", "stop_rm", "status_rm"}

(* Commands and daemons belong to an operator.                             *)
Owned ==
  /\ \A c \in Clients : cpc[c] # "idle" => user[c] \in Operators
  /\ \A p \in Pids : proc[p] \in DaemonState => powner[p] \in Operators

Aimed == \A c \in Clients : cpc[c] \in Probing => target[c] \in Pids

(* A daemon whose create_pid_file() has not failed.                        *)
Tracked(p) == proc[p] \in DaemonState /\ p \notin untracked

Orderly ==
  /\ \A c, d \in Clients : cpc[c] # "idle" /\ cpc[d] # "idle" => c = d
  /\ \A p, q \in Pids : Tracked(p) /\ Tracked(q) => p = q
  /\ \A p \in Pids : /\ proc[p] = "open" => p \in linked
                     /\ proc[p] = "run" /\ p \notin untracked => file = p
                     /\ p \in untracked => proc[p] = "run"
  /\ \A c \in Clients, p \in Pids :
       /\ cpc[c] # "idle" => proc[p] \notin {"boot", "open"}
       /\ cpc[c] \in Sure => ~Tracked(p)
       /\ cpc[c] \in Probing /\ Tracked(p) => target[c] = p

DaemonInv == TypeOK /\ Owned /\ Aimed /\ (~disturbed => Orderly)

-----------------------------------------------------------------------------
(* One user runs all of the commands; another one's `daemon status` would  *)
(* take a daemon it cannot signal for a dead one.                          *)
OneOperator == \A u, v \in Operators : u = v

LEMMA DaemonInvInit == Init => DaemonInv
<1> SUFFICES ASSUME Init PROVE DaemonInv
  OBVIOUS
<1> USE DEF Init
<1>1. TypeOK
  <2>1. /\ target \in [Clients -> {0}] /\ tries \in [Clients -> {0}]
        /\ cpc \in [Clients -> {"idle"}] /\ said \in [Clients -> {"nothing"}]
    OBVIOUS
  <2>2. disturbed \in BOOLEAN /\ untracked \subseteq Pids
    BY Zenon
  <2>3. file \in Pids \union {Absent, Empty} /\ fowner \in Users /\ powner \in [Pids -> Users]
          /\ user \in [Clients -> Users] /\ linked \subseteq Pids /\ term \subseteq Pids
    OBVIOUS
  <2>4. proc \in [Pids -> DaemonState \union {"free", "other"}]
    OBVIOUS
  <2> QED BY <2>1, <2>2, <2>3, <2>4, TimeoutAssumption DEF TypeOK
<1>2. Owned /\ Aimed /\ Orderly
  BY DEF Owned, Aimed, Orderly, Tracked, DaemonState, Probing, Sure
<1> QED BY <1>1, <1>2 DEF DaemonInv

(* A command that leaves the commands orderly begins when all is quiet.    *)
LEMMA Begins ==
  ASSUME DaemonInv, NEW c \in Clients, NEW u \in Operators,
         NEW zero \in {"fork", "idle"}, NEW some \in Probing, Begin(c, u, zero, some)
  PROVE  DaemonInv'
<1> USE PidsAssumption, TimeoutAssumption, UsersAssumption DEF DaemonInv, Goto
<1>1. PICK pid \in {ReadPid, 0} :
        /\ cpc[c] = "idle"
        /\ disturbed' = (disturbed \/ ~Quiet \/ pid # ReadPid)
        /\ user' = [user EXCEPT ![c] = u] /\ target' = [target EXCEPT ![c] = pid]
        /\ tries' = [tries EXCEPT ![c] = Timeout]
        /\ said' = [said EXCEPT ![c] =
                      IF pid = 0 /\ zero = "idle" THEN "not_running" ELSE "nothing"]
        /\ cpc' = [cpc EXCEPT ![c] = IF pid = 0 THEN zero ELSE some]
        /\ UNCHANGED <<procVars, fileVars, untracked>>
  BY DEF Begin
<1>2. disturbed' \in BOOLEAN /\ (~disturbed' => ~disturbed /\ Quiet /\ pid = ReadPid)
  BY <1>1, Zenon
<1>3. pid \in Pids \union {0} /\ ReadPid \in Pids \union {0}
  BY DEF ReadPid
<1>4. TypeOK'
  BY <1>1, <1>2, <1>3 DEF TypeOK, procVars, fileVars, Probing
<1>5. Owned' /\ Aimed'
  BY <1>1, <1>3 DEF TypeOK, Owned, Aimed, procVars, fileVars, Probing, DaemonState
<1>6. ASSUME ~disturbed' PROVE Orderly'
  <2>1. ~disturbed /\ Quiet /\ pid = ReadPid
    BY <1>2, <1>6
  <2>2. /\ \A d \in Clients : d # c => cpc'[d] = "idle"
        /\ proc' = proc /\ file' = file /\ linked' = linked /\ untracked' = untracked
        /\ \A p \in Pids : proc[p] \notin {"boot", "open"}
    BY <1>1, <2>1 DEF Quiet, TypeOK, procVars, fileVars
  <2>3. \A p \in Pids : Tracked(p) => cpc'[c] \in {some} /\ target'[c] = p
    BY <1>1, <2>1, <2>2 DEF TypeOK, Orderly, ReadPid, Tracked, DaemonState
  <2>4. Orderly
    BY <2>1
  <2> QED BY <2>2, <2>3, <2>4 DEF Orderly, Tracked, Probing, Sure, DaemonState
<1> QED BY <1>4, <1>5, <1>6

(* The result of kill() for an operator tells whether the daemon lives.    *)
LEMMA KillTells ==
  ASSUME OneOperator, DaemonInv, NEW c \in Clients, cpc[c] \in Probing
  PROVE  /\ Kill(c) \in {"OK", "EPERM", "ESRCH"}
         /\ Kill(c) = "ESRCH" <=> proc[target[c]] = "free"
         /\ proc[target[c]] \in DaemonState => Kill(c) = "OK"
         /\ ~disturbed /\ Kill(c) # "OK" => \A p \in Pids : ~Tracked(p)
<1>1. /\ target[c] \in Pids /\ user[c] \in Operators
      /\ proc[target[c]] \in DaemonState => powner[target[c]] = user[c]
  BY DEF DaemonInv, Aimed, Owned, OneOperator, Probing
<1>2. /\ Kill(c) \in {"OK", "EPERM", "ESRCH"}
      /\ Kill(c) = "ESRCH" <=> proc[target[c]] = "free"
      /\ proc[target[c]] \in DaemonState => Kill(c) = "OK"
  <2>1. CASE proc[target[c]] = "free"
    BY <2>1 DEF Kill, DaemonState
  <2>2. CASE proc[target[c]] # "free" /\ powner[target[c]] # user[c]
    BY <1>1, <2>2 DEF Kill
  <2>3. CASE proc[target[c]] # "free" /\ powner[target[c]] = user[c]
    BY <2>3 DEF Kill
  <2> QED BY <2>1, <2>2, <2>3
<1>3. ASSUME ~disturbed, Kill(c) # "OK", NEW p \in Pids
      PROVE  ~Tracked(p)
  BY <1>1, <1>2, <1>3 DEF DaemonInv, Orderly, Tracked, Probing
<1> QED BY <1>2, <1>3

(* What a command removes on its way out is no tracked daemon's file.      *)
LEMMA RemovalKeeps ==
  ASSUME DaemonInv, NEW c \in Clients, cpc[c] \in Sure, RemovePidFile(c),
         NEW l \in {"fork", "idle"}, cpc' = [cpc EXCEPT ![c] = l],
         NEW r \in {"stopped", said[c]}, said' = [said EXCEPT ![c] = r],
         UNCHANGED <<procVars, user, target, tries, untracked, disturbed>>
  PROVE  DaemonInv'
<1> USE DEF DaemonInv, procVars, Sure
<1>1. /\ file' \in {file, Absent} /\ fowner' = fowner
      /\ linked' \subseteq linked
  BY DEF RemovePidFile, fileVars
<1>2. TypeOK'
  BY <1>1 DEF TypeOK
<1>3. Owned' /\ Aimed'
  BY DEF TypeOK, Owned, Aimed, Probing
<1>4. ASSUME ~disturbed' PROVE Orderly'
  <2>1. \A p \in Pids : ~Tracked(p) /\ proc[p] \notin {"boot", "open"}
    BY <1>4 DEF Orderly
  <2>2. \A p \in Pids : ~Tracked(p)'
    BY <2>1 DEF Tracked
  <2>3. \A d, e \in Clients : cpc'[d] # "idle" /\ cpc'[e] # "idle" => d = e
    BY <1>4 DEF Orderly, TypeOK
  <2>4. \A p \in Pids : /\ proc'[p] \notin {"boot", "open"}
                        /\ p \in untracked' => proc'[p] = "run"
    BY <1>4, <2>1 DEF Orderly
  <2> QED BY <2>2, <2>3, <2>4 DEF Orderly, Tracked, DaemonState
<1> QED BY <1>2, <1>3, <1>4

LEMMA ClientStepKeeps ==
  ASSUME OneOperator, DaemonInv, NEW c \in Clients, ClientStep(c)
  PROVE  DaemonInv'
<1> USE PidsAssumption, TimeoutAssumption, UsersAssumption
    DEF DaemonInv, TypeOK, Owned, Aimed, Orderly, Tracked, Goto, Finish, Probing, Sure, DaemonState,
        procVars, fileVars, RemovePidFile
<1>1. CASE StartProbe(c)
  BY <1>1, KillTells DEF StartProbe, Alive
<1>2. CASE StartRemove(c)
  <2>1. said' = [said EXCEPT ![c] = said[c]] /\ "fork" \in {"fork", "idle"}
    BY <1>2 DEF StartRemove
  <2> HIDE DEF DaemonInv, TypeOK, Owned, Aimed, Orderly, Tracked
  <2> QED BY <1>2, <2>1, RemovalKeeps DEF StartRemove
<1>3. CASE StartFails(c)
  BY <1>3 DEF StartFails
<1>4. ASSUME NEW p \in Pids, StartFork(c, p) PROVE DaemonInv'
  BY <1>4 DEF StartFork
<1>5. CASE StopTerm(c)
  <2>1. /\ cpc[c] = "term" /\ target[c] \in Pids /\ proc' = proc /\ powner' = powner
        /\ file' = file /\ fowner' = fowner /\ linked' = linked /\ disturbed' = disturbed
        /\ untracked' = untracked /\ user' = user /\ target' = target /\ tries' = tries
    BY <1>5 DEF StopTerm
  <2>2. /\ term' \subseteq Pids
        /\ cpc' \in {[cpc EXCEPT ![c] = l] : l \in {"poll", "stop_rm", "idle"}}
        /\ said' \in {said, [said EXCEPT ![c] = "failed"]}
        /\ cpc'[c] = "stop_rm" => Kill(c) # "OK"
    <3>1. CASE Kill(c) = "OK"
      <4>1. /\ term' = IF proc[target[c]] \in DaemonState THEN term \union {target[c]} ELSE term
            /\ cpc' = [cpc EXCEPT ![c] = "poll"] /\ said' = said
        BY <1>5, <3>1 DEF StopTerm
      <4>2. term' \subseteq Pids
        BY <2>1, <4>1
      <4>3. /\ cpc' \in {[cpc EXCEPT ![c] = l] : l \in {"poll", "stop_rm", "idle"}}
            /\ cpc'[c] = "poll"
        BY <4>1, <2>1 DEF TypeOK
      <4> QED BY <3>1, <4>1, <4>2, <4>3
    <3>2. CASE Kill(c) = "ESRCH"
      BY <1>5, <2>1, <3>2 DEF StopTerm
    <3>3. CASE Kill(c) = "EPERM"
      BY <1>5, <2>1, <3>3 DEF StopTerm
    <3> QED BY <2>1, <3>1, <3>2, <3>3, KillTells
  <2>3. ~disturbed /\ cpc'[c] = "stop_rm" => \A p \in Pids : ~Tracked(p)
    BY <2>1, <2>2, KillTells
  <2>4. TypeOK' /\ Owned' /\ Aimed'
    BY <2>1, <2>2
  <2> QED BY <2>1, <2>2, <2>3, <2>4
<1>6. CASE StopPoll(c)
  BY <1>6, KillTells DEF StopPoll, MorePolls, PollDecrements
<1>7. CASE StopForce(c)
  <2>1. /\ cpc[c] = "poll" /\ target[c] \in Pids /\ cpc' = [cpc EXCEPT ![c] = "stop_rm"]
        /\ powner' = powner /\ file' = file /\ fowner' = fowner /\ linked' = linked
        /\ user' = user /\ target' = target /\ tries' = tries /\ said' = said
        /\ disturbed' = disturbed
    BY <1>7 DEF StopForce
  <2>2. \/ Kill(c) = "OK" /\ proc' = [proc EXCEPT ![target[c]] = "free"]
           /\ term' = term \ {target[c]} /\ untracked' = untracked \ {target[c]}
        \/ Kill(c) # "OK" /\ proc' = proc /\ term' = term /\ untracked' = untracked
    BY <1>7 DEF StopForce, Sigkill
  <2>3. ~disturbed => \A p \in Pids : ~Tracked(p)'
    BY <2>1, <2>2, KillTells
  <2>4. TypeOK'
    <3>1. CASE Kill(c) = "OK"
      BY <2>1, <2>2, <3>1
    <3>2. CASE Kill(c) # "OK"
      BY <2>1, <2>2, <3>2
    <3> QED BY <3>1, <3>2
  <2>5. Owned' /\ Aimed'
    <3>1. CASE Kill(c) = "OK"
      BY <2>1, <2>2, <3>1
    <3>2. CASE Kill(c) # "OK"
      BY <2>1, <2>2, <3>2
    <3> QED BY <3>1, <3>2
  <2>6. \A p \in Pids : /\ proc'[p] = proc[p] \/ (proc'[p] = "free" /\ p \notin untracked')
                        /\ p \in untracked' => p \in untracked
    BY <2>1, <2>2
  <2>7. ASSUME ~disturbed' PROVE Orderly'
    <3>1. \A p \in Pids : /\ proc'[p] \notin {"boot", "open"}
                          /\ p \in untracked' => proc'[p] = "run"
      BY <2>1, <2>6, <2>7
    <3>2. \A d, e \in Clients : cpc'[d] # "idle" /\ cpc'[e] # "idle" => d = e
      BY <2>1, <2>7
    <3>3. \A p \in Pids : ~Tracked(p)'
      BY <2>1, <2>3, <2>7
    <3> QED BY <3>1, <3>2, <3>3
  <2> QED BY <2>4, <2>5, <2>7
<1>8. CASE StopRemove(c)
  <2> HIDE DEF DaemonInv, TypeOK, Owned, Aimed, Orderly, Tracked
  <2> QED BY <1>8, RemovalKeeps DEF StopRemove
<1>9. CASE StatusProbe(c)
  BY <1>9, KillTells DEF StatusProbe, Stale
<1>10. CASE StatusRemove(c)
  <2> HIDE DEF DaemonInv, TypeOK, Owned, Aimed, Orderly, Tracked
  <2> QED BY <1>10, RemovalKeeps DEF StatusRemove
<1> QED BY <1>1, <1>2, <1>3, <1>4, <1>5, <1>6, <1>7, <1>8, <1>9, <1>10 DEF ClientStep

LEMMA ProcessStepKeeps ==
  ASSUME DaemonInv, NEW p \in Pids,
         DaemonStep(p) \/ Crash(p) \/ OtherExits(p) \/ \E u \in Users : OtherStarts(p, u)
  PROVE  DaemonInv'
<1> USE PidsAssumption, UsersAssumption
    DEF DaemonInv, TypeOK, Owned, Aimed, Orderly, Tracked, Probing, Sure, DaemonState,
        procVars, fileVars, clientVars
<1>1. CASE DaemonOpen(p)
  BY <1>1 DEF DaemonOpen, BootStep
<1>2. CASE DaemonWrite(p)
  BY <1>2 DEF DaemonWrite, BootStep, Content
<1>3. CASE Dies(p)
  BY <1>3 DEF Dies, FileStays
<1>4. CASE OtherExits(p)
  BY <1>4 DEF OtherExits
<1>5. ASSUME NEW u \in Users, OtherStarts(p, u) PROVE DaemonInv'
  BY <1>5 DEF OtherStarts
<1>6. CASE DaemonOpenFails(p)
  BY <1>6 DEF DaemonOpenFails, BootStep
<1>7. CASE DaemonWriteFails(p)
  BY <1>7 DEF DaemonWriteFails, BootStep
<1> QED BY <1>1, <1>2, <1>3, <1>4, <1>5, <1>6, <1>7 DEF DaemonStep, DaemonExit, Crash

(* Only commands report anything.                                          *)
LEMMA SaidByClients ==
  ASSUME NEW p \in Pids,
         DaemonStep(p) \/ Crash(p) \/ OtherExits(p) \/ \E u \in Users : OtherStarts(p, u)
  PROVE  said' = said
  BY DEF DaemonStep, DaemonOpen, DaemonOpenFails, DaemonWrite, DaemonWriteFails, DaemonExit,
     Crash, Dies, OtherExits, OtherStarts, clientVars

LEMMA DaemonInvKept ==
  ASSUME OneOperator
  PROVE  DaemonInv /\ [Next]_vars => DaemonInv'
<1> SUFFICES ASSUME DaemonInv, [Next]_vars PROVE DaemonInv'
  OBVIOUS
<1>1. ASSUME NEW c \in Clients, NEW u \in Operators, Start(c, u) \/ Stop(c, u) \/ Status(c, u)
      PROVE  DaemonInv'
  BY <1>1, Begins DEF Start, Stop, Status, Probing
<1>2. CASE UNCHANGED vars
  BY <1>2 DEF vars, procVars, fileVars, clientVars, DaemonInv, TypeOK, Owned, Aimed, Orderly,
         Tracked
<1> QED BY <1>1, <1>2, ClientStepKeeps, ProcessStepKeeps DEF Next

-----------------------------------------------------------------------------
(* `daemon start` never starts a second daemon beside one that could       *)
(* create its PID file, however many process numbers there are to be       *)
(* reused and however many daemons run without a PID file.                 *)
THEOREM OneDaemon ==
  ASSUME OneOperator
  PROVE  Spec => []AtMostOneDaemon
<1>1. DaemonInv => AtMostOneDaemon
  BY DEF DaemonInv, Orderly, Tracked, AtMostOneDaemon, SingleDaemon, Daemons
<1> QED BY <1>1, DaemonInvInit, DaemonInvKept, PTL DEF Spec

(* Between commands a running daemon that could create its PID file is     *)
(* found by it: neither a command nor the exit or the failure of another   *)
(* daemon takes the file away from it.                                     *)
THEOREM DaemonFindable ==
  ASSUME OneOperator
  PROVE  Spec => []RunningIsFindable
<1>1. DaemonInv => RunningIsFindable
  BY DEF DaemonInv, Orderly, RunningIsFindable
<1> QED BY <1>1, DaemonInvInit, DaemonInvKept, PTL DEF Spec

(* `daemon stop` reports "stopped" only when no daemon is left but those   *)
(* whose create_pid_file() failed, for every number of polls and whether   *)
(* or not the daemon heeds SIGTERM.                                        *)
THEOREM StoppedIsGone ==
  ASSUME OneOperator
  PROVE  Spec => StopMeansStopped
<1>1. DaemonInv /\ [Next]_vars =>
        [\A c \in Clients :
           ~disturbed /\ said'[c] = "stopped" /\ said[c] # "stopped"
             => Daemons' \subseteq untracked']_vars
  <2> SUFFICES ASSUME DaemonInv, Next, NEW c \in Clients,
                      ~disturbed, said'[c] = "stopped", said[c] # "stopped"
               PROVE  Daemons' \subseteq untracked'
    OBVIOUS
  <2> USE DEF DaemonInv, TypeOK, Goto, Finish
  <2>1. ASSUME NEW d \in Clients, NEW u \in Operators, Start(d, u) \/ Stop(d, u) \/ Status(d, u)
        PROVE  FALSE
    BY <2>1 DEF Start, Stop, Status, Begin
  <2>2. ASSUME NEW d \in Clients, ClientStep(d), ~StopRemove(d) PROVE FALSE
    BY <2>2 DEF ClientStep, StartProbe, StartRemove, StartFork, StartFails, StopTerm, StopPoll,
       StopForce, StatusProbe, StatusRemove
  <2>3. ASSUME NEW p \in Pids, DaemonStep(p) \/ Crash(p) \/ OtherExits(p)
                                 \/ \E u \in Users : OtherStarts(p, u)
        PROVE  said' = said
    BY <2>3, SaidByClients
  <2>4. ASSUME NEW d \in Clients, StopRemove(d) PROVE Daemons' \subseteq untracked'
    BY <2>4 DEF StopRemove, Orderly, Tracked, Sure, Daemons, procVars
  <2> QED BY <2>1, <2>2, <2>3, <2>4 DEF Next
<1> QED BY <1>1, DaemonInvInit, DaemonInvKept, PTL DEF Spec, StopMeansStopped

(* "not running", from `daemon status` or `daemon stop`, is true of every  *)
(* daemon whose create_pid_file() succeeded.                               *)
THEOREM NotRunningTrue ==
  ASSUME OneOperator
  PROVE  Spec => NotRunningIsTrue
<1>1. DaemonInv /\ [Next]_vars =>
        [\A c \in Clients :
           ~disturbed' /\ SaysNotRunning(c) =>
             \A p \in Pids : proc[p] = "run" => p \in untracked]_vars
  <2> SUFFICES ASSUME DaemonInv, Next, NEW c \in Clients, NEW p \in Pids,
                      ~disturbed', SaysNotRunning(c)
               PROVE  proc[p] = "run" => p \in untracked
    OBVIOUS
  <2> USE DEF DaemonInv, TypeOK, Goto, Finish
  <2>1. ASSUME NEW d \in Clients, NEW u \in Operators, Start(d, u) \/ Stop(d, u) \/ Status(d, u),
               said'[c] = "not_running", said[c] # "not_running" \/ d = c
        PROVE  proc[p] = "run" => p \in untracked
    <3>1. ~disturbed /\ ReadPid = 0
      BY <2>1 DEF Start, Stop, Status, Begin
    <3> QED BY <3>1, PidsAssumption DEF Orderly, ReadPid
  <2>2. ASSUME NEW u \in Operators, Stop(c, u) \/ Status(c, u)
        PROVE  proc[p] = "run" => p \in untracked
    BY <2>1, <2>2 DEF SaysNotRunning
  <2>3. CASE said'[c] = "not_running" /\ said[c] # "not_running"
    <3>1. ASSUME NEW d \in Clients, ClientStep(d), ~StatusProbe(d) PROVE FALSE
      BY <2>3, <3>1 DEF ClientStep, StartProbe, StartRemove, StartFork, StartFails, StopTerm,
         StopPoll, StopForce, StopRemove, StatusRemove
    <3>2. ASSUME NEW q \in Pids, DaemonStep(q) \/ Crash(q) \/ OtherExits(q)
                                   \/ \E u \in Users : OtherStarts(q, u)
          PROVE  said' = said
      BY <3>2, SaidByClients
    <3>3. ASSUME NEW d \in Clients, StatusProbe(d)
          PROVE  proc[p] = "run" => p \in untracked
      <4>1. ~disturbed /\ Kill(d) # "OK" /\ cpc[d] \in Probing
        BY <2>3, <3>3 DEF StatusProbe, Stale, Probing
      <4> QED BY <4>1, KillTells DEF Tracked, DaemonState
    <3> QED BY <2>1, <2>3, <3>1, <3>2, <3>3 DEF Next
  <2> QED BY <2>2, <2>3 DEF SaysNotRunning
<1> QED BY <1>1, DaemonInvInit, DaemonInvKept, PTL DEF Spec, NotRunningIsTrue
===============================================================================

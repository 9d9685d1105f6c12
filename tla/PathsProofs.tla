------------------------------ MODULE PathsProofs ------------------------------
(***************************************************************************)
(* What the program does outside its own memory, for every value of the    *)
(* constants: the FIFO of a stream, the log files, the file of an AI       *)
(* request, the texts that go in and out, and the processes that a command *)
(* line names.  The parts are proved one by one, and put together at the   *)
(* end: in a behaviour of module Paths one of them moves at a time, and    *)
(* the others change nothing.                                              *)
(***************************************************************************)
EXTENDS Paths, SequenceTheorems, FiniteSetTheorems, WellFoundedInduction, TLAPS

-----------------------------------------------------------------------------
(***************************************************************************)
(* The FIFO of run_stream_mode() for every number of streamers: it does    *)
(* not outlive its streamer, and it is at the path while one streamer is   *)
(* at work alone.                                                          *)
(*                                                                         *)
(* NoFifoLeft is inductive once it says where a streamer may be while its  *)
(* FIFO is at the path.  PathLeadsToStream needs to know that nobody else  *)
(* touches the path, and what the path is before open() has looked at it.  *)
(***************************************************************************)
(* A FIFO at the path belongs to a streamer that has yet to unlink it.     *)
Owned ==
  \A s \in Streamers : path = s => pc[s] \in {"open", "opening", "closed"} \union Writing

Busy(s) == pc[s] \notin {"start", "done"}

(* One streamer at a time, and the path is its own from mkfifo() on.       *)
OwnPath ==
  /\ \A s, t \in Streamers : Busy(s) /\ Busy(t) => s = t
  /\ \A s \in Streamers :
       /\ pc[s] = "mkfifo" => path = None
       /\ pc[s] \in {"open", "opening"} \union Writing => path = s
       /\ pc[s] \in {"opening"} \union Writing => fifo[s] = s

StreamInv == TypeOK /\ Owned /\ (~shared => OwnPath)

-----------------------------------------------------------------------------
LEMMA StreamInvInit == Init => StreamInv
<1> SUFFICES ASSUME Init PROVE StreamInv
  OBVIOUS
<1> USE StreamersAssumption DEF Init, Writing, Fifos, None, Stale
<1>1. TypeOK
  BY DEF TypeOK
<1>2. Owned
  BY DEF Owned
<1>3. OwnPath
  BY DEF OwnPath, Busy
<1> QED BY <1>1, <1>2, <1>3 DEF StreamInv

(* The steps of a streamer.                                                *)
LEMMA StreamerStep ==
  ASSUME StreamInv, NEW s \in Streamers, Step(s)
  PROVE  StreamInv'
<1> USE StreamersAssumption
    DEF StreamInv, TypeOK, Owned, OwnPath, Busy, Writing, Fifos, None, Stale, Goes
<1>1. CASE Unlink(s)
  <2>1. TypeOK'
    BY <1>1 DEF Unlink
  <2>2. Owned'
    BY <1>1 DEF Unlink
  <2>3. ASSUME ~shared' PROVE OwnPath'
    <3>1. \A t \in Streamers : ~Busy(t)
      BY <1>1, <2>3, Zenon DEF Unlink, Busy
    <3>2. pc' = [pc EXCEPT ![s] = "mkfifo"] /\ path' = None
      BY <1>1 DEF Unlink
    <3>3. pc'[s] = "mkfifo" /\ \A t \in Streamers \ {s} : pc'[t] = pc[t]
      BY <3>2
    <3> QED BY <3>1, <3>2, <3>3
  <2> QED BY <2>1, <2>2, <2>3
<1>2. CASE Mkfifo(s)
  BY <1>2 DEF Mkfifo
<1>3. CASE MkfifoFails(s)
  BY <1>3 DEF MkfifoFails
<1>4. CASE Open(s)
  BY <1>4 DEF Open, Finds
<1>5. CASE OpenFails(s)
  BY <1>5 DEF OpenFails, Unlinked
<1>6. CASE Opened(s)
  BY <1>6 DEF Opened
<1>7. CASE CycleEmpty(s)
  BY <1>7 DEF CycleEmpty
<1>8. CASE CycleBegins(s)
  BY <1>8 DEF CycleBegins
<1>9. CASE Write(s)
  BY <1>9 DEF Write
<1>10. CASE WriteFails(s)
  BY <1>10 DEF WriteFails, NoticesReaderGone
<1>11. CASE Sleep(s)
  BY <1>11 DEF Sleep
<1>12. CASE Close(s)
  BY <1>12 DEF Close
<1>13. CASE Remove(s)
  BY <1>13 DEF Remove, Unlinked
<1> QED
  BY <1>1, <1>2, <1>3, <1>4, <1>5, <1>6, <1>7, <1>8, <1>9, <1>10, <1>11,
     <1>12, <1>13 DEF Step

(* Signals, exits and readers.                                             *)
LEMMA EnvironmentStep ==
  ASSUME StreamInv, Environment
  PROVE  StreamInv'
<1> USE StreamersAssumption
    DEF StreamInv, TypeOK, Owned, OwnPath, Busy, Writing, Fifos, None, Stale, Goes
<1>1. ASSUME NEW s \in Streamers, Interrupt(s) PROVE StreamInv'
  BY <1>1 DEF Interrupt
<1>2. ASSUME NEW s \in Streamers, InterruptOpen(s) PROVE StreamInv'
  BY <1>2 DEF InterruptOpen, Unlinked
<1>3. ASSUME NEW s \in Streamers, RowsGone(s) PROVE StreamInv'
  BY <1>3 DEF RowsGone
<1>4. CASE ReaderOpens
  BY <1>4 DEF ReaderOpens
<1>5. CASE ReaderReads
  BY <1>5 DEF ReaderReads
<1>6. CASE ReaderCloses
  BY <1>6 DEF ReaderCloses
<1> QED BY <1>1, <1>2, <1>3, <1>4, <1>5, <1>6 DEF Environment

LEMMA StreamInvStep == StreamInv /\ [Next]_vars => StreamInv'
<1> SUFFICES ASSUME StreamInv, [Next]_vars PROVE StreamInv'
  OBVIOUS
<1>1. CASE Next
  BY <1>1, StreamerStep, EnvironmentStep DEF Next
<1>2. CASE UNCHANGED vars
  BY <1>2 DEF vars, StreamInv, TypeOK, Owned, OwnPath, Busy
<1> QED BY <1>1, <1>2

LEMMA StreamInvAlways == Spec => []StreamInv
  BY StreamInvInit, StreamInvStep, PTL DEF Spec

(* Every way out of run_stream_mode() after mkfifo() removes the FIFO.     *)
THEOREM StreamLeavesNoFifo == Spec => []NoFifoLeft
<1>1. StreamInv => NoFifoLeft
  BY DEF StreamInv, Owned, NoFifoLeft, Writing
<1> QED BY <1>1, StreamInvAlways, PTL

(* The path run_stream_mode() prints leads to its FIFO while it is at work *)
(* alone.                                                                  *)
THEOREM StreamIsAtItsPath == Spec => []PathLeadsToStream
<1>1. StreamInv => PathLeadsToStream
  BY DEF StreamInv, OwnPath, PathLeadsToStream, Writing
<1> QED BY <1>1, StreamInvAlways, PTL

-----------------------------------------------------------------------------
(***************************************************************************)
(* An instance that is alone at work gets the answer to its own request,   *)
(* for every number of instances and whatever was left at the path.        *)
(*                                                                         *)
(* OwnAnswer speaks of the end of a request.  What leads there is followed *)
(* from the file to what curl sends: while nobody else is at work, the     *)
(* file at the path is the one that was opened, and holds this request or  *)
(* no whole one.                                                           *)
(***************************************************************************)
(* At most one instance is at work.                                        *)
Alone == \A r, s \in Instances : AtWork(r) /\ AtWork(s) => r = s

(* What an instance has at each place of its request.                      *)
OwnRequest(r) ==
  /\ at[r] = "write" => reqFile[r] = reqPath
  /\ at[r] \in {"write", "popen"} => reqPath \in ReqFiles
  /\ at[r] = "popen" => content[reqPath] \in {r, Broken}
  /\ at[r] = "curl" => sent[r] \in {r, Broken}
  /\ outcome[r] \in {r, NoFile, Failed}

AiInv ==
  /\ AiTypeOK
  /\ ~overlap => Alone /\ \A r \in Instances : OwnRequest(r)

-----------------------------------------------------------------------------
LEMMA AiInvInit == AiInit => AiInv
<1> SUFFICES ASSUME AiInit PROVE AiInv
  OBVIOUS
<1>1. AiTypeOK
  <2>1. reqPath \in ReqFiles \union {NoFile}
    BY DEF AiInit, ReqFiles
  <2>2. content \in [ReqFiles -> ReqFiles \union {Broken}]
    BY DEF AiInit
  <2> QED BY <2>1, <2>2 DEF AiInit, AiTypeOK
<1>2. Alone /\ \A r \in Instances : OwnRequest(r)
  BY DEF AiInit, Alone, AtWork, OwnRequest
<1> QED BY <1>1, <1>2 DEF AiInv

(* The types of a step.                                                    *)
LEMMA AiTypeStep == ASSUME AiTypeOK, AiNext PROVE AiTypeOK'
<1> USE InstancesAssumption
    DEF AiTypeOK, Moves, Shows, ReqFiles, NoFile, OwnLeft, OtherLeft, Broken, Failed
<1> PICK r \in Instances :
      \/ OpenRequest(r) \/ OpenRequestFails(r) \/ WriteRequest(r)
      \/ RunCurl(r) \/ PopenFails(r) \/ Answer(r) \/ UnlinkRequest(r)
      \/ KillInstance(r)
  BY DEF AiNext
<1>1. CASE OpenRequest(r)
  BY <1>1 DEF OpenRequest
<1>2. CASE OpenRequestFails(r)
  BY <1>2 DEF OpenRequestFails, ReturnsError
<1>3. CASE WriteRequest(r)
  <2>1. PICK c \in {r, Broken} : content' = [content EXCEPT ![reqFile[r]] = c]
    BY <1>3 DEF WriteRequest
  <2>2. c \in ReqFiles \union {Broken}
    BY <2>1
  <2>3. content' \in [ReqFiles -> ReqFiles \union {Broken}]
    BY <2>1, <2>2
  <2> QED BY <1>3, <2>3 DEF WriteRequest
<1>4. CASE RunCurl(r)
  BY <1>4 DEF RunCurl
<1>5. CASE PopenFails(r)
  BY <1>5 DEF PopenFails
<1>6. CASE Answer(r)
  BY <1>6 DEF Answer
<1>7. CASE UnlinkRequest(r)
  BY <1>7 DEF UnlinkRequest
<1>8. CASE KillInstance(r)
  BY <1>8 DEF KillInstance
<1> QED BY <1>1, <1>2, <1>3, <1>4, <1>5, <1>6, <1>7, <1>8

(* Only the instance that is at work changes the path, the file and what   *)
(* it holds; one that begins beside it makes overlap true.                 *)
LEMMA OwnStep ==
  ASSUME AiInv, AiNext, ~overlap'
  PROVE  Alone' /\ \A q \in Instances : OwnRequest(q)'
<1> USE InstancesAssumption
    DEF Moves, Shows, ReqFiles, NoFile, OwnLeft, OtherLeft, Broken, Failed,
        AiTypeOK, Alone, AtWork, OwnRequest
<1> PICK r \in Instances :
      \/ OpenRequest(r) \/ OpenRequestFails(r) \/ WriteRequest(r)
      \/ RunCurl(r) \/ PopenFails(r) \/ Answer(r) \/ UnlinkRequest(r)
      \/ KillInstance(r)
  BY DEF AiNext
<1>0. ~overlap
  BY DEF OpenRequest, OpenRequestFails, WriteRequest, RunCurl, PopenFails,
         Answer, UnlinkRequest, KillInstance, AiInv
<1>a. AiTypeOK /\ Alone /\ \A q \in Instances : OwnRequest(q)
  BY <1>0 DEF AiInv
<1>1. CASE OpenRequest(r)
  BY <1>1, <1>a DEF OpenRequest
<1>2. CASE OpenRequestFails(r)
  BY <1>2, <1>a DEF OpenRequestFails, ReturnsError
<1>3. CASE WriteRequest(r)
  BY <1>3, <1>a DEF WriteRequest
<1>4. CASE RunCurl(r)
  BY <1>4, <1>a DEF RunCurl
<1>5. CASE PopenFails(r)
  BY <1>5, <1>a DEF PopenFails
<1>6. CASE Answer(r)
  BY <1>6, <1>a DEF Answer
<1>7. CASE UnlinkRequest(r)
  BY <1>7, <1>a DEF UnlinkRequest
<1>8. CASE KillInstance(r)
  BY <1>8, <1>a DEF KillInstance
<1> QED BY <1>1, <1>2, <1>3, <1>4, <1>5, <1>6, <1>7, <1>8

LEMMA AiInvStep == AiInv /\ [AiNext]_aiVars => AiInv'
<1> SUFFICES ASSUME AiInv, [AiNext]_aiVars PROVE AiInv'
  OBVIOUS
<1>1. CASE AiNext
  BY <1>1, AiTypeStep, OwnStep DEF AiInv
<1>2. CASE UNCHANGED aiVars
  BY <1>2 DEF AiInv, aiVars, AiTypeOK, Alone, AtWork, OwnRequest
<1> QED BY <1>1, <1>2

(* An instance that was alone at work shows the answer to its own request, *)
(* whatever file was at the path before (call_claude_api()).               *)
THEOREM RequestAnswered == AiSpec => []OwnAnswer
<1>1. AiInv => OwnAnswer
  BY DEF AiInv, OwnRequest, OwnAnswer
<1> QED BY <1>1, AiInvInit, AiInvStep, PTL DEF AiSpec

-----------------------------------------------------------------------------
(***************************************************************************)
(* The log files hold the lines in order and without a gap, for any limit, *)
(* any number of files and lines, and kills anywhere in a rotation.        *)
(*                                                                         *)
(* The renames of a rotation overwrite nothing but the oldest file because *)
(* each of them finds its target emptied by the one before; after a kill   *)
(* the next rotation begins at the oldest file again.  A line that is      *)
(* being written is newer than all that are in the files.                  *)
(***************************************************************************)
Ascending ==
  \A i \in Suffix : \A k, m \in DOMAIN logFiles[i] :
    k < m => logFiles[i][k] < logFiles[i][m]
OlderFirst ==
  \A i, j \in Suffix : \A old \in LinesIn(i), new \in LinesIn(j) : j < i => old < new
NoGap ==
  \A n \in 1 .. lines :
    n \in Kept \/ n \in astray \/ (n = lines /\ ~Idle) \/ \A k \in Kept : n < k

(* The line a rotation was begun for is newer than those in the files.     *)
NewestKept ==
  /\ Kept \subseteq 1 .. lines
  /\ ~Idle => lines \in 1 .. MaxLines /\ lines \notin Kept

(* The target of the next rename is empty, unless it is the oldest file.   *)
TargetEmpty == rotating \in -1 .. RotationCount - 2 => logFiles[rotating + 1] = <<>>

LogInv == LogTypeOK /\ Ascending /\ OlderFirst /\ NoGap /\ NewestKept /\ TargetEmpty

-----------------------------------------------------------------------------
LEMMA LogInvInit == LogInit => LogInv
<1> SUFFICES ASSUME LogInit PROVE LogInv
  OBVIOUS
<1> USE RotationAssumption DEF LogInit
<1>1. \A i \in Suffix : logFiles[i] = <<>> /\ DOMAIN logFiles[i] = {} /\ LinesIn(i) = {}
  BY DEF LinesIn
<1>2. Kept = {}
  BY <1>1 DEF Kept
<1>3. LogTypeOK
  <2>1. <<>> \in Seq(1 .. MaxLines)
    OBVIOUS
  <2>2. logFiles \in [Suffix -> Seq(1 .. MaxLines)]
    BY <2>1
  <2> QED BY <2>2 DEF LogTypeOK
<1>4. Ascending /\ OlderFirst
  BY <1>1 DEF Ascending, OlderFirst
<1>5. NoGap /\ NewestKept /\ TargetEmpty
  BY <1>2 DEF NoGap, NewestKept, TargetEmpty, Idle
<1> QED BY <1>3, <1>4, <1>5 DEF LogInv

(* The lines in the files are of the type of lines.                        *)
LEMMA LinesInFile ==
  ASSUME LogTypeOK, NEW i \in Suffix
  PROVE  /\ logFiles[i] \in Seq(1 .. MaxLines) /\ Len(logFiles[i]) \in Nat
         /\ DOMAIN logFiles[i] = 1 .. Len(logFiles[i])
         /\ LinesIn(i) \subseteq 1 .. MaxLines /\ LinesIn(i) \subseteq Kept
<1>1. logFiles[i] \in Seq(1 .. MaxLines)
  BY DEF LogTypeOK
<1>2. /\ Len(logFiles[i]) \in Nat /\ DOMAIN logFiles[i] = 1 .. Len(logFiles[i])
      /\ \A k \in 1 .. Len(logFiles[i]) : logFiles[i][k] \in 1 .. MaxLines
  BY <1>1, LenProperties, ElementOfSeq
<1>3. LinesIn(i) \subseteq 1 .. MaxLines
  BY <1>2 DEF LinesIn
<1> QED BY <1>1, <1>2, <1>3 DEF Kept

(* A line newer than all others is written at the end of the log file.     *)
LEMMA LineWritten ==
  ASSUME LogTypeOK, Ascending, OlderFirst, NEW n \in 1 .. MaxLines,
         \A k \in Kept : k < n,
         logFiles' = [logFiles EXCEPT ![0] = Append(@, n)]
  PROVE  /\ logFiles' \in [Suffix -> Seq(1 .. MaxLines)]
         /\ Ascending' /\ OlderFirst' /\ Kept' = Kept \union {n}
<1> USE RotationAssumption DEF Suffix
<1>1. 0 \in Suffix /\ logFiles[0] \in Seq(1 .. MaxLines)
  BY LinesInFile
<1>2. PICK m \in Nat : m = Len(logFiles[0])
  BY <1>1
<1>3. /\ Append(logFiles[0], n) \in Seq(1 .. MaxLines)
      /\ DOMAIN logFiles[0] = 1 .. m /\ DOMAIN Append(logFiles[0], n) = 1 .. m + 1
      /\ \A k \in 1 .. m : Append(logFiles[0], n)[k] = logFiles[0][k]
      /\ Append(logFiles[0], n)[m + 1] = n
  BY <1>1, <1>2
<1>4. logFiles'[0] = Append(logFiles[0], n) /\ \A i \in Suffix \ {0} : logFiles'[i] = logFiles[i]
  BY DEF LogTypeOK
<1>5. logFiles' \in [Suffix -> Seq(1 .. MaxLines)]
  BY <1>1, <1>3 DEF LogTypeOK
<1>6. \A i \in Suffix \ {0} : LinesIn(i)' = LinesIn(i)
  BY <1>4 DEF LinesIn
<1>7. LinesIn(0)' = LinesIn(0) \union {n}
  <2>1. LinesIn(0) = {logFiles[0][k] : k \in 1 .. m}
    BY <1>3 DEF LinesIn
  <2>2. LinesIn(0)' = {Append(logFiles[0], n)[k] : k \in 1 .. m + 1}
    BY <1>3, <1>4 DEF LinesIn
  <2>3. /\ \A k \in 1 .. m + 1 : k \in 1 .. m \/ k = m + 1
        /\ m + 1 \in 1 .. m + 1 /\ \A k \in 1 .. m : k \in 1 .. m + 1
    OBVIOUS
  <2> QED BY <1>3, <2>1, <2>2, <2>3
<1>8. Kept' = Kept \union {n}
  BY <1>1, <1>6, <1>7 DEF Kept
<1>9. Ascending'
  <2> SUFFICES ASSUME NEW i \in Suffix, NEW k \in DOMAIN logFiles'[i],
                      NEW l \in DOMAIN logFiles'[i], k < l
               PROVE  logFiles'[i][k] < logFiles'[i][l]
    BY DEF Ascending
  <2>1. CASE i # 0
    BY <1>4, <2>1 DEF Ascending
  <2>2. CASE i = 0
    <3>1. k \in 1 .. m /\ (l \in 1 .. m \/ l = m + 1)
      <4>1. DOMAIN logFiles'[i] = 1 .. m + 1
        BY <1>3, <1>4, <2>2
      <4> QED BY <4>1
    <3>2. logFiles[0][k] \in Kept
      <4>1. logFiles[0][k] \in LinesIn(0)
        BY <1>3, <3>1 DEF LinesIn
      <4> QED BY <1>1, <4>1, LinesInFile
    <3>3. CASE l \in 1 .. m
      BY <1>1, <1>3, <1>4, <2>2, <3>1, <3>3 DEF Ascending
    <3>4. CASE l = m + 1
      BY <1>3, <1>4, <2>2, <3>1, <3>2, <3>4
    <3> QED BY <3>1, <3>3, <3>4
  <2> QED BY <2>1, <2>2
<1>10. OlderFirst'
  <2> SUFFICES ASSUME NEW i \in Suffix, NEW j \in Suffix, j < i,
                      NEW old \in LinesIn(i)', NEW new \in LinesIn(j)'
               PROVE  old < new
    BY DEF OlderFirst
  <2>1. old \in LinesIn(i) /\ old \in Kept
    BY <1>6, LinesInFile
  <2>2. new \in LinesIn(j) \/ new = n
    BY <1>6, <1>7
  <2> QED BY <2>1, <2>2 DEF OlderFirst
<1> QED BY <1>5, <1>8, <1>9, <1>10

(* A file is renamed to the next number: nothing is lost but what was in   *)
(* the oldest file.                                                        *)
LEMMA FileRenamed ==
  ASSUME LogTypeOK, Ascending, OlderFirst, NEW r \in 0 .. RotationCount - 1,
         r # RotationCount - 1 => logFiles[r + 1] = <<>>,
         logFiles' = [logFiles EXCEPT ![r + 1] = logFiles[r], ![r] = <<>>]
  PROVE  /\ logFiles' \in [Suffix -> Seq(1 .. MaxLines)]
         /\ logFiles'[r] = <<>>
         /\ Ascending' /\ OlderFirst' /\ Kept' \subseteq Kept
         /\ \A n \in Kept \ Kept' : \A k \in Kept' : n < k
<1> USE RotationAssumption DEF Suffix
<1>1. /\ r \in Suffix /\ r + 1 \in Suffix /\ r # r + 1
      /\ r + 1 = RotationCount \/ logFiles[r + 1] = <<>>
  OBVIOUS
<1>2. /\ logFiles'[r + 1] = logFiles[r] /\ logFiles'[r] = <<>>
      /\ \A i \in Suffix \ {r, r + 1} : logFiles'[i] = logFiles[i]
  BY <1>1 DEF LogTypeOK
<1>3. logFiles' \in [Suffix -> Seq(1 .. MaxLines)]
  <2>1. <<>> \in Seq(1 .. MaxLines) /\ logFiles[r] \in Seq(1 .. MaxLines)
    BY <1>1 DEF LogTypeOK
  <2> QED BY <1>1, <2>1 DEF LogTypeOK
<1>4. /\ LinesIn(r + 1)' = LinesIn(r) /\ LinesIn(r)' = {}
      /\ \A i \in Suffix \ {r, r + 1} : LinesIn(i)' = LinesIn(i)
      /\ r + 1 = RotationCount \/ LinesIn(r + 1) = {}
  <2>1. LinesIn(r + 1)' = LinesIn(r)
    BY <1>2 DEF LinesIn
  <2>2. LinesIn(r)' = {}
    BY <1>2 DEF LinesIn
  <2>3. \A i \in Suffix \ {r, r + 1} : LinesIn(i)' = LinesIn(i)
    BY <1>2 DEF LinesIn
  <2>4. logFiles[r + 1] = <<>> => LinesIn(r + 1) = {}
    BY DEF LinesIn
  <2> QED BY <1>1, <2>1, <2>2, <2>3, <2>4
<1>5. Ascending'
  <2> SUFFICES ASSUME NEW i \in Suffix, NEW k \in DOMAIN logFiles'[i],
                      NEW m \in DOMAIN logFiles'[i], k < m
               PROVE  logFiles'[i][k] < logFiles'[i][m]
    BY DEF Ascending
  <2>1. CASE i = r + 1
    BY <1>1, <1>2, <2>1 DEF Ascending
  <2>2. CASE i = r
    BY <1>2, <2>2
  <2>3. CASE i \notin {r, r + 1}
    BY <1>2, <2>3 DEF Ascending
  <2> QED BY <2>1, <2>2, <2>3
<1>6. OlderFirst'
  <2> SUFFICES ASSUME NEW i \in Suffix, NEW j \in Suffix, j < i,
                      NEW old \in LinesIn(i)', NEW new \in LinesIn(j)'
               PROVE  old < new
    BY DEF OlderFirst
  <2> DEFINE from(x) == IF x = r + 1 THEN r ELSE x
  <2>1. /\ i # r /\ j # r /\ old \in LinesIn(from(i)) /\ new \in LinesIn(from(j))
        /\ from(i) \in Suffix /\ from(j) \in Suffix
    BY <1>1, <1>4
  <2>2. from(j) < from(i)
    BY <1>1, <2>1
  <2> QED BY <2>1, <2>2 DEF OlderFirst
<1>7. Kept' \subseteq Kept
  BY <1>1, <1>4 DEF Kept
<1>8. ASSUME NEW n \in Kept \ Kept', NEW k \in Kept'
      PROVE  n < k
  <2>1. PICK i \in Suffix : n \in LinesIn(i)
    BY DEF Kept
  <2>2. PICK j \in Suffix : k \in LinesIn(j)'
    BY DEF Kept
  <2>3. i = r + 1 /\ r + 1 = RotationCount
    BY <1>1, <1>4, <2>1 DEF Kept
  <2>4. \E h \in Suffix : h < i /\ k \in LinesIn(h)
    BY <1>1, <1>4, <2>2, <2>3
  <2> QED BY <2>1, <2>4 DEF OlderFirst
<1> QED BY <1>2, <1>3, <1>5, <1>6, <1>7, <1>8

-----------------------------------------------------------------------------
(* Opening and closing, and the lines that do not reach a file.            *)
LEMMA OtherLogStep ==
  ASSUME LogInv,
         \/ LoggerInit \/ LoggerClose \/ LoggerKilled \/ UNCHANGED logVars
         \/ \E l \in LogLevels : LoggerSetLevel(l) \/ WriteToStderr(l) \/ BeginRotation(l)
  PROVE  LogInv'
<1> USE RotationAssumption
    DEF LogInv, LogTypeOK, NoGap, NewestKept, TargetEmpty, Idle, Takes
<1>1. UNCHANGED logFiles /\ Kept' = Kept
  BY DEF LoggerInit, LoggerClose, LoggerKilled, LoggerSetLevel, WriteToStderr,
         BeginRotation, logVars, Kept, LinesIn
<1>2. Ascending' /\ OlderFirst'
  BY <1>1 DEF Ascending, OlderFirst, LinesIn
<1>3. CASE LoggerInit \/ LoggerClose \/ UNCHANGED logVars
  BY <1>1, <1>2, <1>3 DEF LoggerInit, LoggerClose, logVars
<1>4. CASE LoggerKilled
  BY <1>1, <1>2, <1>4 DEF LoggerKilled
<1>5. ASSUME NEW l \in LogLevels, LoggerSetLevel(l) PROVE LogInv'
  BY <1>1, <1>2, <1>5 DEF LoggerSetLevel
<1>6. ASSUME NEW l \in LogLevels, WriteToStderr(l) PROVE LogInv'
  BY <1>1, <1>2, <1>6 DEF WriteToStderr
<1>7. ASSUME NEW l \in LogLevels, BeginRotation(l) PROVE LogInv'
  BY <1>1, <1>2, <1>7 DEF BeginRotation
<1> QED BY <1>3, <1>4, <1>5, <1>6, <1>7

(* log_write() to a file below its limit.                                  *)
LEMMA WriteToFileStep ==
  ASSUME LogInv, NEW l \in LogLevels, WriteToFile(l)
  PROVE  LogInv'
<1> USE RotationAssumption
    DEF LogInv, LogTypeOK, NoGap, NewestKept, TargetEmpty, Idle, Takes, WriteToFile
<1>1. lines' \in 1 .. MaxLines /\ \A k \in Kept : k < lines'
  OBVIOUS
<1>2. /\ logFiles' \in [Suffix -> Seq(1 .. MaxLines)]
      /\ Ascending' /\ OlderFirst' /\ Kept' = Kept \union {lines'}
  BY <1>1, LineWritten
<1>3. NoGap'
  BY <1>1, <1>2
<1> QED BY <1>1, <1>2, <1>3

(* logger_check_rotation(): one rename, and the end.                       *)
LEMMA RenameStep == ASSUME LogInv, Rename PROVE LogInv'
<1> USE RotationAssumption
<1>1. /\ rotating \in 0 .. RotationCount - 1 /\ rotating' = rotating - 1
      /\ UNCHANGED <<file, minLevel, lines, astray>>
      /\ lines \in Nat /\ Kept \subseteq 1 .. lines
      /\ lines \in 1 .. MaxLines /\ lines \notin Kept
  BY DEF LogInv, LogTypeOK, NewestKept, Idle, Rename
<1>2. LogInv' \/ /\ logFiles' \in [Suffix -> Seq(1 .. MaxLines)] /\ logFiles'[rotating] = <<>>
                 /\ Ascending' /\ OlderFirst' /\ Kept' \subseteq Kept
                 /\ \A n \in Kept \ Kept' : \A k \in Kept' : n < k
  <2>1. CASE logFiles[rotating] = <<>>
    <3>1. logFiles' = logFiles
      BY <2>1 DEF Rename, Renamed
    <3>2. Kept' = Kept /\ Ascending' /\ OlderFirst'
      BY <3>1 DEF LogInv, Kept, LinesIn, Ascending, OlderFirst
    <3> QED BY <2>1, <3>1, <3>2 DEF LogInv, LogTypeOK
  <2>2. CASE logFiles[rotating] # <<>>
    <3>1. logFiles' = [logFiles EXCEPT ![rotating + 1] = logFiles[rotating],
                                       ![rotating] = <<>>]
      BY <2>2 DEF Rename, Renamed
    <3>2. rotating # RotationCount - 1 => logFiles[rotating + 1] = <<>>
      BY <1>1 DEF LogInv, TargetEmpty
    <3> QED BY <1>1, <3>1, <3>2, FileRenamed DEF LogInv
  <2> QED BY <2>1, <2>2
<1>3. SUFFICES ASSUME logFiles' \in [Suffix -> Seq(1 .. MaxLines)], logFiles'[rotating] = <<>>,
                      Ascending', OlderFirst', Kept' \subseteq Kept,
                      \A n \in Kept \ Kept' : \A k \in Kept' : n < k
               PROVE  LogInv'
  BY <1>2
<1>4. LogTypeOK'
  BY <1>1, <1>3 DEF LogInv, LogTypeOK
<1>5. NoGap'
  <2> SUFFICES ASSUME NEW n \in 1 .. lines
               PROVE  n \in Kept' \/ n \in astray \/ n = lines \/ \A k \in Kept' : n < k
    BY <1>1 DEF NoGap, Idle
  <2>1. n \in Kept \/ n \in astray \/ n = lines \/ \A k \in Kept : n < k
    BY DEF LogInv, NoGap
  <2> QED BY <1>3, <2>1
<1>6. NewestKept' /\ TargetEmpty'
  BY <1>1, <1>3 DEF NewestKept, TargetEmpty
<1> QED BY <1>3, <1>4, <1>5, <1>6 DEF LogInv

LEMMA EndRotationStep == ASSUME LogInv, EndRotation PROVE LogInv'
<1> USE RotationAssumption
<1>1. /\ lines \in 1 .. MaxLines /\ lines \notin Kept /\ Kept \subseteq 1 .. lines
      /\ rotating' = -2 /\ UNCHANGED <<minLevel, lines>> /\ file' \in {"null", "open"}
  BY DEF LogInv, LogTypeOK, NewestKept, Idle, EndRotation
<1>2. /\ logFiles' \in [Suffix -> Seq(1 .. MaxLines)] /\ Ascending' /\ OlderFirst'
      /\ \/ Kept' = Kept \union {lines} /\ astray' = astray
         \/ Kept' = Kept /\ astray' = astray \union {lines}
  <2>1. CASE logFiles' = [logFiles EXCEPT ![0] = Append(@, lines)] /\ UNCHANGED astray
    <3>1. \A k \in Kept : k < lines
      BY <1>1
    <3> QED BY <1>1, <2>1, <3>1, LineWritten DEF LogInv
  <2>2. CASE UNCHANGED logFiles /\ astray' = astray \union {lines}
    BY <2>2 DEF LogInv, LogTypeOK, Kept, LinesIn, Ascending, OlderFirst
  <2> QED BY <2>1, <2>2 DEF EndRotation
<1>3. LogTypeOK'
  <2>1. astray' \subseteq 1 .. MaxLines
    BY <1>1, <1>2 DEF LogInv, LogTypeOK
  <2>2. rotating' \in -2 .. RotationCount - 1
    BY <1>1
  <2>3. lines' \in 0 .. MaxLines /\ minLevel' \in LogLevels
    BY <1>1 DEF LogInv, LogTypeOK
  <2> QED BY <1>1, <1>2, <2>1, <2>2, <2>3 DEF LogTypeOK
<1>4. NoGap'
  <2> SUFFICES ASSUME NEW n \in 1 .. lines, n \notin Kept', n \notin astray'
               PROVE  \A k \in Kept' : n < k
    BY <1>1 DEF NoGap
  <2>1. n \in 1 .. lines - 1 /\ n \notin Kept /\ n \notin astray
    BY <1>1, <1>2
  <2>2. \A k \in Kept : n < k
    BY <1>1, <2>1 DEF LogInv, NoGap
  <2>3. Kept' \subseteq Kept \union {lines}
    BY <1>2, Zenon
  <2> QED BY <1>1, <2>1, <2>2, <2>3
<1>5. NewestKept' /\ TargetEmpty'
  <2>1. Kept' \subseteq Kept \union {lines}
    BY <1>2, Zenon
  <2>2. Kept' \subseteq 1 .. lines'
    BY <1>1, <2>1
  <2> QED BY <1>1, <2>2 DEF NewestKept, TargetEmpty, Idle
<1> QED BY <1>2, <1>3, <1>4, <1>5 DEF LogInv

LEMMA LogInvStep == LogInv /\ [LogNext]_logVars => LogInv'
  BY OtherLogStep, WriteToFileStep, RenameStep, EndRotationStep DEF LogNext

(* log_write() and logger_check_rotation() keep the lines in order and     *)
(* without a gap, for any limits and wherever the process is killed.       *)
THEOREM LogKept == LogSpec => []LogInOrder
<1>1. LogInv => LogInOrder
  BY DEF LogInv, Ascending, OlderFirst, NoGap, LogInOrder
<1> QED BY <1>1, LogInvInit, LogInvStep, PTL DEF LogSpec

-----------------------------------------------------------------------------
(***************************************************************************)
(* Texts and command lines are worked through word by word or character by *)
(* character, with recursive functions over the positions.  That such a    *)
(* function exists, and that what holds at the first position and is       *)
(* handed from each to the next holds at all of them, are the two lemmas   *)
(* everything below rests on; both follow from the least counterexample.   *)
(***************************************************************************)
LEMMA LeastNumber ==
  ASSUME NEW T \in SUBSET Nat, T # {}
  PROVE  \E m \in T : \A n \in T : m <= n
<1>1. PICK m \in T : \A n \in T : <<n, m>> \notin OpToRel(<, Nat)
  BY NatLessThanWellFounded, WFMin, Zenon
<1>2. ASSUME NEW n \in T PROVE ~(n < m)
  <2>1. n < m => <<n, m>> \in OpToRel(<, Nat)
    BY DEF OpToRel
  <2> QED BY <1>1, <2>1
<1> QED BY <1>2

LEMMA Induct ==
  ASSUME NEW N \in Nat, NEW Good, 0 \in Good,
         \A k \in 1 .. N : k - 1 \in Good => k \in Good
  PROVE  \A k \in 0 .. N : k \in Good
<1> DEFINE Bad == {k \in 0 .. N : k \notin Good}
<1>1. SUFFICES ASSUME Bad # {} PROVE FALSE
  OBVIOUS
<1>2. PICK m \in Bad : \A n \in Bad : m <= n
  <2>1. Bad \in SUBSET Nat
    OBVIOUS
  <2> HIDE DEF Bad
  <2> QED BY <1>1, <2>1, LeastNumber
<1>3. m \in 1 .. N /\ m - 1 \in 0 .. N /\ m \notin Good /\ ~(m <= m - 1)
  OBVIOUS
<1>4. m - 1 \notin Bad
  <2> HIDE DEF Bad
  <2> QED BY <1>2, <1>3
<1> QED BY <1>3, <1>4

(* The values of f are in S, the first is base, and next gives each from   *)
(* its position and the one before.  Such a function exists.               *)
Recursive(f, N, S, base, next) ==
  f \in [0 .. N -> S] /\ f[0] = base /\ \A k \in 1 .. N : f[k] = next[<<k, f[k - 1]>>]

LEMMA RecursionExists ==
  ASSUME NEW N \in Nat, NEW S, NEW base \in S, NEW next \in [(1 .. N) \X S -> S]
  PROVE  \E f : Recursive(f, N, S, base, next)
<1> DEFINE Steps(m, f) == f[0] = base /\ \A k \in 1 .. m : f[k] = next[<<k, f[k - 1]>>]
           Good == {m \in 0 .. N : \E f \in [0 .. m -> S] : Steps(m, f)}
<1>1. 0 \in Good
  <2>1. [k \in 0 .. 0 |-> base] \in [0 .. 0 -> S] /\ Steps(0, [k \in 0 .. 0 |-> base])
    OBVIOUS
  <2> HIDE DEF Steps
  <2> QED BY <2>1
<1>2. ASSUME NEW m \in 1 .. N, m - 1 \in Good PROVE m \in Good
  <2>1. PICK f \in [0 .. m - 1 -> S] : Steps(m - 1, f)
    <3> HIDE DEF Steps
    <3> QED BY <1>2
  <2> DEFINE v == next[<<m, f[m - 1]>>]
             h == [k \in 0 .. m |-> IF k < m THEN f[k] ELSE v]
  <2>2. v \in S
    <3>1. f[m - 1] \in S
      OBVIOUS
    <3> QED BY <3>1
  <2>3. h \in [0 .. m -> S]
    <3>1. \A k \in 0 .. m : k < m => f[k] \in S
      OBVIOUS
    <3> HIDE DEF v
    <3> QED BY <2>2, <3>1
  <2>4. Steps(m, h)
    <3>1. h[0] = base
      BY <2>1
    <3>2. ASSUME NEW k \in 1 .. m PROVE h[k] = next[<<k, h[k - 1]>>]
      <4>1. h[k - 1] = f[k - 1]
        OBVIOUS
      <4>2. CASE k = m
        <5>1. h[m] = next[<<m, f[m - 1]>>]
          OBVIOUS
        <5> HIDE DEF h
        <5> QED BY <4>1, <4>2, <5>1
      <4>3. CASE k < m
        BY <2>1, <4>1, <4>3
      <4> QED BY <4>2, <4>3
    <3> QED BY <3>1, <3>2
  <2> HIDE DEF Steps, h
  <2> QED BY <2>3, <2>4
<1>3. N \in Good
  <2> HIDE DEF Good
  <2>1. \A m \in 1 .. N : m - 1 \in Good => m \in Good
    BY <1>2
  <2> QED BY <1>1, <2>1, Induct
<1> HIDE DEF Steps
<1>4. \E f \in [0 .. N -> S] : Steps(N, f)
  BY <1>3
<1> QED BY <1>4 DEF Steps, Recursive

(* A function that is given by such an equation is of the type.            *)
LEMMA RecursionTyped ==
  ASSUME NEW N \in Nat, NEW S, NEW base \in S, NEW next \in [(1 .. N) \X S -> S], NEW t,
         t = [k \in 0 .. N |-> t[k]], t[0] = base,
         \A k \in 1 .. N : t[k - 1] \in S => t[k] = next[<<k, t[k - 1]>>]
  PROVE  Recursive(t, N, S, base, next)
<1> DEFINE Good == {k \in 0 .. N : t[k] \in S}
<1>1. 0 \in Good
  OBVIOUS
<1>2. ASSUME NEW k \in 1 .. N, k - 1 \in Good PROVE k \in Good
  <2>1. t[k - 1] \in S /\ t[k] = next[<<k, t[k - 1]>>]
    BY <1>2
  <2>2. next[<<k, t[k - 1]>>] \in S
    BY <2>1
  <2> QED BY <2>1, <2>2
<1>3. \A k \in 0 .. N : k \in Good
  <2> HIDE DEF Good
  <2> QED BY <1>1, <1>2, Induct
<1>4. t \in [0 .. N -> S]
  BY <1>3
<1>5. \A k \in 1 .. N : t[k - 1] \in S
  BY <1>3
<1> QED BY <1>4, <1>5 DEF Recursive

-----------------------------------------------------------------------------
(***************************************************************************)
(* A text survives json_escape() and extract_text_field(), whatever its    *)
(* length and the sizes of the two buffers.  The invariant of the whole    *)
(* way out and in: where the code of a character ends, the extraction has  *)
(* just the characters so far, and is not behind a backslash; it falls     *)
(* behind the escaping only once one of the buffers is full.               *)
(***************************************************************************)
Bytes == Chars \union {"back", "quote", "n", "r", "t", "SP", "NL", "CR", "TAB"}
Blank(c) == IF c = "CTL" THEN "SP" ELSE c

(* A code is one byte, that stands for itself, or a backslash and the byte *)
(* for its character.                                                      *)
LEMMA CodeIs ==
  ASSUME NEW c \in Chars
  PROVE  /\ Code(c) \in Seq(Bytes)
         /\ \/ /\ Len(Code(c)) = 1 /\ Code(c)[1] = Blank(c)
               /\ Code(c)[1] \notin {"back", "quote"}
            \/ /\ Len(Code(c)) = 2 /\ Code(c)[1] = "back"
               /\ Unescaped(Code(c)[2]) = Blank(c)
<1>1. CASE c \in {"quote", "back"}
  <2>1. Code(c) = <<"back", c>>
    BY <1>1 DEF Code
  <2> QED BY <1>1, <2>1 DEF Unescaped, Blank, Bytes
<1>2. CASE c \in {"NL", "CR", "TAB"}
  <2>1. PICK b \in {"n", "r", "t"} : Code(c) = <<"back", b>> /\ Unescaped(b) = c
    BY <1>2 DEF Code, Unescaped
  <2> QED BY <1>2, <2>1 DEF Blank, Bytes
<1>3. CASE c = "CTL"
  BY <1>3 DEF Code, Blank, Bytes
<1>4. CASE c \notin {"quote", "back", "NL", "CR", "TAB", "CTL"}
  <2>1. Code(c) = <<c>>
    BY <1>4 DEF Code
  <2> QED BY <1>4, <2>1 DEF Blank, Bytes
<1> QED BY <1>1, <1>2, <1>3, <1>4

LEMMA BufferIs ==
  ASSUME text \in Seq(Chars)
  PROVE  /\ Buffer \in [0 .. Len(text) -> Seq(Bytes)] /\ Buffer[0] = <<>>
         /\ \A i \in 1 .. Len(text) :
              Buffer[i] = IF Len(Buffer[i - 1]) + 6 < EscapedSize
                          THEN Buffer[i - 1] \o Code(text[i]) ELSE Buffer[i - 1]
<1> DEFINE N == Len(text)
           S == Seq(Bytes)
           next == [p \in (1 .. N) \X S |->
                      IF Len(p[2]) + 6 < EscapedSize THEN p[2] \o Code(text[p[1]]) ELSE p[2]]
           Eqn(t) == t = [i \in 0 .. N |->
                            IF i = 0 THEN <<>>
                            ELSE IF Len(t[i - 1]) + 6 < EscapedSize
                            THEN t[i - 1] \o Code(text[i]) ELSE t[i - 1]]
<1>1. N \in Nat /\ <<>> \in S
  OBVIOUS
<1>2. next \in [(1 .. N) \X S -> S]
  <2>1. ASSUME NEW p \in (1 .. N) \X S PROVE p[2] \o Code(text[p[1]]) \in S
    <3>1. p[2] \in Seq(Bytes) /\ Code(text[p[1]]) \in Seq(Bytes)
      BY CodeIs
    <3> QED BY <3>1, ConcatProperties
  <2> QED BY <2>1
<1>3. ASSUME NEW k \in 1 .. N, NEW b \in S
      PROVE  next[<<k, b>>] = IF Len(b) + 6 < EscapedSize THEN b \o Code(text[k]) ELSE b
  OBVIOUS
<1> HIDE DEF next, S, N
<1>4. PICK f : Recursive(f, N, S, <<>>, next)
  BY <1>1, <1>2, RecursionExists
<1>5. Eqn(f)
  <2>1. \A i \in 1 .. N : f[i] = IF Len(f[i - 1]) + 6 < EscapedSize
                                 THEN f[i - 1] \o Code(text[i]) ELSE f[i - 1]
    <3>1. \A i \in 1 .. N : f[i - 1] \in S /\ f[i] = next[<<i, f[i - 1]>>]
      BY <1>1, <1>4 DEF Recursive
    <3> QED BY <1>3, <3>1
  <2>2. \A i \in 0 .. N : i # 0 => i \in 1 .. N
    OBVIOUS
  <2>3. \A i \in 0 .. N : f[i] = IF i = 0 THEN <<>>
                                 ELSE IF Len(f[i - 1]) + 6 < EscapedSize
                                 THEN f[i - 1] \o Code(text[i]) ELSE f[i - 1]
    BY <1>4, <2>1, <2>2 DEF Recursive
  <2> QED BY <1>4, <2>3 DEF Recursive
<1>6. Eqn(Buffer)
  <2>1. Buffer = CHOOSE t : Eqn(t)
    BY DEF Buffer, N
  <2> HIDE DEF Eqn
  <2> QED BY <1>5, <2>1
<1>7. \A i \in 1 .. N : Buffer[i] = IF Len(Buffer[i - 1]) + 6 < EscapedSize
                                    THEN Buffer[i - 1] \o Code(text[i]) ELSE Buffer[i - 1]
  BY <1>1, <1>6
<1>8. Recursive(Buffer, N, S, <<>>, next)
  <2>1. Buffer = [i \in 0 .. N |-> Buffer[i]] /\ Buffer[0] = <<>>
    BY <1>1, <1>6
  <2>2. \A i \in 1 .. N : Buffer[i - 1] \in S => Buffer[i] = next[<<i, Buffer[i - 1]>>]
    BY <1>3, <1>7
  <2> HIDE DEF Eqn
  <2> QED BY <1>1, <1>2, <2>1, <2>2, RecursionTyped
<1> QED BY <1>7, <1>8 DEF S, N, Recursive

LEMMA CodeLengthIs ==
  ASSUME text \in Seq(Chars)
  PROVE  /\ CodeLength \in [0 .. Len(text) -> Nat] /\ CodeLength[0] = 0
         /\ \A i \in 1 .. Len(text) :
              CodeLength[i] = CodeLength[i - 1] + Len(Code(text[i]))
<1> DEFINE N == Len(text)
           next == [p \in (1 .. N) \X Nat |-> p[2] + Len(Code(text[p[1]]))]
           Eqn(t) == t = [i \in 0 .. N |-> IF i = 0 THEN 0 ELSE t[i - 1] + Len(Code(text[i]))]
<1>1. N \in Nat /\ 0 \in Nat
  OBVIOUS
<1>2. next \in [(1 .. N) \X Nat -> Nat]
  <2>1. ASSUME NEW p \in (1 .. N) \X Nat PROVE p[2] + Len(Code(text[p[1]])) \in Nat
    <3>1. text[p[1]] \in Chars
      OBVIOUS
    <3>2. p[2] \in Nat /\ Len(Code(text[p[1]])) \in Nat
      BY <3>1, CodeIs
    <3> QED BY <3>2
  <2> QED BY <2>1
<1>3. \A k \in 1 .. N, b \in Nat : next[<<k, b>>] = b + Len(Code(text[k]))
  OBVIOUS
<1> HIDE DEF next, N
<1>4. PICK f : Recursive(f, N, Nat, 0, next)
  BY <1>1, <1>2, RecursionExists
<1>5. Eqn(f)
  <2>1. \A i \in 1 .. N : f[i - 1] \in Nat /\ f[i] = next[<<i, f[i - 1]>>]
    BY <1>1, <1>4 DEF Recursive
  <2>2. \A i \in 1 .. N : f[i] = f[i - 1] + Len(Code(text[i]))
    BY <1>3, <2>1
  <2>3. \A i \in 0 .. N : f[i] = IF i = 0 THEN 0 ELSE f[i - 1] + Len(Code(text[i]))
    BY <1>4, <2>2 DEF Recursive
  <2> QED BY <1>4, <2>3 DEF Recursive
<1>6. Eqn(CodeLength)
  <2>1. CodeLength = CHOOSE t : Eqn(t)
    BY DEF CodeLength, N
  <2> HIDE DEF Eqn
  <2> QED BY <1>5, <2>1
<1>7. /\ CodeLength = [i \in 0 .. N |-> CodeLength[i]] /\ CodeLength[0] = 0
      /\ \A i \in 1 .. N : CodeLength[i] = CodeLength[i - 1] + Len(Code(text[i]))
  <2>1. CodeLength = [i \in 0 .. N |-> CodeLength[i]]
    BY <1>6
  <2>2. CodeLength[0] = 0
    BY <1>1, <1>6
  <2>3. \A i \in 1 .. N : CodeLength[i] = CodeLength[i - 1] + Len(Code(text[i]))
    BY <1>1, <1>6
  <2> QED BY <2>1, <2>2, <2>3
<1>8. Recursive(CodeLength, N, Nat, 0, next)
  <2>1. \A i \in 1 .. N :
          CodeLength[i - 1] \in Nat => CodeLength[i] = next[<<i, CodeLength[i - 1]>>]
    BY <1>3, <1>7
  <2> HIDE DEF Eqn
  <2> QED BY <1>1, <1>2, <1>7, <2>1, RecursionTyped
<1> QED BY <1>7, <1>8 DEF N, Recursive

(* json_escape() stays within its buffer, and has room for all of a text   *)
(* whose codes need no more than the buffer less six bytes.                *)
LEMMA EscapeFits ==
  ASSUME text \in Seq(Chars)
  PROVE  \A i \in 0 .. Len(text) :
           /\ Len(Buffer[i]) < EscapedSize /\ Len(Buffer[i]) <= CodeLength[i]
           /\ Len(Buffer[i]) = CodeLength[i] \/ Len(Buffer[i]) + 6 >= EscapedSize
<1> USE SizesAssumption
<1> DEFINE N == Len(text)
           Fits(i) == /\ Len(Buffer[i]) < EscapedSize /\ Len(Buffer[i]) <= CodeLength[i]
                      /\ Len(Buffer[i]) = CodeLength[i] \/ Len(Buffer[i]) + 6 >= EscapedSize
           Good == {i \in 0 .. N : Fits(i)}
<1>1. 0 \in Good
  BY BufferIs, CodeLengthIs
<1>2. ASSUME NEW i \in 1 .. N, i - 1 \in Good PROVE i \in Good
  <2>1. Fits(i - 1)
    BY <1>2
  <2>2. /\ Buffer[i - 1] \in Seq(Bytes) /\ Len(Buffer[i - 1]) \in Nat
        /\ CodeLength[i - 1] \in Nat
    <3>1. i - 1 \in 0 .. N
      OBVIOUS
    <3>2. CodeLength[i - 1] \in Nat
      BY <3>1, CodeLengthIs
    <3>3. Buffer[i - 1] \in Seq(Bytes)
      BY <3>1, BufferIs
    <3> QED BY <3>2, <3>3
  <2>3. Code(text[i]) \in Seq(Bytes) /\ Len(Code(text[i])) \in 1 .. 2
    <3>1. text[i] \in Chars
      OBVIOUS
    <3> QED BY <3>1, CodeIs
  <2>4. CodeLength[i] = CodeLength[i - 1] + Len(Code(text[i]))
    BY CodeLengthIs
  <2>5. CASE Len(Buffer[i - 1]) + 6 < EscapedSize
    <3>1. Buffer[i] = Buffer[i - 1] \o Code(text[i])
      BY <2>5, BufferIs
    <3>2. Len(Buffer[i]) = Len(Buffer[i - 1]) + Len(Code(text[i]))
      BY <2>2, <2>3, <3>1, ConcatProperties
    <3> DEFINE a == Len(Buffer[i - 1])
               l == Len(Code(text[i]))
               d == CodeLength[i - 1]
    <3>3. a \in Nat /\ l \in 1 .. 2 /\ d \in Nat /\ a + 6 < EscapedSize /\ a = d
      BY <2>1, <2>2, <2>3, <2>5
    <3>4. Len(Buffer[i]) = a + l /\ CodeLength[i] = d + l
      BY <2>4, <3>2
    <3> HIDE DEF a, l, d
    <3>5. Fits(i)
      BY <3>3, <3>4
    <3> QED BY <3>5
  <2>6. CASE ~(Len(Buffer[i - 1]) + 6 < EscapedSize)
    <3>1. Buffer[i] = Buffer[i - 1]
      BY <2>6, BufferIs
    <3> QED BY <2>1, <2>2, <2>3, <2>4, <2>6, <3>1
  <2> QED BY <2>5, <2>6
<1>3. \A i \in 0 .. N : i \in Good
  <2> HIDE DEF Good
  <2>1. N \in Nat
    OBVIOUS
  <2> QED BY <1>1, <1>2, <2>1, Induct
<1> QED BY <1>3

(* The parts of a sequence that is put together of two.                    *)
LEMMA ConcatParts ==
  ASSUME NEW S, NEW s \in Seq(S), NEW t \in Seq(S)
  PROVE  /\ Len(s \o t) = Len(s) + Len(t)
         /\ \A j \in 1 .. Len(s) : (s \o t)[j] = s[j]
         /\ \A j \in 1 .. Len(t) : (s \o t)[Len(s) + j] = t[j]
<1>1. /\ Len(s \o t) = Len(s) + Len(t)
      /\ \A i \in 1 .. Len(s) + Len(t) :
           (s \o t)[i] = IF i <= Len(s) THEN s[i] ELSE t[i - Len(s)]
  BY ConcatProperties
<1> DEFINE m == Len(s)
           n == Len(t)
<1>2. m \in Nat /\ n \in Nat
  OBVIOUS
<1> HIDE DEF m, n
<1>3. ASSUME NEW j \in 1 .. m PROVE (s \o t)[j] = s[j]
  <2>1. j \in 1 .. m + n /\ j <= m
    BY <1>2
  <2> QED BY <1>1, <2>1 DEF m, n
<1>4. ASSUME NEW j \in 1 .. n PROVE (s \o t)[m + j] = t[j]
  <2>1. m + j \in 1 .. m + n /\ ~(m + j <= m) /\ m + j - m = j
    BY <1>2
  <2>2. (s \o t)[m + j] = t[m + j - m]
    BY <1>1, <2>1 DEF m, n
  <2> QED BY <2>1, <2>2
<1> QED BY <1>1, <1>3, <1>4 DEF m, n

(* What is in the buffer stays there.                                      *)
LEMMA BufferGrows ==
  ASSUME text \in Seq(Chars), NEW i \in 0 .. Len(text)
  PROVE  /\ Len(Buffer[i]) <= Len(Escaped)
         /\ \A j \in 1 .. Len(Buffer[i]) : Escaped[j] = Buffer[i][j]
<1> DEFINE N == Len(text)
           Begins(k) == /\ Len(Buffer[i]) <= Len(Buffer[k])
                        /\ \A j \in 1 .. Len(Buffer[i]) : Buffer[k][j] = Buffer[i][j]
           Good == {k \in 0 .. N : k < i \/ Begins(k)}
<1>1. ASSUME NEW k \in 0 .. N PROVE Buffer[k] \in Seq(Bytes) /\ Len(Buffer[k]) \in Nat
  <2>1. Buffer[k] \in Seq(Bytes)
    BY BufferIs
  <2> QED BY <2>1
<1>2. 0 \in Good
  BY <1>1
<1>3. ASSUME NEW k \in 1 .. N, k - 1 \in Good PROVE k \in Good
  <2>1. CASE k <= i
    BY <1>1, <2>1
  <2>2. CASE k > i
    <3>1. Begins(k - 1)
      BY <1>3, <2>2
    <3>2. Code(text[k]) \in Seq(Bytes)
      <4>1. text[k] \in Chars
        OBVIOUS
      <4> QED BY <4>1, CodeIs
    <3>3. Buffer[k] = Buffer[k - 1] \/ Buffer[k] = Buffer[k - 1] \o Code(text[k])
      BY BufferIs
    <3>4. /\ Len(Buffer[k - 1]) <= Len(Buffer[k])
          /\ \A j \in 1 .. Len(Buffer[k - 1]) : Buffer[k][j] = Buffer[k - 1][j]
      <4>1. Buffer[k - 1] \in Seq(Bytes) /\ Len(Buffer[k - 1]) \in Nat
        BY <1>1
      <4>2. /\ Len(Buffer[k - 1] \o Code(text[k])) = Len(Buffer[k - 1]) + Len(Code(text[k]))
            /\ \A j \in 1 .. Len(Buffer[k - 1]) :
                 (Buffer[k - 1] \o Code(text[k]))[j] = Buffer[k - 1][j]
        BY <3>2, <4>1, ConcatParts
      <4>3. Len(Code(text[k])) \in Nat
        BY <3>2
      <4>4. CASE Buffer[k] = Buffer[k - 1]
        BY <4>1, <4>4
      <4>5. CASE Buffer[k] = Buffer[k - 1] \o Code(text[k])
        <5>1. Len(Buffer[k - 1]) \in Nat /\ Len(Buffer[k]) = Len(Buffer[k - 1]) + Len(Code(text[k]))
          BY <4>1, <4>2, <4>5
        <5>2. Len(Buffer[k - 1]) <= Len(Buffer[k])
          <6> DEFINE m == Len(Buffer[k - 1])
                     l == Len(Code(text[k]))
          <6>1. m \in Nat /\ l \in Nat /\ Len(Buffer[k]) = m + l
            BY <4>3, <5>1
          <6> HIDE DEF m, l
          <6>2. m <= Len(Buffer[k])
            BY <6>1
          <6> QED BY <6>2 DEF m
        <5> QED BY <4>2, <4>5, <5>2
      <4> QED BY <3>3, <4>4, <4>5
    <3>5. Len(Buffer[i]) \in Nat /\ Len(Buffer[k - 1]) \in Nat /\ Len(Buffer[k]) \in Nat
      BY <1>1
    <3>6. Begins(k)
      BY <3>1, <3>4, <3>5
    <3> QED BY <3>6
  <2> QED BY <2>1, <2>2
<1>4. N \in Good
  <2> HIDE DEF Good
  <2>1. N \in Nat
    OBVIOUS
  <2>2. \A k \in 0 .. N : k \in Good
    BY <1>2, <1>3, <2>1, Induct
  <2> QED BY <2>1, <2>2
<1> QED BY <1>4 DEF Escaped

ExtractStates == [out : Seq(Bytes), esc : BOOLEAN, end : BOOLEAN]

LEMMA ExtractStepIs ==
  ASSUME NEW s \in ExtractStates, NEW c \in Bytes
  PROVE  ExtractStep(s, c) \in ExtractStates
<1>1. s.out \in Seq(Bytes) /\ s.esc \in BOOLEAN /\ s.end \in BOOLEAN
  BY DEF ExtractStates
<1>2. Unescaped(c) \in Bytes
  BY DEF Unescaped, Bytes
<1>3. Append(s.out, Unescaped(c)) \in Seq(Bytes) /\ Append(s.out, c) \in Seq(Bytes)
  BY <1>1, <1>2, AppendProperties
<1> HIDE DEF Bytes
<1>4. CASE s.end
  BY <1>4 DEF ExtractStep
<1>5. CASE ~s.end /\ s.esc
  BY <1>3, <1>5 DEF ExtractStep, ExtractStates
<1>6. CASE ~s.end /\ ~s.esc
  BY <1>3, <1>6 DEF ExtractStep, ExtractStates
<1> QED BY <1>1, <1>4, <1>5, <1>6

(* The bytes of a code make one character of it, or end the extraction.    *)
LEMMA ExtractCode ==
  ASSUME NEW s \in ExtractStates, ~s.esc, NEW c \in Chars,
         Len(s.out) < OutputSize, s.end => Len(s.out) = OutputSize - 1,
         NEW r, r = IF Len(Code(c)) = 1 THEN ExtractStep(s, Code(c)[1])
                    ELSE ExtractStep(ExtractStep(s, Code(c)[1]), Code(c)[2])
  PROVE  /\ r \in ExtractStates /\ ~r.esc
         /\ \/ Len(s.out) = OutputSize - 1 /\ r.out = s.out
            \/ Len(s.out) < OutputSize - 1 /\ ~r.end /\ r.out = Append(s.out, Blank(c))
<1> USE SizesAssumption
<1>1. s.out \in Seq(Bytes) /\ Len(s.out) \in Nat /\ s.esc = FALSE /\ s.end \in BOOLEAN
  BY DEF ExtractStates
<1>2. Code(c) \in Seq(Bytes) /\ Len(Code(c)) \in 1 .. 2
  BY CodeIs
<1>3. r \in ExtractStates
  <2>1. Code(c)[1] \in Bytes /\ (Len(Code(c)) # 1 => Code(c)[2] \in Bytes)
    BY <1>2, ElementOfSeq
  <2> QED BY <2>1, ExtractStepIs
<1>4. CASE s.end
  BY <1>3, <1>4 DEF ExtractStep
<1>5. CASE ~s.end /\ Len(s.out) = OutputSize - 1
  <2>1. ExtractStep(s, Code(c)[1]) = [s EXCEPT !.end = TRUE]
    BY <1>1, <1>5 DEF ExtractStep
  <2> DEFINE t == [s EXCEPT !.end = TRUE]
  <2>2. t.end /\ t.out = s.out /\ t.esc = FALSE /\ ExtractStep(t, Code(c)[2]) = t
    BY <1>1 DEF ExtractStep, ExtractStates
  <2>3. r = t
    BY <2>1, <2>2
  <2> QED BY <1>3, <1>5, <2>2, <2>3
<1>6. CASE ~s.end /\ Len(s.out) # OutputSize - 1
  <2>1. Len(s.out) + 1 < OutputSize
    BY <1>1, <1>6
  <2>2. CASE /\ Len(Code(c)) = 1 /\ Code(c)[1] = Blank(c)
             /\ Code(c)[1] \notin {"back", "quote"}
    <3>1. r = [s EXCEPT !.out = Append(@, Blank(c))]
      BY <1>1, <1>6, <2>1, <2>2 DEF ExtractStep
    <3> QED BY <1>1, <1>3, <1>6, <2>1, <3>1 DEF ExtractStates
  <2>3. CASE /\ Len(Code(c)) = 2 /\ Code(c)[1] = "back"
             /\ Unescaped(Code(c)[2]) = Blank(c)
    <3> DEFINE t == [s EXCEPT !.esc = TRUE]
    <3>1. ExtractStep(s, Code(c)[1]) = t
      BY <1>1, <1>6, <2>1, <2>3 DEF ExtractStep
    <3>2. t.esc /\ ~t.end /\ t.out = s.out
      BY <1>6 DEF ExtractStates
    <3>3. ExtractStep(t, Code(c)[2]) = [t EXCEPT !.out = Append(@, Blank(c)), !.esc = FALSE]
      BY <2>3, <3>2 DEF ExtractStep
    <3>4. r = [t EXCEPT !.out = Append(@, Blank(c)), !.esc = FALSE]
      <4>1. Len(Code(c)) # 1
        BY <2>3
      <4>2. r = ExtractStep(ExtractStep(s, Code(c)[1]), Code(c)[2])
        BY <4>1
      <4> QED BY <3>1, <3>3, <4>2
    <3>5. r.out = Append(s.out, Blank(c)) /\ ~r.esc /\ ~r.end
      BY <3>2, <3>4 DEF ExtractStates
    <3> QED BY <1>1, <1>3, <1>6, <2>1, <3>5
  <2> QED BY <2>2, <2>3, CodeIs
<1> QED BY <1>1, <1>4, <1>5, <1>6

LEMMA ExtractionIs ==
  ASSUME Answered \in Seq(Bytes)
  PROVE  /\ Extraction \in [0 .. Len(Answered) -> ExtractStates]
         /\ Extraction[0] = [out |-> <<>>, esc |-> FALSE, end |-> FALSE]
         /\ \A i \in 1 .. Len(Answered) :
              Extraction[i] = ExtractStep(Extraction[i - 1], Answered[i])
<1> DEFINE N == Len(Answered)
           S == ExtractStates
           base == [out |-> <<>>, esc |-> FALSE, end |-> FALSE]
           next == [p \in (1 .. N) \X S |-> ExtractStep(p[2], Answered[p[1]])]
           Eqn(t) == t = [i \in 0 .. N |-> IF i = 0 THEN base
                                           ELSE ExtractStep(t[i - 1], Answered[i])]
<1>1. N \in Nat /\ base \in S
  BY DEF ExtractStates
<1>2. next \in [(1 .. N) \X S -> S]
  <2>1. ASSUME NEW p \in (1 .. N) \X S PROVE ExtractStep(p[2], Answered[p[1]]) \in S
    <3>1. Answered[p[1]] \in Bytes /\ p[2] \in S
      OBVIOUS
    <3> QED BY <3>1, ExtractStepIs
  <2> QED BY <2>1
<1>3. \A k \in 1 .. N, b \in S : next[<<k, b>>] = ExtractStep(b, Answered[k])
  OBVIOUS
<1> HIDE DEF next, N, S, base
<1>4. PICK f : Recursive(f, N, S, base, next)
  BY <1>1, <1>2, RecursionExists
<1>5. Eqn(f)
  <2>1. \A i \in 1 .. N : f[i - 1] \in S /\ f[i] = next[<<i, f[i - 1]>>]
    BY <1>1, <1>4 DEF Recursive
  <2>2. \A i \in 1 .. N : f[i] = ExtractStep(f[i - 1], Answered[i])
    BY <1>3, <2>1
  <2>3. \A i \in 0 .. N : f[i] = IF i = 0 THEN base ELSE ExtractStep(f[i - 1], Answered[i])
    BY <1>4, <2>2 DEF Recursive
  <2> QED BY <1>4, <2>3 DEF Recursive
<1>6. Eqn(Extraction)
  <2>1. Extraction = CHOOSE t : Eqn(t)
    BY DEF Extraction, N, base
  <2> HIDE DEF Eqn
  <2> QED BY <1>5, <2>1
<1>7. /\ Extraction = [i \in 0 .. N |-> Extraction[i]] /\ Extraction[0] = base
      /\ \A i \in 1 .. N : Extraction[i] = ExtractStep(Extraction[i - 1], Answered[i])
  <2>1. Extraction = [i \in 0 .. N |-> Extraction[i]]
    BY <1>6
  <2>2. Extraction[0] = base
    BY <1>1, <1>6
  <2>3. \A i \in 1 .. N : Extraction[i] = ExtractStep(Extraction[i - 1], Answered[i])
    BY <1>1, <1>6
  <2> QED BY <2>1, <2>2, <2>3
<1>8. Recursive(Extraction, N, S, base, next)
  <2>1. \A i \in 1 .. N :
          Extraction[i - 1] \in S => Extraction[i] = next[<<i, Extraction[i - 1]>>]
    BY <1>3, <1>7
  <2> HIDE DEF Eqn
  <2> QED BY <1>1, <1>2, <1>7, <2>1, RecursionTyped
<1> QED BY <1>7, <1>8 DEF N, S, base, Recursive

(* The first n characters of the text, as they are shown.                  *)
Shown(out, n) ==
  out \in Seq(Bytes) /\ Len(out) = n /\ \A q \in 1 .. n : out[q] = Blank(text[q])

(* The extraction where the code of character i ends.                      *)
Reached(i) ==
  LET s == Extraction[Len(Buffer[i])]
  IN /\ s \in ExtractStates /\ ~s.esc
     /\ Len(s.out) <= i /\ Shown(s.out, Len(s.out)) /\ Len(s.out) < OutputSize
     /\ s.end => Len(s.out) = OutputSize - 1
     /\ Len(s.out) = i \/ Len(s.out) = OutputSize - 1 \/ CodeLength[i] + 6 > EscapedSize

LEMMA AnsweredIs ==
  ASSUME text \in Seq(Chars)
  PROVE  /\ Escaped \in Seq(Bytes) /\ Answered \in Seq(Bytes)
         /\ Len(Answered) = Len(Escaped) + 1 /\ Answered[Len(Escaped) + 1] = "quote"
         /\ \A i \in 0 .. Len(text) :
              /\ Len(Buffer[i]) \in 0 .. Len(Escaped)
              /\ \A j \in 1 .. Len(Buffer[i]) : Answered[j] = Buffer[i][j]
<1>1. Escaped \in Seq(Bytes)
  <2>1. Len(text) \in 0 .. Len(text)
    OBVIOUS
  <2> QED BY <2>1, BufferIs DEF Escaped
<1>2. "quote" \in Bytes
  BY DEF Bytes
<1>3. /\ Answered \in Seq(Bytes) /\ Len(Answered) = Len(Escaped) + 1
      /\ \A j \in 1 .. Len(Escaped) : Answered[j] = Escaped[j]
      /\ Answered[Len(Escaped) + 1] = "quote"
  BY <1>1, <1>2, AppendProperties DEF Answered
<1>4. ASSUME NEW i \in 0 .. Len(text)
      PROVE  /\ Len(Buffer[i]) \in 0 .. Len(Escaped)
             /\ \A j \in 1 .. Len(Buffer[i]) : Answered[j] = Buffer[i][j]
  <2>1. Buffer[i] \in Seq(Bytes)
    BY BufferIs
  <2>2. Len(Buffer[i]) \in Nat /\ Len(Escaped) \in Nat
    BY <1>1, <2>1
  <2>3. Len(Buffer[i]) <= Len(Escaped) /\ \A j \in 1 .. Len(Buffer[i]) : Escaped[j] = Buffer[i][j]
    BY BufferGrows
  <2> QED BY <1>3, <2>2, <2>3
<1> QED BY <1>1, <1>3, <1>4

(* From the end of one code to the end of the next.                        *)
LEMMA ReachedNext ==
  ASSUME text \in Seq(Chars), NEW i \in 1 .. Len(text), Reached(i - 1)
  PROVE  Reached(i)
<1> USE SizesAssumption
<1> DEFINE b == Len(Buffer[i - 1])
           s == Extraction[b]
           c == text[i]
<1>1. i - 1 \in 0 .. Len(text) /\ i \in 0 .. Len(text) /\ c \in Chars
  OBVIOUS
<1>2. /\ s \in ExtractStates /\ ~s.esc
      /\ Len(s.out) <= i - 1 /\ Shown(s.out, Len(s.out)) /\ Len(s.out) < OutputSize
      /\ s.end => Len(s.out) = OutputSize - 1
      /\ \/ Len(s.out) = i - 1 \/ Len(s.out) = OutputSize - 1
         \/ CodeLength[i - 1] + 6 > EscapedSize
  BY DEF Reached
<1>3. s.out \in Seq(Bytes) /\ Len(s.out) \in Nat
  BY <1>2 DEF ExtractStates
<1>4. Buffer[i - 1] \in Seq(Bytes) /\ b \in Nat
  <2>1. Buffer[i - 1] \in Seq(Bytes)
    BY <1>1, BufferIs
  <2> QED BY <2>1
<1>5. Code(c) \in Seq(Bytes) /\ Len(Code(c)) \in 1 .. 2
  BY <1>1, CodeIs
<1>6. /\ CodeLength[i - 1] \in Nat /\ CodeLength[i] = CodeLength[i - 1] + Len(Code(c))
      /\ CodeLength[i] \in Nat
  BY <1>1, CodeLengthIs
<1>7. /\ b < EscapedSize /\ b <= CodeLength[i - 1]
      /\ b = CodeLength[i - 1] \/ b + 6 >= EscapedSize
  BY <1>1, EscapeFits
<1>8. CASE ~(b + 6 < EscapedSize)
  <2>1. Buffer[i] = Buffer[i - 1]
    BY <1>8, BufferIs
  <2>2. CodeLength[i] + 6 > EscapedSize
    <3> DEFINE l == Len(Code(c))
    <3>1. l \in 1 .. 2 /\ CodeLength[i] = CodeLength[i - 1] + l
      BY <1>5, <1>6
    <3>2. b \in Nat
      BY <1>4
    <3> HIDE DEF b, l
    <3> QED BY <1>6, <1>7, <1>8, <3>1, <3>2
  <2> QED BY <1>2, <1>3, <2>1, <2>2 DEF Reached
<1>9. CASE b + 6 < EscapedSize
  <2> DEFINE r == Extraction[Len(Buffer[i])]
             l == Len(Code(c))
  <2>1. Buffer[i] = Buffer[i - 1] \o Code(c)
    BY <1>9, BufferIs
  <2>2. /\ Len(Buffer[i]) = b + l
        /\ \A j \in 1 .. l : Buffer[i][b + j] = Code(c)[j]
    <3> HIDE DEF c
    <3> QED BY <1>4, <1>5, <2>1, ConcatParts
  <2>3. /\ b + l <= Len(Escaped) /\ Len(Escaped) \in Nat
        /\ \A j \in 1 .. b + l : Answered[j] = Buffer[i][j]
    <3>1. /\ Len(Buffer[i]) \in 0 .. Len(Escaped)
          /\ \A j \in 1 .. Len(Buffer[i]) : Answered[j] = Buffer[i][j]
      BY <1>1, AnsweredIs
    <3>2. Len(Escaped) \in Nat
      BY AnsweredIs
    <3> HIDE DEF b, l
    <3> QED BY <2>2, <3>1, <3>2
  <2>4. /\ Answered[b + 1] = Code(c)[1] /\ b + 1 \in 1 .. Len(Answered)
        /\ l = 2 => Answered[b + 2] = Code(c)[2] /\ b + 2 \in 1 .. Len(Answered)
    <3> HIDE DEF b, l
    <3>1. l \in 1 .. 2 /\ Len(Answered) = Len(Escaped) + 1
      BY <1>5, AnsweredIs DEF l
    <3>2. b + 1 \in 1 .. b + l
      BY <1>4, <3>1
    <3>3. l = 2 => b + 2 \in 1 .. b + l
      BY <1>4, <3>1
    <3>4. b + 1 \in 1 .. Len(Answered) /\ (l = 2 => b + 2 \in 1 .. Len(Answered))
      BY <1>4, <2>3, <3>1
    <3>5. Answered[b + 1] = Buffer[i][b + 1] /\ (l = 2 => Answered[b + 2] = Buffer[i][b + 2])
      BY <2>3, <3>2, <3>3
    <3>6. Buffer[i][b + 1] = Code(c)[1] /\ (l = 2 => Buffer[i][b + 2] = Code(c)[2])
      <4> HIDE DEF c
      <4>1. 1 \in 1 .. l /\ (l = 2 => 2 \in 1 .. l)
        BY <3>1
      <4> QED BY <2>2, <4>1
    <3> QED BY <3>4, <3>5, <3>6
  <2>5. r = IF l = 1 THEN ExtractStep(s, Code(c)[1])
            ELSE ExtractStep(ExtractStep(s, Code(c)[1]), Code(c)[2])
    <3>1. Extraction[b + 1] = ExtractStep(s, Code(c)[1])
      <4>1. b + 1 - 1 = b
        BY <1>4
      <4> QED BY <2>4, <4>1, AnsweredIs, ExtractionIs
    <3>2. l = 2 => Extraction[b + 2] = ExtractStep(Extraction[b + 1], Code(c)[2])
      <4>1. b + 2 - 1 = b + 1
        BY <1>4
      <4> QED BY <2>4, <4>1, AnsweredIs, ExtractionIs
    <3>3. l \in 1 .. 2 /\ r = Extraction[b + l]
      BY <1>5, <2>2
    <3> HIDE DEF b, l, r, s, c
    <3>4. CASE l = 1
      BY <3>1, <3>3, <3>4
    <3>5. CASE l = 2
      BY <3>1, <3>2, <3>3, <3>5
    <3> QED BY <3>3, <3>4, <3>5
  <2>6. /\ r \in ExtractStates /\ ~r.esc
        /\ \/ Len(s.out) = OutputSize - 1 /\ r.out = s.out
           \/ Len(s.out) < OutputSize - 1 /\ ~r.end /\ r.out = Append(s.out, Blank(c))
    <3> HIDE DEF r, s, c
    <3> QED BY <1>1, <1>2, <2>5, ExtractCode DEF c
  <2>7. CASE Len(s.out) = OutputSize - 1 /\ r.out = s.out
    <3> HIDE DEF r, s
    <3>1. /\ Len(r.out) <= i /\ Shown(r.out, Len(r.out)) /\ Len(r.out) < OutputSize
          /\ Len(r.out) = OutputSize - 1
      BY <1>2, <1>3, <2>7
    <3> QED BY <2>6, <3>1 DEF Reached, r
  <2>8. CASE Len(s.out) < OutputSize - 1 /\ ~r.end /\ r.out = Append(s.out, Blank(c))
    <3>1. Len(s.out) = i - 1
      <4> HIDE DEF s, b
      <4>1. CodeLength[i - 1] = b
        BY <1>4, <1>7, <1>9
      <4>2. ~(b + 6 > EscapedSize)
        BY <1>4, <1>9
      <4>3. Len(s.out) # OutputSize - 1
        BY <1>3, <2>8
      <4> QED BY <1>2, <4>1, <4>2, <4>3
    <3>2. Blank(c) \in Bytes
      BY <1>1 DEF Blank, Bytes
    <3>3. /\ r.out \in Seq(Bytes) /\ Len(r.out) = i /\ r.out[i] = Blank(c)
          /\ \A q \in 1 .. i - 1 : r.out[q] = s.out[q]
      <4> HIDE DEF s, r, c
      <4> QED BY <1>3, <2>8, <3>1, <3>2, AppendProperties
    <3>4. Shown(r.out, i)
      <4> HIDE DEF s, r
      <4> QED BY <1>2, <3>1, <3>3 DEF Shown
    <3> QED
      <4> HIDE DEF s
      <4>1. Len(r.out) < OutputSize /\ Len(r.out) <= i
        BY <2>8, <3>1, <3>3
      <4> QED BY <2>6, <2>8, <3>3, <3>4, <4>1 DEF Reached
  <2> QED BY <2>6, <2>7, <2>8
<1> QED BY <1>8, <1>9

(* What is left of a text in the end.                                      *)
LEMMA TextKept == ASSUME text \in Seq(Chars) PROVE TextSurvives
<1> USE SizesAssumption
<1> DEFINE N == Len(text)
           b == Len(Escaped)
           s == Extraction[b]
           out == Extracted
           blanked == [i \in DOMAIN text |-> IF text[i] = "CTL" THEN "SP" ELSE text[i]]
           Good == {i \in 0 .. N : Reached(i)}
<1>1. N \in Nat /\ N \in 0 .. N
  OBVIOUS
<1>2. Reached(N)
  <2>1. Reached(0)
    <3>1. Buffer[0] = <<>> /\ CodeLength[0] = 0
      BY BufferIs, CodeLengthIs
    <3>2. Extraction[0] = [out |-> <<>>, esc |-> FALSE, end |-> FALSE]
      BY AnsweredIs, ExtractionIs
    <3>3. Extraction[Len(Buffer[0])] = [out |-> <<>>, esc |-> FALSE, end |-> FALSE]
      BY <3>1, <3>2
    <3> QED BY <3>3 DEF Reached, Shown, ExtractStates
  <2>2. 0 \in Good /\ \A i \in 1 .. N : i - 1 \in Good => i \in Good
    BY <1>1, <2>1, ReachedNext
  <2>3. \A i \in 0 .. N : i \in Good
    <3> HIDE DEF Good, N
    <3> QED BY <1>1, <2>2, Induct
  <2> QED BY <1>1, <2>3
<1>3. /\ s \in ExtractStates /\ ~s.esc
      /\ Len(s.out) <= N /\ Shown(s.out, Len(s.out)) /\ Len(s.out) < OutputSize
      /\ Len(s.out) = N \/ Len(s.out) = OutputSize - 1 \/ CodeLength[N] + 6 > EscapedSize
  BY <1>2 DEF Reached, Escaped
<1>4. out = s.out
  <2>1. /\ Len(Answered) = b + 1 /\ Answered[b + 1] = "quote" /\ b \in Nat
        /\ Answered \in Seq(Bytes)
    BY AnsweredIs
  <2>2. Extraction[b + 1] = ExtractStep(s, "quote")
    <3> HIDE DEF b
    <3>1. b + 1 \in 1 .. Len(Answered) /\ b + 1 - 1 = b
      BY <2>1
    <3> QED BY <2>1, <3>1, ExtractionIs
  <2>3. ExtractStep(s, "quote").out = s.out
    <3> HIDE DEF s
    <3> QED BY <1>3 DEF ExtractStep, ExtractStates
  <2> QED BY <2>1, <2>2, <2>3 DEF Extracted
<1>5. /\ out \in Seq(Bytes) /\ Len(out) \in Nat /\ Len(out) <= N
      /\ \A q \in 1 .. Len(out) : out[q] = Blank(text[q])
  <2> HIDE DEF out, s
  <2> QED BY <1>3, <1>4 DEF Shown
<1>6. out = SubSeq(blanked, 1, Len(out))
  <2>1. blanked \in Seq(Bytes) /\ Len(blanked) = N /\ \A q \in 1 .. N : blanked[q] = Blank(text[q])
    <3>1. DOMAIN text = 1 .. N /\ \A q \in 1 .. N : Blank(text[q]) \in Bytes
      BY DEF Blank, Bytes
    <3> QED BY <3>1 DEF Blank
  <2> HIDE DEF blanked, out
  <2>2. \A q \in 1 .. Len(out) : q \in 1 .. N /\ out[q] = blanked[q]
    BY <1>1, <1>5, <2>1
  <2>3. /\ Len(SubSeq(blanked, 1, Len(out))) = Len(out)
        /\ SubSeq(blanked, 1, Len(out)) \in Seq(Bytes)
        /\ \A q \in 1 .. Len(out) : SubSeq(blanked, 1, Len(out))[q] = blanked[q]
    BY <1>1, <1>5, <2>1
  <2> QED BY <1>5, <2>2, <2>3, SeqEqual
<1>7. b < EscapedSize
  BY <1>1, EscapeFits DEF Escaped
<1>8. CodeLength[N] + 6 <= EscapedSize => Len(out) = N \/ Len(out) = OutputSize - 1
  <2>1. CodeLength[N] \in Nat
    BY <1>1, CodeLengthIs
  <2> HIDE DEF s, out
  <2> QED BY <1>3, <1>4, <2>1
<1>9. Len(out) < OutputSize
  BY <1>3, <1>4
<1> HIDE DEF s, b
<1> QED BY <1>5, <1>6, <1>7, <1>8, <1>9 DEF TextSurvives, b

-----------------------------------------------------------------------------
(***************************************************************************)
(* The words print_wrapped_text() prints, for every text and every width:  *)
(* all that is printed lies before the cursor, and a line end is printed   *)
(* for each one of the text and where a word does not fit.                 *)
(***************************************************************************)
Cursors == [line : Nat, from : Nat, col : Nat, start : BOOLEAN]

LEMMA PrintWordIs ==
  ASSUME NEW c \in Cursors, NEW len \in Nat
  PROVE  PrintWord(c, len) \in Cursors
<1>1. c.line \in Nat /\ c.from \in Nat /\ c.col \in Nat /\ c.start \in BOOLEAN
  BY DEF Cursors
<1>2. CASE len = 0
  BY <1>1, <1>2 DEF PrintWord, Cursors
<1>3. CASE len > 0 /\ c.start
  BY <1>1, <1>3 DEF PrintWord, Cursors
<1>4. CASE len > 0 /\ ~c.start
  <2>1. PrintWord(c, len) = IF TooWide(c.col, len)
                            THEN [c EXCEPT !.line = @ + 1, !.from = 0, !.col = len]
                            ELSE [c EXCEPT !.from = c.col + 1, !.col = c.col + 1 + len]
    BY <1>4 DEF PrintWord
  <2>2. c.line + 1 \in Nat /\ c.col + 1 \in Nat /\ c.col + 1 + len \in Nat
    BY <1>1
  <2>3. [c EXCEPT !.line = @ + 1, !.from = 0, !.col = len] \in Cursors
    BY <1>1, <2>2 DEF Cursors
  <2>4. [c EXCEPT !.from = c.col + 1, !.col = c.col + 1 + len] \in Cursors
    BY <1>1, <2>2 DEF Cursors
  <2> QED BY <2>1, <2>3, <2>4
<1> QED BY <1>1, <1>2, <1>3, <1>4

LEMMA CursorIs ==
  ASSUME words \in Seq(Nat)
  PROVE  /\ Cursor \in [0 .. Len(words) -> Cursors]
         /\ Cursor[0] = [line |-> 1, from |-> 0, col |-> 0, start |-> TRUE]
         /\ \A w \in 1 .. Len(words) : Cursor[w] = PrintWord(Cursor[w - 1], words[w])
<1> DEFINE N == Len(words)
           S == Cursors
           base == [line |-> 1, from |-> 0, col |-> 0, start |-> TRUE]
           next == [p \in (1 .. N) \X S |-> PrintWord(p[2], words[p[1]])]
           Eqn(t) == t = [w \in 0 .. N |-> IF w = 0 THEN base
                                           ELSE PrintWord(t[w - 1], words[w])]
<1>1. N \in Nat /\ base \in S
  BY DEF Cursors
<1>2. next \in [(1 .. N) \X S -> S]
  <2>1. ASSUME NEW p \in (1 .. N) \X S PROVE PrintWord(p[2], words[p[1]]) \in S
    <3>1. words[p[1]] \in Nat /\ p[2] \in S
      OBVIOUS
    <3> QED BY <3>1, PrintWordIs
  <2> QED BY <2>1
<1>3. \A k \in 1 .. N, b \in S : next[<<k, b>>] = PrintWord(b, words[k])
  OBVIOUS
<1> HIDE DEF next, N, S, base
<1>4. PICK f : Recursive(f, N, S, base, next)
  BY <1>1, <1>2, RecursionExists
<1>5. Eqn(f)
  <2>1. \A i \in 1 .. N : f[i - 1] \in S /\ f[i] = next[<<i, f[i - 1]>>]
    BY <1>1, <1>4 DEF Recursive
  <2>2. \A i \in 1 .. N : f[i] = PrintWord(f[i - 1], words[i])
    BY <1>3, <2>1
  <2>3. \A i \in 0 .. N : f[i] = IF i = 0 THEN base ELSE PrintWord(f[i - 1], words[i])
    BY <1>4, <2>2 DEF Recursive
  <2> QED BY <1>4, <2>3 DEF Recursive
<1>6. Eqn(Cursor)
  <2>1. Cursor = CHOOSE t : Eqn(t)
    BY DEF Cursor, N, base
  <2> HIDE DEF Eqn
  <2> QED BY <1>5, <2>1
<1>7. /\ Cursor = [w \in 0 .. N |-> Cursor[w]] /\ Cursor[0] = base
      /\ \A w \in 1 .. N : Cursor[w] = PrintWord(Cursor[w - 1], words[w])
  <2>1. Cursor = [w \in 0 .. N |-> Cursor[w]]
    BY <1>6
  <2>2. Cursor[0] = base
    BY <1>1, <1>6
  <2>3. \A w \in 1 .. N : Cursor[w] = PrintWord(Cursor[w - 1], words[w])
    BY <1>1, <1>6
  <2> QED BY <2>1, <2>2, <2>3
<1>8. Recursive(Cursor, N, S, base, next)
  <2>1. \A w \in 1 .. N :
          Cursor[w - 1] \in S => Cursor[w] = next[<<w, Cursor[w - 1]>>]
    BY <1>3, <1>7
  <2> HIDE DEF Eqn
  <2> QED BY <1>1, <1>2, <1>7, <2>1, RecursionTyped
<1> QED BY <1>7, <1>8 DEF N, S, base, Recursive

(* What one word or line end does.                                         *)
LEMMA CursorStep ==
  ASSUME words \in Seq(Nat), NEW w \in 1 .. Len(words)
  PROVE  LET b == Cursor[w - 1]
             c == Cursor[w]
             n == words[w]
         IN /\ b \in Cursors /\ c \in Cursors /\ n \in Nat
            /\ \/ n = 0 /\ c.line = b.line + 1 /\ c.col = 0 /\ c.start
               \/ /\ n > 0 /\ b.start /\ ~c.start
                  /\ c.line = b.line /\ c.from = 0 /\ c.col = n
               \/ /\ n > 0 /\ ~b.start /\ ~c.start /\ b.col + 1 + n > WrapWidth
                  /\ c.line = b.line + 1 /\ c.from = 0 /\ c.col = n
               \/ /\ n > 0 /\ ~b.start /\ ~c.start /\ b.col + 1 + n <= WrapWidth
                  /\ c.line = b.line /\ c.from = b.col + 1 /\ c.col = b.col + 1 + n
<1> DEFINE b == Cursor[w - 1]
           c == Cursor[w]
           n == words[w]
<1>1. b \in Cursors /\ c \in Cursors /\ n \in Nat /\ c = PrintWord(b, n)
  <2>1. w - 1 \in 0 .. Len(words) /\ w \in 0 .. Len(words) /\ n \in Nat
    OBVIOUS
  <2> QED BY <2>1, CursorIs
<1> HIDE DEF b, c, n
<1>2. b.line \in Nat /\ b.col \in Nat /\ b.start \in BOOLEAN /\ WrapWidth \in Nat
  BY <1>1, SizesAssumption DEF Cursors
<1>3. CASE n = 0
  <2>1. c = [line |-> b.line + 1, from |-> 0, col |-> 0, start |-> TRUE]
    BY <1>1, <1>3 DEF PrintWord
  <2> QED BY <1>1, <1>3, <2>1 DEF b, c, n
<1>4. CASE n > 0 /\ b.start
  <2>1. c = [line |-> b.line, from |-> 0, col |-> n, start |-> FALSE]
    BY <1>1, <1>4 DEF PrintWord
  <2> QED BY <1>1, <1>4, <2>1 DEF b, c, n
<1>5. CASE n > 0 /\ ~b.start /\ b.col + 1 + n > WrapWidth
  <2>1. c = [b EXCEPT !.line = @ + 1, !.from = 0, !.col = n]
    BY <1>1, <1>5 DEF PrintWord, TooWide
  <2>2. c.line = b.line + 1 /\ c.from = 0 /\ c.col = n /\ c.start = b.start
    BY <1>1, <2>1 DEF Cursors
  <2> QED BY <1>1, <1>5, <2>2 DEF b, c, n
<1>6. CASE n > 0 /\ ~b.start /\ b.col + 1 + n <= WrapWidth
  <2>1. ~TooWide(b.col, n)
    BY <1>1, <1>2, <1>6 DEF TooWide
  <2>2. c = [b EXCEPT !.from = b.col + 1, !.col = b.col + 1 + n]
    BY <1>1, <1>6, <2>1 DEF PrintWord
  <2>3. /\ c.line = b.line /\ c.from = b.col + 1 /\ c.col = b.col + 1 + n
        /\ c.start = b.start
    BY <1>1, <2>2 DEF Cursors
  <2> QED BY <1>1, <1>6, <2>3 DEF b, c, n
<1> QED BY <1>1, <1>2, <1>3, <1>4, <1>5, <1>6

(* All that is printed lies before the cursor.                             *)
Before(w) ==
  \A v \in WordsPrinted(w) :
    \/ Cursor[v].line < Cursor[w].line
    \/ /\ Cursor[v].line = Cursor[w].line /\ Cursor[v].col <= Cursor[w].col
       /\ ~Cursor[w].start

LEMMA PrintedBefore ==
  ASSUME words \in Seq(Nat)
  PROVE  \A w \in 0 .. Len(words) : Before(w)
<1> DEFINE N == Len(words)
           Good == {w \in 0 .. N : Before(w)}
<1>1. 0 \in Good
  BY DEF Before, WordsPrinted
<1>2. ASSUME NEW w \in 1 .. N, w - 1 \in Good PROVE w \in Good
  <2> SUFFICES ASSUME NEW v \in WordsPrinted(w)
               PROVE  \/ Cursor[v].line < Cursor[w].line
                      \/ /\ Cursor[v].line = Cursor[w].line /\ Cursor[v].col <= Cursor[w].col
                         /\ ~Cursor[w].start
    BY DEF Before
  <2>1. CASE v = w
    <3>1. ~Cursor[w].start /\ Cursor[w].line \in Nat /\ Cursor[w].col \in Nat
      BY <2>1, CursorStep DEF WordsPrinted, Cursors
    <3> QED BY <2>1, <3>1
  <2>2. CASE v # w
    <3> DEFINE a == Cursor[v]
               b == Cursor[w - 1]
               c == Cursor[w]
               n == words[w]
    <3>1. v \in WordsPrinted(w - 1) /\ v \in 0 .. N
      BY <2>2 DEF WordsPrinted
    <3>2. a.line < b.line \/ (a.line = b.line /\ a.col <= b.col /\ ~b.start)
      BY <1>2, <3>1 DEF Before
    <3>3. a \in Cursors
      BY <3>1, CursorIs
    <3>4. b \in Cursors /\ c \in Cursors /\ n \in Nat
      BY CursorStep
    <3>5. \/ n = 0 /\ c.line = b.line + 1 /\ c.col = 0 /\ c.start
          \/ /\ n > 0 /\ b.start /\ ~c.start
             /\ c.line = b.line /\ c.from = 0 /\ c.col = n
          \/ /\ n > 0 /\ ~b.start /\ ~c.start /\ b.col + 1 + n > WrapWidth
             /\ c.line = b.line + 1 /\ c.from = 0 /\ c.col = n
          \/ /\ n > 0 /\ ~b.start /\ ~c.start /\ b.col + 1 + n <= WrapWidth
             /\ c.line = b.line /\ c.from = b.col + 1 /\ c.col = b.col + 1 + n
      BY CursorStep
    <3> HIDE DEF a, b, c, n
    <3>6. a.line < c.line \/ (a.line = c.line /\ a.col <= c.col /\ ~c.start)
      BY <3>2, <3>3, <3>4, <3>5 DEF Cursors
    <3> QED BY <3>6 DEF a, c
  <2> QED BY <2>1, <2>2
<1>3. \A w \in 0 .. N : w \in Good
  <2> HIDE DEF Good
  <2>1. N \in Nat
    OBVIOUS
  <2> QED BY <1>1, <1>2, <2>1, Induct
<1> QED BY <1>3

(* A line end is printed for each of the text, and for each word that does *)
(* not fit.                                                                *)
LEMMA LinesPrinted ==
  ASSUME words \in Seq(Nat)
  PROVE  \A w \in 0 .. Len(words) :
           Cursor[w].line = 1 + Cardinality(LineEnds(w)) + Cardinality(SoftBreaks(w))
<1> DEFINE N == Len(words)
           Lines(w) == /\ IsFiniteSet(LineEnds(w)) /\ IsFiniteSet(SoftBreaks(w))
                       /\ Cursor[w].line = 1 + Cardinality(LineEnds(w)) + Cardinality(SoftBreaks(w))
           Good == {w \in 0 .. N : Lines(w)}
<1>1. 0 \in Good
  <2>1. LineEnds(0) = {} /\ SoftBreaks(0) = {}
    BY DEF LineEnds, SoftBreaks, WordsPrinted
  <2>2. Cursor[0].line = 1
    BY CursorIs
  <2>3. Lines(0)
    <3>1. IsFiniteSet({}) /\ Cardinality({}) = 0
      BY FS_EmptySet
    <3>2. IsFiniteSet(LineEnds(0)) /\ IsFiniteSet(SoftBreaks(0))
      BY <2>1, <3>1, Zenon
    <3>3. Cardinality(LineEnds(0)) = 0 /\ Cardinality(SoftBreaks(0)) = 0
      BY <2>1, <3>1, Zenon
    <3> QED BY <2>2, <3>2, <3>3
  <2> QED BY <2>3
<1>2. ASSUME NEW w \in 1 .. N, w - 1 \in Good PROVE w \in Good
  <2> DEFINE b == Cursor[w - 1]
             c == Cursor[w]
             n == words[w]
             e == Cardinality(LineEnds(w - 1))
             f == Cardinality(SoftBreaks(w - 1))
  <2>1. /\ IsFiniteSet(LineEnds(w - 1)) /\ IsFiniteSet(SoftBreaks(w - 1))
        /\ b.line = 1 + e + f
    BY <1>2
  <2>2. e \in Nat /\ f \in Nat
    BY <2>1, FS_CardinalityType
  <2>3. w \notin LineEnds(w - 1) /\ w \notin SoftBreaks(w - 1)
    BY DEF LineEnds, SoftBreaks, WordsPrinted
  <2>4. LineEnds(w) = IF n = 0 THEN LineEnds(w - 1) \union {w} ELSE LineEnds(w - 1)
    BY DEF LineEnds
  <2>5. SoftBreaks(w) = IF n # 0 /\ w - 1 \in WordsPrinted(w - 1) /\ c.line # b.line
                        THEN SoftBreaks(w - 1) \union {w} ELSE SoftBreaks(w - 1)
    BY DEF SoftBreaks, WordsPrinted
  <2>6. w - 1 \in WordsPrinted(w - 1) <=> ~b.start
    <3>1. CASE w = 1
      BY <3>1, CursorIs DEF WordsPrinted
    <3>2. CASE w # 1
      <4>1. w - 1 \in 1 .. N
        BY <3>2
      <4>2. words[w - 1] = 0 <=> b.start
        BY <4>1, CursorStep
      <4> QED BY <4>1, <4>2 DEF WordsPrinted
    <3> QED BY <3>1, <3>2
  <2>7. /\ IsFiniteSet(LineEnds(w)) /\ IsFiniteSet(SoftBreaks(w))
        /\ Cardinality(LineEnds(w)) = IF n = 0 THEN e + 1 ELSE e
        /\ Cardinality(SoftBreaks(w)) = IF n # 0 /\ ~b.start /\ c.line # b.line
                                        THEN f + 1 ELSE f
    BY <2>1, <2>3, <2>4, <2>5, <2>6, FS_AddElement
  <2>8. c.line = IF n = 0 \/ (n # 0 /\ ~b.start /\ c.line # b.line)
                 THEN b.line + 1 ELSE b.line
    BY CursorStep DEF Cursors
  <2> HIDE DEF b, c, n, e, f
  <2>9. c.line = 1 + Cardinality(LineEnds(w)) + Cardinality(SoftBreaks(w))
    <3> DEFINE e2 == Cardinality(LineEnds(w))
               f2 == Cardinality(SoftBreaks(w))
    <3>1. /\ e2 = IF n = 0 THEN e + 1 ELSE e
          /\ f2 = IF n # 0 /\ ~b.start /\ c.line # b.line THEN f + 1 ELSE f
      BY <2>7
    <3> HIDE DEF e2, f2
    <3>2. CASE n = 0
      BY <2>1, <2>2, <2>8, <3>1, <3>2 DEF e2, f2
    <3>3. CASE n # 0 /\ ~b.start /\ c.line # b.line
      BY <2>1, <2>2, <2>8, <3>1, <3>3 DEF e2, f2
    <3>4. CASE n # 0 /\ ~(~b.start /\ c.line # b.line)
      BY <2>1, <2>2, <2>8, <3>1, <3>4 DEF e2, f2
    <3> QED BY <3>2, <3>3, <3>4
  <2>10. Lines(w)
    BY <2>7, <2>9 DEF c
  <2> QED BY <2>10
<1>3. \A w \in 0 .. N : w \in Good
  <2> HIDE DEF Good
  <2>1. N \in Nat
    OBVIOUS
  <2> QED BY <1>1, <1>2, <2>1, Induct
<1> QED BY <1>3

LEMMA WordsPrintedWell == ASSUME words \in Seq(Nat) PROVE WordsKept
<1> DEFINE n == Len(words)
<1>1. n \in Nat /\ n \in 0 .. n
  OBVIOUS
<1>2. ASSUME NEW v \in WordsPrinted(n), NEW w \in WordsPrinted(n), v < w
      PROVE  \/ Cursor[v].line < Cursor[w].line
             \/ Cursor[v].line = Cursor[w].line /\ Cursor[v].col < Cursor[w].from
  <2> DEFINE a == Cursor[v]
             b == Cursor[w - 1]
             c == Cursor[w]
  <2>1. v \in 0 .. n /\ w \in 1 .. n /\ words[w] # 0 /\ w - 1 \in 0 .. n /\ v \in WordsPrinted(w - 1)
    BY <1>2 DEF WordsPrinted
  <2>2. a.line < b.line \/ (a.line = b.line /\ a.col <= b.col /\ ~b.start)
    BY <2>1, PrintedBefore DEF Before
  <2>3. a \in Cursors /\ b \in Cursors /\ c \in Cursors
    <3>1. a \in Cursors
      BY <2>1, CursorIs
    <3> QED BY <2>1, <3>1, CursorStep
  <2>4. \/ b.start /\ c.line = b.line
        \/ c.line = b.line + 1
        \/ c.line = b.line /\ c.from = b.col + 1
    BY <2>1, CursorStep
  <2> HIDE DEF a, b, c
  <2>5. a.line < c.line \/ (a.line = c.line /\ a.col < c.from)
    BY <2>2, <2>3, <2>4 DEF Cursors
  <2> QED BY <2>5 DEF a, c
<1>3. ASSUME NEW w \in WordsPrinted(n)
      PROVE  /\ Cursor[w].col = Cursor[w].from + words[w]
             /\ Cursor[w].from = 0 \/ Cursor[w].col <= WrapWidth
  <2>1. w \in 1 .. n /\ words[w] # 0
    BY DEF WordsPrinted
  <2> QED BY <2>1, CursorStep DEF Cursors
<1>4. ASSUME NEW w \in SoftBreaks(n)
      PROVE  Cursor[w - 1].col + 1 + words[w] > WrapWidth
  <2>1. /\ w \in 1 .. n /\ words[w] # 0 /\ w - 1 \in 1 .. n /\ words[w - 1] # 0
        /\ Cursor[w].line # Cursor[w - 1].line
    BY DEF SoftBreaks, WordsPrinted
  <2>2. ~Cursor[w - 1].start
    BY <2>1, CursorStep
  <2> QED BY <2>1, <2>2, CursorStep
<1>5. Cursor[n].line = 1 + Cardinality(LineEnds(n)) + Cardinality(SoftBreaks(n))
  BY <1>1, LinesPrinted
<1> HIDE DEF n
<1> QED BY <1>2, <1>3, <1>4, <1>5 DEF WordsKept, n

-----------------------------------------------------------------------------
(***************************************************************************)
(* The processes a command line names are those that are followed, for     *)
(* every number of words, processes and targets.                           *)
(***************************************************************************)
LEMMA ListedAppend ==
  ASSUME NEW S, NEW s \in Seq(S), NEW x \in S
  PROVE  Listed(Append(s, x)) = Listed(s) \union {x}
<1> DEFINE m == Len(s)
           a == Append(s, x)
<1>1. m \in Nat /\ DOMAIN s = 1 .. m
  OBVIOUS
<1>2. DOMAIN a = 1 .. m + 1 /\ (\A j \in 1 .. m : a[j] = s[j]) /\ a[m + 1] = x
  OBVIOUS
<1> HIDE DEF m, a
<1>3. 1 .. m + 1 = (1 .. m) \union {m + 1}
  BY <1>1
<1>4. {a[j] : j \in 1 .. m + 1} = {s[j] : j \in 1 .. m} \union {x}
  BY <1>2, <1>3
<1> QED BY <1>1, <1>2, <1>4 DEF Listed, a

LEMMA ListedConcat ==
  ASSUME NEW S, NEW s \in Seq(S), NEW t \in Seq(S)
  PROVE  Listed(s \o t) = Listed(s) \union Listed(t)
<1> DEFINE m == Len(s)
           n == Len(t)
           c == s \o t
<1>1. m \in Nat /\ n \in Nat /\ DOMAIN s = 1 .. m /\ DOMAIN t = 1 .. n
  OBVIOUS
<1>2. /\ DOMAIN c = 1 .. m + n
      /\ \A j \in 1 .. m : c[j] = s[j]
      /\ \A j \in 1 .. n : c[m + j] = t[j]
  <2>1. Len(c) = m + n /\ c \in Seq(S)
    BY ConcatProperties
  <2>2. DOMAIN c = 1 .. Len(c)
    BY <2>1
  <2> QED BY <2>1, <2>2, ConcatParts
<1> HIDE DEF m, n, c
<1>3. \A j \in 1 .. m + n : j \in 1 .. m \/ \E k \in 1 .. n : j = m + k
  <2> SUFFICES ASSUME NEW j \in 1 .. m + n, j \notin 1 .. m PROVE \E k \in 1 .. n : j = m + k
    OBVIOUS
  <2>1. j - m \in 1 .. n /\ j = m + (j - m)
    BY <1>1
  <2> QED BY <2>1
<1>4. \A j \in 1 .. m : j \in 1 .. m + n
  BY <1>1
<1>5. \A k \in 1 .. n : m + k \in 1 .. m + n
  BY <1>1
<1>6. {c[j] : j \in 1 .. m + n} = {s[j] : j \in 1 .. m} \union {t[j] : j \in 1 .. n}
  BY <1>2, <1>3, <1>4, <1>5
<1> QED BY <1>1, <1>2, <1>6 DEF Listed, c

LEMMA CutIs ==
  ASSUME NEW S, NEW s \in Seq(S), NEW n \in Nat
  PROVE  /\ Cut(s, n) \in Seq(S) /\ Listed(Cut(s, n)) \subseteq Listed(s)
         /\ Len(Cut(s, n)) = IF Len(s) < n THEN Len(s) ELSE n
         /\ \A j \in 1 .. Len(Cut(s, n)) : j \in 1 .. Len(s) /\ Cut(s, n)[j] = s[j]
         /\ Len(s) <= n => Cut(s, n) = s
<1> DEFINE m == IF Len(s) < n THEN Len(s) ELSE n
           c == SubSeq(s, 1, m)
<1>1. m \in Nat /\ m <= Len(s) /\ Len(s) \in Nat
  OBVIOUS
<1> HIDE DEF m
<1>2. c \in Seq(S) /\ Len(c) = m /\ DOMAIN c = 1 .. m /\ \A j \in 1 .. m : c[j] = s[j]
  BY <1>1
<1>3. DOMAIN s = 1 .. Len(s) /\ \A j \in 1 .. m : j \in 1 .. Len(s)
  BY <1>1
<1>4. Listed(c) \subseteq Listed(s)
  <2> HIDE DEF c
  <2> QED BY <1>2, <1>3 DEF Listed
<1>5. m = Len(s) => c = s
  <2> HIDE DEF c
  <2> QED BY <1>2, SeqEqual
<1> HIDE DEF c
<1>6. Cut(s, n) = c
  BY DEF Cut, c, m
<1>7. Len(s) <= n => m = Len(s)
  BY <1>1 DEF m
<1> QED BY <1>2, <1>3, <1>4, <1>5, <1>6, <1>7 DEF m

-----------------------------------------------------------------------------
(* Every process is in the kernel's list once, so that get_all_pids()      *)
(* gives the first MAX_PROCESSES of them, once each.                       *)
LEMMA AllPidsIs ==
  /\ AllPids \in Seq(Pids) /\ Listed(AllPids) = Searched
  /\ \A i, j \in 1 .. Len(AllPids) : AllPids[i] = AllPids[j] => i = j
<1> DEFINE n == Cardinality(Pids)
           Once(s) == \A i, j \in DOMAIN s : s[i] = s[j] => i = j
<1>1. n \in Nat /\ ExistsBijection(1 .. n, Pids)
  BY PidsAssumption, FS_CardinalityType
<1>2. PICK f \in Bijection(1 .. n, Pids) : TRUE
  BY <1>1 DEF ExistsBijection
<1>3. f \in [1 .. n -> Pids] /\ Once(f)
  BY <1>2 DEF Bijection, Injection, IsInjective
<1>4. ProcessList \in [1 .. n -> Pids] /\ Once(ProcessList)
  <2>1. ProcessList = CHOOSE s \in [1 .. n -> Pids] : Once(s)
    BY DEF ProcessList
  <2> HIDE DEF Once
  <2> QED BY <1>3, <2>1
<1>5. /\ ProcessList \in Seq(Pids) /\ Len(ProcessList) = n
      /\ DOMAIN ProcessList = 1 .. n
  BY <1>1, <1>4
<1> DEFINE m == IF n < MaxProcesses THEN n ELSE MaxProcesses
<1>6. MaxProcesses \in Nat /\ m \in Nat
  BY <1>1, TargetBoundsAssumption
<1>7. /\ AllPids \in Seq(Pids) /\ Len(AllPids) = m
      /\ \A i \in 1 .. m : i \in 1 .. n /\ AllPids[i] = ProcessList[i]
  BY <1>1, <1>5, <1>6, CutIs DEF AllPids
<1>8. \A i \in 1 .. n : i <= MaxProcesses <=> i \in 1 .. m
  BY <1>1, <1>6
<1>9. Listed(AllPids) = Searched
  <2>1. DOMAIN AllPids = 1 .. m
    BY <1>6, <1>7
  <2> HIDE DEF m
  <2> QED BY <1>5, <1>7, <1>8, <2>1 DEF Listed, Searched
<1> HIDE DEF m
<1> QED BY <1>4, <1>7, <1>9

(* The search finds the first processes that match, up to its limit.       *)
LEMMA FoundIs ==
  ASSUME matches \in [Named -> SUBSET Pids], NEW name \in Named, NEW max \in Nat
  PROVE  LET list == FindPidsByName(name, max)
             all == Cardinality(Asked(name))
         IN /\ list \in Seq(Pids) /\ Len(list) <= max /\ Listed(list) \subseteq Asked(name)
            /\ \/ Len(list) = all /\ Listed(list) = Asked(name)
               \/ Len(list) = max /\ max < all
<1> DEFINE N == Len(AllPids)
           P == matches[name]
           S == Seq(Pids)
           Take(s, p) == IF p \in P /\ Len(s) < max THEN Append(s, p) ELSE s
           next == [p \in (1 .. N) \X S |-> Take(p[2], AllPids[p[1]])]
           Eqn(t) == t = [i \in 0 .. N |->
                            IF i = 0 THEN <<>>
                            ELSE IF AllPids[i] \in matches[name] /\ Len(t[i - 1]) < max
                            THEN Append(t[i - 1], AllPids[i])
                            ELSE t[i - 1]]
           found == CHOOSE t : Eqn(t)
<1>1. N \in Nat /\ <<>> \in S /\ P \subseteq Pids /\ \A i \in 1 .. N : AllPids[i] \in Pids
  BY AllPidsIs
<1>2. next \in [(1 .. N) \X S -> S]
  <2>1. ASSUME NEW s \in S, NEW p \in Pids PROVE Take(s, p) \in S
    BY AppendProperties
  <2> HIDE DEF Take, S, N
  <2>2. \A q \in (1 .. N) \X S : q[2] \in S /\ AllPids[q[1]] \in Pids
    BY <1>1
  <2> QED BY <2>1, <2>2
<1>3. \A k \in 1 .. N, s \in S : next[<<k, s>>] = Take(s, AllPids[k])
  <2> HIDE DEF Take, S, N
  <2> QED OBVIOUS
<1> HIDE DEF next, N, S
<1>4. PICK f : Recursive(f, N, S, <<>>, next)
  <2> HIDE DEF Take, found, Eqn
  <2> QED BY <1>1, <1>2, RecursionExists
<1>5. Eqn(f)
  <2>1. \A i \in 1 .. N : f[i - 1] \in S /\ f[i] = next[<<i, f[i - 1]>>]
    BY <1>1, <1>4 DEF Recursive
  <2>2. \A i \in 1 .. N : f[i] = Take(f[i - 1], AllPids[i])
    <3> HIDE DEF Take
    <3> QED BY <1>3, <2>1
  <2>3. \A i \in 0 .. N : f[i] = IF i = 0 THEN <<>> ELSE Take(f[i - 1], AllPids[i])
    <3> HIDE DEF Take
    <3> QED BY <1>4, <2>2 DEF Recursive
  <2> QED BY <1>4, <2>3 DEF Recursive
<1>6. Eqn(found)
  <2> HIDE DEF Eqn
  <2> QED BY <1>5
<1>7. FindPidsByName(name, max) = IF name \in unlisted THEN <<>> ELSE found[N]
  BY DEF FindPidsByName, N
<1> HIDE DEF found
<1>8. /\ found = [i \in 0 .. N |-> found[i]] /\ found[0] = <<>>
      /\ \A i \in 1 .. N : found[i] = Take(found[i - 1], AllPids[i])
  <2>1. found = [i \in 0 .. N |-> found[i]]
    BY <1>6
  <2>2. found[0] = <<>>
    BY <1>1, <1>6
  <2>3. ASSUME NEW i \in 1 .. N PROVE found[i] = Take(found[i - 1], AllPids[i])
    <3>1. i \in 0 .. N /\ i # 0
      BY <1>1
    <3>2. found[i] = IF i = 0 THEN <<>>
                     ELSE IF AllPids[i] \in matches[name] /\ Len(found[i - 1]) < max
                     THEN Append(found[i - 1], AllPids[i])
                     ELSE found[i - 1]
      BY <1>6, <3>1
    <3> QED BY <3>1, <3>2
  <2> QED BY <2>1, <2>2, <2>3
<1>9. Recursive(found, N, S, <<>>, next)
  <2>1. \A i \in 1 .. N : found[i - 1] \in S => found[i] = next[<<i, found[i - 1]>>]
    <3> HIDE DEF Take
    <3> QED BY <1>3, <1>8
  <2> HIDE DEF Eqn, Take
  <2> QED BY <1>1, <1>2, <1>8, <2>1, RecursionTyped
<1> HIDE DEF Eqn
<1> DEFINE M(i) == {p \in P : \E j \in 1 .. i : AllPids[j] = p}
           First(i) == /\ Len(found[i]) <= max /\ Listed(found[i]) \subseteq M(i)
                       /\ \/ Len(found[i]) = Cardinality(M(i)) /\ Listed(found[i]) = M(i)
                          \/ Len(found[i]) = max /\ max < Cardinality(M(i))
           Good == {i \in 0 .. N : First(i)}
<1>10. \A i \in 0 .. N : IsFiniteSet(M(i)) /\ Cardinality(M(i)) \in Nat
  <2> SUFFICES ASSUME NEW i \in 0 .. N PROVE IsFiniteSet(M(i)) /\ Cardinality(M(i)) \in Nat
    OBVIOUS
  <2>1. M(i) \in SUBSET Pids
    BY <1>1
  <2> HIDE DEF M
  <2> QED BY <2>1, PidsAssumption, FS_Subset, FS_CardinalityType
<1>11. 0 \in Good
  <2>1. M(0) = {} /\ Listed(<<>>) = {} /\ Len(<<>>) = 0
    BY DEF Listed
  <2>2. Cardinality({}) = 0
    BY FS_EmptySet
  <2>3. Len(found[0]) = 0 /\ Listed(found[0]) = {}
    BY <1>8, <2>1
  <2>4. Cardinality(M(0)) = 0
    BY <2>1, <2>2, Zenon
  <2>5. First(0)
    <3> HIDE DEF M
    <3> QED BY <2>1, <2>3, <2>4
  <2> HIDE DEF First
  <2> QED BY <1>1, <2>5
<1>12. ASSUME NEW i \in 1 .. N, i - 1 \in Good PROVE i \in Good
  <2> DEFINE s == found[i - 1]
             p == AllPids[i]
             m == Cardinality(M(i - 1))
  <2>1. s \in Seq(Pids) /\ Len(s) \in Nat /\ p \in Pids /\ m \in Nat /\ IsFiniteSet(M(i - 1))
    <3>1. s \in Seq(Pids)
      BY <1>1, <1>9 DEF Recursive, S
    <3> HIDE DEF M
    <3> QED BY <1>1, <1>10, <3>1
  <2>2. First(i - 1) /\ found[i] = Take(s, p)
    BY <1>8, <1>12
  <2>3. M(i) = IF p \in P THEN M(i - 1) \union {p} ELSE M(i - 1)
    <3>1. \A j \in 1 .. i : j \in 1 .. i - 1 \/ j = i
      BY <1>1
    <3>2. i \in 1 .. i /\ \A j \in 1 .. i - 1 : j \in 1 .. i
      BY <1>1
    <3> QED BY <3>1, <3>2
  <2>4. p \notin M(i - 1)
    <3>1. \A j \in 1 .. i - 1 : j \in 1 .. N /\ j # i
      BY <1>1
    <3> QED BY <3>1, AllPidsIs DEF N
  <2>5. p \in P => Cardinality(M(i)) = m + 1
    <3> HIDE DEF M, p
    <3>1. Cardinality(M(i - 1) \union {p}) = m + 1
      BY <2>1, <2>4, FS_AddElement
    <3> QED BY <2>3, <3>1
  <2>6. CASE p \in P /\ Len(s) < max
    <3>1. found[i] = Append(s, p)
      BY <2>2, <2>6
    <3>2. Len(found[i]) = Len(s) + 1 /\ Listed(found[i]) = Listed(s) \union {p}
      <4> HIDE DEF s, p
      <4> QED BY <2>1, <3>1, ListedAppend
    <3> HIDE DEF M, s, p, m
    <3>3. First(i)
      BY <2>1, <2>2, <2>3, <2>5, <2>6, <3>2 DEF s, m
    <3> QED BY <3>3
  <2>7. CASE p \in P /\ ~(Len(s) < max)
    <3>1. found[i] = s
      BY <2>2, <2>7
    <3> HIDE DEF M, s, p, m
    <3>2. First(i)
      BY <2>1, <2>2, <2>3, <2>5, <2>7, <3>1 DEF s, m
    <3> QED BY <3>2
  <2>8. CASE p \notin P
    <3>1. found[i] = s /\ M(i) = M(i - 1)
      BY <2>2, <2>3, <2>8
    <3> HIDE DEF M
    <3> QED BY <2>2, <3>1
  <2> QED BY <2>6, <2>7, <2>8
<1>13. First(N)
  <2> HIDE DEF Good
  <2>1. \A i \in 0 .. N : i \in Good
    BY <1>1, <1>11, <1>12, Induct
  <2>2. N \in Good
    BY <1>1, <2>1
  <2> QED BY <2>2 DEF Good
<1>14. M(N) = P \intersect Searched
  <2>1. DOMAIN AllPids = 1 .. N
    BY AllPidsIs DEF N
  <2> QED BY <2>1, AllPidsIs DEF Listed
<1>15. found[N] \in Seq(Pids)
  BY <1>1, <1>9 DEF Recursive, S
<1> HIDE DEF M
<1>16. CASE name \in unlisted
  <2>1. Asked(name) = {} /\ FindPidsByName(name, max) = <<>>
    BY <1>7, <1>16 DEF Asked
  <2>2. <<>> \in Seq(Pids) /\ Len(<<>>) = 0 /\ Listed(<<>>) = {} /\ Cardinality({}) = 0
    BY FS_EmptySet DEF Listed
  <2> QED BY <2>1, <2>2
<1>17. CASE name \notin unlisted
  <2>1. Asked(name) = M(N) /\ FindPidsByName(name, max) = found[N]
    BY <1>7, <1>14, <1>17 DEF Asked
  <2> QED BY <1>13, <1>15, <2>1
<1> QED BY <1>16, <1>17

-----------------------------------------------------------------------------
CommandTyped == tokens \in Seq(Words) /\ matches \in [Named -> SUBSET Pids]

LEMMA AskedIs ==
  ASSUME CommandTyped, NEW w
  PROVE  /\ Asked(w) \subseteq Pids /\ IsFiniteSet(Asked(w)) /\ Cardinality(Asked(w)) \in Nat
<1>1. Asked(w) \in SUBSET Pids
  BY DEF Asked, CommandTyped
<1> HIDE DEF Asked
<1> QED BY <1>1, PidsAssumption, FS_Subset, FS_CardinalityType

(* A word adds all it asks for, or fills what is left.                     *)
LEMMA FollowIs ==
  ASSUME CommandTyped, NEW list \in Seq(Pids), Len(list) <= MaxTargets, NEW w \in Words
  PROVE  LET r == Follow(list, w)
             all == Len(list) + Cardinality(Asked(w))
         IN /\ r \in Seq(Pids) /\ Len(r) <= MaxTargets
            /\ Listed(r) \subseteq Listed(list) \union Asked(w)
            /\ \/ Len(r) = all /\ Listed(r) = Listed(list) \union Asked(w)
               \/ Len(r) = MaxTargets /\ MaxTargets < all
<1> DEFINE c == Cardinality(Asked(w))
           r == Follow(list, w)
<1>1. MaxTargets \in Nat /\ Len(list) \in Nat /\ c \in Nat
  BY TargetBoundsAssumption, AskedIs
<1>2. PICK more \in Seq(Pids) :
        /\ r = Cut(list \o more, MaxTargets) /\ Listed(more) \subseteq Asked(w)
        /\ \/ Len(more) = c /\ Listed(more) = Asked(w)
           \/ Len(more) = MaxTargets /\ MaxTargets < c
  <2>1. CASE w \in Pids
    <3>1. Asked(w) = {w}
      BY <2>1, NamedAssumption DEF Asked
    <3>2. Cardinality({w}) = 1
      BY FS_Singleton
    <3>3. <<w>> \in Seq(Pids) /\ Len(<<w>>) = 1 /\ Listed(<<w>>) = {w}
      BY <2>1 DEF Listed
    <3>4. Append(list, w) = list \o <<w>>
      BY <2>1, AppendIsConcat
    <3>5. r = Cut(list \o <<w>>, MaxTargets)
      BY <2>1, <3>4 DEF Follow
    <3>6. Listed(<<w>>) = Asked(w) /\ Len(<<w>>) = c
      BY <3>1, <3>2, <3>3
    <3> HIDE DEF r, c
    <3> QED BY <3>3, <3>5, <3>6
  <2>2. CASE w \in Named
    <3>1. w \notin Pids
      BY <2>2, NamedAssumption
    <3> DEFINE more == FindPidsByName(w, MaxTargets)
    <3>2. r = Cut(list \o more, MaxTargets)
      BY <2>2, <3>1 DEF Follow
    <3>3. /\ more \in Seq(Pids) /\ Listed(more) \subseteq Asked(w)
          /\ \/ Len(more) = c /\ Listed(more) = Asked(w)
             \/ Len(more) = MaxTargets /\ MaxTargets < c
      <4>1. matches \in [Named -> SUBSET Pids]
        BY DEF CommandTyped
      <4> QED BY <1>1, <2>2, <4>1, FoundIs
    <3> HIDE DEF r, c, more
    <3> QED BY <3>2, <3>3
  <2>3. CASE w = 0
    <3>1. w \notin Pids /\ w \notin Named
      BY <2>3, PidsAssumption, NamedAssumption
    <3>2. Asked(w) = {}
      BY <3>1 DEF Asked
    <3>3. c = 0
      BY <3>2, FS_EmptySet
    <3>4. r = list
      BY <3>1 DEF Follow
    <3>5. list \o <<>> = list /\ Cut(list, MaxTargets) = list
      BY <1>1, CutIs, ConcatEmptySeq
    <3>6. <<>> \in Seq(Pids) /\ Len(<<>>) = 0 /\ Listed(<<>>) = {}
      BY DEF Listed
    <3> HIDE DEF r, c
    <3> QED BY <3>2, <3>3, <3>4, <3>5, <3>6
  <2> QED BY <2>1, <2>2, <2>3 DEF Words
<1> DEFINE both == list \o more
<1>3. /\ both \in Seq(Pids) /\ Len(both) = Len(list) + Len(more) /\ Len(more) \in Nat
      /\ Listed(both) = Listed(list) \union Listed(more)
  BY ConcatProperties, ListedConcat
<1>4. r = Cut(both, MaxTargets)
  BY <1>2
<1> HIDE DEF both, r, c
<1>5. /\ r \in Seq(Pids) /\ Listed(r) \subseteq Listed(both)
      /\ Len(r) = IF Len(both) < MaxTargets THEN Len(both) ELSE MaxTargets
      /\ Len(both) <= MaxTargets => r = both
  BY <1>1, <1>3, <1>4, CutIs
<1>6. Listed(r) \subseteq Listed(list) \union Asked(w)
  BY <1>2, <1>3, <1>5
<1>7. Len(r) <= MaxTargets
  BY <1>1, <1>3, <1>5
<1>8. \/ Len(r) = Len(list) + c /\ Listed(r) = Listed(list) \union Asked(w)
      \/ Len(r) = MaxTargets /\ MaxTargets < Len(list) + c
  <2>1. CASE Len(more) = c /\ Listed(more) = Asked(w)
    <3>1. Len(both) <= MaxTargets => Len(r) = Len(list) + c
      BY <1>1, <1>3, <1>5, <2>1
    <3>2. Len(both) <= MaxTargets => Listed(r) = Listed(list) \union Asked(w)
      BY <1>3, <1>5, <2>1
    <3>3. ~(Len(both) <= MaxTargets) => Len(r) = MaxTargets /\ MaxTargets < Len(list) + c
      BY <1>1, <1>3, <1>5, <2>1
    <3> QED BY <3>1, <3>2, <3>3
  <2>2. CASE Len(more) = MaxTargets /\ MaxTargets < c
    BY <1>1, <1>3, <1>5, <2>2
  <2> QED BY <1>2, <2>1, <2>2
<1> QED BY <1>5, <1>6, <1>7, <1>8 DEF r, c

LEMMA ParsedIs ==
  ASSUME CommandTyped
  PROVE  /\ Parsed \in Seq(Words) /\ Heard = 1 .. Len(Parsed)
         /\ \A i \in Heard : Parsed[i] = tokens[i]
<1> DEFINE n == Len(tokens)
           m == IF n < MaxTargets THEN n ELSE MaxTargets
<1>1. MaxTargets \in Nat /\ n \in Nat /\ m \in Nat /\ DOMAIN tokens = 1 .. n
  BY TargetBoundsAssumption DEF CommandTyped
<1>2. /\ Parsed \in Seq(Words) /\ Len(Parsed) = m
      /\ \A i \in 1 .. m : Parsed[i] = tokens[i]
  BY <1>1, CutIs DEF Parsed, CommandTyped
<1>3. Heard = 1 .. m
  <2> HIDE DEF n
  <2> QED BY <1>1 DEF Heard
<1> QED BY <1>2, <1>3

Lists == {s \in Seq(Pids) : Len(s) <= MaxTargets}

LEMMA ResolutionIs ==
  ASSUME CommandTyped
  PROVE  /\ Resolution \in [0 .. Len(Parsed) -> Lists] /\ Resolution[0] = <<>>
         /\ \A k \in 1 .. Len(Parsed) : Resolution[k] = Follow(Resolution[k - 1], Parsed[k])
<1> DEFINE N == Len(Parsed)
           S == Lists
           next == [p \in (1 .. N) \X S |-> Follow(p[2], Parsed[p[1]])]
           Eqn(t) == t = [k \in 0 .. N |-> IF k = 0 THEN <<>> ELSE Follow(t[k - 1], Parsed[k])]
<1>1. N \in Nat /\ <<>> \in S
  BY ParsedIs, TargetBoundsAssumption DEF Lists
<1>2. next \in [(1 .. N) \X S -> S]
  <2>1. ASSUME NEW p \in (1 .. N) \X S PROVE Follow(p[2], Parsed[p[1]]) \in S
    <3>1. p[2] \in Seq(Pids) /\ Len(p[2]) <= MaxTargets /\ Parsed[p[1]] \in Words
      BY ParsedIs DEF Lists
    <3> QED BY <3>1, FollowIs DEF Lists
  <2> QED BY <2>1
<1>3. \A k \in 1 .. N, s \in S : next[<<k, s>>] = Follow(s, Parsed[k])
  OBVIOUS
<1> HIDE DEF next, N, S
<1>4. PICK f : Recursive(f, N, S, <<>>, next)
  BY <1>1, <1>2, RecursionExists
<1>5. Eqn(f)
  <2>1. \A i \in 1 .. N : f[i - 1] \in S /\ f[i] = next[<<i, f[i - 1]>>]
    BY <1>1, <1>4 DEF Recursive
  <2>2. \A i \in 1 .. N : f[i] = Follow(f[i - 1], Parsed[i])
    BY <1>3, <2>1
  <2>3. \A i \in 0 .. N : f[i] = IF i = 0 THEN <<>> ELSE Follow(f[i - 1], Parsed[i])
    BY <1>4, <2>2 DEF Recursive
  <2> QED BY <1>4, <2>3 DEF Recursive
<1>6. Eqn(Resolution)
  <2>1. Resolution = CHOOSE t : Eqn(t)
    BY DEF Resolution, N
  <2> HIDE DEF Eqn
  <2> QED BY <1>5, <2>1
<1>7. /\ Resolution = [k \in 0 .. N |-> Resolution[k]] /\ Resolution[0] = <<>>
      /\ \A k \in 1 .. N : Resolution[k] = Follow(Resolution[k - 1], Parsed[k])
  <2>1. Resolution = [k \in 0 .. N |-> Resolution[k]]
    BY <1>6
  <2>2. Resolution[0] = <<>>
    BY <1>1, <1>6
  <2>3. \A k \in 1 .. N : Resolution[k] = Follow(Resolution[k - 1], Parsed[k])
    BY <1>1, <1>6
  <2> QED BY <2>1, <2>2, <2>3
<1>8. Recursive(Resolution, N, S, <<>>, next)
  <2>1. \A k \in 1 .. N :
          Resolution[k - 1] \in S => Resolution[k] = next[<<k, Resolution[k - 1]>>]
    BY <1>3, <1>7
  <2> HIDE DEF Eqn
  <2> QED BY <1>1, <1>2, <1>7, <2>1, RecursionTyped
<1> QED BY <1>7, <1>8 DEF N, S, Recursive

(* What the first k words ask for, and how often.                          *)
AskedBy(k) == UNION {Asked(Parsed[i]) : i \in 1 .. k}
Askings(k) == {a \in (1 .. k) \X Pids : a[2] \in Asked(Parsed[a[1]])}

(* The loop over the words: all that was asked for is followed until the   *)
(* list is full.                                                           *)
LEMMA ResolvedSoFar ==
  ASSUME CommandTyped
  PROVE  \A k \in 0 .. Len(Parsed) :
           /\ IsFiniteSet(Askings(k)) /\ Listed(Resolution[k]) \subseteq AskedBy(k)
           /\ \/ /\ Len(Resolution[k]) = Cardinality(Askings(k))
                 /\ Listed(Resolution[k]) = AskedBy(k)
              \/ Len(Resolution[k]) = MaxTargets /\ MaxTargets < Cardinality(Askings(k))
<1> DEFINE N == Len(Parsed)
           Exact(k) ==
             /\ IsFiniteSet(Askings(k)) /\ Listed(Resolution[k]) \subseteq AskedBy(k)
             /\ \/ /\ Len(Resolution[k]) = Cardinality(Askings(k))
                   /\ Listed(Resolution[k]) = AskedBy(k)
                \/ Len(Resolution[k]) = MaxTargets /\ MaxTargets < Cardinality(Askings(k))
           Good == {k \in 0 .. N : Exact(k)}
<1>1. N \in Nat /\ MaxTargets \in Nat
  BY ParsedIs, TargetBoundsAssumption
<1>2. Exact(0)
  <2>1. Askings(0) = {} /\ AskedBy(0) = {}
    BY DEF Askings, AskedBy
  <2>2. Len(Resolution[0]) = 0 /\ Listed(Resolution[0]) = {}
    <3>1. Resolution[0] = <<>>
      BY ResolutionIs
    <3> QED BY <3>1 DEF Listed
  <2>3. IsFiniteSet({}) /\ Cardinality({}) = 0
    BY FS_EmptySet
  <2> QED BY <2>1, <2>2, <2>3
<1>3. ASSUME NEW k \in 1 .. N, Exact(k - 1) PROVE Exact(k)
  <2> DEFINE w == Parsed[k]
             list == Resolution[k - 1]
             r == Resolution[k]
             a == Asked(w)
             new == {k} \X a
  <2>1. w \in Words /\ list \in Seq(Pids) /\ Len(list) <= MaxTargets /\ r = Follow(list, w)
    <3>1. w \in Words
      BY ParsedIs
    <3>2. list \in Lists
      BY <1>1, ResolutionIs
    <3>3. r = Follow(list, w)
      BY ResolutionIs
    <3> HIDE DEF w, list, r
    <3> QED BY <3>1, <3>2, <3>3 DEF Lists
  <2>2. a \in SUBSET Pids /\ IsFiniteSet(a) /\ Cardinality(a) \in Nat
    BY AskedIs
  <2>3. IsFiniteSet(new) /\ Cardinality(new) = Cardinality(a)
    <3> HIDE DEF a
    <3>1. IsFiniteSet({k}) /\ Cardinality({k}) = 1
      BY FS_Singleton
    <3>2. IsFiniteSet(new) /\ Cardinality(new) = 1 * Cardinality(a)
      BY <2>2, <3>1, FS_Product
    <3> QED BY <2>2, <3>2
  <2>4. \A i \in 1 .. k : i \in 1 .. k - 1 \/ i = k
    BY <1>1
  <2>5. k \in 1 .. k /\ k \notin 1 .. k - 1 /\ \A i \in 1 .. k - 1 : i \in 1 .. k
    BY <1>1
  <2>6. Askings(k) = Askings(k - 1) \union new
    <3>1. ASSUME NEW q \in Askings(k) PROVE q \in Askings(k - 1) \union new
      <4>1. q \in (1 .. k) \X Pids /\ q[2] \in Asked(Parsed[q[1]])
        BY DEF Askings
      <4>2. q = <<q[1], q[2]>> /\ q[1] \in 1 .. k /\ q[2] \in Pids
        BY <4>1
      <4>3. CASE q[1] = k
        BY <4>1, <4>2, <4>3
      <4>4. CASE q[1] \in 1 .. k - 1
        BY <4>1, <4>2, <4>4 DEF Askings
      <4> QED BY <2>4, <4>2, <4>3, <4>4
    <3>2. ASSUME NEW q \in new PROVE q \in Askings(k)
      <4>1. q = <<k, q[2]>> /\ q[2] \in a /\ q[2] \in Pids
        BY <2>2
      <4>2. q[1] = k
        BY <4>1
      <4> QED BY <2>5, <4>1, <4>2 DEF Askings
    <3>3. ASSUME NEW q \in Askings(k - 1) PROVE q \in Askings(k)
      BY <2>5 DEF Askings
    <3> HIDE DEF new
    <3> QED BY <3>1, <3>2, <3>3
  <2>7. Askings(k - 1) \cap new = {}
    BY <2>5 DEF Askings
  <2>8. AskedBy(k) = AskedBy(k - 1) \union a
    BY <2>4, <2>5 DEF AskedBy
  <2> DEFINE n == Cardinality(Askings(k - 1))
             c == Cardinality(a)
  <2>9. IsFiniteSet(Askings(k)) /\ Cardinality(Askings(k)) = n + c /\ n \in Nat
    <3> HIDE DEF new, a
    <3>1. IsFiniteSet(Askings(k - 1)) /\ n \in Nat
      BY <1>3, FS_CardinalityType
    <3>2. /\ IsFiniteSet(Askings(k))
          /\ Cardinality(Askings(k)) = n + Cardinality(new) - Cardinality({})
      <4> DEFINE before == Askings(k - 1)
      <4>1. IsFiniteSet(before) /\ IsFiniteSet(new)
        BY <2>3, <3>1
      <4> HIDE DEF before, n
      <4>2. /\ IsFiniteSet(before \union new)
            /\ Cardinality(before \union new)
                 = Cardinality(before) + Cardinality(new) - Cardinality(before \cap new)
        BY <4>1, FS_Union
      <4> QED BY <2>6, <2>7, <4>2 DEF before, n
    <3>3. Cardinality({}) = 0
      BY FS_EmptySet
    <3> QED BY <2>2, <2>3, <3>1, <3>2, <3>3
  <2>10. /\ Len(r) <= MaxTargets /\ Listed(r) \subseteq Listed(list) \union a
         /\ \/ Len(r) = Len(list) + c /\ Listed(r) = Listed(list) \union a
            \/ Len(r) = MaxTargets /\ MaxTargets < Len(list) + c
    <3> HIDE DEF list, r
    <3>1. Len(r) <= MaxTargets /\ Listed(r) \subseteq Listed(list) \union Asked(w)
      BY <2>1, FollowIs
    <3>2. \/ Len(r) = Len(list) + Cardinality(Asked(w)) /\ Listed(r) = Listed(list) \union Asked(w)
          \/ Len(r) = MaxTargets /\ MaxTargets < Len(list) + Cardinality(Asked(w))
      BY <2>1, FollowIs
    <3> QED BY <3>1, <3>2
  <2>11. /\ Listed(list) \subseteq AskedBy(k - 1)
         /\ \/ Len(list) = n /\ Listed(list) = AskedBy(k - 1)
            \/ Len(list) = MaxTargets /\ MaxTargets < n
    BY <1>3
  <2>12. Len(list) \in Nat /\ Len(r) \in Nat /\ c \in Nat
    <3>1. r \in Lists
      BY ResolutionIs
    <3>2. r \in Seq(Pids)
      BY <3>1 DEF Lists
    <3> HIDE DEF list, r, a
    <3> QED BY <2>1, <2>2, <3>2
  <2> HIDE DEF list, r, a, n, c
  <2>13. \/ Len(r) = n + c /\ Listed(r) = AskedBy(k)
         \/ Len(r) = MaxTargets /\ MaxTargets < n + c
    BY <1>1, <2>8, <2>9, <2>10, <2>11, <2>12
  <2>14. Listed(r) \subseteq AskedBy(k)
    BY <2>8, <2>10, <2>11
  <2> QED BY <2>9, <2>13, <2>14 DEF r
<1>4. \A k \in 0 .. N : k \in Good
  <2>1. 0 \in Good
    <3> HIDE DEF Exact
    <3> QED BY <1>1, <1>2
  <2>2. ASSUME NEW k \in 1 .. N, k - 1 \in Good PROVE k \in Good
    <3> HIDE DEF Exact
    <3> QED BY <1>1, <1>3, <2>2
  <2> HIDE DEF Good
  <2> QED BY <1>1, <2>1, <2>2, Induct
<1> QED BY <1>4

LEMMA TargetsFound == ASSUME CommandTyped PROVE TargetsExact
<1> DEFINE N == Len(Parsed)
<1>1. MaxTargets \in Nat \ {0} /\ N \in Nat /\ N \in 0 .. N
  BY ParsedIs, TargetBoundsAssumption
<1>2. AskedBy(N) = AllAsked /\ Askings(N) = {a \in Heard \X Pids : a[2] \in Asked(tokens[a[1]])}
  <2>1. Heard = 1 .. N /\ \A i \in 1 .. N : Asked(Parsed[i]) = Asked(tokens[i])
    BY ParsedIs
  <2> HIDE DEF N
  <2> QED BY <2>1 DEF AskedBy, AllAsked, Askings
<1>3. /\ Listed(Resolved) \subseteq AllAsked
      /\ \/ Len(Resolved) = Total /\ Listed(Resolved) = AllAsked
         \/ Len(Resolved) = MaxTargets /\ MaxTargets < Total
  BY <1>1, <1>2, ResolvedSoFar DEF Resolved, Total
<1>4. Len(Resolved) \in Nat /\ Len(Resolved) <= MaxTargets
  <2>1. Resolved \in Lists
    BY <1>1, ResolutionIs DEF Resolved
  <2> QED BY <2>1 DEF Lists
<1>5. Total \in Nat
  <2>1. IsFiniteSet(Askings(N)) /\ Cardinality(Askings(N)) = Total
    BY <1>1, <1>2, ResolvedSoFar DEF Total
  <2> QED BY <2>1, FS_CardinalityType
<1>6. ASSUME verb = "watch" \/ (verb = "stream" /\ Total > 0)
      PROVE  /\ Listed(Followed) \subseteq AllAsked
             /\ Total <= MaxTargets => Listed(Followed) = AllAsked /\ Len(Followed) = Total
             /\ Total >= MaxTargets => Len(Followed) = MaxTargets
  <2>1. Total > 0 => Len(Resolved) > 0
    BY <1>1, <1>3, <1>5
  <2>2. Total > 0 => Resolved # <<>>
    BY <2>1
  <2>3. Followed = Resolved
    BY <1>6, <2>2 DEF Followed, WatchList, StreamList
  <2>4. Total <= MaxTargets => Listed(Resolved) = AllAsked /\ Len(Resolved) = Total
    BY <1>1, <1>3, <1>5
  <2>5. Total >= MaxTargets => Len(Resolved) = MaxTargets
    BY <1>1, <1>3, <1>4, <1>5
  <2> QED BY <1>3, <2>3, <2>4, <2>5
<1>7. ASSUME verb = "alert"
      PROVE  Listed(Followed) \subseteq AllAsked /\ Len(Followed) <= 1
  <2>1. Followed = AlertList
    BY <1>7 DEF Followed
  <2>2. CASE AlertList = <<>>
    BY <2>1, <2>2 DEF Listed
  <2>3. CASE AlertList # <<>>
    <3>1. tokens # <<>> /\ 1 \in Heard
      BY <1>1, <2>3 DEF AlertList, CommandTyped, Heard
    <3>2. Asked(tokens[1]) \subseteq AllAsked
      BY <3>1 DEF AllAsked
    <3>3. CASE tokens[1] \in Named
      <4>1. AlertList = FindPidsByName(tokens[1], 1)
        BY <2>3, <3>3 DEF AlertList
      <4>2. Listed(AlertList) \subseteq Asked(tokens[1]) /\ Len(AlertList) <= 1
        BY <3>3, <4>1, FoundIs DEF CommandTyped
      <4> QED BY <2>1, <3>2, <4>2
    <3>4. CASE tokens[1] \notin Named
      <4>1. AlertList = <<tokens[1]>> /\ tokens[1] \in Pids
        BY <2>3, <3>4 DEF AlertList
      <4>2. Asked(tokens[1]) = {tokens[1]}
        BY <3>4, <4>1 DEF Asked
      <4>3. Listed(<<tokens[1]>>) = {tokens[1]} /\ Len(<<tokens[1]>>) = 1
        BY DEF Listed
      <4> QED BY <2>1, <3>2, <4>1, <4>2, <4>3
    <3> QED BY <3>3, <3>4
  <2> QED BY <2>2, <2>3
<1> QED BY <1>6, <1>7 DEF TargetsExact

-----------------------------------------------------------------------------
(***************************************************************************)
(* The parts together.  Texts and command lines do not change, so that     *)
(* what holds of all of them holds always; a step of Paths is a step of    *)
(* each of the other parts, or leaves it alone.                            *)
(***************************************************************************)
WordsTyped == text \in Seq(Chars) /\ words \in Seq(Nat) /\ CommandTyped

LEMMA SentenceIsASeq ==
  ASSUME NEW S, NEW max \in Nat, NEW s \in UNION {[1 .. n -> S] : n \in 0 .. max}
  PROVE  s \in Seq(S)
<1>1. PICK n \in 0 .. max : s \in [1 .. n -> S]
  OBVIOUS
<1>2. n \in Nat
  OBVIOUS
<1>3. \A i \in 1 .. n : s[i] \in S
  BY <1>1
<1>4. [i \in 1 .. n |-> s[i]] \in Seq(S)
  BY <1>2, <1>3, IsASeq
<1> QED BY <1>1, <1>4

LEMMA WordsTypedAlways == PathsSpec => []WordsTyped
<1>1. PathsInit => WordsTyped
  <2> SUFFICES ASSUME PathsInit PROVE WordsTyped
    OBVIOUS
  <2>1. text \in Seq(Chars)
    <3>1. text = <<>> \/ text \in UNION {[1 .. n -> Chars] : n \in 0 .. MaxChars}
      BY DEF PathsInit, TextInit
    <3>2. CASE text = <<>>
      BY <3>2
    <3>3. CASE text \in UNION {[1 .. n -> Chars] : n \in 0 .. MaxChars}
      BY <3>3, SentenceIsASeq, TextsAssumption
    <3> QED BY <3>1, <3>2, <3>3
  <2>2. words \in Seq(Nat)
    <3> DEFINE S == Lengths \union {0}
    <3>1. words = <<>> \/ words \in UNION {[1 .. n -> S] : n \in 0 .. MaxWords}
      BY DEF PathsInit, TextInit
    <3>2. S \subseteq Nat
      BY TextsAssumption
    <3> HIDE DEF S
    <3>3. CASE words = <<>>
      BY <3>3
    <3>4. CASE words \in UNION {[1 .. n -> S] : n \in 0 .. MaxWords}
      <4>1. words \in Seq(S)
        BY <3>4, SentenceIsASeq, TextsAssumption
      <4> QED BY <3>2, <4>1, SeqMonotonic
    <3> QED BY <3>1, <3>3, <3>4
  <2>3. tokens \in Seq(Words)
    <3>1. \/ tokens = <<>> \/ tokens \in UNION {[1 .. n -> Words] : n \in 0 .. 1}
          \/ tokens \in UNION {[1 .. n -> Words] : n \in 0 .. MaxTokens}
      BY DEF PathsInit, TargetsInit, Sentences
    <3>2. CASE tokens = <<>>
      BY <3>2
    <3>3. CASE tokens \in UNION {[1 .. n -> Words] : n \in 0 .. 1}
      BY <3>3, SentenceIsASeq
    <3>4. CASE tokens \in UNION {[1 .. n -> Words] : n \in 0 .. MaxTokens}
      BY <3>4, SentenceIsASeq, TargetBoundsAssumption
    <3> QED BY <3>1, <3>2, <3>3, <3>4
  <2>4. matches \in [Named -> SUBSET Pids]
    BY DEF PathsInit, TargetsInit
  <2> QED BY <2>1, <2>2, <2>3, <2>4 DEF WordsTyped, CommandTyped
<1>2. WordsTyped /\ [PathsNext]_pathVars => WordsTyped'
  BY DEF PathsNext, pathVars, textVars, targetVars, WordsTyped, CommandTyped
<1> QED BY <1>1, <1>2, PTL DEF PathsSpec

(* A text survives json_escape() and extract_text_field() whole, or up to  *)
(* a character where a buffer is full.                                     *)
THEOREM TextsSurvive == PathsSpec => []TextSurvives
<1>1. WordsTyped => TextSurvives
  BY TextKept DEF WordsTyped
<1> QED BY <1>1, WordsTypedAlways, PTL

(* print_wrapped_text() prints all words, in order and within the width.   *)
THEOREM WordsWrapped == PathsSpec => []WordsKept
<1>1. WordsTyped => WordsKept
  BY WordsPrintedWell DEF WordsTyped
<1> QED BY <1>1, WordsTypedAlways, PTL

(* run_watch_mode(), run_stream_mode() and run_alert_mode() follow the     *)
(* processes the command line asks for.                                    *)
THEOREM TargetsFollowed == PathsSpec => []TargetsExact
<1>1. WordsTyped => TargetsExact
  BY TargetsFound DEF WordsTyped
<1> QED BY <1>1, WordsTypedAlways, PTL

(* FIFO, log files and request file together with texts and targets: what  *)
(* is proved of each part holds in every behaviour of Paths.               *)
THEOREM PathsKept ==
  PathsSpec => []/\ NoFifoLeft /\ PathLeadsToStream /\ LogInOrder /\ OwnAnswer
                 /\ TextSurvives /\ WordsKept /\ TargetsExact
<1>1. PathsInit => StreamInv /\ LogInv /\ AiInv
  BY StreamInvInit, LogInvInit, AiInvInit DEF PathsInit
<1>2. [PathsNext]_pathVars => [Next]_vars /\ [LogNext]_logVars /\ [AiNext]_aiVars
  BY DEF PathsNext, pathVars
<1>3. StreamInv /\ LogInv /\ AiInv /\ [PathsNext]_pathVars => (StreamInv /\ LogInv /\ AiInv)'
  BY <1>2, StreamInvStep, LogInvStep, AiInvStep
<1>4. StreamInv => NoFifoLeft /\ PathLeadsToStream
  BY DEF StreamInv, Owned, NoFifoLeft, OwnPath, PathLeadsToStream, Writing
<1>5. LogInv => LogInOrder
  BY DEF LogInv, Ascending, OlderFirst, NoGap, LogInOrder
<1>6. AiInv => OwnAnswer
  BY DEF AiInv, OwnRequest, OwnAnswer
<1>7. PathsSpec => [](StreamInv /\ LogInv /\ AiInv)
  BY <1>1, <1>3, PTL DEF PathsSpec
<1> QED BY <1>4, <1>5, <1>6, <1>7, TextsSurvive, WordsWrapped, TargetsFollowed, PTL
================================================================================

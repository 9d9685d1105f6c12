------------------------------ MODULE AiRequest ------------------------------
(***************************************************************************)
(* The way of a request through get_ai_process_insight() and               *)
(* call_claude_api() of ai_insights.c: it is written to a temporary file,  *)
(* curl is run to send that file and its output is read, and the file is   *)
(* removed.  All instances of the program use the same path.               *)
(*                                                                         *)
(* Every instance makes one request, named after it.  A file is named      *)
(* after the instance that created it; a file may be left at the path by a *)
(* killed instance of the same or of another user.  What the API answers   *)
(* is reduced to the request it answers.                                   *)
(***************************************************************************)
EXTENDS Integers

CONSTANT Instances   \* by number

ASSUME InstancesAssumption == Instances \subseteq Nat \ {0}

NoFile == 0
OwnLeft == -1      \* a file left by a killed instance of this user
OtherLeft == -2    \* one that this user may neither write nor remove
Broken == -3       \* not a whole request
Failed == -4       \* an error message is shown
ReqFiles == Instances \union {OwnLeft, OtherLeft}

VARIABLES
  at,        \* "start", "write", "popen", "curl", "unlink", "end"
  reqPath,   \* the file at AI_REQ_FILE, or NoFile
  reqFile,   \* the file an instance has opened
  content,   \* the request in each file, or Broken
  sent,      \* what curl sends for an instance, NoFile: there was no file
  outcome,   \* the request whose answer is shown, Failed, or NoFile: nothing yet
  overlap    \* two instances have been at work at the same time

aiVars == <<at, reqPath, reqFile, content, sent, outcome, overlap>>

AiTypeOK ==
  /\ at \in [Instances -> {"start", "write", "popen", "curl", "unlink", "end"}]
  /\ reqPath \in ReqFiles \union {NoFile}
  /\ reqFile \in [Instances -> ReqFiles \union {NoFile}]
  /\ content \in [ReqFiles -> ReqFiles \union {Broken}]
  /\ sent \in [Instances -> ReqFiles \union {NoFile, Broken}]
  /\ outcome \in [Instances -> ReqFiles \union {NoFile, Failed}]
  /\ overlap \in BOOLEAN

AiInit ==
  /\ at = [r \in Instances |-> "start"]
  /\ reqPath \in {NoFile, OwnLeft, OtherLeft}
  /\ reqFile = [r \in Instances |-> NoFile]
  /\ content = [f \in ReqFiles |-> f]
  /\ sent = [r \in Instances |-> NoFile]
  /\ outcome = [r \in Instances |-> NoFile]
  /\ overlap = FALSE

Moves(r, from, to) == at[r] = from /\ at' = [at EXCEPT ![r] = to]
Shows(r, what) == outcome' = [outcome EXCEPT ![r] = what]
AtWork(r) == at[r] \notin {"start", "end"}

-----------------------------------------------------------------------------
(* fopen() with "w" creates the file or empties the one that is there.     *)
OpenRequest(r) ==
  /\ reqPath # OtherLeft
  /\ Moves(r, "start", "write")
  /\ LET f == IF reqPath = NoFile THEN r ELSE reqPath
     IN /\ reqPath' = f
        /\ reqFile' = [reqFile EXCEPT ![r] = f]
        /\ content' = [content EXCEPT ![f] = Broken]
  /\ overlap' = (overlap \/ \E s \in Instances : AtWork(s))
  /\ UNCHANGED <<sent, outcome>>

(* There is no API key, or the file cannot be written: an error message is *)
(* all (and a mutant that goes on).                                        *)
GoesOn == "popen"
ReturnsError == "end"

OpenRequestFails(r) ==
  /\ Moves(r, "start", ReturnsError)
  /\ Shows(r, Failed)
  /\ UNCHANGED <<reqPath, reqFile, content, sent, overlap>>

(* fputs() and fclose(), whose results are not looked at: the disk may be  *)
(* full.                                                                   *)
WriteRequest(r) ==
  /\ Moves(r, "write", "popen")
  /\ \E c \in {r, Broken} : content' = [content EXCEPT ![reqFile[r]] = c]
  /\ UNCHANGED <<reqPath, reqFile, sent, outcome, overlap>>

(* popen(): curl reads the file that is at the path now.                   *)
RunCurl(r) ==
  /\ Moves(r, "popen", "curl")
  /\ sent' = [sent EXCEPT ![r] = IF reqPath = NoFile THEN NoFile ELSE content[reqPath]]
  /\ UNCHANGED <<reqPath, reqFile, content, outcome, overlap>>

PopenFails(r) ==
  /\ Moves(r, "popen", "unlink")
  /\ Shows(r, Failed)
  /\ UNCHANGED <<reqPath, reqFile, content, sent, overlap>>

(* The API answers a whole request with a text, or there is no answer, an  *)
(* error, or something that cannot be parsed.                              *)
Answer(r) ==
  /\ Moves(r, "curl", "unlink")
  /\ \E o \in {Failed} \union (ReqFiles \intersect {sent[r]}) : Shows(r, o)
  /\ UNCHANGED <<reqPath, reqFile, content, sent, overlap>>

(* unlink() of whatever is at the path.                                    *)
UnlinkRequest(r) ==
  /\ Moves(r, "unlink", "end")
  /\ reqPath' = IF reqPath = OtherLeft THEN reqPath ELSE NoFile
  /\ UNCHANGED <<reqFile, content, sent, outcome, overlap>>

(* Killed, perhaps in the middle of writing.                               *)
KillInstance(r) ==
  /\ AtWork(r) /\ at' = [at EXCEPT ![r] = "end"]
  /\ UNCHANGED <<reqPath, reqFile, content, sent, outcome, overlap>>

AiNext ==
  \E r \in Instances :
    \/ OpenRequest(r) \/ OpenRequestFails(r) \/ WriteRequest(r)
    \/ RunCurl(r) \/ PopenFails(r) \/ Answer(r) \/ UnlinkRequest(r)
    \/ KillInstance(r)

AiSpec == AiInit /\ [][AiNext]_aiVars

-----------------------------------------------------------------------------
(* An answer that is shown answers the request this instance has made: not *)
(* one that a killed instance or another user has left in the file, however *)
(* opening, writing, popen() and curl fail.  Two instances at work at the  *)
(* same time may get each other's answers.                                 *)
OwnAnswer ==
  \A r \in Instances : overlap \/ outcome[r] \in {r, NoFile, Failed}
==============================================================================

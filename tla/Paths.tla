--------------------------------- MODULE Paths ---------------------------------
(***************************************************************************)
(* What the program does outside its own memory at a user's request: the   *)
(* processes a command line names (Targets), the FIFO of a stream          *)
(* (Stream), the log files (Logger), and the file and the text of an AI    *)
(* request (AiRequest, AiText).  The parts share no state; a behaviour     *)
(* exercises one of them, and the others stay as they are.                 *)
(***************************************************************************)
EXTENDS Targets, Stream, Logger, AiRequest, AiText

VARIABLE part   \* "targets", "stream", "log", "request" or "text"

pathVars == <<vars, logVars, aiVars, textVars, targetVars, part>>

(* A part that is not exercised is in one of its initial states.           *)
PathsInit ==
  /\ part \in {"targets", "stream", "log", "request", "text"}
  /\ IF part = "targets" THEN TargetsInit
     ELSE /\ verb = "watch" /\ tokens = <<>> /\ options = <<>>
          /\ matches = [n \in Named |-> {}] /\ unlisted = {}
  /\ IF part = "text" THEN TextInit ELSE text = <<>> /\ words = <<>>
  /\ Init /\ (part # "stream" => path = None)
  /\ LogInit /\ (part # "log" => minLevel = CHOOSE l \in LogLevels : TRUE)
  /\ AiInit /\ (part # "request" => reqPath = NoFile)

PathsNext ==
  /\ \/ part = "stream" /\ Next /\ UNCHANGED <<logVars, aiVars>>
     \/ part = "log" /\ LogNext /\ UNCHANGED <<vars, aiVars>>
     \/ part = "request" /\ AiNext /\ UNCHANGED <<vars, logVars>>
  /\ UNCHANGED <<textVars, targetVars, part>>

(* The fairness of Stream, where a stream runs.                            *)
PathsSpec ==
  /\ PathsInit /\ [][PathsNext]_pathVars
  /\ \A s \in Streamers : /\ WF_vars(part = "stream" /\ Step(s))
                          /\ SF_vars(part = "stream" /\ Opened(s))
=================================================================================

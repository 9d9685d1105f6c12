----------------------------- MODULE Measurements -----------------------------
(***************************************************************************)
(* The three places where measured values are kept from one sample to the  *)
(* next: the alert (Alert), the ring of prices (PriceHistory) and the file *)
(* of histories (HistoryFile).  No mode of the program uses two of them on *)
(* the same values, so that a behaviour exercises one of the parts; the    *)
(* others stay as they are.                                                *)
(***************************************************************************)
EXTENDS Alert, PriceHistory, HistoryFile

VARIABLE part   \* "alert", "ring" or "file"

allVars == <<vars, priceVars, fileVars, part>>

AllInit ==
  /\ part \in {"alert", "ring", "file"}
  /\ Init /\ PriceInit /\ FileInit
  /\ part # "alert" => alive

AllNext ==
  /\ \/ part = "alert" /\ Next /\ UNCHANGED <<priceVars, fileVars>>
     \/ part = "ring" /\ PriceNext /\ UNCHANGED <<vars, fileVars>>
     \/ part = "file" /\ FileNext /\ UNCHANGED <<vars, priceVars>>
  /\ UNCHANGED part

(* The alert's loop goes on, as in Alert.                                  *)
AllSpec == AllInit /\ [][AllNext]_allVars /\ WF_vars(part = "alert" /\ Step)
===============================================================================

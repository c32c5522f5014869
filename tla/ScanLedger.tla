----------------------------- MODULE ScanLedger -----------------------------
(***************************************************************************)
(* What a scan's bookkeeping promises, whatever the threads do: a range is *)
(* entered in the ledger in two writes, its records first and the range    *)
(* itself second, one range at a time and each range once.  A run that     *)
(* stops anywhere therefore leaves at most one range whose records were    *)
(* written without the range.  Where writes may fail, the second one may   *)
(* be lost, and the range is then still to do.                             *)
(***************************************************************************)
CONSTANTS Ids, MayFail

VARIABLE status   \* status[i]: how far range i has got into the ledger

LedgerInit == status = [i \in Ids |-> "todo"]

Settled == \A i \in Ids : status[i] # "streamed"

Stream(i) ==
  /\ Settled
  /\ status[i] = "todo"
  /\ status' = [status EXCEPT ![i] = "streamed"]

Checkpoint(i) ==
  /\ status[i] = "streamed"
  /\ status' = [status EXCEPT ![i] = "done"]

Lose(i) ==
  /\ MayFail
  /\ status[i] = "streamed"
  /\ status' = [status EXCEPT ![i] = "todo"]

LedgerNext == \E i \in Ids : Stream(i) \/ Checkpoint(i) \/ Lose(i)

LedgerSpec == LedgerInit /\ [][LedgerNext]_status
=============================================================================

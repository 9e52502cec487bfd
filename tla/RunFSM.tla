------------------------------- MODULE RunFSM -------------------------------
(***************************************************************************)
(* The machine NewRunMachine builds, as the abstract specification of how  *)
(* the status of a run may change.                                         *)
(***************************************************************************)
EXTENDS RunStatus
VARIABLE status

Init == status = "pending"
Next == status' \in Successors[status]
Spec == Init /\ [][Next]_status
=============================================================================

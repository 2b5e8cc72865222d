------------------------------- MODULE MCHSApp -------------------------------
(* HSApp for TLC: words of two bits, so that a count, its complement and a  *)
(* damaged word all differ, and few ticks.                                  *)
EXTENDS HSApp

(* All faults but the two that keep the count out of the CDS.              *)
BudgetFaults == FaultNames \ {"CopyToCDS", "RegisterCDS"}

(* Faults HS meets while it runs, and of the CDS: initialization succeeds. *)
RunFaults == {"ResetCFE", "Receive", "CopyToCDS", "RegisterCDS", "RestoreFromCDS"}

CopyFaults == {"CopyToCDS"}
InitFaults == {"SysMonInit"}
=============================================================================

--------------------------- MODULE MCKiteVMStatus ---------------------------
(* Instance of KiteVMStatus for TLC. *)
EXTENDS KiteVMStatus

MCActive == {{"disk"}, {"service"}}
=============================================================================

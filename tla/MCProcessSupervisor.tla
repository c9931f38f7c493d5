--------------------------- MODULE MCProcessSupervisor ---------------------------
(* The instance of ProcessSupervisor that TLC checks. *)
EXTENDS ProcessSupervisor
==================================================================================

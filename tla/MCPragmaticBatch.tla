--------------------------- MODULE MCPragmaticBatch ---------------------------
(***************************************************************************)
(* Named answer sets for the instances of PragmaticBatch that TLC checks.  *)
(***************************************************************************)
EXTENDS PragmaticBatch

(* One answer for every way through a slot that does not repeat another: no *)
(* response at all, a response that fails, and one that succeeds.           *)
CommonAnswers == {"transport", "unstructured", "valid"}
===============================================================================

---------------------------- MODULE MCTeacherCache ----------------------------
(***************************************************************************)
(* TeacherCache for TLC: processes and responses are interchangeable.      *)
(***************************************************************************)
EXTENDS TeacherCache, TLC

Interchangeable == Permutations(Procs) \cup Permutations(Responses)
===============================================================================

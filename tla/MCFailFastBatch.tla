-------------------------- MODULE MCFailFastBatch --------------------------
(***************************************************************************)
(* The scope FailFastBatch is checked with: one frozen case, the case that  *)
(* is attested again and two cases that follow, alone and together.         *)
(***************************************************************************)
EXTENDS FailFastBatch

FourCases == <<"first", "target", "third", "fourth">>
Runs == {<<"target">>, <<"third">>, <<"third", "fourth">>, <<"fourth">>}
=============================================================================

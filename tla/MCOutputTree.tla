---------------------------- MODULE MCOutputTree ----------------------------
(***************************************************************************)
(* Two frozen cases, commands started with both or with the first; two      *)
(* commands beside one audit, or one command beside one live run.           *)
(***************************************************************************)
EXTENDS OutputTree

TwoCases == <<"a", "b">>
BothOrOne == {<<"a", "b">>, <<"a">>}
AuditOrLive == {[commands |-> 2, audits |-> 1, lives |-> 0],
                [commands |-> 1, audits |-> 0, lives |-> 1]}

=============================================================================

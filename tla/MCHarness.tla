----------------------------- MODULE MCHarness -----------------------------
(* Instances of Harness for TLC: the turns the model may take.             *)
EXTENDS Harness, TLC

Replies == {<<>>, <<"bad">>, <<"read", "write", "finish", "finish">>}
=============================================================================

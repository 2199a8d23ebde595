---------------------------- MODULE MCCTChannel -----------------------------
(* Three requests, the last of which ends the server, and two connections. *)
EXTENDS CTChannel
MCKind == <<"ping", "bad", "register">>
=============================================================================

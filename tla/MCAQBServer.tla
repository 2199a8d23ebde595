---------------------------- MODULE MCAQBServer ----------------------------
(* AQBServer with two users, of which one may create repositories.         *)
EXTENDS AQBServer

CONSTANTS alice, bob

MCUsers    == {alice, bob}
MCCreators == {alice}

MCAccessLists ==
  {[writers |-> <<alice>>, readers |-> <<>>],
   [writers |-> <<alice, bob>>, readers |-> <<>>],
   [writers |-> <<>>, readers |-> <<bob>>],
   [writers |-> <<>>, readers |-> <<>>]}
=============================================================================

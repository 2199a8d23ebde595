------------------------- MODULE MCIPCServiceLayer -------------------------
(* The kinds of process whose list and cursor stay sound.                  *)
EXTENDS IPCServiceLayer

Server == [role |-> "server", maxmsg |-> 4, maxEnds |-> 1, removeFirst |-> FALSE]
Client == [Server EXCEPT !.role = "client"]

\* A server with a message limit of one, whose connections stay.
OneByOne == [Server EXCEPT !.maxmsg = 1, !.maxEnds = 0]

SoundSettings == {Server, Client, OneByOne}
=============================================================================

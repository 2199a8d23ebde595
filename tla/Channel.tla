------------------------------ MODULE Channel ------------------------------
(***************************************************************************)
(* What one direction of a connection between two message layers keeps:    *)
(* every message that arrives was sent, arrives whole, once, and in the    *)
(* order of sending.  Messages may be lost.                                *)
(***************************************************************************)
EXTENDS Naturals, Sequences

CONSTANT Messages

VARIABLES
    sent,      \* the messages handed to the sender, in order
    received   \* the messages that reached the receiver, in order

vars == <<sent, received>>

Init == sent = <<>> /\ received = <<>>

\* No message is sent twice.
Send(m) ==
    /\ \A i \in 1 .. Len(sent) : sent[i] # m
    /\ sent' = Append(sent, m)
    /\ UNCHANGED received

\* The message at position i arrives after those before it, or instead of them.
Receive(i) ==
    /\ \A j \in 1 .. Len(received) : \E k \in 1 .. i - 1 : received[j] = sent[k]
    /\ received' = Append(received, sent[i])
    /\ UNCHANGED sent

Next == (\E m \in Messages : Send(m)) \/ (\E i \in 1 .. Len(sent) : Receive(i))

Spec == Init /\ [][Next]_vars
============================================================================

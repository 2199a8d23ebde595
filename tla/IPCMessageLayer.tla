-------------------------- MODULE IPCMessageLayer --------------------------
(***************************************************************************)
(* The message layer of the IPC library: messages framed by a header of    *)
(* two bytes that holds their size, over a stream socket.  A client has    *)
(* one message layer that it connects again after a disconnect             *)
(* (IPCMessageLayer_IsPersistent); a server makes a new message layer for  *)
(* every connection it accepts and frees it when it is disconnected.       *)
(*                                                                         *)
(* End 0 is the layer of the client, end k the layer that the server makes *)
(* for the k-th connection.  A byte on the wire is tagged with the message *)
(* and the position it belongs to.                                         *)
(***************************************************************************)
EXTENDS Naturals, Sequences, SequencesExt, FiniteSetsExt

CONSTANTS
    Sizes,        \* the sizes of messages, header included
    Capacity,     \* how many bytes a direction of a connection buffers
    MaxConnects,  \* how often the client connects
    ClientSends,  \* how many messages the client sends, open requests included
    ServerSends,  \* how many messages each layer of the server sends
    MaxFaults     \* how many shut downs and broken connections there are

\* A message has a header, and no sender makes one without parameters; a header
\* of two bytes bounds the size.
ASSUME SizesAssumption ==
    /\ Sizes \subseteq Nat \ 0 .. 2
    /\ \E max \in Sizes : \A size \in Sizes : size <= max
ASSUME BoundsAssumption ==
    {Capacity, MaxConnects, ClientSends, ServerSends, MaxFaults} \subseteq Nat

HeaderSize == 2
Client == 0
Conns == 1 .. MaxConnects
Ends == {Client} \cup Conns
MaxSends(e) == IF e = Client THEN ClientSends ELSE ServerSends

Message == [from : Ends, no : 1 .. Max({ClientSends, ServerSends}), size : Sizes]
NoMessage == [from |-> Client, no |-> 0, size |-> 0]

\* What a reader makes of bytes that are not one message from its start.
Garbage == [from |-> Client, no |-> 0, size |-> 1]

Bytes(m) == [p \in 1 .. m.size |-> [msg |-> m, pos |-> p]]

VARIABLES
    layer,    \* the IPCMESSAGELAYER of every end
    conn,     \* the number of the client's last connection
    link,     \* what became of each connection: none, refused or up
    broken,   \* the connections that broke
    wire,     \* the bytes on their way, per connection and direction
    sent,     \* history: the messages given to SendMessage, per end
    taken,    \* history: the messages got by NextMessage, per end
    faults    \* how many shut downs and broken connections there were

vars == <<layer, conn, link, broken, wire, sent, taken, faults>>

Statuses == {"None", "Idle", "Connecting", "Reading", "Writing",
             "Disconnected", "Unreachable", "Freed"}

Layer == [status : Statuses,
          outQueue : Seq(Message),
          inQueue : Seq(Message \cup {Garbage}),
          currentWriteMessage : Message \cup {NoMessage},
          currentPointer : {"null", "header", "body", "message"},
          currentBytesLeft : Nat,
          readingHeader : BOOLEAN,
          got : Seq([msg : Message, pos : Nat]),
          currentReadBuffer : {"null", "held", "freed"}]

----------------------------------------------------------------------------
(* A new layer is zeroed, which makes it idle; the client's gets the       *)
(* status StateDisconnected, the server's does not exist before accept.    *)

FreshLayer ==
    [status |-> "Idle", outQueue |-> <<>>, inQueue |-> <<>>,
     currentWriteMessage |-> NoMessage, currentPointer |-> "null",
     currentBytesLeft |-> 0, readingHeader |-> FALSE, got |-> <<>>,
     currentReadBuffer |-> "null"]

Init ==
    /\ layer = [e \in Ends |-> [FreshLayer EXCEPT
                    !.status = IF e = Client THEN "Disconnected" ELSE "None"]]
    /\ conn = 0
    /\ link = [k \in Conns |-> "none"]
    /\ broken = {}
    /\ wire = [k \in Conns |-> [d \in {"up", "down"} |-> <<>>]]
    /\ sent = [e \in Ends |-> <<>>]
    /\ taken = [e \in Ends |-> <<>>]
    /\ faults = 0

Status(e) == layer[e].status
Put(e, l) == layer' = [layer EXCEPT ![e] = l]

\* The connection of an end, and the direction it writes to and reads from.
ConnOf(e) == IF e = Client THEN conn ELSE e
OutDir(e) == IF e = Client THEN "up" ELSE "down"
InDir(e) == IF e = Client THEN "down" ELSE "up"
Incoming(e) == wire[ConnOf(e)][InDir(e)]
Outgoing(e) == wire[ConnOf(e)][OutDir(e)]

Gone == {"Disconnected", "Freed"}

\* The other side has closed its socket, or the network has failed.
PeerGone(e) ==
    \/ ConnOf(e) \in broken
    \/ e = Client /\ Status(conn) \in Gone
    \/ e # Client /\ (conn # e \/ Status(Client) \in Gone)

----------------------------------------------------------------------------
(* The calls of the layer's users.                                         *)

\* The layer l after IPCMessageLayer_SendMessage.
Enqueued(l, m) ==
    [l EXCEPT !.outQueue = Append(@, m),
              !.status = IF @ = "Idle" THEN "Writing" ELSE @]

\* Users check the connection before they send.
SendMessage(e, size) ==
    LET m == [from |-> e, no |-> Len(sent[e]) + 1, size |-> size] IN
    /\ Status(e) \in {"Idle", "Reading", "Writing"}
    /\ Len(sent[e]) < MaxSends(e)
    /\ Put(e, Enqueued(layer[e], m))
    /\ sent' = [sent EXCEPT ![e] = Append(@, m)]
    /\ UNCHANGED <<conn, link, broken, wire, taken, faults>>

NextMessage(e) ==
    /\ Status(e) \notin {"None", "Freed"}
    /\ layer[e].inQueue # <<>>
    /\ taken' = [taken EXCEPT ![e] = Append(@, Head(layer[e].inQueue))]
    /\ Put(e, [layer[e] EXCEPT !.inQueue = Tail(@)])
    /\ UNCHANGED <<conn, link, broken, wire, sent, faults>>

\* Closes the socket and leaves everything else as it is.
Closed(l) == [l EXCEPT !.status = "Disconnected"]

\* Called by the handler of a message that does not fit, and by IdleCheck when
\* canRead fails.
ShutDown(e) ==
    /\ Status(e) \in {"Idle", "Connecting", "Reading", "Writing"}
    /\ \/ taken[e] # <<>>
       \/ Status(e) = "Idle" /\ layer[e].outQueue = <<>>
    /\ faults < MaxFaults
    /\ Put(e, Closed(layer[e]))
    /\ faults' = faults + 1
    /\ UNCHANGED <<conn, link, broken, wire, sent, taken>>

\* The client connects its layer and enqueues an open request.  What the
\* queues and the cursor held before stays.
Connect(size, result) ==
    LET m == [from |-> Client, no |-> Len(sent[Client]) + 1, size |-> size]
        l == [layer[Client] EXCEPT !.status = "Connecting"] IN
    /\ Status(Client) = "Disconnected"
    /\ conn < MaxConnects /\ Len(sent[Client]) < ClientSends
    /\ conn' = conn + 1
    /\ link' = [link EXCEPT ![conn + 1] = result]
    /\ Put(Client, Enqueued(l, m))
    /\ sent' = [sent EXCEPT ![Client] = Append(@, m)]
    /\ UNCHANGED <<broken, wire, taken, faults>>

\* The listening layer of the server accepts the k-th connection.
Accept(k) ==
    /\ link[k] = "up" /\ Status(k) = "None"
    /\ Put(k, FreshLayer)
    /\ UNCHANGED <<conn, link, broken, wire, sent, taken, faults>>

\* The server frees a disconnected layer.
RemoveDisconnected(k) ==
    /\ k # Client
    /\ Status(k) = "Disconnected"
    /\ Put(k, [layer[k] EXCEPT !.status = "Freed"])
    /\ UNCHANGED <<conn, link, broken, wire, sent, taken, faults>>

\* The network fails.
Break(k) ==
    /\ link[k] = "up" /\ k \notin broken /\ faults < MaxFaults
    /\ broken' = broken \cup {k}
    /\ faults' = faults + 1
    /\ UNCHANGED <<layer, conn, link, wire, sent, taken>>

----------------------------------------------------------------------------
(* IPCMessageLayer_Work, one action per status.  The loop of the service   *)
(* layer calls it when select reports the socket of the layer.             *)

\* Mutant of IdleCheck: what can be read is read first.
IdleCheckReadsFirst(e) ==
    /\ Status(e) = "Idle"
    /\ \/ /\ Incoming(e) # <<>> \/ PeerGone(e)
          /\ Put(e, [layer[e] EXCEPT !.status = "Reading"])
       \/ /\ Incoming(e) = <<>> /\ layer[e].outQueue # <<>>
          /\ Put(e, [layer[e] EXCEPT !.status = "Writing"])
    /\ UNCHANGED <<conn, link, broken, wire, sent, taken, faults>>

\* Writing goes before reading.
IdleCheck(e) ==
    /\ Status(e) = "Idle"
    /\ \/ /\ layer[e].outQueue # <<>>
          /\ Put(e, [layer[e] EXCEPT !.status = "Writing"])
       \/ /\ layer[e].outQueue = <<>>
          /\ Incoming(e) # <<>> \/ PeerGone(e)
          /\ Put(e, [layer[e] EXCEPT !.status = "Reading"])
    /\ UNCHANGED <<conn, link, broken, wire, sent, taken, faults>>

FinishConnect ==
    /\ Status(Client) = "Connecting"
    /\ Put(Client, [layer[Client] EXCEPT
             !.status = IF link[conn] = "up" THEN "Idle" ELSE "Unreachable"])
    /\ UNCHANGED <<conn, link, broken, wire, sent, taken, faults>>

\* The layer with its cursor on the message that it reads.
ReadStarted(l) ==
    IF l.currentPointer # "null" THEN l
    ELSE [l EXCEPT !.currentPointer = "header", !.currentBytesLeft = HeaderSize,
                   !.readingHeader = TRUE, !.got = <<>>]

\* The sizes that two bytes may declare: those of a header, its message's.
DeclaredSizes(header) ==
    LET m == header[1].msg IN
    IF header = SubSeq(Bytes(m), 1, HeaderSize) THEN {m.size}
    ELSE 1 .. Max(Sizes) + 1

\* The message that a buffer holds.
Decoded(buffer) ==
    IF buffer = Bytes(buffer[1].msg) THEN buffer[1].msg ELSE Garbage

\* Mutant of Finished: the layer goes on reading.
FinishedBusy(l) ==
    [l EXCEPT !.inQueue = Append(@, Decoded(l.got)), !.currentReadBuffer = "null",
              !.currentBytesLeft = 0, !.currentPointer = "null", !.got = <<>>]

\* The message is complete: the layer enqueues it and lets go of its buffer.
Finished(l) ==
    [l EXCEPT !.inQueue = Append(@, Decoded(l.got)), !.currentReadBuffer = "null",
              !.currentBytesLeft = 0, !.currentPointer = "null", !.got = <<>>,
              !.status = "Idle"]

\* Mutant of HeaderRead: sizes below that of a header pass.
HeaderReadUnchecked(l, size) ==
    IF size > Max(Sizes)
    THEN [Closed(l) EXCEPT !.currentPointer = "null"]
    ELSE [l EXCEPT !.readingHeader = FALSE, !.currentReadBuffer = "held",
                   !.currentPointer = "body",
                   !.currentBytesLeft = size - HeaderSize]

\* Mutant of HeaderRead: the size counts as that of the body.
HeaderReadTwice(l, size) ==
    IF size < HeaderSize \/ size > Max(Sizes)
    THEN [Closed(l) EXCEPT !.currentPointer = "null"]
    ELSE [l EXCEPT !.readingHeader = FALSE, !.currentReadBuffer = "held",
                   !.currentPointer = "body", !.currentBytesLeft = size]

\* The header is complete: a size out of range ends the connection, any other
\* gets a buffer.
HeaderRead(l, size) ==
    IF size < HeaderSize \/ size > Max(Sizes)
    THEN [Closed(l) EXCEPT !.currentPointer = "null"]
    ELSE LET body == [l EXCEPT !.readingHeader = FALSE,
                               !.currentReadBuffer = "held",
                               !.currentPointer = "body",
                               !.currentBytesLeft = size - HeaderSize]
         IN  IF size = HeaderSize THEN Finished(body) ELSE body

Read(e) ==
    LET l == ReadStarted(layer[e])
        in == Incoming(e) IN
    /\ Status(e) = "Reading"
    /\ \E n \in 1 .. Min({l.currentBytesLeft, Len(in)}) :
        LET r == [l EXCEPT !.got = @ \o SubSeq(in, 1, n),
                           !.currentBytesLeft = @ - n] IN
        /\ wire' = [wire EXCEPT ![ConnOf(e)][InDir(e)] = SubSeq(@, n + 1, Len(@))]
        /\ \/ r.currentBytesLeft > 0 /\ Put(e, r)
           \/ /\ r.currentBytesLeft = 0 /\ r.readingHeader
              /\ \E size \in DeclaredSizes(r.got) : Put(e, HeaderRead(r, size))
           \/ /\ r.currentBytesLeft = 0 /\ ~r.readingHeader
              /\ Put(e, Finished(r))
    /\ UNCHANGED <<conn, link, broken, sent, taken, faults>>

\* The end of the stream, or an error that hides what is left of it.  Both
\* free the read buffer and leave the pointer to it.
ReadFails(e) ==
    LET l == ReadStarted(layer[e]) IN
    /\ Status(e) = "Reading"
    /\ PeerGone(e)
    /\ Put(e, [Closed(l) EXCEPT
                 !.currentPointer = "null",
                 !.currentReadBuffer = IF @ = "null" THEN "null" ELSE "freed"])
    /\ UNCHANGED <<conn, link, broken, wire, sent, taken, faults>>

\* Mutant of RemoveMessage: the message stays.
RemoveMessageOffByOne(queue, i) == SubSeq(queue, i, Len(queue))

\* IPCMessage_RemoveMessage clears the link behind the message before it uses
\* that link to close the gap: what is behind the message goes with it.
RemoveMessage(queue, i) == SubSeq(queue, 1, i - 1)

\* The layer with its cursor on the message that it writes.
WriteStarted(l) ==
    IF l.currentWriteMessage # NoMessage THEN l
    ELSE [l EXCEPT !.currentWriteMessage = Head(l.outQueue),
                   !.outQueue = RemoveMessage(@, 1),
                   !.currentPointer = "message",
                   !.currentBytesLeft = Head(l.outQueue).size]

Written(l) ==
    IF l.currentBytesLeft > 0 THEN l
    ELSE [l EXCEPT !.currentWriteMessage = NoMessage, !.currentPointer = "null",
                   !.status = "Idle"]

\* The bytes from the cursor on.  What is sent to a peer that is gone is lost.
Write(e) ==
    LET l == WriteStarted(layer[e])
        m == l.currentWriteMessage
        done == m.size - l.currentBytesLeft IN
    /\ Status(e) = "Writing"
    /\ \E n \in 1 .. l.currentBytesLeft :
        /\ Put(e, Written([l EXCEPT !.currentBytesLeft = @ - n]))
        /\ \/ /\ ~PeerGone(e)
              /\ Len(Outgoing(e)) + n <= Capacity
              /\ wire' = [wire EXCEPT ![ConnOf(e)][OutDir(e)] =
                            @ \o SubSeq(Bytes(m), done + 1, done + n)]
           \/ PeerGone(e) /\ UNCHANGED wire
    /\ UNCHANGED <<conn, link, broken, sent, taken, faults>>

\* The layer keeps the message and its place in it.
WriteFails(e) ==
    /\ Status(e) = "Writing"
    /\ PeerGone(e)
    /\ Put(e, Closed(WriteStarted(layer[e])))
    /\ UNCHANGED <<conn, link, broken, wire, sent, taken, faults>>

Work(e) ==
    \/ IdleCheck(e)
    \/ e = Client /\ FinishConnect
    \/ Read(e)
    \/ ReadFails(e)
    \/ Write(e)
    \/ WriteFails(e)

Next ==
    \/ \E e \in Ends : Work(e) \/ NextMessage(e) \/ ShutDown(e)
    \/ \E e \in Ends, size \in Sizes : SendMessage(e, size)
    \/ \E size \in Sizes, result \in {"up", "refused"} : Connect(size, result)
    \/ \E k \in Conns : Accept(k) \/ RemoveDisconnected(k) \/ Break(k)

Spec == Init /\ [][Next]_vars

(* The loops of client and server call the service layer again and again,  *)
(* and it works on every layer whose socket is ready.                      *)
FairSpec ==
    /\ Spec
    /\ \A e \in Ends : WF_vars(Work(e))
    /\ \A k \in Conns : WF_vars(Accept(k))

----------------------------------------------------------------------------
(* Properties.                                                             *)

\* The messages that reached an end, those it holds for its user last.
Received(e) == taken[e] \o layer[e].inQueue

Before(m, n) == m.from < n.from \/ (m.from = n.from /\ m.no < n.no)

\* What was garbled on the way has no place in the order.
InOrder(m, n) == m # Garbage /\ n # Garbage => Before(m, n)

(* Over any number of disconnects and new connections no message arrives   *)
(* twice, and messages arrive in the order they were sent: nothing that    *)
(* was written is written again, though the queue and the half written     *)
(* message outlive the connection.                                         *)
InOrderOnce ==
    /\ \A e \in Ends : \A i, j \in DOMAIN Received(e) :
         i < j => InOrder(Received(e)[i], Received(e)[j])
    /\ \A k, l \in Conns : k < l =>
         \A i \in DOMAIN Received(k), j \in DOMAIN Received(l) :
           InOrder(Received(k)[i], Received(l)[j])

(* Reading and writing share currentPointer and currentBytesLeft.  As long *)
(* as a message is half written they belong to it, whatever happened to    *)
(* the connection; a layer that is writing has something to write, which   *)
(* the code asserts; a layer never reads into the message it writes, nor   *)
(* beyond the buffer it made for the size a header declared.               *)
CursorBelongs ==
    \A e \in Ends : LET l == layer[e] IN
        /\ l \in Layer
        /\ l.currentWriteMessage # NoMessage =>
             /\ l.currentPointer = "message"
             /\ l.currentBytesLeft \in 1 .. l.currentWriteMessage.size
        /\ l.currentPointer = "message" => l.currentWriteMessage # NoMessage
        /\ l.currentPointer = "body" =>
             /\ l.currentReadBuffer = "held"
             /\ l.currentBytesLeft \in 1 .. Max(Sizes) - HeaderSize
        /\ l.status = "Writing" =>
             l.currentWriteMessage # NoMessage \/ l.outQueue # <<>>
        /\ l.status = "Reading" => l.currentPointer # "message"

Up == INSTANCE Channel WITH Messages <- Message,
                            sent <- sent[Client], received <- Received(1)
Down == INSTANCE Channel WITH Messages <- Message,
                              sent <- sent[1], received <- Received(Client)

(* Over one connection both directions are channels: what arrives was sent *)
(* and is whole, in order and not repeated, however reads and writes cut   *)
(* the stream and whenever the connection ends.                            *)
BothAreChannels == Up!Spec /\ Down!Spec

Ended ==
    \/ conn = 1 /\ Status(Client) \in {"Disconnected", "Unreachable"}
    \/ Status(1) \in Gone
    \/ 1 \in broken

\* The message that an end writes, or the one it would write next.
InLine(e) ==
    IF layer[e].currentWriteMessage # NoMessage THEN layer[e].currentWriteMessage
    ELSE IF layer[e].outQueue # <<>> THEN Head(layer[e].outQueue)
    ELSE NoMessage

(* The first message of a queue arrives, or the connection ends, if the    *)
(* streams have room for what both sides have to write.                    *)
HeadArrives ==
    \A m \in Message :
        m.from \in {Client, 1} =>
            (InLine(m.from) = m ~>
                (Ended \/ m \in Range(Received(1 - m.from))))
============================================================================

------------------------------ MODULE CTChannel ------------------------------
(***************************************************************************)
(* Requests and responses between a client (service/ctclient.c) and a      *)
(* server (service/ctserver.c, backupservice/backupserver.c) over a        *)
(* channel that is opened on a connection, and opened again on the next    *)
(* one after that was lost.                                                *)
(*                                                                         *)
(* A connection moves whole messages; IPCMessageLayer shows how.  The      *)
(* queues of the client's message layer outlive its connections, as they   *)
(* do there.  Keys are the numbers of the connections they were made for.  *)
(* To decrypt with another key fails.  The transport is TCP, which is      *)
(* encrypted, or a Unix domain socket, which is not.                       *)
(***************************************************************************)
EXTENDS Naturals, Sequences, FiniteSets, SequencesExt

CONSTANTS
  MaxRequest,  \* bound on the ids of requests, which are given in order
  Kind,      \* request -> "ping", "register" or "bad" (no code of the service)
  MaxConns   \* bound on the connections the client starts

ASSUME RequestsAssumption ==
  /\ MaxRequest \in Nat
  /\ Kind \in [1..MaxRequest -> {"ping", "register", "bad"}]
  /\ MaxConns \in Nat \ {0}

Request == 1..MaxRequest

VARIABLES
  secure,      \* TRUE on TCP, FALSE on a Unix domain socket; constant
  status,      \* of the client's message layer
  conn,        \* the connection it has or had last
  channel,     \* channelState, sessionKey and tempKey of the client's peer data
  requests,    \* the client's requests
  inQueue, outQueue,  \* of the client's message layer
  layers,      \* connection -> the server's message layer
  serving,     \* the server process runs
  nextId,      \* the id of the request accepted last
  queuedAt,    \* history: request -> the connection its message was queued on
  dropped,     \* history: requests of which a message was dropped from a queue
  handled      \* history: what the server's request handler was given

clientVars == <<status, conn, channel, requests, inQueue, outQueue>>
history    == <<nextId, queuedAt>>
vars       == <<secure, clientVars, layers, serving, history, dropped, handled>>

Conns == 1..MaxConns

\* A message: the id of the request it is or answers (0: of none), the key
\* it is encrypted with or, in kind "open" and "opened", the key exchanged.
\* answers is the request a response was made for.
Message ==
  [kind : {"open", "opened", "request", "response", "error"},
   id : Request \cup {0}, key : 0..MaxConns, temp : 0..MaxConns, answers : Request \cup {0}]

Plain(kind) == [kind |-> kind, id |-> 0, key |-> 0, temp |-> 0, answers |-> 0]

PeerData == [state |-> "Closed", key |-> 0, temp |-> 0]

NoLayer == [status |-> "none", known |-> FALSE, channel |-> PeerData,
            inQueue |-> <<>>, outQueue |-> <<>>]

TypeOK ==
  /\ secure \in BOOLEAN /\ serving \in BOOLEAN
  /\ status \in {"Disconnected", "Connecting", "Connected", "Unreachable"}
  /\ conn \in 0..MaxConns
  /\ channel \in [state : {"Closed", "Opening", "Open"}, key : 0..MaxConns, temp : 0..MaxConns]
  /\ requests \in Seq([id : Request, message : BOOLEAN, abandoned : BOOLEAN,
                       responseCount : Nat, responses : Seq(Request)])
  /\ inQueue \in Seq(Message) /\ outQueue \in Seq(Message)
  /\ layers \in [Conns -> [status : {"none", "Connected", "Disconnected", "removed"},
                           known  : BOOLEAN,
                           channel : [state : {"Closed", "Open"}, key : 0..MaxConns, temp : {0}],
                           inQueue : Seq(Message), outQueue : Seq(Message)]]
  /\ nextId \in 0..MaxRequest
  /\ queuedAt \in [Request -> 0..MaxConns]
  /\ dropped \subseteq Request
  /\ handled \in Seq([id : Request, conn : Conns])

Init ==
  /\ secure \in BOOLEAN
  /\ status = "Disconnected" /\ conn = 0 /\ channel = PeerData
  /\ requests = <<>> /\ inQueue = <<>> /\ outQueue = <<>>
  /\ layers = [c \in Conns |-> NoLayer]
  /\ serving = TRUE
  /\ nextId = 0 /\ queuedAt = [r \in Request |-> 0]
  /\ dropped = {} /\ handled = <<>>

-----------------------------------------------------------------------------
(* The list of requests.                                                   *)

RequestNew(id) ==
  [id |-> id, message |-> TRUE, abandoned |-> FALSE, responseCount |-> 0, responses |-> <<>>]

Ids(list) == {list[i].id : i \in DOMAIN list}

FindRequest(id) == CHOOSE i \in DOMAIN requests :
                     requests[i].id = id /\ \A j \in 1..(i - 1) : requests[j].id # id

AddRequest(req) == Append(requests, req)

RemoveRequest(i) == RemoveAt(requests, i)

\* The request as a message, encrypted with the key of the session.
EncryptMessage(id) ==
  [Plain("request") EXCEPT !.id = id, !.key = IF secure THEN channel.key ELSE 0]

\* Whether the message is encrypted and its key is that of the session.
DecryptMessage(key, msg) == msg.kind \in {"request", "response"} /\ msg.key = key

\* To take the first message off a queue drops the others: the link to them
\* is cleared before it is used.
RemoveMessage(queue) == <<>>

Behind(queue) == {Tail(queue)[i].id : i \in DOMAIN Tail(queue)} \ {0}

\* What a message layer has received when its connection goes down.
Received(queue) == {SubSeq(queue, 1, n) : n \in 0..Len(queue)}

-----------------------------------------------------------------------------
(* The client.                                                             *)

\* Mutant of TempKey: it is made once.
TempKeyOnce == IF secure THEN 1 ELSE 0

\* The key a client makes for the answer.
TempKey == IF secure THEN conn + 1 ELSE 0

\* The connection is started and the message that opens the channel queued
\* behind whatever an earlier connection left in the queue.
ClientOpen ==
  /\ conn < MaxConns
  /\ status' = "Connecting" /\ conn' = conn + 1
  /\ channel' = [channel EXCEPT !.state = "Opening", !.temp = TempKey]
  /\ outQueue' = Append(outQueue, [Plain("open") EXCEPT !.temp = TempKey])

\* startConnect fails: the request is refused.
OpenFails ==
  /\ status = "Disconnected"
  /\ channel' = [channel EXCEPT !.state = "Closed"]
  /\ UNCHANGED <<secure, status, conn, requests, inQueue, outQueue, layers, serving,
                 history, dropped, handled>>

SendRequest(id) ==
  /\ id = nextId + 1
  /\ nextId' = id
  /\ \/ /\ status = "Disconnected"
        /\ ClientOpen
        /\ requests' = AddRequest(RequestNew(id))
        /\ UNCHANGED queuedAt
     \/ /\ status # "Disconnected"
        /\ status = "Connecting" \/ channel.state # "Open"
        /\ requests' = AddRequest(RequestNew(id))
        /\ UNCHANGED <<status, conn, channel, outQueue, queuedAt>>
     \/ /\ status \in {"Connected", "Unreachable"} /\ channel.state = "Open"
        /\ outQueue' = Append(outQueue, EncryptMessage(id))
        /\ requests' = AddRequest([RequestNew(id) EXCEPT !.message = FALSE])
        /\ queuedAt' = [queuedAt EXCEPT ![id] = conn]
        /\ UNCHANGED <<status, conn, channel>>
  /\ UNCHANGED <<secure, inQueue, layers, serving, dropped, handled>>

\* The outcome of a connection that was started; a connection is accepted by
\* a server that runs.
FinishConnect ==
  /\ status = "Connecting"
  /\ \/ /\ serving
        /\ status' = "Connected"
        /\ layers' = [layers EXCEPT ![conn].status = "Connected"]
     \/ /\ status' = "Unreachable"
        /\ UNCHANGED layers
  /\ UNCHANGED <<secure, conn, channel, requests, inQueue, outQueue, serving,
                 history, dropped, handled>>

\* The first message is written.  What is written to a connection that the
\* server has closed is lost.
ClientWrites ==
  /\ status = "Connected" /\ outQueue # <<>>
  /\ outQueue' = RemoveMessage(outQueue)
  /\ dropped' = dropped \cup Behind(outQueue)
  /\ layers' = IF layers[conn].status = "Connected"
               THEN [layers EXCEPT ![conn].inQueue = Append(@, Head(outQueue))]
               ELSE layers
  /\ UNCHANGED <<secure, status, conn, channel, requests, inQueue, serving, history, handled>>

\* The client loses its connection.
ClientDrops ==
  /\ status = "Connected"
  /\ status' = "Disconnected"
  /\ inQueue' \in Received(inQueue)
  /\ UNCHANGED <<secure, conn, channel, requests, outQueue, layers, serving,
                 history, dropped, handled>>

\* Where the requests are that wait for the channel.
Waiting == {i \in DOMAIN requests : requests[i].message}

InOrder(places) == {f \in [1..Cardinality(places) -> places] :
                      \A m, n \in DOMAIN f : m < n => f[m] < f[n]}

\* Those requests as messages, in the order of the list.
Flushed(order, key) == [n \in DOMAIN order |->
                          [Plain("request") EXCEPT !.id = requests[order[n]].id, !.key = key]]

\* Mutant of Emptied: the requests keep their messages.
EmptiedNot(list) == list

Emptied(list) == [i \in DOMAIN list |-> [list[i] EXCEPT !.message = FALSE]]

\* The key came with the answer to the message that asked for it.
Opened(msg) ==
  /\ channel'  = [state |-> "Open", key |-> msg.key, temp |-> 0]
  /\ \E order \in InOrder(Waiting) : outQueue' = outQueue \o Flushed(order, msg.key)
  /\ requests' = Emptied(requests)
  /\ queuedAt' = [r \in Request |-> IF \E i \in Waiting : requests[i].id = r THEN conn ELSE queuedAt[r]]
  /\ inQueue'  = Tail(inQueue)
  /\ UNCHANGED <<status, nextId>>

\* It is decrypted once.
BadKey ==
  /\ channel' = [channel EXCEPT !.temp = 0]
  /\ status'  = "Disconnected"
  /\ inQueue' \in Received(Tail(inQueue))
  /\ UNCHANGED <<outQueue, requests, queuedAt, nextId>>

\* Without a key Cryp_Decrypt fails an assertion, and the client ends.
ClientAborts ==
  /\ status' = "Disconnected" /\ channel' = PeerData
  /\ requests' = <<>> /\ inQueue' = <<>> /\ outQueue' = <<>>
  /\ nextId' = MaxRequest
  /\ UNCHANGED queuedAt

Unawaited ==
  /\ inQueue' = Tail(inQueue)
  /\ UNCHANGED <<status, channel, outQueue, requests, queuedAt, nextId>>

HandleOpening(msg) ==
  \/ msg.kind = "opened" /\ msg.temp = channel.temp /\ Opened(msg)
  \/ msg.kind = "opened" /\ msg.temp # channel.temp /\ channel.temp # 0 /\ BadKey
  \/ msg.kind = "opened" /\ msg.temp # channel.temp /\ channel.temp = 0 /\ ClientAborts
  \/ msg.kind # "opened" /\ Unawaited

\* Mutant of HandleResponse: an abandoned request is kept.
HandleResponseKeeps(msg) ==
  IF msg.id \notin Ids(requests) THEN requests
  ELSE LET i == FindRequest(msg.id)
       IN IF requests[i].abandoned THEN requests
          ELSE [requests EXCEPT ![i].responseCount = @ + 1,
                                ![i].responses = Append(@, msg.answers)]

HandleResponse(msg) ==
  IF msg.id \notin Ids(requests) THEN requests
  ELSE LET i == FindRequest(msg.id)
       IN IF requests[i].abandoned THEN RemoveRequest(i)
          ELSE [requests EXCEPT ![i].responseCount = @ + 1,
                                ![i].responses = Append(@, msg.answers)]

\* An error reply is taken for a failure of the channel, not for an answer.
CheckErrorMessage(msg) == msg.kind = "error"

HandleOpen(msg) ==
  /\ inQueue' = Tail(inQueue)
  /\ requests' = IF CheckErrorMessage(msg) \/ (secure /\ ~ DecryptMessage(channel.key, msg))
                 THEN requests ELSE HandleResponse(msg)
  /\ UNCHANGED <<status, channel, outQueue, queuedAt, nextId>>

\* Messages are handled whether or not the connection they came over is up.
ClientHandles ==
  /\ inQueue # <<>>
  /\ \/ channel.state = "Opening" /\ HandleOpening(Head(inQueue))
     \/ channel.state = "Open"    /\ HandleOpen(Head(inQueue))
     \/ channel.state = "Closed"  /\ Unawaited
  /\ UNCHANGED <<secure, conn, layers, serving, dropped, handled>>

\* What the caller does with a request that it made.

Dequeue(i) ==
  /\ requests' = RemoveRequest(i)
  /\ UNCHANGED <<secure, status, conn, channel, inQueue, outQueue, layers, serving,
                 history, dropped, handled>>

CheckResponse(i) == status = "Disconnected" /\ Dequeue(i)

NextResponse(i) ==
  /\ status \notin {"Disconnected", "Unreachable"}
  /\ requests[i].responses # <<>>
  /\ requests' = [requests EXCEPT ![i].responses = Tail(@)]
  /\ UNCHANGED <<secure, status, conn, channel, inQueue, outQueue, layers, serving,
                 history, dropped, handled>>

Withdraw(i) == Dequeue(i)

Abandon(i) ==
  \/ requests[i].responseCount > 0 /\ Dequeue(i)
  \/ /\ requests[i].responseCount = 0
     /\ requests' = [requests EXCEPT ![i].abandoned = TRUE]
     /\ UNCHANGED <<secure, status, conn, channel, inQueue, outQueue, layers, serving,
                    history, dropped, handled>>

Caller ==
  \/ OpenFails
  \/ \E id \in Request : SendRequest(id)
  \/ \E i \in DOMAIN requests :
        CheckResponse(i) \/ NextResponse(i) \/ Withdraw(i) \/ Abandon(i)

-----------------------------------------------------------------------------
(* The server.                                                             *)

\* A layer that is disconnected, or whose client is gone, or whose connection
\* fails, is removed with all that it holds.
RemoveDisconnected(c) ==
  /\ layers[c].status \in {"Connected", "Disconnected"}
  /\ layers' = [layers EXCEPT ![c] = [NoLayer EXCEPT !.status = "removed"]]
  /\ UNCHANGED <<secure, clientVars, serving, history, dropped, handled>>

\* The first message is written, to a client that may have closed the connection.
ServerWrites(c) ==
  /\ layers[c].status = "Connected" /\ layers[c].outQueue # <<>>
  /\ layers' = [layers EXCEPT ![c].outQueue = RemoveMessage(@)]
  /\ dropped' = dropped \cup Behind(layers[c].outQueue)
  /\ inQueue' = IF conn = c /\ status = "Connected"
                THEN Append(inQueue, Head(layers[c].outQueue)) ELSE inQueue
  /\ UNCHANGED <<secure, status, conn, channel, requests, outQueue, serving, history, handled>>

\* The first message of a client brings the data of the peer.
NewClient(layer) ==
  IF layer.known THEN layer
  ELSE [layer EXCEPT !.known = TRUE, !.channel = PeerData]

Disconnected(layer) == [layer EXCEPT !.status = "Disconnected"]

\* Mutant of ExchangeKeys: the channel is not open yet.
ExchangeKeysOpening(layer, msg, c) ==
  [layer EXCEPT !.channel = [state |-> "Opening", key |-> c, temp |-> 0],
                !.outQueue = Append(@, [Plain("opened") EXCEPT !.key = c, !.temp = msg.temp])]

ExchangeKeys(layer, msg, c) ==
  [layer EXCEPT !.channel = [state |-> "Open", key |-> c, temp |-> 0],
                !.outQueue = Append(@, [Plain("opened") EXCEPT !.key = c, !.temp = msg.temp])]

OpenPlain(layer) ==
  [layer EXCEPT !.channel = [state |-> "Open", key |-> 0, temp |-> 0],
                !.outQueue = Append(@, Plain("opened"))]

\* The first message a client may send opens the channel; what comes later is
\* encrypted if the channel is.
Unexpected(layer, msg) ==
  \/ layer.channel.state = "Closed" /\ msg.kind # "open"
  \/ layer.channel.state = "Open" /\ secure /\ ~ DecryptMessage(layer.channel.key, msg)

OpenChannel(layer, msg, c) == IF secure THEN ExchangeKeys(layer, msg, c) ELSE OpenPlain(layer)

\* On an encrypted channel all the responses are encrypted, the errors too.
SendResponse(layer, msg) ==
  IF layer.status = "Disconnected" THEN layer
  ELSE [layer EXCEPT !.outQueue = Append(@, [msg EXCEPT !.key = layer.channel.key])]

HandlePing(layer, msg) ==
  SendResponse(layer, [Plain("response") EXCEPT !.id = msg.id, !.answers = msg.id])

\* An error reply has a message code of its own, which a client sees when it
\* is not encrypted.
SendErrorMessage(layer, msg) ==
  SendResponse(layer, [Plain(IF secure THEN "response" ELSE "error")
                         EXCEPT !.id = msg.id, !.answers = msg.id])

\* HandleRegister asserts that the peer has data of the backup server.  They
\* would be created by ClientUp, which does nothing: the process ends.
HandleRegister ==
  /\ serving' = FALSE
  /\ layers' = [c \in Conns |-> IF layers[c].status = "none" THEN NoLayer
                                ELSE [NoLayer EXCEPT !.status = "removed"]]

\* What the service makes of a message; that of a stale "open" is no request.
CodeOf(msg) == IF msg.id = 0 THEN "bad" ELSE Kind[msg.id]

RequestHandler(layer, msg, c) ==
  /\ handled' = IF msg.id = 0 THEN handled ELSE Append(handled, [id |-> msg.id, conn |-> c])
  /\ \/ /\ CodeOf(msg) = "ping"
        /\ layers' = [layers EXCEPT ![c] = HandlePing(layer, msg)]
        /\ UNCHANGED serving
     \/ /\ CodeOf(msg) = "register"
        /\ HandleRegister
     \/ /\ CodeOf(msg) = "bad"
        /\ layers' = [layers EXCEPT ![c] = SendErrorMessage(layer, msg)]
        /\ UNCHANGED serving

\* Messages of a layer that was shut down a moment ago are handled as others.
ServerHandles(c) ==
  /\ layers[c].status \in {"Connected", "Disconnected"} /\ layers[c].inQueue # <<>>
  /\ \E layer \in {NewClient([layers[c] EXCEPT !.inQueue = Tail(@)])} :
     \E msg \in {Head(layers[c].inQueue)} :
       \/ /\ Unexpected(layer, msg)
          /\ layers' = [layers EXCEPT ![c] = Disconnected(layer)]
          /\ UNCHANGED <<serving, handled>>
       \/ /\ layer.channel.state = "Closed" /\ ~ Unexpected(layer, msg)
          /\ layers' = [layers EXCEPT ![c] = OpenChannel(layer, msg, c)]
          /\ UNCHANGED <<serving, handled>>
       \/ /\ layer.channel.state = "Open" /\ ~ Unexpected(layer, msg)
          /\ RequestHandler(layer, msg, c)
  /\ UNCHANGED <<secure, clientVars, history, dropped>>

-----------------------------------------------------------------------------
Next ==
  \/ Caller
  \/ FinishConnect \/ ClientWrites \/ ClientDrops \/ ClientHandles
  \/ \E c \in Conns : RemoveDisconnected(c) \/ ServerWrites(c) \/ ServerHandles(c)

\* Both loops go round: what is queued is written and handled, and each side
\* finds out that the other has closed the connection.
Fairness ==
  /\ WF_vars(FinishConnect) /\ WF_vars(ClientWrites) /\ WF_vars(ClientHandles)
  /\ WF_vars(ClientDrops /\ layers[conn].status # "Connected")
  /\ \A c \in Conns : /\ WF_vars(ServerWrites(c)) /\ WF_vars(ServerHandles(c))

Spec == Init /\ [][Next]_vars /\ Fairness

-----------------------------------------------------------------------------
\* A request is handed to the request handler at most once, over whatever
\* connections are lost and opened again, and those handled on one connection
\* are handled in the order the caller made them in.  What a request holds as
\* its answer is one message at most, made for it by the handler. (ctclient.c,
\* line 905; CTClient__HandleResponse)
AtMostOnce ==
  /\ \A i, j \in DOMAIN handled : i < j =>
       /\ handled[i].id # handled[j].id
       /\ handled[i].conn = handled[j].conn => handled[i].id < handled[j].id
  /\ \A i \in DOMAIN requests :
       /\ requests[i].responseCount <= 1
       /\ requests[i].responseCount = 1 =>
            \E h \in DOMAIN handled : handled[h].id = requests[i].id
       /\ Range(requests[i].responses) \subseteq {requests[i].id}

\* When the channel is open on both sides of a connection that is up, both
\* have the same key, whatever is left of earlier ones. (ctclient.c, line 409)
KeysAgree ==
  status = "Connected" /\ channel.state = "Open" /\ layers[conn].channel.state = "Open"
    => channel.key = layers[conn].channel.key

\* The client cannot hope for the answer to a request any more.  There is no
\* connection, or the request was sent over an earlier one, or dropped from a
\* queue; it waits for the channel to be opened, but an answer left of an
\* earlier connection did that before the connection was there; or the answer
\* is an error that is not encrypted, which no request gets.
Lost(id) ==
  \/ status \in {"Disconnected", "Unreachable"}
  \/ queuedAt[id] # 0 /\ queuedAt[id] # conn
  \/ id \in dropped
  \/ channel.state = "Open" /\ requests[FindRequest(id)].message
  \/ ~ secure /\ Kind[id] = "bad"

\* Every request is answered, or withdrawn, or lost in one of these ways:
\* nobody waits for an answer over a connection that works. An abandoned
\* request is deleted. (ctclient.h, line 110: "When the response for this
\* request arrives, it will be discarded and the request itself will be
\* deleted.")
RequestsSettle ==
  \A id \in Request :
    (id \in Ids(requests)) ~>
      \/ id \notin Ids(requests) \/ Lost(id)
      \/ requests[FindRequest(id)].responseCount > 0

\* Requests that were made before the channel was open are sent when it is.
\* (ctclient.c, line 862: "As soon as the channel is open (i.e. the keys are
\* exchanged) all requests which still contain a message will be send.")
PostponedAreSent ==
  status = "Connected" /\ channel.state = "Open"
    => \A i \in DOMAIN requests : ~ requests[i].message /\ requests[i].id \notin dropped

=============================================================================

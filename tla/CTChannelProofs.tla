--------------------------- MODULE CTChannelProofs ---------------------------
(***************************************************************************)
(* Proofs about CTChannel, for any number of requests and connections.     *)
(*                                                                         *)
(* A request has one place at a time: it waits in the list, is in the      *)
(* queue of the client, in that of the server's end of one connection, or  *)
(* was handled; and its answer has one: a queue of the server, the queue   *)
(* of the client, or the count of the request.  To keep the requests of a  *)
(* connection in order takes more: what the client sends after the message *)
(* that opens the channel of a connection, it sends when the channel is    *)
(* open, and until then that message was either not written, or is the     *)
(* only one that was.                                                      *)
(***************************************************************************)
EXTENDS CTChannel, NumberFacts, SequenceTheorems, FiniteSetTheorems, TLAPS

-----------------------------------------------------------------------------
(* The invariant.                                                          *)

\* Whether a message of request id is in the queue.
Has(queue, id) == \E i \in DOMAIN queue : queue[i].id = id

\* No request has two messages in the queue.
Distinct(queue) == \A i, j \in DOMAIN queue :
                     queue[i].id = queue[j].id /\ queue[i].id # 0 => i = j

\* The messages of requests in a queue are in the order of their ids.
Ascending(queue) == \A i, j \in DOMAIN queue :
                      i < j /\ queue[i].id # 0 /\ queue[j].id # 0 => queue[i].id < queue[j].id

HandledIds == {handled[h].id : h \in DOMAIN handled}
HandledOn(c) == {handled[h].id : h \in {g \in DOMAIN handled : handled[g].conn = c}}

\* A message of the client, for connection c or an earlier one.
FromClient(m, c) ==
  /\ m.kind \in {"open", "request"}
  /\ m.kind = "request" <=> m.id # 0
  /\ secure /\ m.kind = "open" => m.temp \in 1..c

\* What the server writes: the answer to a message that opens the channel has a
\* key made for the connection.
FromServer(m) ==
  /\ m.kind \in {"opened", "response", "error"}
  /\ m.id # 0 => m.kind # "opened" /\ m.answers = m.id
  /\ m.kind = "opened" => IF secure THEN m.temp \in 1..m.key ELSE m.key = 0

\* Everything on the way from the client was written by it.
Asks ==
  /\ \A i \in DOMAIN outQueue : FromClient(outQueue[i], conn)
  /\ \A c \in Conns : \A i \in DOMAIN layers[c].inQueue : FromClient(layers[c].inQueue[i], c)

\* Everything on the way to the client was written by the server.
Answers ==
  /\ \A i \in DOMAIN inQueue : FromServer(inQueue[i]) /\ inQueue[i].key <= conn
  /\ \A c \in Conns : \A i \in DOMAIN layers[c].outQueue :
       FromServer(layers[c].outQueue[i]) /\ layers[c].outQueue[i].key <= c

\* A connection that was not started has no end at the server, and one that the
\* client has is not closed.
Started ==
  /\ \A c \in Conns : c > conn => layers[c] = NoLayer
  /\ \A h \in DOMAIN handled : handled[h].conn <= conn
  /\ status # "Disconnected" => conn > 0 /\ channel.state # "Closed"

\* The ids that were given, and their order in the list.
Given ==
  /\ \A i \in DOMAIN requests : requests[i].id <= nextId
  /\ \A i, j \in DOMAIN requests : i < j => requests[i].id < requests[j].id
  /\ \A i \in DOMAIN outQueue : outQueue[i].id <= nextId
  /\ \A c \in Conns : \A i \in DOMAIN layers[c].inQueue : layers[c].inQueue[i].id <= nextId
  /\ \A h \in DOMAIN handled : handled[h].id <= nextId

\* A request has one place.
OnePlace ==
  /\ \A i \in Waiting : /\ ~Has(outQueue, requests[i].id)
                        /\ \A c \in Conns : ~Has(layers[c].inQueue, requests[i].id)
                        /\ requests[i].id \notin HandledIds
  /\ Distinct(outQueue)
  /\ \A c \in Conns : Distinct(layers[c].inQueue)
  /\ \A id \in Request :
       /\ Has(outQueue, id) => id \notin HandledIds
       /\ \A c \in Conns : Has(layers[c].inQueue, id) =>
            /\ ~Has(outQueue, id)
            /\ id \notin HandledIds
            /\ \A d \in Conns : Has(layers[d].inQueue, id) => c = d
  /\ \A h, g \in DOMAIN handled : handled[h].id = handled[g].id => h = g

\* Its answer has one, and the request was handled.
OneAnswer ==
  /\ Distinct(inQueue)
  /\ \A c \in Conns : Distinct(layers[c].outQueue)
  /\ \A id \in Request :
       /\ Has(inQueue, id) => id \in HandledIds
       /\ \A c \in Conns : Has(layers[c].outQueue, id) =>
            /\ id \in HandledIds
            /\ ~Has(inQueue, id)
            /\ \A d \in Conns : Has(layers[d].outQueue, id) => c = d

\* No request is answered, or handled, more often than once.
Counted ==
  \A i \in DOMAIN requests : LET r == requests[i] IN
    /\ r.responseCount <= 1
    /\ r.responseCount = 1 => /\ r.id \in HandledIds
                              /\ ~Has(inQueue, r.id)
                              /\ \A c \in Conns : ~Has(layers[c].outQueue, r.id)
    /\ \A n \in DOMAIN r.responses : r.responses[n] = r.id

\* Nothing was written on the connection.
Untouched(c) ==
  /\ layers[c].inQueue = <<>>
  /\ layers[c].channel.state = "Closed"
  /\ HandledOn(c) = {}

Opens(queue) == \E i \in DOMAIN queue : queue[i].kind = "open"

\* The message that opens the channel of the last connection is in the queue, or
\* only one message was written since the connection was started.
Opening ==
  /\ Opens(outQueue) => conn > 0 /\ Untouched(conn)
  /\ channel.state = "Opening" =>
       /\ conn > 0
       /\ outQueue = <<>> \/ Untouched(conn)
       /\ HandledOn(conn) = {}
       /\ \/ layers[conn].channel.state = "Closed" /\ Len(layers[conn].inQueue) <= 1
          \/ layers[conn].channel.state = "Open" /\ layers[conn].inQueue = <<>>

\* Requests are or may be handled on the connection.
Live(c) ==
  \/ HandledOn(c) # {}
  \/ layers[c].channel.state = "Open"
  \/ Opens(layers[c].inQueue)

\* The order of what was handled on the connection, what the server received on
\* it, and what the client is about to write.
InOrderOn(c) ==
  /\ Ascending(layers[c].inQueue)
  /\ \A i \in DOMAIN layers[c].inQueue : \A id \in HandledOn(c) :
       layers[c].inQueue[i].id # 0 => id < layers[c].inQueue[i].id
  /\ c = conn /\ channel.state = "Open" =>
       /\ Ascending(outQueue)
       /\ \A i \in DOMAIN outQueue : outQueue[i].id # 0 =>
            /\ \A id \in HandledOn(c) : id < outQueue[i].id
            /\ \A j \in DOMAIN layers[c].inQueue : layers[c].inQueue[j].id < outQueue[i].id

\* The messages of requests travel in the order of their ids on every connection.
Ordered ==
  /\ \A c \in Conns : Live(c) => InOrderOn(c)
  /\ \A h, g \in DOMAIN handled :
       h < g /\ handled[h].conn = handled[g].conn => handled[h].id < handled[g].id

\* The key of an open channel is that of its connection.
Keys ==
  /\ \A c \in Conns : layers[c].channel.state = "Open" =>
       layers[c].channel.key = IF secure THEN c ELSE 0
  /\ secure => channel.temp \in {0, conn}
  /\ channel.state = "Open" => channel.key = IF secure THEN conn ELSE 0

\* The inductive invariant.
IInv == /\ TypeOK /\ Started /\ Asks /\ Given /\ OnePlace /\ Opening /\ Ordered
        /\ Answers /\ OneAnswer /\ Counted /\ Keys

-----------------------------------------------------------------------------
(* Queues.                                                                 *)

\* p is q without some of its messages.
Less(p, q) ==
  \E f \in [DOMAIN p -> DOMAIN q] :
    /\ \A i, j \in DOMAIN p : i < j => f[i] < f[j]
    /\ \A i \in DOMAIN p : p[i] = q[f[i]]

\* What a queue has after some of its messages were taken off it.
LEMMA LessFacts ==
  ASSUME NEW p \in Seq(Message), NEW q \in Seq(Message), Less(p, q)
  PROVE  /\ \A id : Has(p, id) => Has(q, id)
         /\ \A i \in DOMAIN p : \E j \in DOMAIN q : p[i] = q[j]
         /\ Distinct(q) => Distinct(p)
         /\ Ascending(q) => Ascending(p)
         /\ Opens(p) => Opens(q)
         /\ q = <<>> => p = <<>>
         /\ Len(q) <= 1 => Len(p) <= 1
<1>1. PICK f \in [DOMAIN p -> DOMAIN q] :
        /\ \A i, j \in DOMAIN p : i < j => f[i] < f[j]
        /\ \A i \in DOMAIN p : p[i] = q[f[i]]
  BY DEF Less
<1>2. /\ DOMAIN p = 1..Len(p) /\ DOMAIN q = 1..Len(q)
      /\ Len(p) \in Nat /\ Len(q) \in Nat
  BY LenProperties
<1>3. \A i, j \in DOMAIN p : f[i] = f[j] => i = j
  BY <1>1, <1>2
<1>4. Distinct(q) => Distinct(p)
  BY <1>1, <1>3 DEF Distinct
<1>5. Ascending(q) => Ascending(p)
  BY <1>1 DEF Ascending
<1>6. q = <<>> => p = <<>>
  <2> SUFFICES ASSUME q = <<>>, p # <<>> PROVE FALSE
    OBVIOUS
  <2>1. 1 \in DOMAIN p
    BY <1>2, EmptySeq
  <2> QED
    BY <1>1, <1>2, <2>1, EmptySeq
<1>7. Len(q) <= 1 => Len(p) <= 1
  <2> SUFFICES ASSUME Len(q) <= 1, Len(p) > 1 PROVE FALSE
    BY <1>2
  <2>1. 1 \in DOMAIN p /\ 2 \in DOMAIN p
    BY <1>2
  <2>2. f[1] < f[2] /\ f[1] \in 1..Len(q) /\ f[2] \in 1..Len(q)
    BY <1>1, <1>2, <2>1
  <2> QED
    BY <1>2, <2>2
<1> QED
  BY <1>1, <1>4, <1>5, <1>6, <1>7 DEF Has, Opens

\* A queue, the rest of it, the first of its messages, and none of them.
LEMMA LessIs ==
  ASSUME NEW q \in Seq(Message)
  PROVE  /\ Less(q, q)
         /\ Less(<<>>, q)
         /\ q # <<>> => Tail(q) \in Seq(Message) /\ Less(Tail(q), q)
         /\ \A p \in Received(q) : p \in Seq(Message) /\ Less(p, q)
<1>1. DOMAIN q = 1..Len(q) /\ Len(q) \in Nat
  BY LenProperties
<1>2. Less(q, q)
  <2> DEFINE f == [i \in DOMAIN q |-> i]
  <2>1. f \in [DOMAIN q -> DOMAIN q] /\ \A i \in DOMAIN q : f[i] = i
    OBVIOUS
  <2> HIDE DEF f
  <2> QED
    BY <2>1 DEF Less
<1>3. Less(<<>>, q)
  <2>1. DOMAIN <<>> = {}
    BY EmptySeq
  <2> DEFINE f == [i \in DOMAIN <<>> |-> i]
  <2>2. f \in [DOMAIN <<>> -> DOMAIN q]
    BY <2>1
  <2> HIDE DEF f
  <2> QED
    BY <2>1, <2>2 DEF Less
<1>4. ASSUME q # <<>> PROVE Tail(q) \in Seq(Message) /\ Less(Tail(q), q)
  <2>1. /\ Tail(q) \in Seq(Message) /\ Len(Tail(q)) = Len(q) - 1
        /\ \A i \in 1..Len(Tail(q)) : Tail(q)[i] = q[i + 1]
    BY <1>4, HeadTailProperties
  <2>2. DOMAIN Tail(q) = 1..(Len(q) - 1)
    BY <2>1, LenProperties
  <2>4. Less(Tail(q), q)
    <3> DEFINE f == [i \in DOMAIN Tail(q) |-> i + 1]
    <3>1. f \in [DOMAIN Tail(q) -> DOMAIN q] /\ \A i \in DOMAIN Tail(q) : f[i] = i + 1
      BY <1>1, <2>2
    <3> HIDE DEF f
    <3> QED
      BY <1>1, <2>1, <2>2, <3>1 DEF Less
  <2> QED
    BY <2>1, <2>4
<1>5. ASSUME NEW p \in Received(q) PROVE p \in Seq(Message) /\ Less(p, q)
  <2>1. PICK n \in 0..Len(q) : p = SubSeq(q, 1, n)
    BY DEF Received
  <2>2. /\ p \in Seq(Message) /\ Len(p) = n /\ \A i \in 1..n : p[i] = q[i]
    BY <1>1, <2>1, SubSeqProperties
  <2>3. DOMAIN p = 1..n
    BY <2>2, LenProperties
  <2>4. Less(p, q)
    <3> DEFINE f == [i \in DOMAIN p |-> i]
    <3>1. f \in [DOMAIN p -> DOMAIN q] /\ \A i \in DOMAIN p : f[i] = i
      BY <1>1, <2>3
    <3> HIDE DEF f
    <3> QED
      BY <1>1, <2>2, <2>3, <3>1 DEF Less
  <2> QED
    BY <2>2, <2>4
<1> QED
  BY <1>2, <1>3, <1>4, <1>5

\* To take off messages twice.
LEMMA LessLess ==
  ASSUME NEW p \in Seq(Message), NEW q \in Seq(Message), NEW r \in Seq(Message),
         Less(p, q), Less(q, r)
  PROVE  Less(p, r)
<1>1. PICK f \in [DOMAIN p -> DOMAIN q] :
        /\ \A i, j \in DOMAIN p : i < j => f[i] < f[j]
        /\ \A i \in DOMAIN p : p[i] = q[f[i]]
  BY DEF Less
<1>2. PICK g \in [DOMAIN q -> DOMAIN r] :
        /\ \A i, j \in DOMAIN q : i < j => g[i] < g[j]
        /\ \A i \in DOMAIN q : q[i] = r[g[i]]
  BY DEF Less
<1> DEFINE h == [i \in DOMAIN p |-> g[f[i]]]
<1>3. h \in [DOMAIN p -> DOMAIN r] /\ \A i \in DOMAIN p : h[i] = g[f[i]]
  BY <1>1, <1>2
<1> HIDE DEF h
<1>4. \A i, j \in DOMAIN p : i < j => h[i] < h[j]
  BY <1>1, <1>2, <1>3
<1>5. \A i \in DOMAIN p : p[i] = r[h[i]]
  BY <1>1, <1>2, <1>3
<1> QED
  BY <1>3, <1>4, <1>5 DEF Less

\* A queue with one message more.
LEMMA AppendFacts ==
  ASSUME NEW q \in Seq(Message), NEW m \in Message
  PROVE  /\ Append(q, m) \in Seq(Message)
         /\ \A id : Has(Append(q, m), id) <=> Has(q, id) \/ m.id = id
         /\ \A i \in DOMAIN Append(q, m) : \/ i \in DOMAIN q /\ Append(q, m)[i] = q[i]
                                           \/ i = Len(q) + 1 /\ Append(q, m)[i] = m
         /\ Distinct(q) /\ (m.id # 0 => ~Has(q, m.id)) => Distinct(Append(q, m))
         /\ Ascending(q) /\ (m.id # 0 => \A i \in DOMAIN q : q[i].id < m.id)
              => Ascending(Append(q, m))
         /\ Opens(Append(q, m)) <=> Opens(q) \/ m.kind = "open"
         /\ Len(Append(q, m)) = Len(q) + 1
<1> DEFINE p == Append(q, m)
<1>1. DOMAIN q = 1..Len(q) /\ Len(q) \in Nat
  BY LenProperties
<1>2. /\ p \in Seq(Message) /\ Len(p) = Len(q) + 1
      /\ p[Len(q) + 1] = m /\ \A i \in 1..Len(q) : p[i] = q[i]
  BY AppendProperties
<1>3. DOMAIN p = 1..(Len(q) + 1)
  BY <1>2, LenProperties
<1> HIDE DEF p
<1>4. \A i \in DOMAIN p : (i \in DOMAIN q /\ p[i] = q[i]) \/ (i = Len(q) + 1 /\ p[i] = m)
  BY <1>1, <1>2, <1>3
<1>5. DOMAIN q \subseteq DOMAIN p /\ Len(q) + 1 \in DOMAIN p
  BY <1>1, <1>3
<1>6. \A id : Has(p, id) <=> Has(q, id) \/ m.id = id
  BY <1>1, <1>2, <1>4, <1>5 DEF Has
<1>7. Opens(p) <=> Opens(q) \/ m.kind = "open"
  BY <1>1, <1>2, <1>4, <1>5 DEF Opens
<1>8. ASSUME Distinct(q), m.id # 0 => ~Has(q, m.id) PROVE Distinct(p)
  BY <1>4, <1>8 DEF Distinct, Has
<1>9. ASSUME Ascending(q), m.id # 0 => \A i \in DOMAIN q : q[i].id < m.id PROVE Ascending(p)
  BY <1>1, <1>4, <1>9 DEF Ascending
<1> QED
  BY <1>2, <1>4, <1>6, <1>7, <1>8, <1>9 DEF p

-----------------------------------------------------------------------------
(* Types.                                                                  *)

\* The states of the server's end of a connection.
LayerSet ==
  [status : {"none", "Connected", "Disconnected", "removed"}, known : BOOLEAN,
   channel : [state : {"Closed", "Open"}, key : 0..MaxConns, temp : {0}],
   inQueue : Seq(Message), outQueue : Seq(Message)]

\* The requests that the client keeps.
RequestSet ==
  [id : Request, message : BOOLEAN, abandoned : BOOLEAN,
   responseCount : Nat, responses : Seq(Request)]

\* The bounds are numbers.
LEMMA Bounds == MaxRequest \in Nat /\ MaxConns \in Nat \ {0} /\ Request \subseteq Nat \ {0}
BY RequestsAssumption DEF Request

\* The type invariant in parts, with names for its larger sets.
FlagTypes == secure \in BOOLEAN /\ serving \in BOOLEAN

\* The types of the client's variables.
ClientTypes ==
  /\ status \in {"Disconnected", "Connecting", "Connected", "Unreachable"}
  /\ conn \in 0..MaxConns
  /\ channel \in [state : {"Closed", "Opening", "Open"}, key : 0..MaxConns, temp : 0..MaxConns]
  /\ requests \in Seq(RequestSet)
  /\ inQueue \in Seq(Message) /\ outQueue \in Seq(Message)

\* The types of the history.
HistoryTypes ==
  /\ nextId \in 0..MaxRequest
  /\ queuedAt \in [Request -> 0..MaxConns]
  /\ dropped \subseteq Request
  /\ handled \in Seq([id : Request, conn : Conns])

\* The type of the server's ends.
LayerTypes == layers \in [Conns -> LayerSet]

\* The type invariant is the conjunction of these parts.
LEMMA TypeParts ==
  /\ TypeOK <=> FlagTypes /\ ClientTypes /\ HistoryTypes /\ LayerTypes
  /\ TypeOK' <=> FlagTypes' /\ ClientTypes' /\ HistoryTypes' /\ LayerTypes'
BY Zenon DEF TypeOK, FlagTypes, ClientTypes, HistoryTypes, LayerTypes, RequestSet, LayerSet

\* What a message is.
LEMMA MessageFacts ==
  /\ \A m \in Message : /\ m.id \in Request \cup {0} /\ m.answers \in Request \cup {0}
                        /\ m.key \in 0..MaxConns /\ m.temp \in 0..MaxConns
                        /\ m.id \in Nat /\ m.key \in Nat /\ m.temp \in Nat
  /\ \A kind \in {"open", "opened", "request", "response", "error"} :
     \A id, answers \in Request \cup {0} : \A key, temp \in 0..MaxConns :
       [kind |-> kind, id |-> id, key |-> key, temp |-> temp, answers |-> answers] \in Message
<1>1. \A m \in Message : /\ m.id \in Request \cup {0} /\ m.answers \in Request \cup {0}
                         /\ m.key \in 0..MaxConns /\ m.temp \in 0..MaxConns
  BY DEF Message
<1>2. Request \cup {0} \subseteq Nat /\ 0..MaxConns \subseteq Nat
  BY Bounds
<1>3. ASSUME NEW kind \in {"open", "opened", "request", "response", "error"},
             NEW id \in Request \cup {0}, NEW answers \in Request \cup {0},
             NEW key \in 0..MaxConns, NEW temp \in 0..MaxConns
      PROVE  [kind |-> kind, id |-> id, key |-> key, temp |-> temp, answers |-> answers]
               \in Message
  BY DEF Message
<1> QED
  BY <1>1, <1>2, <1>3

\* The first message of a queue and the rest.
LEMMA HeadFacts ==
  ASSUME NEW q \in Seq(Message), q # <<>>
  PROVE  /\ Head(q) \in Message /\ Tail(q) \in Seq(Message)
         /\ 1 \in DOMAIN q /\ Head(q) = q[1]
         /\ \A i \in DOMAIN Tail(q) : i + 1 \in DOMAIN q /\ Tail(q)[i] = q[i + 1]
         /\ \A i \in DOMAIN Tail(q) : i \in Nat /\ i > 0
         /\ Len(Tail(q)) = Len(q) - 1 /\ Len(q) \in Nat
<1>1. /\ Tail(q) \in Seq(Message) /\ Len(Tail(q)) = Len(q) - 1
      /\ \A i \in 1..Len(Tail(q)) : Tail(q)[i] = q[i + 1]
      /\ Head(q) \in Message
  BY HeadTailProperties
<1>2. DOMAIN Tail(q) = 1..Len(Tail(q)) /\ DOMAIN q = 1..Len(q) /\ Len(q) \in Nat
  BY <1>1, LenProperties
<1>3. Len(q) > 0
  BY <1>2, EmptySeq
<1>4. Head(q) = q[1]
  OBVIOUS
<1> QED
  BY <1>1, <1>2, <1>3, <1>4

\* The list without one of its requests.
LEMMA RemoveFacts ==
  ASSUME NEW i \in DOMAIN requests, ClientTypes
  PROVE  /\ RemoveRequest(i) \in Seq(RequestSet)
         /\ Len(RemoveRequest(i)) = Len(requests) - 1
         /\ \A j \in DOMAIN RemoveRequest(i) :
              RemoveRequest(i)[j] = requests[IF j < i THEN j ELSE j + 1]
<1> DEFINE front == SubSeq(requests, 1, i - 1)
           back  == SubSeq(requests, i + 1, Len(requests))
<1>1. requests \in Seq(RequestSet) /\ DOMAIN requests = 1..Len(requests) /\ Len(requests) \in Nat
  BY LenProperties DEF ClientTypes
<1>2. /\ front \in Seq(RequestSet) /\ Len(front) = i - 1
      /\ \A j \in 1..(i - 1) : front[j] = requests[j]
  <2>1. 1 \in 1..(Len(requests) + 1) /\ i - 1 \in 0..Len(requests) /\ i - 1 \in (1-1)..Len(requests)
    BY <1>1
  <2> QED
    BY <1>1, <2>1, SubSeqProperties
<1>3. /\ back \in Seq(RequestSet) /\ Len(back) = Len(requests) - i
      /\ \A j \in 1..(Len(requests) - i) : back[j] = requests[i + j]
  <2>1. i + 1 \in 1..(Len(requests) + 1) /\ Len(requests) \in i..Len(requests)
    BY <1>1
  <2> QED
    BY <1>1, <2>1, SubSeqProperties, SMTT(30)
<1>4. RemoveRequest(i) = front \o back
  BY <1>1 DEF RemoveRequest, RemoveAt
<1> HIDE DEF front, back
<1>5. /\ RemoveRequest(i) \in Seq(RequestSet)
      /\ Len(RemoveRequest(i)) = Len(requests) - 1
      /\ \A j \in 1..(Len(requests) - 1) :
           RemoveRequest(i)[j] = IF j <= Len(front) THEN front[j] ELSE back[j - Len(front)]
  <2>1. /\ front \o back \in Seq(RequestSet)
        /\ Len(front \o back) = Len(front) + Len(back)
        /\ \A j \in 1..(Len(front) + Len(back)) :
             (front \o back)[j] = IF j <= Len(front) THEN front[j] ELSE back[j - Len(front)]
    BY <1>2, <1>3, ConcatProperties
  <2>2. Len(front) + Len(back) = Len(requests) - 1
    BY <1>1, <1>2, <1>3
  <2> QED
    BY <1>4, <2>1, <2>2
<1>6. DOMAIN RemoveRequest(i) = 1..(Len(requests) - 1)
  BY <1>1, <1>5, LenProperties
<1>7. ASSUME NEW j \in 1..(Len(requests) - 1)
      PROVE RemoveRequest(i)[j] = requests[IF j < i THEN j ELSE j + 1]
  <2>1. CASE j < i
    BY <1>1, <1>2, <1>4, <1>5, <2>1
  <2>2. CASE j >= i
    <3>1. RemoveRequest(i)[j] = back[j - (i - 1)] /\ j - (i - 1) \in 1..(Len(requests) - i)
      BY <1>1, <1>2, <1>4, <1>5, <2>2
    <3> QED
      BY <1>1, <1>3, <2>2, <3>1, SMTT(30)
  <2> QED
    BY <1>1, <2>1, <2>2
<1> QED
  BY <1>1, <1>5, <1>6, <1>7

-----------------------------------------------------------------------------
(* What a step that only takes requests, messages or answers away leaves.  *)

\* The list has no other requests than before.
ListLess ==
  \E f \in [DOMAIN requests' -> DOMAIN requests] :
    /\ \A i, j \in DOMAIN requests' : i < j => f[i] < f[j]
    /\ \A i \in DOMAIN requests' :
         /\ requests'[i].id = requests[f[i]].id
         /\ requests'[i].message => requests[f[i]].message

\* The requests of the list have the answers that they had; others have none.
CountsStay ==
  \A i \in DOMAIN requests' :
    \/ requests'[i].responseCount = 0 /\ requests'[i].responses = <<>>
    \/ \E j \in DOMAIN requests :
         /\ requests'[i].id = requests[j].id
         /\ requests'[i].responseCount = requests[j].responseCount
         /\ \A n \in DOMAIN requests'[i].responses :
              \E k \in DOMAIN requests[j].responses :
                requests'[i].responses[n] = requests[j].responses[k]

\* No request is sent, none arrives and none is handled.
NothingAsked ==
  /\ ListLess
  /\ Less(outQueue', outQueue)
  /\ \A c \in Conns : /\ Less(layers'[c].inQueue, layers[c].inQueue)
                      /\ layers'[c].channel.state \in {layers[c].channel.state, "Closed"}
  /\ channel'.state \in {channel.state, "Closed"}
  /\ handled' = handled /\ conn' = conn /\ nextId <= nextId'

\* No answer is given, none arrives and none is counted.
NothingAnswered ==
  /\ CountsStay
  /\ Less(inQueue', inQueue)
  /\ \A c \in Conns : Less(layers'[c].outQueue, layers[c].outQueue)
  /\ HandledIds \subseteq HandledIds'

\* The queues are sequences of messages.
LEMMA QueueTypes ==
  /\ ClientTypes => inQueue \in Seq(Message) /\ outQueue \in Seq(Message)
  /\ LayerTypes => \A c \in Conns : /\ layers[c].inQueue \in Seq(Message)
                                    /\ layers[c].outQueue \in Seq(Message)
BY DEF ClientTypes, LayerTypes, LayerSet

\* The queues are sequences of messages after a step, too.
LEMMA QueueTypesNext ==
  /\ ClientTypes' => inQueue' \in Seq(Message) /\ outQueue' \in Seq(Message)
  /\ LayerTypes' => \A c \in Conns : /\ layers'[c].inQueue \in Seq(Message)
                                     /\ layers'[c].outQueue \in Seq(Message)
BY DEF ClientTypes, LayerTypes, LayerSet

\* Numbers among the variables.
LEMMA Numbers ==
  ASSUME ClientTypes, HistoryTypes
  PROVE  /\ conn \in Nat /\ nextId \in Nat
         /\ \A h \in DOMAIN handled : /\ handled[h].id \in Request /\ handled[h].id \in Nat
                                      /\ handled[h].conn \in Conns /\ h \in Nat
         /\ \A i \in DOMAIN requests : /\ requests[i] \in RequestSet /\ i \in Nat
                                       /\ requests[i].id \in Request /\ requests[i].id \in Nat
                                       /\ requests[i].responseCount \in Nat
<1>1. /\ DOMAIN handled = 1..Len(handled) /\ DOMAIN requests = 1..Len(requests)
      /\ Len(handled) \in Nat /\ Len(requests) \in Nat
  BY LenProperties DEF ClientTypes, HistoryTypes
<1>2. \A h \in DOMAIN handled : handled[h] \in [id : Request, conn : Conns]
  BY ElementOfSeq, <1>1 DEF HistoryTypes
<1>3. \A i \in DOMAIN requests : requests[i] \in RequestSet
  BY ElementOfSeq, <1>1 DEF ClientTypes
<1>4. conn \in Nat /\ nextId \in Nat
  BY Bounds DEF ClientTypes, HistoryTypes
<1>5. \A h \in DOMAIN handled : handled[h].id \in Request /\ handled[h].conn \in Conns
  BY <1>2
<1>6. \A i \in DOMAIN requests : requests[i].id \in Request /\ requests[i].responseCount \in Nat
  BY <1>3 DEF RequestSet
<1>7. /\ \A h \in DOMAIN handled : h \in Nat
      /\ \A i \in DOMAIN requests : i \in Nat
  BY <1>1
<1> QED
  BY <1>3, <1>4, <1>5, <1>6, <1>7, Bounds

\* The messages of a queue.
LEMMA QueueMessages ==
  ASSUME NEW q \in Seq(Message)
  PROVE  \A i \in DOMAIN q : q[i] \in Message /\ i \in Nat /\ i > 0 /\ i <= Len(q)
<1>1. DOMAIN q = 1..Len(q) /\ Len(q) \in Nat
  BY LenProperties
<1> QED
  BY <1>1, ElementOfSeq

\* Places and order stay when requests and messages are only taken away.
LEMMA AskedStays ==
  ASSUME ClientTypes, LayerTypes, HistoryTypes, ClientTypes', LayerTypes', HistoryTypes',
         NothingAsked, Given, OnePlace, Opening, Ordered
  PROVE  Given' /\ OnePlace' /\ Opening' /\ Ordered'
<1>1. PICK f \in [DOMAIN requests' -> DOMAIN requests] :
        /\ \A i, j \in DOMAIN requests' : i < j => f[i] < f[j]
        /\ \A i \in DOMAIN requests' :
             /\ requests'[i].id = requests[f[i]].id
             /\ requests'[i].message => requests[f[i]].message
  BY DEF NothingAsked, ListLess
<1>2. /\ \A id : Has(outQueue', id) => Has(outQueue, id)
      /\ \A i \in DOMAIN outQueue' : \E j \in DOMAIN outQueue : outQueue'[i] = outQueue[j]
      /\ Distinct(outQueue) => Distinct(outQueue')
      /\ Ascending(outQueue) => Ascending(outQueue')
      /\ Opens(outQueue') => Opens(outQueue)
      /\ outQueue = <<>> => outQueue' = <<>>
  BY LessFacts, QueueTypes, QueueTypesNext DEF NothingAsked
<1>3. ASSUME NEW c \in Conns
      PROVE  /\ \A id : Has(layers'[c].inQueue, id) => Has(layers[c].inQueue, id)
             /\ \A i \in DOMAIN layers'[c].inQueue :
                  \E j \in DOMAIN layers[c].inQueue : layers'[c].inQueue[i] = layers[c].inQueue[j]
             /\ Distinct(layers[c].inQueue) => Distinct(layers'[c].inQueue)
             /\ Ascending(layers[c].inQueue) => Ascending(layers'[c].inQueue)
             /\ Opens(layers'[c].inQueue) => Opens(layers[c].inQueue)
             /\ layers[c].inQueue = <<>> => layers'[c].inQueue = <<>>
             /\ Len(layers[c].inQueue) <= 1 => Len(layers'[c].inQueue) <= 1
  BY LessFacts, QueueTypes, QueueTypesNext DEF NothingAsked
<1>4. /\ handled' = handled /\ conn' = conn /\ nextId <= nextId'
      /\ HandledIds' = HandledIds /\ \A c : HandledOn(c)' = HandledOn(c)
      /\ channel'.state \in {channel.state, "Closed"}
      /\ \A c \in Conns : layers'[c].channel.state \in {layers[c].channel.state, "Closed"}
  BY DEF NothingAsked, HandledIds, HandledOn
<1>5. /\ nextId \in Nat /\ nextId' \in Nat
      /\ \A i \in DOMAIN requests : requests[i].id \in Nat
      /\ \A h \in DOMAIN handled : handled[h].id \in Nat
  BY Numbers, Bounds DEF HistoryTypes
<1>6. /\ \A i \in DOMAIN outQueue : outQueue[i].id \in Nat
      /\ \A c \in Conns : \A i \in DOMAIN layers[c].inQueue : layers[c].inQueue[i].id \in Nat
  BY QueueTypes, QueueMessages, MessageFacts
<1>7. Given'
  <2>1. \A i \in DOMAIN requests' : requests'[i].id <= nextId'
    BY <1>1, <1>4, <1>5 DEF Given
  <2>2. \A i, j \in DOMAIN requests' : i < j => requests'[i].id < requests'[j].id
    BY <1>1 DEF Given
  <2>3. \A i \in DOMAIN outQueue' : outQueue'[i].id <= nextId'
    BY <1>2, <1>4, <1>5, <1>6 DEF Given
  <2>4. \A c \in Conns : \A i \in DOMAIN layers'[c].inQueue : layers'[c].inQueue[i].id <= nextId'
    BY <1>3, <1>4, <1>5, <1>6 DEF Given
  <2>5. \A h \in DOMAIN handled' : handled'[h].id <= nextId'
    BY <1>4, <1>5 DEF Given
  <2> QED
    BY <2>1, <2>2, <2>3, <2>4, <2>5 DEF Given
<1>8. OnePlace'
  <2>1. ASSUME NEW i \in Waiting'
        PROVE  /\ ~Has(outQueue', requests'[i].id)
               /\ \A c \in Conns : ~Has(layers'[c].inQueue, requests'[i].id)
               /\ requests'[i].id \notin HandledIds'
    <3>1. f[i] \in Waiting /\ requests'[i].id = requests[f[i]].id
      BY <1>1 DEF Waiting
    <3> QED
      BY <1>2, <1>3, <1>4, <3>1 DEF OnePlace
  <2>2. Distinct(outQueue') /\ \A c \in Conns : Distinct(layers'[c].inQueue)
    BY <1>2, <1>3 DEF OnePlace
  <2>3. ASSUME NEW id \in Request
        PROVE  /\ Has(outQueue', id) => id \notin HandledIds'
               /\ \A c \in Conns : Has(layers'[c].inQueue, id) =>
                    /\ ~Has(outQueue', id)
                    /\ id \notin HandledIds'
                    /\ \A d \in Conns : Has(layers'[d].inQueue, id) => c = d
    BY <1>2, <1>3, <1>4 DEF OnePlace
  <2>4. \A h, g \in DOMAIN handled' : handled'[h].id = handled'[g].id => h = g
    BY <1>4 DEF OnePlace
  <2> QED
    BY <2>1, <2>2, <2>3, <2>4 DEF OnePlace
<1>9. \A c \in Conns : Untouched(c) => Untouched(c)'
  BY <1>3, <1>4 DEF Untouched
<1>10. conn > 0 => conn \in Conns
  BY Numbers DEF ClientTypes, Conns
<1>11. Opening'
  <2>1. Opens(outQueue') => conn > 0 /\ Untouched(conn)'
    BY <1>2, <1>9, <1>10, <1>4 DEF Opening
  <2> QED
    BY <1>2, <1>3, <1>4, <1>9, <1>10, <2>1 DEF Opening
<1>12. Ordered'
  <2>1. ASSUME NEW c \in Conns, Live(c)' PROVE InOrderOn(c)'
    <3>1. Live(c)
      BY <1>3, <1>4, <2>1 DEF Live
    <3>2. InOrderOn(c)
      BY <3>1 DEF Ordered
    <3>3. /\ Ascending(layers'[c].inQueue)
          /\ \A i \in DOMAIN layers'[c].inQueue : \A id \in HandledOn(c)' :
               layers'[c].inQueue[i].id # 0 => id < layers'[c].inQueue[i].id
      BY <1>3, <1>4, <3>2 DEF InOrderOn
    <3>4. ASSUME c = conn', channel'.state = "Open"
          PROVE  /\ Ascending(outQueue')
                 /\ \A i \in DOMAIN outQueue' : outQueue'[i].id # 0 =>
                      /\ \A id \in HandledOn(c)' : id < outQueue'[i].id
                      /\ \A j \in DOMAIN layers'[c].inQueue :
                           layers'[c].inQueue[j].id < outQueue'[i].id
      <4>1. c = conn /\ channel.state = "Open"
        BY <1>4, <3>4
      <4> QED
        BY <1>2, <1>3, <1>4, <3>2, <4>1 DEF InOrderOn
    <3> QED
      BY <3>3, <3>4 DEF InOrderOn
  <2>2. \A h, g \in DOMAIN handled' :
          h < g /\ handled'[h].conn = handled'[g].conn => handled'[h].id < handled'[g].id
    BY <1>4 DEF Ordered
  <2> QED
    BY <2>1, <2>2 DEF Ordered
<1> QED
  BY <1>7, <1>8, <1>11, <1>12

\* The answers of a request stay at one place when they are only taken away.
LEMMA AnsweredStays ==
  ASSUME ClientTypes, LayerTypes, ClientTypes', LayerTypes',
         NothingAnswered, OneAnswer, Counted
  PROVE  OneAnswer' /\ Counted'
<1>1. /\ \A id : Has(inQueue', id) => Has(inQueue, id)
      /\ Distinct(inQueue) => Distinct(inQueue')
  BY LessFacts, QueueTypes, QueueTypesNext DEF NothingAnswered
<1>2. ASSUME NEW c \in Conns
      PROVE  /\ \A id : Has(layers'[c].outQueue, id) => Has(layers[c].outQueue, id)
             /\ Distinct(layers[c].outQueue) => Distinct(layers'[c].outQueue)
  BY LessFacts, QueueTypes, QueueTypesNext DEF NothingAnswered
<1>3. HandledIds \subseteq HandledIds'
  BY DEF NothingAnswered
<1>4. OneAnswer'
  <2>1. Distinct(inQueue') /\ \A c \in Conns : Distinct(layers'[c].outQueue)
    BY <1>1, <1>2 DEF OneAnswer
  <2>2. ASSUME NEW id \in Request
        PROVE  /\ Has(inQueue', id) => id \in HandledIds'
               /\ \A c \in Conns : Has(layers'[c].outQueue, id) =>
                    /\ id \in HandledIds'
                    /\ ~Has(inQueue', id)
                    /\ \A d \in Conns : Has(layers'[d].outQueue, id) => c = d
    BY <1>1, <1>2, <1>3 DEF OneAnswer
  <2> QED
    BY <2>1, <2>2 DEF OneAnswer
<1>5. Counted'
  <2> SUFFICES ASSUME NEW i \in DOMAIN requests'
               PROVE  /\ requests'[i].responseCount <= 1
                      /\ requests'[i].responseCount = 1 =>
                           /\ requests'[i].id \in HandledIds'
                           /\ ~Has(inQueue', requests'[i].id)
                           /\ \A c \in Conns : ~Has(layers'[c].outQueue, requests'[i].id)
                      /\ \A n \in DOMAIN requests'[i].responses :
                           requests'[i].responses[n] = requests'[i].id
    BY DEF Counted
  <2>1. CASE requests'[i].responseCount = 0 /\ requests'[i].responses = <<>>
    <3>1. \A n \in DOMAIN requests'[i].responses : FALSE
      BY <2>1, EmptySeq
    <3> QED
      BY <2>1, <3>1
  <2>2. ASSUME NEW j \in DOMAIN requests,
               requests'[i].id = requests[j].id,
               requests'[i].responseCount = requests[j].responseCount,
               \A n \in DOMAIN requests'[i].responses :
                 \E k \in DOMAIN requests[j].responses :
                   requests'[i].responses[n] = requests[j].responses[k]
        PROVE  /\ requests'[i].responseCount <= 1
               /\ requests'[i].responseCount = 1 =>
                    /\ requests'[i].id \in HandledIds'
                    /\ ~Has(inQueue', requests'[i].id)
                    /\ \A c \in Conns : ~Has(layers'[c].outQueue, requests'[i].id)
               /\ \A n \in DOMAIN requests'[i].responses :
                    requests'[i].responses[n] = requests'[i].id
    BY <1>1, <1>2, <1>3, <2>2 DEF Counted
  <2> QED
    BY <2>1, <2>2 DEF NothingAnswered, CountsStay
<1> QED
  BY <1>4, <1>5

-----------------------------------------------------------------------------
(* Every step keeps the types.                                             *)

\* A server's end of a connection with changed parts.
LEMMA LayerFacts ==
  ASSUME NEW layer \in LayerSet
  PROVE  /\ layer.inQueue \in Seq(Message) /\ layer.outQueue \in Seq(Message)
         /\ [layer EXCEPT !.status = "Connected"] \in LayerSet
         /\ [layer EXCEPT !.status = "Disconnected"] \in LayerSet
         /\ \A q \in Seq(Message) : /\ [layer EXCEPT !.inQueue = q] \in LayerSet
                                    /\ [layer EXCEPT !.outQueue = q] \in LayerSet
         /\ NewClient(layer) \in LayerSet
         /\ NewClient(layer).inQueue = layer.inQueue
         /\ NewClient(layer).outQueue = layer.outQueue
         /\ NewClient(layer).status = layer.status
         /\ \/ NewClient(layer).channel = layer.channel
            \/ NewClient(layer).channel = PeerData
<1>1. layer.inQueue \in Seq(Message) /\ layer.outQueue \in Seq(Message)
  BY DEF LayerSet
<1>2. [layer EXCEPT !.status = "Connected"] \in LayerSet
  BY DEF LayerSet
<1>3. [layer EXCEPT !.status = "Disconnected"] \in LayerSet
  BY DEF LayerSet
<1>4. ASSUME NEW q \in Seq(Message)
      PROVE  [layer EXCEPT !.inQueue = q] \in LayerSet
  BY DEF LayerSet
<1>5. ASSUME NEW q \in Seq(Message)
      PROVE  [layer EXCEPT !.outQueue = q] \in LayerSet
  BY DEF LayerSet
<1>6. PeerData \in [state : {"Closed", "Open"}, key : 0..MaxConns, temp : {0}]
  BY Bounds DEF PeerData
<1>7. ASSUME NEW p \in [state : {"Closed", "Open"}, key : 0..MaxConns, temp : {0}]
      PROVE  LET n == [layer EXCEPT !.known = TRUE, !.channel = p]
             IN  /\ n \in LayerSet
                 /\ n.inQueue = layer.inQueue /\ n.outQueue = layer.outQueue
                 /\ n.status = layer.status /\ n.channel = p
  BY DEF LayerSet
<1>8. NewClient(layer) = layer \/ NewClient(layer) = [layer EXCEPT !.known = TRUE, !.channel = PeerData]
  BY DEF NewClient
<1>9. /\ NewClient(layer) \in LayerSet
      /\ NewClient(layer).inQueue = layer.inQueue
      /\ NewClient(layer).outQueue = layer.outQueue
      /\ NewClient(layer).status = layer.status
      /\ NewClient(layer).channel = layer.channel \/ NewClient(layer).channel = PeerData
  BY <1>6, <1>7, <1>8
<1> QED
  BY <1>1, <1>2, <1>3, <1>4, <1>5, <1>9

\* An end that does not exist, and one that was removed.
LEMMA NoLayerFacts ==
  /\ NoLayer \in LayerSet /\ [NoLayer EXCEPT !.status = "removed"] \in LayerSet
  /\ NoLayer.inQueue = <<>> /\ NoLayer.outQueue = <<>> /\ NoLayer.channel = PeerData
  /\ [NoLayer EXCEPT !.status = "removed"].inQueue = <<>>
  /\ [NoLayer EXCEPT !.status = "removed"].outQueue = <<>>
  /\ [NoLayer EXCEPT !.status = "removed"].channel = PeerData
  /\ PeerData.state = "Closed" /\ PeerData.temp = 0
  /\ NoLayer.status = "none"
<1>1. PeerData \in [state : {"Closed", "Open"}, key : 0..MaxConns, temp : {0}]
  BY Bounds DEF PeerData
<1>2. PeerData.state = "Closed" /\ PeerData.temp = 0
  BY DEF PeerData
<1>3. <<>> \in Seq(Message)
  OBVIOUS
<1>4. NoLayer \in LayerSet
  BY <1>1, <1>3 DEF NoLayer, LayerSet
<1>7. /\ NoLayer.inQueue = <<>> /\ NoLayer.outQueue = <<>> /\ NoLayer.channel = PeerData
      /\ NoLayer.status = "none"
  BY DEF NoLayer
<1>5. ASSUME NEW layer \in LayerSet
      PROVE  LET n == [layer EXCEPT !.status = "removed"]
             IN  /\ n \in LayerSet
                 /\ n.inQueue = layer.inQueue /\ n.outQueue = layer.outQueue
                 /\ n.channel = layer.channel
  BY DEF LayerSet
<1>6. /\ [NoLayer EXCEPT !.status = "removed"] \in LayerSet
      /\ [NoLayer EXCEPT !.status = "removed"].inQueue = <<>>
      /\ [NoLayer EXCEPT !.status = "removed"].outQueue = <<>>
      /\ [NoLayer EXCEPT !.status = "removed"].channel = PeerData
  BY <1>4, <1>5, <1>7
<1> QED
  BY <1>2, <1>4, <1>6, <1>7

\* The messages that the program makes.
LEMMA PlainFacts ==
  ASSUME NEW kind \in {"open", "opened", "request", "response", "error"}
  PROVE  /\ Plain(kind) \in Message
         /\ Plain(kind).kind = kind /\ Plain(kind).id = 0 /\ Plain(kind).key = 0
         /\ Plain(kind).temp = 0
<1>1. 0 \in 0..MaxConns /\ 0 \in Request \cup {0}
  BY Bounds
<1> QED
  BY <1>1 DEF Message, Plain

\* The message that opens a channel, the answer to it, a request, and the answer to
\* a request.
OpenMessage(temp) == [Plain("open") EXCEPT !.temp = temp]
OpenedMessage(key, temp) == [Plain("opened") EXCEPT !.key = key, !.temp = temp]
RequestMessage(id, key) == [Plain("request") EXCEPT !.id = id, !.key = key]
AnswerMessage(kind, id) == [Plain(kind) EXCEPT !.id = id, !.answers = id]
Keyed(m, key) == [m EXCEPT !.key = key]

\* What the program writes are messages, with the fields it gave them.
LEMMA MadeMessages ==
  ASSUME NEW id \in Request \cup {0}, NEW key \in 0..MaxConns, NEW temp \in 0..MaxConns
  PROVE  /\ OpenMessage(temp) \in Message
         /\ OpenMessage(temp).kind = "open" /\ OpenMessage(temp).id = 0
         /\ OpenMessage(temp).temp = temp
         /\ OpenedMessage(key, temp) \in Message
         /\ OpenedMessage(key, temp).kind = "opened" /\ OpenedMessage(key, temp).id = 0
         /\ OpenedMessage(key, temp).key = key /\ OpenedMessage(key, temp).temp = temp
         /\ RequestMessage(id, key) \in Message
         /\ RequestMessage(id, key).kind = "request" /\ RequestMessage(id, key).id = id
         /\ \A kind \in {"response", "error"} :
              /\ Keyed(AnswerMessage(kind, id), key) \in Message
              /\ Keyed(AnswerMessage(kind, id), key).kind = kind
              /\ Keyed(AnswerMessage(kind, id), key).id = id
              /\ Keyed(AnswerMessage(kind, id), key).answers = id
              /\ Keyed(AnswerMessage(kind, id), key).key = key
<1>0. 0 \in 0..MaxConns /\ 0 \in Request \cup {0}
  BY Bounds
<1>1. /\ OpenMessage(temp) \in Message
      /\ OpenMessage(temp).kind = "open" /\ OpenMessage(temp).id = 0
      /\ OpenMessage(temp).temp = temp
  BY <1>0 DEF OpenMessage, Plain, Message
<1>2. /\ OpenedMessage(key, temp) \in Message
      /\ OpenedMessage(key, temp).kind = "opened" /\ OpenedMessage(key, temp).id = 0
      /\ OpenedMessage(key, temp).key = key /\ OpenedMessage(key, temp).temp = temp
  BY <1>0 DEF OpenedMessage, Plain, Message
<1>3. /\ RequestMessage(id, key) \in Message
      /\ RequestMessage(id, key).kind = "request" /\ RequestMessage(id, key).id = id
  BY <1>0 DEF RequestMessage, Plain, Message
<1>4. ASSUME NEW kind \in {"response", "error"}
      PROVE  /\ Keyed(AnswerMessage(kind, id), key) \in Message
             /\ Keyed(AnswerMessage(kind, id), key).kind = kind
             /\ Keyed(AnswerMessage(kind, id), key).id = id
             /\ Keyed(AnswerMessage(kind, id), key).answers = id
             /\ Keyed(AnswerMessage(kind, id), key).key = key
  <2>1. /\ AnswerMessage(kind, id) \in Message /\ AnswerMessage(kind, id).kind = kind
        /\ AnswerMessage(kind, id).id = id /\ AnswerMessage(kind, id).answers = id
    BY <1>0 DEF AnswerMessage, Plain, Message
  <2> DEFINE m == AnswerMessage(kind, id)
  <2>2. m \in Message /\ m.kind = kind /\ m.id = id /\ m.answers = id
    BY <2>1
  <2> HIDE DEF m
  <2>3. /\ Keyed(m, key) \in Message /\ Keyed(m, key).kind = kind /\ Keyed(m, key).id = id
        /\ Keyed(m, key).answers = id /\ Keyed(m, key).key = key
    BY <2>2 DEF Keyed, Message
  <2> QED
    BY <2>3 DEF m
<1> QED
  BY <1>1, <1>2, <1>3, <1>4

\* An end with one message more to write, and one whose channel was opened.
Answered(layer, q) == [layer EXCEPT !.outQueue = q]
OpenedLayer(layer, channelNow, q) ==
  [layer EXCEPT !.channel = channelNow, !.outQueue = q]

\* An end with another outgoing queue: its type and its other fields.
LEMMA AnsweredLayer ==
  ASSUME NEW layer \in LayerSet, NEW q \in Seq(Message)
  PROVE  /\ Answered(layer, q) \in LayerSet
         /\ Answered(layer, q).outQueue = q
         /\ Answered(layer, q).inQueue = layer.inQueue
         /\ Answered(layer, q).channel = layer.channel
BY DEF Answered, LayerSet

\* The same of an end whose channel was opened.
LEMMA OpenedLayerIs ==
  ASSUME NEW layer \in LayerSet, NEW q \in Seq(Message),
         NEW p \in [state : {"Closed", "Open"}, key : 0..MaxConns, temp : {0}]
  PROVE  /\ OpenedLayer(layer, p, q) \in LayerSet
         /\ OpenedLayer(layer, p, q).outQueue = q
         /\ OpenedLayer(layer, p, q).inQueue = layer.inQueue
         /\ OpenedLayer(layer, p, q).channel = p
BY DEF OpenedLayer, LayerSet

\* The end after it opened the channel.
LEMMA OpenChannelIs ==
  ASSUME NEW layer \in LayerSet, NEW msg \in Message, NEW c \in Conns, FlagTypes
  PROVE  LET k == IF secure THEN c ELSE 0
             m == IF secure THEN OpenedMessage(c, msg.temp) ELSE Plain("opened")
             n == OpenChannel(layer, msg, c)
         IN  /\ n \in LayerSet
             /\ n.inQueue = layer.inQueue
             /\ m \in Message
             /\ n.outQueue = Append(layer.outQueue, m)
             /\ n.channel.state = "Open" /\ n.channel.key = k
<1>1. /\ c \in 0..MaxConns /\ 0 \in 0..MaxConns /\ 0 \in Request \cup {0}
      /\ msg.temp \in 0..MaxConns /\ layer.outQueue \in Seq(Message)
  BY Bounds, MessageFacts DEF Conns, LayerSet
<1> DEFINE k == IF secure THEN c ELSE 0
           m == IF secure THEN OpenedMessage(c, msg.temp) ELSE Plain("opened")
           p == [state |-> "Open", key |-> k, temp |-> 0]
           q == Append(layer.outQueue, m)
<1>2. k \in 0..MaxConns
  BY <1>1
<1>3. m \in Message
  BY <1>1, MadeMessages, PlainFacts
<1>4. q \in Seq(Message)
  BY <1>1, <1>3, AppendFacts
<1>5. OpenChannel(layer, msg, c) = OpenedLayer(layer, p, q)
  BY DEF OpenChannel, ExchangeKeys, OpenPlain, OpenedMessage, OpenedLayer
<1>6. /\ p.state = "Open" /\ p.key = k
      /\ p \in [state : {"Closed", "Open"}, key : 0..MaxConns, temp : {0}]
  BY <1>2
<1> HIDE DEF p, q
<1>7. /\ OpenedLayer(layer, p, q) \in LayerSet
      /\ OpenedLayer(layer, p, q).outQueue = q
      /\ OpenedLayer(layer, p, q).inQueue = layer.inQueue
      /\ OpenedLayer(layer, p, q).channel = p
  BY <1>4, <1>6, OpenedLayerIs
<1> QED
  BY <1>3, <1>5, <1>6, <1>7 DEF q

\* The end after it answered a request, if it is still connected.
IsAnswered(n, layer, id) ==
  /\ n \in LayerSet
  /\ n.inQueue = layer.inQueue /\ n.channel = layer.channel
  /\ \/ n.outQueue = layer.outQueue
     \/ \E m \in Message :
          /\ n.outQueue = Append(layer.outQueue, m)
          /\ m.kind \in {"response", "error"}
          /\ m.id = id /\ m.answers = id /\ m.key = layer.channel.key

\* Both ways to answer a message write at most one message, with its id.
LEMMA AnswerIs ==
  ASSUME NEW layer \in LayerSet, NEW msg \in Message
  PROVE  /\ IsAnswered(HandlePing(layer, msg), layer, msg.id)
         /\ IsAnswered(SendErrorMessage(layer, msg), layer, msg.id)
<1>1. /\ layer.channel.key \in 0..MaxConns /\ msg.id \in Request \cup {0}
      /\ layer.outQueue \in Seq(Message) /\ 0 \in 0..MaxConns
  BY Bounds, MessageFacts DEF LayerSet
<1>2. ASSUME NEW kind \in {"response", "error"},
             NEW n, n = SendResponse(layer, AnswerMessage(kind, msg.id))
      PROVE  IsAnswered(n, layer, msg.id)
  <2> DEFINE m == Keyed(AnswerMessage(kind, msg.id), layer.channel.key)
  <2>1. /\ m \in Message /\ m.kind \in {"response", "error"}
        /\ m.id = msg.id /\ m.answers = msg.id /\ m.key = layer.channel.key
    BY <1>1, MadeMessages
  <2>2. n = layer \/ n = Answered(layer, Append(layer.outQueue, m))
    BY <1>2 DEF SendResponse, Keyed, Answered
  <2> HIDE DEF m
  <2>3. Append(layer.outQueue, m) \in Seq(Message)
    BY <1>1, <2>1, AppendFacts
  <2>4. CASE n = layer
    BY <2>4 DEF IsAnswered
  <2>5. CASE n = Answered(layer, Append(layer.outQueue, m))
    <3>1. n \in LayerSet /\ n.outQueue = Append(layer.outQueue, m)
          /\ n.inQueue = layer.inQueue /\ n.channel = layer.channel
      BY <1>1, <2>3, <2>5, AnsweredLayer
    <3> QED
      BY <2>1, <3>1 DEF IsAnswered
  <2> QED
    BY <2>2, <2>4, <2>5
<1>3. HandlePing(layer, msg) = SendResponse(layer, AnswerMessage("response", msg.id))
  BY DEF HandlePing, AnswerMessage
<1>4. SendErrorMessage(layer, msg) =
        SendResponse(layer, AnswerMessage(IF secure THEN "response" ELSE "error", msg.id))
  BY DEF SendErrorMessage, AnswerMessage
<1> QED
  BY <1>2, <1>3, <1>4

\* One end is changed, the others are not.
LEMMA OneLayer ==
  ASSUME LayerTypes, NEW c \in Conns, NEW n \in LayerSet, layers' = [layers EXCEPT ![c] = n]
  PROVE  /\ LayerTypes' /\ layers'[c] = n
         /\ \A d \in Conns : d # c => layers'[d] = layers[d]
BY DEF LayerTypes

\* An end that received a message, or had one taken off.
Delivered(layer, q) == [layer EXCEPT !.inQueue = q]
Marked(layer, mark) == [layer EXCEPT !.status = mark]

\* An end with another incoming queue: its type and its other fields.
LEMMA DeliveredLayer ==
  ASSUME NEW layer \in LayerSet, NEW q \in Seq(Message)
  PROVE  /\ Delivered(layer, q) \in LayerSet
         /\ Delivered(layer, q).inQueue = q
         /\ Delivered(layer, q).outQueue = layer.outQueue
         /\ Delivered(layer, q).channel = layer.channel
         /\ Delivered(layer, q).status = layer.status
BY DEF Delivered, LayerSet

\* An end with another status: its type and its other fields.
LEMMA MarkedLayer ==
  ASSUME NEW layer \in LayerSet, NEW mark \in {"Connected", "Disconnected"}
  PROVE  /\ Marked(layer, mark) \in LayerSet
         /\ Marked(layer, mark).inQueue = layer.inQueue
         /\ Marked(layer, mark).outQueue = layer.outQueue
         /\ Marked(layer, mark).channel = layer.channel
BY DEF Marked, LayerSet

\* The connection that the client has.
LEMMA ConnIs == ASSUME ClientTypes, conn > 0 PROVE conn \in Conns
BY Bounds DEF ClientTypes, Conns

\* FinishConnect changes the status of both ends.
LEMMA FinishConnectFacts ==
  ASSUME FlagTypes, ClientTypes, HistoryTypes, LayerTypes, Started, FinishConnect
  PROVE  /\ ClientTypes' /\ LayerTypes'
         /\ \A c \in Conns : /\ layers'[c].inQueue = layers[c].inQueue
                             /\ layers'[c].outQueue = layers[c].outQueue
                             /\ layers'[c].channel = layers[c].channel
                             /\ c # conn => layers'[c] = layers[c]
<1>1. conn \in Conns
  BY ConnIs DEF FinishConnect, Started
<1>2. ClientTypes'
  BY DEF FinishConnect, ClientTypes
<1>3. layers' = layers \/ layers' = [layers EXCEPT ![conn] = Marked(layers[conn], "Connected")]
  BY DEF FinishConnect, Marked
<1>4. layers[conn] \in LayerSet
  BY <1>1 DEF LayerTypes
<1>5. CASE layers' = layers
  BY <1>2, <1>5 DEF LayerTypes
<1>6. CASE layers' = [layers EXCEPT ![conn] = Marked(layers[conn], "Connected")]
  <2>1. /\ Marked(layers[conn], "Connected") \in LayerSet
        /\ Marked(layers[conn], "Connected").inQueue = layers[conn].inQueue
        /\ Marked(layers[conn], "Connected").outQueue = layers[conn].outQueue
        /\ Marked(layers[conn], "Connected").channel = layers[conn].channel
    BY <1>4, MarkedLayer
  <2>2. /\ LayerTypes' /\ layers'[conn] = Marked(layers[conn], "Connected")
        /\ \A d \in Conns : d # conn => layers'[d] = layers[d]
    BY <1>1, <1>6, <2>1, OneLayer
  <2> QED
    BY <1>2, <2>1, <2>2
<1> QED
  BY <1>3, <1>5, <1>6

\* ClientWrites empties the queue; its first message may arrive.
LEMMA ClientWritesFacts ==
  ASSUME FlagTypes, ClientTypes, HistoryTypes, LayerTypes, Started, ClientWrites
  PROVE  /\ conn \in Conns /\ outQueue # <<>> /\ Head(outQueue) \in Message
         /\ ClientTypes' /\ LayerTypes' /\ HistoryTypes'
         /\ outQueue' = <<>>
         /\ \A c \in Conns : c # conn => layers'[c] = layers[c]
         /\ layers'[conn].outQueue = layers[conn].outQueue
         /\ layers'[conn].channel = layers[conn].channel
         /\ \/ layers'[conn].inQueue = layers[conn].inQueue
            \/ layers'[conn].inQueue = Append(layers[conn].inQueue, Head(outQueue))
<1>1. conn \in Conns
  BY ConnIs DEF ClientWrites, Started
<1>2. /\ outQueue \in Seq(Message) /\ outQueue # <<>>
      /\ layers[conn] \in LayerSet /\ layers[conn].inQueue \in Seq(Message)
  BY <1>1 DEF ClientWrites, ClientTypes, LayerTypes, LayerSet
<1>3. /\ Head(outQueue) \in Message /\ Tail(outQueue) \in Seq(Message)
      /\ Append(layers[conn].inQueue, Head(outQueue)) \in Seq(Message)
  BY <1>2, HeadFacts, AppendFacts
<1>4. ClientTypes' /\ outQueue' = <<>>
  BY DEF ClientWrites, ClientTypes, RemoveMessage
<1>5. Behind(outQueue) \subseteq Request
  <2>1. \A i \in DOMAIN Tail(outQueue) : Tail(outQueue)[i].id \in Request \cup {0}
    BY <1>3, QueueMessages, MessageFacts
  <2> QED
    BY <2>1 DEF Behind
<1>6. HistoryTypes'
  BY <1>5 DEF ClientWrites, HistoryTypes, history
<1>7. \/ layers' = layers
      \/ layers' = [layers EXCEPT ![conn] =
                      Delivered(layers[conn], Append(layers[conn].inQueue, Head(outQueue)))]
  BY DEF ClientWrites, Delivered
<1>8. CASE layers' = layers
  BY <1>1, <1>2, <1>3, <1>4, <1>6, <1>8 DEF LayerTypes
<1>9. CASE layers' = [layers EXCEPT ![conn] =
                        Delivered(layers[conn], Append(layers[conn].inQueue, Head(outQueue)))]
  <2> DEFINE n == Delivered(layers[conn], Append(layers[conn].inQueue, Head(outQueue)))
  <2>1. /\ n \in LayerSet /\ n.inQueue = Append(layers[conn].inQueue, Head(outQueue))
        /\ n.outQueue = layers[conn].outQueue /\ n.channel = layers[conn].channel
    BY <1>2, <1>3, DeliveredLayer
  <2>2. layers' = [layers EXCEPT ![conn] = n]
    BY <1>9
  <2> HIDE DEF n
  <2>3. /\ LayerTypes' /\ layers'[conn] = n
        /\ \A c \in Conns : c # conn => layers'[c] = layers[c]
    BY <1>1, <2>1, <2>2, OneLayer
  <2> QED
    BY <1>1, <1>2, <1>3, <1>4, <1>6, <2>1, <2>3
<1> QED
  BY <1>7, <1>8, <1>9

\* ServerWrites empties the queue of an end; its first message may arrive.
LEMMA ServerWritesFacts ==
  ASSUME FlagTypes, ClientTypes, HistoryTypes, LayerTypes, NEW c \in Conns, ServerWrites(c)
  PROVE  /\ layers[c].outQueue # <<>> /\ Head(layers[c].outQueue) \in Message
         /\ ClientTypes' /\ LayerTypes' /\ HistoryTypes'
         /\ \A d \in Conns : d # c => layers'[d] = layers[d]
         /\ layers'[c].outQueue = <<>>
         /\ layers'[c].inQueue = layers[c].inQueue
         /\ layers'[c].channel = layers[c].channel
         /\ \/ inQueue' = inQueue
            \/ inQueue' = Append(inQueue, Head(layers[c].outQueue)) /\ c = conn
<1> DEFINE q == layers[c].outQueue
<1>1. /\ q \in Seq(Message) /\ q # <<>> /\ layers[c] \in LayerSet
  BY DEF ServerWrites, LayerTypes, LayerSet
<1>2. /\ Head(q) \in Message /\ Tail(q) \in Seq(Message)
  BY <1>1, HeadFacts
<1>3. /\ \/ inQueue' = inQueue
         \/ inQueue' = Append(inQueue, Head(q)) /\ c = conn
      /\ inQueue' \in Seq(Message)
  BY <1>2 DEF ServerWrites, ClientTypes
<1>4. ClientTypes'
  BY <1>3 DEF ServerWrites, ClientTypes
<1>5. Behind(q) \subseteq Request
  <2>1. \A i \in DOMAIN Tail(q) : Tail(q)[i].id \in Request \cup {0}
    BY <1>2, QueueMessages, MessageFacts
  <2> QED
    BY <2>1 DEF Behind
<1>6. HistoryTypes'
  BY <1>5 DEF ServerWrites, HistoryTypes, history
<1>7. layers' = [layers EXCEPT ![c] = Answered(layers[c], <<>>)]
  BY DEF ServerWrites, Answered, RemoveMessage
<1> DEFINE n == Answered(layers[c], <<>>)
<1>8. /\ n \in LayerSet /\ n.outQueue = <<>> /\ n.inQueue = layers[c].inQueue
      /\ n.channel = layers[c].channel
  <2>1. <<>> \in Seq(Message)
    OBVIOUS
  <2> QED
    BY <1>1, <2>1, AnsweredLayer
<1>9. layers' = [layers EXCEPT ![c] = n]
  BY <1>7
<1> HIDE DEF n
<1>10. LayerTypes' /\ layers'[c] = n /\ \A d \in Conns : d # c => layers'[d] = layers[d]
  BY <1>8, <1>9, OneLayer
<1> QED
  BY <1>1, <1>2, <1>3, <1>4, <1>6, <1>8, <1>10

\* A server's end is removed.
LEMMA RemoveDisconnectedFacts ==
  ASSUME LayerTypes, NEW c \in Conns, RemoveDisconnected(c)
  PROVE  /\ LayerTypes'
         /\ \A d \in Conns : d # c => layers'[d] = layers[d]
         /\ layers'[c].inQueue = <<>> /\ layers'[c].outQueue = <<>>
         /\ layers'[c].channel.state = "Closed"
         /\ layers[c].status # "none"
<1>1. layers' = [layers EXCEPT ![c] = [NoLayer EXCEPT !.status = "removed"]]
  BY DEF RemoveDisconnected
<1> QED
  BY <1>1, OneLayer, NoLayerFacts DEF RemoveDisconnected

-----------------------------------------------------------------------------
(* What a server does with a message.                                      *)

\* The message is off the queue of the end; the data of the peer are as they were
\* or new.
Taken(c, layer) ==
  /\ layers[c].inQueue # <<>>
  /\ layer \in LayerSet
  /\ layer.inQueue = Tail(layers[c].inQueue)
  /\ layer.outQueue = layers[c].outQueue
  /\ layer.channel = layers[c].channel \/ layer.channel = PeerData

\* The end is the only one that changes.
Becomes(c, n) == layers'[c] = n /\ \A d \in Conns : d # c => layers'[d] = layers[d]

\* The message is not expected.
Refuses(c) ==
  /\ handled' = handled
  /\ \E layer, n : /\ Taken(c, layer)
                   /\ n.inQueue = layer.inQueue /\ n.outQueue = layer.outQueue
                   /\ n.channel = layer.channel
                   /\ Becomes(c, n)

\* It opens the channel.
OpensChannel(c) ==
  /\ handled' = handled
  /\ Head(layers[c].inQueue).kind = "open"
  /\ \E layer : /\ Taken(c, layer)
                /\ Becomes(c, OpenChannel(layer, Head(layers[c].inQueue), c))

\* It is handled, and answered or the server ends.
Serves(c) ==
  \E msg \in {Head(layers[c].inQueue)} :
    /\ handled' = IF msg.id = 0 THEN handled ELSE Append(handled, [id |-> msg.id, conn |-> c])
    /\ layers[c].channel.state = "Open"
    /\ layers[c].inQueue # <<>>
    /\ \/ \E layer, n : /\ Taken(c, layer) /\ layer.channel = layers[c].channel
                        /\ IsAnswered(n, layer, msg.id)
                        /\ Becomes(c, n)
       \/ \A d \in Conns : /\ layers'[d].inQueue = <<>> /\ layers'[d].outQueue = <<>>
                           /\ layers'[d].channel.state = "Closed"
                           /\ layers[d].status = "none" => layers'[d] = NoLayer

\* Every step of the server that handles a message is one of these.
LEMMA ServerHandlesFacts ==
  ASSUME FlagTypes, ClientTypes, HistoryTypes, LayerTypes, NEW c \in Conns, ServerHandles(c)
  PROVE  /\ LayerTypes' /\ HistoryTypes'
         /\ layers[c].status # "none"
         /\ layers[c].inQueue # <<>> /\ Head(layers[c].inQueue) \in Message
         /\ Refuses(c) \/ OpensChannel(c) \/ Serves(c)
<1> DEFINE q == layers[c].inQueue
           popped == Delivered(layers[c], Tail(q))
           layer == NewClient(popped)
           msg == Head(q)
<1>1. layers[c] \in LayerSet /\ q \in Seq(Message) /\ q # <<>> /\ layers[c].status # "none"
  BY DEF ServerHandles, LayerTypes, LayerSet
<1>2. msg \in Message /\ Tail(q) \in Seq(Message)
  BY <1>1, HeadFacts
<1>3. /\ popped \in LayerSet /\ popped.inQueue = Tail(q)
      /\ popped.outQueue = layers[c].outQueue /\ popped.channel = layers[c].channel
  BY <1>1, <1>2, DeliveredLayer
<1>4. popped = [layers[c] EXCEPT !.inQueue = Tail(@)]
  BY DEF Delivered
<1>5. \/ /\ Unexpected(layer, msg)
         /\ layers' = [layers EXCEPT ![c] = Disconnected(layer)]
         /\ handled' = handled
      \/ /\ layer.channel.state = "Closed" /\ ~ Unexpected(layer, msg)
         /\ layers' = [layers EXCEPT ![c] = OpenChannel(layer, msg, c)]
         /\ handled' = handled
      \/ /\ layer.channel.state = "Open" /\ ~ Unexpected(layer, msg)
         /\ RequestHandler(layer, msg, c)
  BY <1>4 DEF ServerHandles
<1> HIDE DEF popped
<1>6. /\ layer \in LayerSet /\ layer.inQueue = popped.inQueue
      /\ layer.outQueue = popped.outQueue
      /\ layer.channel = popped.channel \/ layer.channel = PeerData
  BY <1>3, LayerFacts
<1> HIDE DEF layer, msg
<1>7. Taken(c, layer)
  BY <1>1, <1>3, <1>6 DEF Taken
<1>8. /\ nextId' = nextId /\ queuedAt' = queuedAt /\ dropped' = dropped
  BY DEF ServerHandles, history
<1>9. handled' = handled => HistoryTypes'
  BY <1>8 DEF HistoryTypes
<1>10. CASE /\ Unexpected(layer, msg)
            /\ layers' = [layers EXCEPT ![c] = Disconnected(layer)]
            /\ handled' = handled
  <2> DEFINE n == Marked(layer, "Disconnected")
  <2>1. /\ n \in LayerSet /\ n.inQueue = layer.inQueue /\ n.outQueue = layer.outQueue
        /\ n.channel = layer.channel
    BY <1>6, MarkedLayer
  <2>2. layers' = [layers EXCEPT ![c] = n]
    BY <1>10 DEF Disconnected, Marked
  <2> HIDE DEF n
  <2>3. LayerTypes' /\ Becomes(c, n)
    BY <2>1, <2>2, OneLayer DEF Becomes
  <2>4. Refuses(c)
    BY <1>7, <1>10, <2>1, <2>3 DEF Refuses
  <2> QED
    BY <1>1, <1>2, <1>9, <1>10, <2>3, <2>4 DEF msg
<1>11. CASE /\ layer.channel.state = "Closed" /\ ~ Unexpected(layer, msg)
            /\ layers' = [layers EXCEPT ![c] = OpenChannel(layer, msg, c)]
            /\ handled' = handled
  <2>1. msg.kind = "open"
    BY <1>11 DEF Unexpected
  <2>2. OpenChannel(layer, msg, c) \in LayerSet
    BY <1>2, <1>6, OpenChannelIs DEF msg
  <2>3. LayerTypes' /\ Becomes(c, OpenChannel(layer, msg, c))
    BY <1>11, <2>2, OneLayer DEF Becomes
  <2>4. OpensChannel(c)
    BY <1>7, <1>11, <2>1, <2>3 DEF OpensChannel, msg
  <2> QED
    BY <1>1, <1>2, <1>9, <1>11, <2>3, <2>4 DEF msg
<1>12. CASE /\ layer.channel.state = "Open" /\ ~ Unexpected(layer, msg)
            /\ RequestHandler(layer, msg, c)
  <2>1. layer.channel = layers[c].channel
    BY <1>3, <1>6, <1>12, NoLayerFacts
  <2>2. /\ handled' = IF msg.id = 0 THEN handled ELSE Append(handled, [id |-> msg.id, conn |-> c])
        /\ \/ layers' = [layers EXCEPT ![c] = HandlePing(layer, msg)]
           \/ HandleRegister
           \/ layers' = [layers EXCEPT ![c] = SendErrorMessage(layer, msg)]
    BY <1>12 DEF RequestHandler
  <2>3. HistoryTypes'
    <3>1. CASE msg.id = 0
      BY <1>9, <2>2, <3>1
    <3>2. CASE msg.id # 0
      <4>1. msg.id \in Request
        BY <1>2, <3>2, MessageFacts DEF msg
      <4> DEFINE entry == [id |-> msg.id, conn |-> c]
      <4>2. entry \in [id : Request, conn : Conns]
        BY <4>1
      <4>3. handled' = Append(handled, entry)
        BY <2>2, <3>2
      <4> HIDE DEF entry
      <4> QED
        BY <1>8, <4>2, <4>3, AppendProperties DEF HistoryTypes
    <3> QED
      BY <3>1, <3>2
  <2>4. CASE layers' = [layers EXCEPT ![c] = HandlePing(layer, msg)]
    <3> DEFINE n == HandlePing(layer, msg)
    <3>1. IsAnswered(n, layer, msg.id)
      BY <1>2, <1>6, AnswerIs DEF msg
    <3> HIDE DEF n
    <3>2. LayerTypes' /\ Becomes(c, n)
      BY <2>4, <3>1, OneLayer DEF IsAnswered, Becomes, n
    <3>3. Serves(c)
      BY <1>1, <1>7, <1>12, <2>1, <2>2, <3>1, <3>2 DEF Serves, msg
    <3> QED
      BY <1>1, <1>2, <2>3, <3>2, <3>3 DEF msg
  <2>5. CASE layers' = [layers EXCEPT ![c] = SendErrorMessage(layer, msg)]
    <3> DEFINE n == SendErrorMessage(layer, msg)
    <3>1. IsAnswered(n, layer, msg.id)
      BY <1>2, <1>6, AnswerIs DEF msg
    <3> HIDE DEF n
    <3>2. LayerTypes' /\ Becomes(c, n)
      BY <2>5, <3>1, OneLayer DEF IsAnswered, Becomes, n
    <3>3. Serves(c)
      BY <1>1, <1>7, <1>12, <2>1, <2>2, <3>1, <3>2 DEF Serves, msg
    <3> QED
      BY <1>1, <1>2, <2>3, <3>2, <3>3 DEF msg
  <2>6. CASE HandleRegister
    <3> DEFINE gone == [NoLayer EXCEPT !.status = "removed"]
    <3>1. layers' = [d \in Conns |-> IF layers[d].status = "none" THEN NoLayer ELSE gone]
      BY <2>6 DEF HandleRegister
    <3>2. /\ gone \in LayerSet /\ gone.inQueue = <<>> /\ gone.outQueue = <<>>
          /\ gone.channel.state = "Closed"
          /\ NoLayer \in LayerSet /\ NoLayer.inQueue = <<>> /\ NoLayer.outQueue = <<>>
          /\ NoLayer.channel.state = "Closed"
      BY NoLayerFacts
    <3> HIDE DEF gone
    <3>3. LayerTypes'
      BY <3>1, <3>2 DEF LayerTypes
    <3>4. \A d \in Conns : /\ layers'[d].inQueue = <<>> /\ layers'[d].outQueue = <<>>
                           /\ layers'[d].channel.state = "Closed"
                           /\ layers[d].status = "none" => layers'[d] = NoLayer
      BY <3>1, <3>2
    <3>5. Serves(c)
      BY <1>1, <1>12, <2>1, <2>2, <3>4 DEF Serves, msg
    <3> QED
      BY <1>1, <1>2, <2>3, <3>3, <3>5 DEF msg
  <2> QED
    BY <2>2, <2>4, <2>5, <2>6
<1> QED
  BY <1>5, <1>10, <1>11, <1>12

-----------------------------------------------------------------------------
(* The list of requests and the client.                                    *)

\* The list is the same, but for answers that were taken from it.
LEMMA SameList ==
  ASSUME ClientTypes, DOMAIN requests' = DOMAIN requests,
         \A i \in DOMAIN requests :
           /\ requests'[i].id = requests[i].id
           /\ requests'[i].message => requests[i].message
           /\ requests'[i].responseCount = requests[i].responseCount
           /\ \A n \in DOMAIN requests'[i].responses :
                \E k \in DOMAIN requests[i].responses :
                  requests'[i].responses[n] = requests[i].responses[k]
  PROVE  ListLess /\ CountsStay
<1> DEFINE f == [i \in DOMAIN requests' |-> i]
<1>1. f \in [DOMAIN requests' -> DOMAIN requests] /\ \A i \in DOMAIN requests' : f[i] = i
  OBVIOUS
<1> HIDE DEF f
<1>2. ListLess
  BY <1>1 DEF ListLess
<1>3. CountsStay
  BY DEF CountsStay
<1> QED
  BY <1>2, <1>3

\* The list without one request.
LEMMA RemovedList ==
  ASSUME ClientTypes, NEW i \in DOMAIN requests, requests' = RemoveRequest(i)
  PROVE  requests' \in Seq(RequestSet) /\ ListLess /\ CountsStay
<1> DEFINE f == [j \in DOMAIN requests' |-> IF j < i THEN j ELSE j + 1]
<1>1. /\ requests' \in Seq(RequestSet) /\ Len(requests') = Len(requests) - 1
      /\ \A j \in DOMAIN requests' : requests'[j] = requests[IF j < i THEN j ELSE j + 1]
  BY RemoveFacts
<1>2. /\ DOMAIN requests = 1..Len(requests) /\ Len(requests) \in Nat
      /\ DOMAIN requests' = 1..Len(requests')
  BY <1>1, LenProperties DEF ClientTypes
<1>3. /\ f \in [DOMAIN requests' -> DOMAIN requests]
      /\ \A j \in DOMAIN requests' : requests'[j] = requests[f[j]]
      /\ \A j, k \in DOMAIN requests' : j < k => f[j] < f[k]
  BY <1>1, <1>2
<1> HIDE DEF f
<1>4. ListLess
  BY <1>3 DEF ListLess
<1>5. CountsStay
  BY <1>3 DEF CountsStay
<1> QED
  BY <1>1, <1>4, <1>5

\* An empty list.
LEMMA EmptyList == ASSUME requests' = <<>> PROVE ListLess /\ CountsStay
<1>1. DOMAIN <<>> = {}
  BY EmptySeq
<1> DEFINE f == [j \in DOMAIN requests' |-> 0]
<1>2. f \in [DOMAIN requests' -> DOMAIN requests]
  BY <1>1
<1> HIDE DEF f
<1> QED
  BY <1>1, <1>2 DEF ListLess, CountsStay

\* One request of the list is changed.
LEMMA OneRequest ==
  ASSUME ClientTypes, NEW i \in DOMAIN requests, NEW r \in RequestSet,
         requests' = [requests EXCEPT ![i] = r]
  PROVE  /\ requests' \in Seq(RequestSet) /\ DOMAIN requests' = DOMAIN requests
         /\ requests'[i] = r
         /\ \A j \in DOMAIN requests : j # i => requests'[j] = requests[j]
<1>1. requests \in Seq(RequestSet)
  BY DEF ClientTypes
<1>2. /\ DOMAIN requests' = DOMAIN requests /\ requests'[i] = r
      /\ \A j \in DOMAIN requests : j # i => requests'[j] = requests[j]
  OBVIOUS
<1>3. requests' \in Seq(RequestSet)
  BY <1>1, ExceptSeq
<1> QED
  BY <1>2, <1>3

\* The request that a response belongs to.
LEMMA FoundRequest ==
  ASSUME ClientTypes, NEW id, id \in Ids(requests)
  PROVE  FindRequest(id) \in DOMAIN requests /\ requests[FindRequest(id)].id = id
<1> DEFINE T == {i \in DOMAIN requests : requests[i].id = id}
<1>1. DOMAIN requests = 1..Len(requests) /\ Len(requests) \in Nat
  BY LenProperties DEF ClientTypes
<1>2. T \in SUBSET Nat /\ T # {}
  BY <1>1 DEF Ids
<1>3. PICK i \in T : \A j \in T : i <= j
  BY <1>2, LeastNatural
<1>4. /\ i \in DOMAIN requests /\ requests[i].id = id
      /\ \A j \in 1..(i - 1) : requests[j].id # id
  BY <1>1, <1>3
<1> QED
  BY <1>4 DEF FindRequest

\* The parts of a request that the client changes.
LEMMA RequestParts ==
  ASSUME NEW r \in RequestSet
  PROVE  /\ r.id \in Request /\ r.responseCount \in Nat /\ r.responses \in Seq(Request)
         /\ [r EXCEPT !.abandoned = TRUE] \in RequestSet
         /\ [r EXCEPT !.message = FALSE] \in RequestSet
BY DEF RequestSet

\* A request with n answers, of which s wait to be taken.
Answer(r, n, s) == [r EXCEPT !.responseCount = n, !.responses = s]

\* Its type and its other fields.
LEMMA AnswerFacts ==
  ASSUME NEW r \in RequestSet, NEW n \in Nat, NEW s \in Seq(Request)
  PROVE  /\ Answer(r, n, s) \in RequestSet
         /\ Answer(r, n, s).id = r.id /\ Answer(r, n, s).message = r.message
         /\ Answer(r, n, s).responseCount = n /\ Answer(r, n, s).responses = s
BY DEF RequestSet, Answer

\* A response was counted for request i.
Counts(i) ==
  /\ i \in DOMAIN requests
  /\ Head(inQueue).id = requests[i].id
  /\ DOMAIN requests' = DOMAIN requests
  /\ \A j \in DOMAIN requests : j # i => requests'[j] = requests[j]
  /\ requests'[i].id = requests[i].id /\ requests'[i].message = requests[i].message
  /\ requests'[i].responseCount = requests[i].responseCount + 1
  /\ requests'[i].responses = Append(requests[i].responses, Head(inQueue).answers)

\* An answer changes one request, the one it answers.
LEMMA ResponseFacts ==
  ASSUME ClientTypes, inQueue # <<>>, requests' = HandleResponse(Head(inQueue)),
         FromServer(Head(inQueue))
  PROVE  /\ requests' \in Seq(RequestSet)
         /\ (ListLess /\ CountsStay) \/ \E i : Counts(i)
<1> DEFINE msg == Head(inQueue)
           i == FindRequest(msg.id)
<1>1. msg \in Message /\ requests \in Seq(RequestSet)
  BY HeadFacts DEF ClientTypes
<1>2. CASE msg.id \notin Ids(requests)
  <2>1. requests' = requests
    BY <1>2 DEF HandleResponse
  <2> QED
    BY <1>1, <2>1, SameList
<1>3. CASE msg.id \in Ids(requests)
  <2>1. i \in DOMAIN requests /\ requests[i].id = msg.id
    BY <1>3, FoundRequest
  <2>2. \/ requests' = RemoveRequest(i)
        \/ requests' = [requests EXCEPT ![i].responseCount = @ + 1,
                                        ![i].responses = Append(@, msg.answers)]
    BY <1>3 DEF HandleResponse
  <2> HIDE DEF i
  <2>3. CASE requests' = RemoveRequest(i)
    BY <2>1, <2>3, RemovedList
  <2>4. CASE requests' = [requests EXCEPT ![i].responseCount = @ + 1,
                                          ![i].responses = Append(@, msg.answers)]
    <3> DEFINE r == Answer(requests[i], requests[i].responseCount + 1,
                           Append(requests[i].responses, msg.answers))
    <3>1. requests' = [requests EXCEPT ![i] = r]
      BY <2>1, <2>4 DEF Answer
    <3>2. /\ requests[i] \in RequestSet
          /\ requests[i].responseCount \in Nat /\ requests[i].responses \in Seq(Request)
          /\ requests[i].id \in Request
      BY <1>1, <2>1, ElementOfSeq, LenProperties, RequestParts
    <3>3. msg.answers \in Request
      <4>1. msg.id # 0
        BY <2>1, <3>2, Bounds
      <4> QED
        BY <2>1, <3>2, <4>1 DEF FromServer
    <3>4. Append(requests[i].responses, msg.answers) \in Seq(Request)
      BY <3>2, <3>3, AppendProperties
    <3>5. /\ r \in RequestSet /\ r.id = requests[i].id /\ r.message = requests[i].message
          /\ r.responseCount = requests[i].responseCount + 1
          /\ r.responses = Append(requests[i].responses, msg.answers)
      <4> DEFINE n == requests[i].responseCount + 1
                 s == Append(requests[i].responses, msg.answers)
      <4>1. n \in Nat /\ s \in Seq(Request)
        BY <3>2, <3>4
      <4> HIDE DEF n, s
      <4>2. LET a == Answer(requests[i], n, s)
            IN  /\ a \in RequestSet /\ a.id = requests[i].id /\ a.message = requests[i].message
                /\ a.responseCount = n /\ a.responses = s
        BY <3>2, <4>1, AnswerFacts
      <4> QED
        BY <4>2 DEF n, s
    <3> HIDE DEF r
    <3>6. /\ requests' \in Seq(RequestSet) /\ DOMAIN requests' = DOMAIN requests
          /\ requests'[i] = r
          /\ \A j \in DOMAIN requests : j # i => requests'[j] = requests[j]
      BY <2>1, <3>1, <3>5, OneRequest
    <3>7. Counts(i)
      BY <2>1, <3>5, <3>6 DEF Counts
    <3> QED
      BY <3>6, <3>7
  <2> QED
    BY <2>2, <2>3, <2>4
<1> QED
  BY <1>2, <1>3

-----------------------------------------------------------------------------
(* What the other parts of the invariant need of a step.                   *)

\* The channel is not opened, by the client or by an end of the server.
ChannelQuiet ==
  /\ secure' = secure /\ conn' = conn
  /\ channel'.state \in {channel.state, "Closed"}
  /\ channel'.state = "Open" => channel'.key = channel.key
  /\ channel'.temp \in {channel.temp, 0}
  /\ status' # "Disconnected" => status # "Disconnected" /\ channel'.state = channel.state

\* The server's ends change as in these steps.
EndsQuiet ==
  \A c \in Conns :
    /\ layers'[c].channel.state = "Open" => /\ layers[c].channel.state = "Open"
                                            /\ layers'[c].channel.key = layers[c].channel.key
    /\ c > conn /\ layers[c] = NoLayer => layers'[c] = NoLayer

\* The messages of the client stay what they are.
LEMMA AsksStay ==
  ASSUME ClientTypes, LayerTypes, ClientTypes', LayerTypes', NothingAsked, secure' = secure, Asks
  PROVE  Asks'
<1>1. \A i \in DOMAIN outQueue' : \E j \in DOMAIN outQueue : outQueue'[i] = outQueue[j]
  BY LessFacts, QueueTypes, QueueTypesNext DEF NothingAsked
<1>2. ASSUME NEW c \in Conns
      PROVE  \A i \in DOMAIN layers'[c].inQueue :
               \E j \in DOMAIN layers[c].inQueue : layers'[c].inQueue[i] = layers[c].inQueue[j]
  BY LessFacts, QueueTypes, QueueTypesNext DEF NothingAsked
<1>3. conn' = conn
  BY DEF NothingAsked
<1>4. \A m, c : FromClient(m, c)' = FromClient(m, c)
  BY DEF FromClient
<1>5. \A i \in DOMAIN outQueue' : FromClient(outQueue'[i], conn')
  BY <1>1, <1>3 DEF Asks
<1>6. \A c \in Conns : \A i \in DOMAIN layers'[c].inQueue : FromClient(layers'[c].inQueue[i], c)
  BY <1>2 DEF Asks
<1> QED
  BY <1>5, <1>6 DEF Asks, FromClient

\* The messages of the server stay what they are.
LEMMA AnswersStay ==
  ASSUME ClientTypes, LayerTypes, ClientTypes', LayerTypes', NothingAnswered,
         secure' = secure, conn' = conn, Answers
  PROVE  Answers'
<1>1. \A i \in DOMAIN inQueue' : \E j \in DOMAIN inQueue : inQueue'[i] = inQueue[j]
  BY LessFacts, QueueTypes, QueueTypesNext DEF NothingAnswered
<1>2. ASSUME NEW c \in Conns
      PROVE  \A i \in DOMAIN layers'[c].outQueue :
               \E j \in DOMAIN layers[c].outQueue : layers'[c].outQueue[i] = layers[c].outQueue[j]
  BY LessFacts, QueueTypes, QueueTypesNext DEF NothingAnswered
<1>3. \A i \in DOMAIN inQueue' : FromServer(inQueue'[i]) /\ inQueue'[i].key <= conn'
  BY <1>1 DEF Answers
<1>4. \A c \in Conns : \A i \in DOMAIN layers'[c].outQueue :
        FromServer(layers'[c].outQueue[i]) /\ layers'[c].outQueue[i].key <= c
  BY <1>2 DEF Answers
<1> QED
  BY <1>3, <1>4 DEF Answers, FromServer

\* The connections that were not started stay so.
LEMMA StartedStays ==
  ASSUME ChannelQuiet, EndsQuiet, handled' = handled, Started
  PROVE  Started'
<1>1. \A c \in Conns : c > conn' => layers'[c] = NoLayer
  BY DEF ChannelQuiet, EndsQuiet, Started
<1>2. \A h \in DOMAIN handled' : handled'[h].conn <= conn'
  BY DEF ChannelQuiet, Started
<1>3. status' # "Disconnected" => conn' > 0 /\ channel'.state # "Closed"
  BY DEF ChannelQuiet, Started
<1> QED
  BY <1>1, <1>2, <1>3 DEF Started

\* The keys stay what they are.
LEMMA KeysStay ==
  ASSUME ChannelQuiet, EndsQuiet, Keys
  PROVE  Keys'
<1>1. ASSUME NEW c \in Conns, layers'[c].channel.state = "Open"
      PROVE  layers'[c].channel.key = IF secure THEN c ELSE 0
  BY <1>1 DEF EndsQuiet, Keys
<1>2. secure => channel'.temp \in {0, conn}
  BY DEF ChannelQuiet, Keys
<1>3. channel'.state = "Open" => channel'.key = IF secure THEN conn ELSE 0
  BY DEF ChannelQuiet, Keys
<1>4. secure' = secure /\ conn' = conn
  BY DEF ChannelQuiet
<1> QED
  BY <1>1, <1>2, <1>3, <1>4 DEF Keys

\* A step that changes neither channels nor messages on their way.
LEMMA QuietStep ==
  ASSUME IInv, TypeOK', NothingAsked, NothingAnswered, ChannelQuiet, EndsQuiet
  PROVE  IInv'
<1>1. /\ ClientTypes /\ LayerTypes /\ HistoryTypes
      /\ ClientTypes' /\ LayerTypes' /\ HistoryTypes'
  BY TypeParts DEF IInv
<1>2. secure' = secure /\ conn' = conn /\ handled' = handled
  BY DEF ChannelQuiet, NothingAsked
<1>3. Given' /\ OnePlace' /\ Opening' /\ Ordered'
  BY <1>1, AskedStays DEF IInv
<1>4. OneAnswer' /\ Counted'
  BY <1>1, AnsweredStays DEF IInv
<1>5. Asks' /\ Answers'
  BY <1>1, <1>2, AsksStay, AnswersStay DEF IInv
<1>6. Started' /\ Keys'
  BY <1>2, StartedStays, KeysStay DEF IInv
<1> QED
  BY <1>3, <1>4, <1>5, <1>6 DEF IInv

\* The ends are not changed, or the queues and the channels of the client.
LEMMA SameEnds ==
  ASSUME LayerTypes, layers' = layers
  PROVE  /\ LayerTypes' /\ EndsQuiet
         /\ \A c \in Conns : /\ Less(layers'[c].inQueue, layers[c].inQueue)
                             /\ Less(layers'[c].outQueue, layers[c].outQueue)
                             /\ layers'[c].channel.state \in {layers[c].channel.state, "Closed"}
<1>1. LayerTypes'
  BY DEF LayerTypes
<1>2. EndsQuiet
  BY DEF EndsQuiet
<1>3. ASSUME NEW c \in Conns
      PROVE  /\ Less(layers'[c].inQueue, layers[c].inQueue)
             /\ Less(layers'[c].outQueue, layers[c].outQueue)
             /\ layers'[c].channel.state \in {layers[c].channel.state, "Closed"}
  BY QueueTypes, LessIs
<1> QED
  BY <1>1, <1>2, <1>3

\* A step that leaves the client alone is quiet in every sense above.
LEMMA SameClient ==
  ASSUME ClientTypes, UNCHANGED <<secure, clientVars>>
  PROVE  /\ ClientTypes' /\ ChannelQuiet /\ ListLess /\ CountsStay
         /\ Less(inQueue', inQueue) /\ Less(outQueue', outQueue)
<1>1. /\ secure' = secure /\ status' = status /\ conn' = conn /\ channel' = channel
      /\ requests' = requests /\ inQueue' = inQueue /\ outQueue' = outQueue
  BY DEF clientVars
<1>2. ClientTypes'
  BY <1>1 DEF ClientTypes
<1>3. ChannelQuiet
  BY <1>1 DEF ChannelQuiet
<1>4. ListLess /\ CountsStay
  BY <1>1, SameList
<1>5. Less(inQueue', inQueue) /\ Less(outQueue', outQueue)
  BY <1>1, QueueTypes, LessIs
<1> QED
  BY <1>2, <1>3, <1>4, <1>5

-----------------------------------------------------------------------------
(* The steps of the caller that send nothing.                              *)

\* Only the list is changed, and no request or answer is added to it.
LEMMA ListStep ==
  ASSUME IInv, requests' \in Seq(RequestSet), ListLess, CountsStay,
         UNCHANGED <<secure, status, conn, channel, inQueue, outQueue, layers, serving,
                     history, dropped, handled>>
  PROVE  IInv'
<1>1. FlagTypes /\ ClientTypes /\ LayerTypes /\ HistoryTypes
  BY TypeParts DEF IInv
<1>2. TypeOK'
  <2>1. FlagTypes'
    BY <1>1 DEF FlagTypes
  <2>2. ClientTypes'
    BY <1>1 DEF ClientTypes
  <2>3. LayerTypes'
    BY <1>1 DEF LayerTypes
  <2>4. HistoryTypes'
    BY <1>1 DEF HistoryTypes, history
  <2> QED
    BY <2>1, <2>2, <2>3, <2>4, TypeParts
<1>3. Less(inQueue', inQueue) /\ Less(outQueue', outQueue)
  BY <1>1, QueueTypes, LessIs
<1>4. nextId <= nextId' /\ HandledIds \subseteq HandledIds'
  BY <1>1, Numbers DEF history, HandledIds
<1>5. NothingAsked /\ NothingAnswered
  BY <1>1, <1>3, <1>4, SameEnds DEF NothingAsked, NothingAnswered
<1>6. ChannelQuiet /\ EndsQuiet
  BY <1>1, SameEnds DEF ChannelQuiet
<1> QED
  BY <1>2, <1>5, <1>6, QuietStep

\* The request is taken off the list.
LEMMA DequeueStep ==
  ASSUME IInv, NEW i \in DOMAIN requests, Dequeue(i)
  PROVE  IInv'
<1>1. ClientTypes
  BY TypeParts DEF IInv
<1>2. requests' \in Seq(RequestSet) /\ ListLess /\ CountsStay
  BY <1>1, RemovedList DEF Dequeue
<1> QED
  BY <1>2, ListStep DEF Dequeue

\* Its next answer is taken.
Shortened(r) == [r EXCEPT !.responses = Tail(r.responses)]

\* Taking an answer preserves the invariant.
LEMMA NextResponseStep ==
  ASSUME IInv, NEW i \in DOMAIN requests, NextResponse(i)
  PROVE  IInv'
<1>1. ClientTypes
  BY TypeParts DEF IInv
<1>2. requests[i] \in RequestSet
  BY <1>1, ElementOfSeq, LenProperties DEF ClientTypes
<1> DEFINE s == requests[i].responses
           r == Shortened(requests[i])
<1>3. s \in Seq(Request) /\ s # <<>>
  BY <1>2 DEF RequestSet, NextResponse
<1> HIDE DEF s
<1>4. /\ Tail(s) \in Seq(Request)
      /\ \A n \in DOMAIN Tail(s) : \E k \in DOMAIN s : Tail(s)[n] = s[k]
  <2>1. /\ Tail(s) \in Seq(Request) /\ Len(Tail(s)) = Len(s) - 1
        /\ \A n \in 1..Len(Tail(s)) : Tail(s)[n] = s[n + 1]
    BY <1>3, HeadTailProperties
  <2>2. DOMAIN Tail(s) = 1..Len(Tail(s)) /\ DOMAIN s = 1..Len(s) /\ Len(s) \in Nat
    BY <1>3, <2>1, LenProperties
  <2>3. ASSUME NEW n \in DOMAIN Tail(s)
        PROVE  n + 1 \in DOMAIN s /\ Tail(s)[n] = s[n + 1]
    BY <2>1, <2>2
  <2> QED
    BY <2>1, <2>3
<1>5. /\ r \in RequestSet /\ r.id = requests[i].id /\ r.message = requests[i].message
      /\ r.responseCount = requests[i].responseCount
      /\ r.responses = Tail(s)
  BY <1>2, <1>4 DEF Shortened, RequestSet, s
<1>6. requests' = [requests EXCEPT ![i] = r]
  BY DEF NextResponse, Shortened
<1> HIDE DEF r
<1>7. /\ requests' \in Seq(RequestSet) /\ DOMAIN requests' = DOMAIN requests
      /\ requests'[i] = r
      /\ \A j \in DOMAIN requests : j # i => requests'[j] = requests[j]
  BY <1>1, <1>5, <1>6, OneRequest
<1>8. ASSUME NEW j \in DOMAIN requests
      PROVE  /\ requests'[j].id = requests[j].id
             /\ requests'[j].message => requests[j].message
             /\ requests'[j].responseCount = requests[j].responseCount
             /\ \A n \in DOMAIN requests'[j].responses :
                  \E k \in DOMAIN requests[j].responses :
                    requests'[j].responses[n] = requests[j].responses[k]
  <2>1. CASE j # i
    BY <1>7, <2>1
  <2>2. CASE j = i
    <3>1. /\ requests'[i].id = requests[i].id
          /\ requests'[i].message => requests[i].message
          /\ requests'[i].responseCount = requests[i].responseCount
      BY <1>5, <1>7
    <3>2. requests'[i].responses = Tail(s)
      BY <1>5, <1>7
    <3>3. \A n \in DOMAIN requests'[i].responses :
            \E k \in DOMAIN requests[i].responses :
              requests'[i].responses[n] = requests[i].responses[k]
      BY <1>4, <3>2 DEF s
    <3> QED
      BY <2>2, <3>1, <3>3
  <2> QED
    BY <2>1, <2>2
<1>9. ListLess /\ CountsStay
  BY <1>1, <1>7, <1>8, SameList
<1> QED
  BY <1>7, <1>9, ListStep DEF NextResponse

\* It is abandoned.
Left(r) == [r EXCEPT !.abandoned = TRUE]

\* Abandoning a request preserves the invariant.
LEMMA AbandonStep ==
  ASSUME IInv, NEW i \in DOMAIN requests, Abandon(i)
  PROVE  IInv'
<1>1. ClientTypes
  BY TypeParts DEF IInv
<1>2. requests[i] \in RequestSet
  BY <1>1, ElementOfSeq, LenProperties DEF ClientTypes
<1>3. CASE Dequeue(i)
  BY <1>3, DequeueStep
<1>4. CASE /\ requests' = [requests EXCEPT ![i].abandoned = TRUE]
           /\ UNCHANGED <<secure, status, conn, channel, inQueue, outQueue, layers, serving,
                          history, dropped, handled>>
  <2> DEFINE r == Left(requests[i])
  <2>1. /\ r \in RequestSet /\ r.id = requests[i].id /\ r.message = requests[i].message
        /\ r.responseCount = requests[i].responseCount
        /\ r.responses = requests[i].responses
    BY <1>2 DEF Left, RequestSet
  <2>2. requests' = [requests EXCEPT ![i] = r]
    BY <1>4 DEF Left
  <2> HIDE DEF r
  <2>3. /\ requests' \in Seq(RequestSet) /\ DOMAIN requests' = DOMAIN requests
        /\ requests'[i] = r
        /\ \A j \in DOMAIN requests : j # i => requests'[j] = requests[j]
    BY <1>1, <2>1, <2>2, OneRequest
  <2>4. ASSUME NEW j \in DOMAIN requests
        PROVE  /\ requests'[j].id = requests[j].id
               /\ requests'[j].message => requests[j].message
               /\ requests'[j].responseCount = requests[j].responseCount
               /\ requests'[j].responses = requests[j].responses
    BY <2>1, <2>3
  <2>5. ListLess /\ CountsStay
    BY <1>1, <2>3, <2>4, SameList
  <2> QED
    BY <1>4, <2>3, <2>5, ListStep
<1> QED
  BY <1>3, <1>4 DEF Abandon

\* startConnect fails.
LEMMA OpenFailsStep ==
  ASSUME IInv, OpenFails
  PROVE  IInv'
<1>1. FlagTypes /\ ClientTypes /\ LayerTypes /\ HistoryTypes
  BY TypeParts DEF IInv
<1>2. /\ channel' \in [state : {"Closed", "Opening", "Open"}, key : 0..MaxConns, temp : 0..MaxConns]
      /\ channel'.state = "Closed" /\ channel'.temp = channel.temp
  BY <1>1 DEF OpenFails, ClientTypes
<1>3. TypeOK'
  <2>1. FlagTypes'
    BY <1>1 DEF FlagTypes, OpenFails
  <2>2. ClientTypes'
    BY <1>1, <1>2 DEF ClientTypes, OpenFails
  <2>3. LayerTypes'
    BY <1>1 DEF LayerTypes, OpenFails
  <2>4. HistoryTypes'
    BY <1>1 DEF HistoryTypes, history, OpenFails
  <2> QED
    BY <2>1, <2>2, <2>3, <2>4, TypeParts
<1>4. Less(inQueue', inQueue) /\ Less(outQueue', outQueue)
  BY <1>1, QueueTypes, LessIs DEF OpenFails
<1>5. nextId <= nextId' /\ HandledIds \subseteq HandledIds' /\ handled' = handled
  BY <1>1, Numbers DEF history, HandledIds, OpenFails
<1>6. ListLess /\ CountsStay
  BY <1>1, SameList DEF OpenFails
<1>7. layers' = layers /\ conn' = conn
  BY DEF OpenFails
<1>8. NothingAsked /\ NothingAnswered
  BY <1>1, <1>2, <1>4, <1>5, <1>6, <1>7, SameEnds DEF NothingAsked, NothingAnswered
<1>9. ChannelQuiet /\ EndsQuiet
  BY <1>1, <1>2, <1>7, SameEnds DEF ChannelQuiet, OpenFails
<1> QED
  BY <1>3, <1>8, <1>9, QuietStep

-----------------------------------------------------------------------------
(* The steps that only take messages off queues, and the response.         *)

\* FinishConnect: no message is moved.
LEMMA FinishConnectStep ==
  ASSUME IInv, FinishConnect
  PROVE  IInv'
<1>1. FlagTypes /\ ClientTypes /\ LayerTypes /\ HistoryTypes /\ Started
  BY TypeParts DEF IInv
<1>2. /\ ClientTypes' /\ LayerTypes'
      /\ \A c \in Conns : /\ layers'[c].inQueue = layers[c].inQueue
                          /\ layers'[c].outQueue = layers[c].outQueue
                          /\ layers'[c].channel = layers[c].channel
                          /\ c # conn => layers'[c] = layers[c]
  BY <1>1, FinishConnectFacts
<1>3. TypeOK'
  <2>1. FlagTypes'
    BY <1>1 DEF FlagTypes, FinishConnect
  <2>2. HistoryTypes'
    BY <1>1 DEF HistoryTypes, history, FinishConnect
  <2> QED
    BY <1>2, <2>1, <2>2, TypeParts
<1>4. Less(inQueue', inQueue) /\ Less(outQueue', outQueue)
  BY <1>1, QueueTypes, LessIs DEF FinishConnect
<1>5. nextId <= nextId' /\ HandledIds \subseteq HandledIds' /\ handled' = handled
  BY <1>1, Numbers DEF history, HandledIds, FinishConnect
<1>6. ListLess /\ CountsStay
  BY <1>1, SameList DEF FinishConnect
<1>7. ASSUME NEW c \in Conns
      PROVE  /\ Less(layers'[c].inQueue, layers[c].inQueue)
             /\ Less(layers'[c].outQueue, layers[c].outQueue)
             /\ layers'[c].channel.state \in {layers[c].channel.state, "Closed"}
  BY <1>1, <1>2, QueueTypes, LessIs
<1>8. NothingAsked /\ NothingAnswered
  BY <1>4, <1>5, <1>6, <1>7 DEF NothingAsked, NothingAnswered, FinishConnect
<1>9. ChannelQuiet
  BY DEF ChannelQuiet, FinishConnect
<1>10. EndsQuiet
  <2>1. \A c \in Conns : c > conn => c # conn
    BY <1>1, Numbers
  <2> QED
    BY <1>2, <2>1 DEF EndsQuiet
<1> QED
  BY <1>3, <1>8, <1>9, <1>10, QuietStep

\* ClientDrops: some of what was received is not handled.
LEMMA ClientDropsStep ==
  ASSUME IInv, ClientDrops
  PROVE  IInv'
<1>1. FlagTypes /\ ClientTypes /\ LayerTypes /\ HistoryTypes
  BY TypeParts DEF IInv
<1>2. inQueue' \in Seq(Message) /\ Less(inQueue', inQueue) /\ Less(outQueue', outQueue)
  BY <1>1, QueueTypes, LessIs DEF ClientDrops
<1>3. TypeOK'
  <2>1. FlagTypes'
    BY <1>1 DEF FlagTypes, ClientDrops
  <2>2. ClientTypes'
    BY <1>1, <1>2 DEF ClientTypes, ClientDrops
  <2>3. LayerTypes'
    BY <1>1 DEF LayerTypes, ClientDrops
  <2>4. HistoryTypes'
    BY <1>1 DEF HistoryTypes, history, ClientDrops
  <2> QED
    BY <2>1, <2>2, <2>3, <2>4, TypeParts
<1>4. nextId <= nextId' /\ HandledIds \subseteq HandledIds' /\ handled' = handled
  BY <1>1, Numbers DEF history, HandledIds, ClientDrops
<1>5. ListLess /\ CountsStay
  BY <1>1, SameList DEF ClientDrops
<1>6. layers' = layers /\ conn' = conn /\ channel' = channel
  BY DEF ClientDrops
<1>7. NothingAsked /\ NothingAnswered
  BY <1>1, <1>2, <1>4, <1>5, <1>6, SameEnds DEF NothingAsked, NothingAnswered
<1>8. ChannelQuiet /\ EndsQuiet
  BY <1>1, <1>6, SameEnds DEF ChannelQuiet, ClientDrops
<1> QED
  BY <1>3, <1>7, <1>8, QuietStep

\* RemoveDisconnected: what the end holds is lost.
LEMMA RemoveDisconnectedStep ==
  ASSUME IInv, NEW c \in Conns, RemoveDisconnected(c)
  PROVE  IInv'
<1>1. FlagTypes /\ ClientTypes /\ LayerTypes /\ HistoryTypes
  BY TypeParts DEF IInv
<1>2. /\ LayerTypes'
      /\ \A d \in Conns : d # c => layers'[d] = layers[d]
      /\ layers'[c].inQueue = <<>> /\ layers'[c].outQueue = <<>>
      /\ layers'[c].channel.state = "Closed"
      /\ layers[c].status # "none"
  BY <1>1, RemoveDisconnectedFacts
<1>3. /\ ClientTypes' /\ ChannelQuiet /\ ListLess /\ CountsStay
      /\ Less(inQueue', inQueue) /\ Less(outQueue', outQueue)
  BY <1>1, SameClient DEF RemoveDisconnected
<1>4. TypeOK'
  <2>1. FlagTypes'
    BY <1>1 DEF FlagTypes, RemoveDisconnected
  <2>2. HistoryTypes'
    BY <1>1 DEF HistoryTypes, history, RemoveDisconnected
  <2> QED
    BY <1>2, <1>3, <2>1, <2>2, TypeParts
<1>5. ASSUME NEW d \in Conns
      PROVE  /\ Less(layers'[d].inQueue, layers[d].inQueue)
             /\ Less(layers'[d].outQueue, layers[d].outQueue)
             /\ layers'[d].channel.state \in {layers[d].channel.state, "Closed"}
  <2>1. CASE d = c
    BY <1>1, <1>2, <2>1, QueueTypes, LessIs
  <2>2. CASE d # c
    BY <1>1, <1>2, <2>2, QueueTypes, LessIs
  <2> QED
    BY <2>1, <2>2
<1>6. nextId <= nextId' /\ HandledIds \subseteq HandledIds' /\ handled' = handled
  BY <1>1, Numbers DEF history, HandledIds, RemoveDisconnected
<1>7. NothingAsked /\ NothingAnswered
  BY <1>3, <1>5, <1>6 DEF NothingAsked, NothingAnswered, ChannelQuiet
<1>8. EndsQuiet
  BY <1>2, NoLayerFacts DEF EndsQuiet
<1> QED
  BY <1>3, <1>4, <1>7, <1>8, QuietStep

\* A response is counted once, and it is the one of the request.
LEMMA CountedOnce ==
  ASSUME ClientTypes, LayerTypes, HistoryTypes, ClientTypes', inQueue # <<>>,
         NEW i, Counts(i), inQueue' = Tail(inQueue), layers' = layers, handled' = handled,
         Answers, OneAnswer, Counted, Given
  PROVE  OneAnswer' /\ Counted' /\ ListLess
<1> DEFINE id == requests[i].id
<1>1. /\ i \in DOMAIN requests /\ Head(inQueue).id = id
      /\ DOMAIN requests' = DOMAIN requests
      /\ \A j \in DOMAIN requests : j # i => requests'[j] = requests[j]
      /\ requests'[i].id = id
      /\ requests'[i].responseCount = requests[i].responseCount + 1
      /\ requests'[i].responses = Append(requests[i].responses, Head(inQueue).answers)
  BY DEF Counts
<1>2. /\ inQueue \in Seq(Message) /\ Tail(inQueue) \in Seq(Message)
      /\ 1 \in DOMAIN inQueue /\ Head(inQueue) = inQueue[1]
      /\ \A k \in DOMAIN Tail(inQueue) : /\ k + 1 \in DOMAIN inQueue
                                         /\ Tail(inQueue)[k] = inQueue[k + 1]
                                         /\ k \in Nat /\ k > 0
  BY QueueTypes, HeadFacts
<1>3. /\ id \in Request /\ id # 0 /\ requests[i].responseCount \in Nat
      /\ requests[i] \in RequestSet
  BY <1>1, Numbers, Bounds
<1>4. Has(inQueue, id)
  BY <1>1, <1>2 DEF Has
<1>5. id \in HandledIds /\ \A c \in Conns : ~Has(layers[c].outQueue, id)
  BY <1>3, <1>4 DEF OneAnswer
<1>6. requests[i].responseCount = 0
  BY <1>1, <1>3, <1>4 DEF Counted
<1>7. ~Has(Tail(inQueue), id)
  <2> SUFFICES ASSUME NEW k \in DOMAIN Tail(inQueue), Tail(inQueue)[k].id = id PROVE FALSE
    BY DEF Has
  <2>1. k + 1 = 1
    BY <1>1, <1>2, <1>3 DEF OneAnswer, Distinct
  <2> QED
    BY <1>2, <2>1
<1>8. Head(inQueue).answers = id
  BY <1>1, <1>2, <1>3 DEF Answers, FromServer
<1>9. HandledIds' = HandledIds
  BY DEF HandledIds
<1>10. /\ \A x : Has(inQueue', x) => Has(inQueue, x)
       /\ Distinct(inQueue) => Distinct(inQueue')
  BY <1>2, LessIs, LessFacts
<1>11. OneAnswer'
  <2>1. Distinct(inQueue') /\ \A c \in Conns : Distinct(layers'[c].outQueue)
    BY <1>10 DEF OneAnswer
  <2>2. ASSUME NEW x \in Request
        PROVE  /\ Has(inQueue', x) => x \in HandledIds'
               /\ \A c \in Conns : Has(layers'[c].outQueue, x) =>
                    /\ x \in HandledIds'
                    /\ ~Has(inQueue', x)
                    /\ \A d \in Conns : Has(layers'[d].outQueue, x) => c = d
    BY <1>9, <1>10 DEF OneAnswer
  <2> QED
    BY <2>1, <2>2 DEF OneAnswer
<1>12. \A n \in DOMAIN requests'[i].responses : requests'[i].responses[n] = id
  <2> DEFINE s == requests[i].responses
             a == Append(s, id)
  <2>1. s \in Seq(Request)
    BY <1>3, RequestParts
  <2>2. \A n \in DOMAIN s : s[n] = id
    BY <1>1 DEF Counted
  <2> HIDE DEF s
  <2>3. /\ a \in Seq(Request) /\ Len(a) = Len(s) + 1 /\ a[Len(s) + 1] = id
        /\ \A n \in 1..Len(s) : a[n] = s[n]
    BY <1>3, <2>1, AppendProperties
  <2>4. DOMAIN s = 1..Len(s) /\ DOMAIN a = 1..Len(a) /\ Len(s) \in Nat
    BY <2>1, <2>3, LenProperties
  <2>5. requests'[i].responses = a
    BY <1>1, <1>8 DEF s
  <2> HIDE DEF a
  <2>6. \A n \in DOMAIN a : a[n] = id
    BY <2>2, <2>3, <2>4
  <2> QED
    BY <2>5, <2>6
<1>13. Counted'
  <2> SUFFICES ASSUME NEW j \in DOMAIN requests'
               PROVE  /\ requests'[j].responseCount <= 1
                      /\ requests'[j].responseCount = 1 =>
                           /\ requests'[j].id \in HandledIds'
                           /\ ~Has(inQueue', requests'[j].id)
                           /\ \A c \in Conns : ~Has(layers'[c].outQueue, requests'[j].id)
                      /\ \A n \in DOMAIN requests'[j].responses :
                           requests'[j].responses[n] = requests'[j].id
    BY DEF Counted
  <2>1. CASE j = i
    <3>1. requests'[i].responseCount = 1
      BY <1>1, <1>6
    <3>2. /\ requests'[i].id \in HandledIds' /\ ~Has(inQueue', requests'[i].id)
          /\ \A c \in Conns : ~Has(layers'[c].outQueue, requests'[i].id)
      BY <1>1, <1>5, <1>7, <1>9
    <3>3. requests'[i].responseCount <= 1
      BY <3>1
    <3>4. \A n \in DOMAIN requests'[i].responses : requests'[i].responses[n] = requests'[i].id
      BY <1>1, <1>12
    <3> QED
      BY <2>1, <3>2, <3>3, <3>4
  <2>2. CASE j # i
    <3>1. j \in DOMAIN requests /\ requests'[j] = requests[j]
      BY <1>1, <2>2
    <3> QED
      BY <1>9, <1>10, <3>1 DEF Counted
  <2> QED
    BY <2>1, <2>2
<1>14. ListLess
  <2> DEFINE f == [j \in DOMAIN requests' |-> j]
  <2>1. f \in [DOMAIN requests' -> DOMAIN requests] /\ \A j \in DOMAIN requests' : f[j] = j
    BY <1>1
  <2>2. \A j \in DOMAIN requests' : /\ requests'[j].id = requests[j].id
                                    /\ requests'[j].message => requests[j].message
    BY <1>1 DEF Counts
  <2> HIDE DEF f
  <2> QED
    BY <2>1, <2>2 DEF ListLess
<1> QED
  BY <1>11, <1>13, <1>14

-----------------------------------------------------------------------------
(* What the client does with a message.                                    *)

\* The channel is not opened, and nothing is sent.
LEMMA ClientQuietStep ==
  ASSUME IInv, UNCHANGED <<secure, conn, layers, serving, dropped, handled, queuedAt>>,
         ClientTypes', nextId' \in 0..MaxRequest, nextId <= nextId', ListLess, CountsStay,
         Less(inQueue', inQueue), Less(outQueue', outQueue), ChannelQuiet
  PROVE  IInv'
<1>1. FlagTypes /\ ClientTypes /\ LayerTypes /\ HistoryTypes
  BY TypeParts DEF IInv
<1>2. TypeOK'
  <2>1. FlagTypes'
    BY <1>1 DEF FlagTypes
  <2>2. LayerTypes'
    BY <1>1 DEF LayerTypes
  <2>3. HistoryTypes'
    BY <1>1 DEF HistoryTypes
  <2> QED
    BY <2>1, <2>2, <2>3, TypeParts
<1>3. HandledIds \subseteq HandledIds'
  BY DEF HandledIds
<1>4. NothingAsked /\ NothingAnswered
  BY <1>1, <1>3, SameEnds DEF NothingAsked, NothingAnswered, ChannelQuiet
<1>5. EndsQuiet
  BY <1>1, SameEnds
<1> QED
  BY <1>2, <1>4, <1>5, QuietStep

\* Neither is a message handled that nobody waits for.
LEMMA UnawaitedStep ==
  ASSUME IInv, inQueue # <<>>, Unawaited,
         UNCHANGED <<secure, conn, layers, serving, dropped, handled>>
  PROVE  IInv'
<1>1. ClientTypes /\ HistoryTypes
  BY TypeParts DEF IInv
<1>2. inQueue' \in Seq(Message) /\ Less(inQueue', inQueue) /\ Less(outQueue', outQueue)
  BY <1>1, QueueTypes, LessIs DEF Unawaited
<1>3. ClientTypes'
  BY <1>1, <1>2 DEF ClientTypes, Unawaited
<1>4. ListLess /\ CountsStay
  BY <1>1, SameList DEF Unawaited
<1>5. ChannelQuiet
  BY DEF ChannelQuiet, Unawaited
<1>6. nextId' \in 0..MaxRequest /\ nextId <= nextId' /\ queuedAt' = queuedAt
  BY <1>1, Numbers DEF HistoryTypes, Unawaited
<1> QED
  BY <1>2, <1>3, <1>4, <1>5, <1>6, ClientQuietStep

\* The key that came is not that of the session.
LEMMA BadKeyStep ==
  ASSUME IInv, inQueue # <<>>, BadKey,
         UNCHANGED <<secure, conn, layers, serving, dropped, handled>>
  PROVE  IInv'
<1>1. ClientTypes /\ HistoryTypes
  BY TypeParts DEF IInv
<1>2. inQueue' \in Seq(Message) /\ Less(inQueue', inQueue)
  <2>1. /\ inQueue \in Seq(Message) /\ Tail(inQueue) \in Seq(Message)
        /\ Less(Tail(inQueue), inQueue)
    BY <1>1, QueueTypes, LessIs
  <2>2. inQueue' \in Seq(Message) /\ Less(inQueue', Tail(inQueue))
    BY <2>1, LessIs DEF BadKey
  <2> QED
    BY <2>1, <2>2, LessLess
<1>3. /\ channel' \in [state : {"Closed", "Opening", "Open"}, key : 0..MaxConns, temp : 0..MaxConns]
      /\ channel'.state = channel.state /\ channel'.key = channel.key /\ channel'.temp = 0
  <2>1. 0 \in 0..MaxConns
    BY Bounds
  <2> QED
    BY <1>1, <2>1 DEF BadKey, ClientTypes
<1>4. ClientTypes'
  BY <1>1, <1>2, <1>3 DEF ClientTypes, BadKey
<1>5. ListLess /\ CountsStay
  BY <1>1, SameList DEF BadKey
<1>6. ChannelQuiet
  BY <1>3 DEF ChannelQuiet, BadKey
<1>7. nextId' \in 0..MaxRequest /\ nextId <= nextId' /\ queuedAt' = queuedAt
  BY <1>1, Numbers DEF HistoryTypes, BadKey
<1>8. Less(outQueue', outQueue)
  BY <1>1, QueueTypes, LessIs DEF BadKey
<1> QED
  BY <1>2, <1>4, <1>5, <1>6, <1>7, <1>8, ClientQuietStep

\* The client ends.
LEMMA ClientAbortsStep ==
  ASSUME IInv, ClientAborts, UNCHANGED <<secure, conn, layers, serving, dropped, handled>>
  PROVE  IInv'
<1>1. ClientTypes /\ HistoryTypes
  BY TypeParts DEF IInv
<1>2. Less(inQueue', inQueue) /\ Less(outQueue', outQueue)
  BY <1>1, QueueTypes, LessIs DEF ClientAborts
<1>3. /\ channel' \in [state : {"Closed", "Opening", "Open"}, key : 0..MaxConns, temp : 0..MaxConns]
      /\ channel'.state = "Closed" /\ channel'.temp = 0 /\ status' = "Disconnected"
  BY Bounds DEF ClientAborts, PeerData
<1>4. ClientTypes'
  <2>1. requests' \in Seq(RequestSet) /\ inQueue' \in Seq(Message) /\ outQueue' \in Seq(Message)
    BY DEF ClientAborts
  <2> QED
    BY <1>1, <1>3, <2>1 DEF ClientTypes
<1>5. ListLess /\ CountsStay
  BY EmptyList DEF ClientAborts
<1>6. ChannelQuiet
  BY <1>3 DEF ChannelQuiet
<1>7. nextId' \in 0..MaxRequest /\ nextId <= nextId' /\ queuedAt' = queuedAt
  BY <1>1, Bounds DEF HistoryTypes, ClientAborts
<1> QED
  BY <1>2, <1>4, <1>5, <1>6, <1>7, ClientQuietStep

\* A response belongs to a request, or to none any more.
LEMMA HandleOpenStep ==
  ASSUME IInv, inQueue # <<>>, HandleOpen(Head(inQueue)),
         UNCHANGED <<secure, conn, layers, serving, dropped, handled>>
  PROVE  IInv'
<1>1. FlagTypes /\ ClientTypes /\ LayerTypes /\ HistoryTypes
  BY TypeParts DEF IInv
<1>2. inQueue' \in Seq(Message) /\ Less(inQueue', inQueue) /\ Less(outQueue', outQueue)
  BY <1>1, QueueTypes, LessIs DEF HandleOpen
<1>3. FromServer(Head(inQueue))
  BY <1>1, QueueTypes, HeadFacts DEF IInv, Answers
<1>4. requests' = requests \/ requests' = HandleResponse(Head(inQueue))
  BY DEF HandleOpen
<1>5. requests' \in Seq(RequestSet) /\ ((ListLess /\ CountsStay) \/ \E i : Counts(i))
  <2>1. CASE requests' = requests
    BY <1>1, <2>1, SameList DEF ClientTypes
  <2>2. CASE requests' = HandleResponse(Head(inQueue))
    BY <1>1, <1>3, <2>2, ResponseFacts
  <2> QED
    BY <1>4, <2>1, <2>2
<1>6. ClientTypes'
  BY <1>1, <1>2, <1>5 DEF ClientTypes, HandleOpen
<1>7. ChannelQuiet
  BY DEF ChannelQuiet, HandleOpen
<1>8. /\ nextId' \in 0..MaxRequest /\ nextId <= nextId' /\ queuedAt' = queuedAt
      /\ inQueue' = Tail(inQueue) /\ channel' = channel
  BY <1>1, Numbers DEF HistoryTypes, HandleOpen
<1>9. CASE ListLess /\ CountsStay
  BY <1>2, <1>6, <1>7, <1>8, <1>9, ClientQuietStep
<1>10. ASSUME NEW i, Counts(i) PROVE IInv'
  <2>1. OneAnswer' /\ Counted' /\ ListLess
    BY <1>1, <1>6, <1>8, <1>10, CountedOnce DEF IInv
  <2>2. TypeOK'
    <3>1. FlagTypes'
      BY <1>1 DEF FlagTypes
    <3>2. LayerTypes'
      BY <1>1 DEF LayerTypes
    <3>3. HistoryTypes'
      BY <1>1, <1>8 DEF HistoryTypes
    <3> QED
      BY <1>6, <3>1, <3>2, <3>3, TypeParts
  <2>3. NothingAsked
    BY <1>1, <1>2, <1>8, <2>1, SameEnds DEF NothingAsked
  <2>4. Given' /\ OnePlace' /\ Opening' /\ Ordered'
    BY <1>1, <2>2, <2>3, TypeParts, AskedStays DEF IInv
  <2>5. Asks'
    BY <1>1, <2>2, <2>3, TypeParts, AsksStay DEF IInv
  <2>6. Started' /\ Keys'
    BY <1>1, <1>7, SameEnds, StartedStays, KeysStay DEF IInv
  <2>7. Answers'
    <3>1. \A k \in DOMAIN inQueue' : \E j \in DOMAIN inQueue : inQueue'[k] = inQueue[j]
      BY <1>1, <1>2, QueueTypes, LessFacts
    <3> QED
      BY <3>1 DEF IInv, Answers, FromServer
  <2> QED
    BY <2>1, <2>2, <2>4, <2>5, <2>6, <2>7 DEF IInv
<1> QED
  BY <1>5, <1>9, <1>10

-----------------------------------------------------------------------------
(* The channel is opened at the client.                                    *)

\* A queue behind another.
LEMMA ConcatFacts ==
  ASSUME NEW q \in Seq(Message), NEW p \in Seq(Message)
  PROVE  /\ q \o p \in Seq(Message)
         /\ \A i \in DOMAIN (q \o p) : \/ i \in DOMAIN q /\ (q \o p)[i] = q[i]
                                       \/ i - Len(q) \in DOMAIN p /\ (q \o p)[i] = p[i - Len(q)]
         /\ \A id : Has(q \o p, id) => Has(q, id) \/ Has(p, id)
         /\ Opens(q \o p) => Opens(q) \/ Opens(p)
         /\ /\ Distinct(q) /\ Distinct(p)
            /\ \A i \in DOMAIN p : p[i].id # 0 => ~Has(q, p[i].id)
            => Distinct(q \o p)
         /\ q = <<>> => q \o p = p
<1> DEFINE s == q \o p
<1>1. /\ s \in Seq(Message) /\ Len(s) = Len(q) + Len(p)
      /\ \A i \in 1..(Len(q) + Len(p)) :
           s[i] = IF i <= Len(q) THEN q[i] ELSE p[i - Len(q)]
  BY ConcatProperties
<1>2. /\ DOMAIN q = 1..Len(q) /\ DOMAIN p = 1..Len(p) /\ DOMAIN s = 1..Len(s)
      /\ Len(q) \in Nat /\ Len(p) \in Nat
  BY <1>1, LenProperties
<1>3. q = <<>> => s = p
  BY ConcatEmptySeq
<1> HIDE DEF s
<1>4. \A i \in DOMAIN s : \/ i \in DOMAIN q /\ s[i] = q[i]
                          \/ i - Len(q) \in DOMAIN p /\ s[i] = p[i - Len(q)]
  BY <1>1, <1>2
<1>5. \A id : Has(s, id) => Has(q, id) \/ Has(p, id)
  BY <1>4 DEF Has
<1>6. Opens(s) => Opens(q) \/ Opens(p)
  BY <1>4 DEF Opens
<1>7. ASSUME Distinct(q), Distinct(p), \A i \in DOMAIN p : p[i].id # 0 => ~Has(q, p[i].id)
      PROVE  Distinct(s)
  <2> SUFFICES ASSUME NEW i \in DOMAIN s, NEW j \in DOMAIN s, s[i].id = s[j].id, s[i].id # 0
               PROVE  i = j
    BY DEF Distinct
  <2>1. CASE i \in DOMAIN q /\ s[i] = q[i] /\ j \in DOMAIN q /\ s[j] = q[j]
    BY <1>7, <2>1 DEF Distinct
  <2>2. CASE /\ i - Len(q) \in DOMAIN p /\ s[i] = p[i - Len(q)]
             /\ j - Len(q) \in DOMAIN p /\ s[j] = p[j - Len(q)]
    <3>1. i - Len(q) = j - Len(q)
      BY <1>7, <2>2 DEF Distinct
    <3> QED
      BY <1>2, <3>1
  <2>3. CASE i \in DOMAIN q /\ s[i] = q[i] /\ j - Len(q) \in DOMAIN p /\ s[j] = p[j - Len(q)]
    BY <1>7, <2>3 DEF Has
  <2>4. CASE j \in DOMAIN q /\ s[j] = q[j] /\ i - Len(q) \in DOMAIN p /\ s[i] = p[i - Len(q)]
    BY <1>7, <2>4 DEF Has
  <2> QED
    BY <1>4, <2>1, <2>2, <2>3, <2>4
<1> QED
  BY <1>1, <1>3, <1>4, <1>5, <1>6, <1>7 DEF s

\* The requests that waited, as messages in the order of the list.
LEMMA FlushedFacts ==
  ASSUME ClientTypes, HistoryTypes, Given, NEW order \in InOrder(Waiting), NEW key \in 0..MaxConns
  PROVE  LET s == Flushed(order, key)
         IN  /\ s \in Seq(Message)
             /\ \A n \in DOMAIN s : \E i \in Waiting :
                  s[n].id = requests[i].id /\ s[n].kind = "request" /\ s[n].id # 0
             /\ Distinct(s) /\ Ascending(s) /\ ~Opens(s)
<1> DEFINE s == Flushed(order, key)
           N == Cardinality(Waiting)
<1>1. /\ DOMAIN requests = 1..Len(requests) /\ Len(requests) \in Nat
  BY LenProperties DEF ClientTypes
<1>2. N \in Nat
  <2>1. IsFiniteSet(1..Len(requests))
    BY <1>1, FS_Interval
  <2>2. Waiting \subseteq 1..Len(requests)
    BY <1>1 DEF Waiting
  <2> QED
    BY <2>1, <2>2, FS_Subset, FS_CardinalityType
<1>3. order \in [1..N -> Waiting] /\ \A m, n \in 1..N : m < n => order[m] < order[n]
  BY DEF InOrder
<1>4. \A i \in Waiting : i \in DOMAIN requests /\ requests[i].id \in Request /\ requests[i].id # 0
  BY Numbers, Bounds DEF Waiting
<1>5. s = [n \in 1..N |-> RequestMessage(requests[order[n]].id, key)]
  BY <1>3 DEF Flushed, RequestMessage
<1> HIDE DEF s, N
<1>6. ASSUME NEW n \in 1..N
      PROVE  /\ s[n] \in Message /\ s[n].kind = "request" /\ s[n].id = requests[order[n]].id
             /\ order[n] \in Waiting /\ s[n].id # 0 /\ s[n].id \in Nat
  <2>1. order[n] \in Waiting
    BY <1>3
  <2>2. requests[order[n]].id \in Request /\ requests[order[n]].id # 0
    BY <1>4, <2>1
  <2>3. s[n] = RequestMessage(requests[order[n]].id, key)
    BY <1>5
  <2>4. /\ s[n] \in Message /\ s[n].kind = "request" /\ s[n].id = requests[order[n]].id
    BY <2>2, <2>3, MadeMessages
  <2> QED
    BY <2>1, <2>2, <2>4, Bounds
<1>7. s \in Seq(Message) /\ DOMAIN s = 1..N
  BY <1>2, <1>5, <1>6, SeqDef
<1>8. Ascending(s)
  <2> SUFFICES ASSUME NEW m \in 1..N, NEW n \in 1..N, m < n PROVE s[m].id < s[n].id
    BY <1>7 DEF Ascending
  <2>1. order[m] < order[n]
    BY <1>3
  <2>2. requests[order[m]].id < requests[order[n]].id
    BY <1>4, <1>6, <2>1 DEF Given
  <2> QED
    BY <1>6, <2>2
<1>9. Distinct(s)
  BY <1>2, <1>6, <1>7, <1>8 DEF Ascending, Distinct
<1>10. ~Opens(s)
  BY <1>6, <1>7 DEF Opens
<1> QED
  BY <1>6, <1>7, <1>8, <1>9, <1>10 DEF s

\* The list after its messages were taken.
LEMMA EmptiedFacts ==
  ASSUME ClientTypes, requests' = Emptied(requests)
  PROVE  requests' \in Seq(RequestSet) /\ Waiting' = {} /\ ListLess /\ CountsStay
<1>1. /\ requests \in Seq(RequestSet) /\ DOMAIN requests = 1..Len(requests)
      /\ Len(requests) \in Nat
  BY LenProperties DEF ClientTypes
<1>2. \A i \in DOMAIN requests : requests[i] \in RequestSet
  BY <1>1, ElementOfSeq
<1>3. ASSUME NEW r \in RequestSet
      PROVE  LET n == [r EXCEPT !.message = FALSE]
             IN  /\ n \in RequestSet /\ n.message = FALSE /\ n.id = r.id
                 /\ n.responseCount = r.responseCount /\ n.responses = r.responses
  BY DEF RequestSet
<1>4. /\ DOMAIN requests' = DOMAIN requests
      /\ \A i \in DOMAIN requests :
           /\ requests'[i] \in RequestSet /\ requests'[i].message = FALSE
           /\ requests'[i].id = requests[i].id
           /\ requests'[i].responseCount = requests[i].responseCount
           /\ requests'[i].responses = requests[i].responses
  BY <1>2, <1>3 DEF Emptied
<1>5. requests' \in Seq(RequestSet)
  <2>1. requests' = [i \in 1..Len(requests) |-> [requests[i] EXCEPT !.message = FALSE]]
    BY <1>1 DEF Emptied
  <2> QED
    BY <1>1, <1>4, <2>1, SeqDef
<1>6. Waiting' = {}
  BY <1>4 DEF Waiting
<1>7. ListLess /\ CountsStay
  BY <1>4, SameList
<1> QED
  BY <1>5, <1>6, <1>7

\* The key is that of the connection, and what waited is sent in order: the queue
\* is empty, or nothing was written on the connection.
LEMMA OpenedStep ==
  ASSUME IInv, channel.state = "Opening", inQueue # <<>>,
         Head(inQueue).kind = "opened", Head(inQueue).temp = channel.temp,
         Opened(Head(inQueue)), UNCHANGED <<secure, conn, layers, serving, dropped, handled>>
  PROVE  IInv'
<1> DEFINE msg == Head(inQueue)
<1>1. FlagTypes /\ ClientTypes /\ LayerTypes /\ HistoryTypes
  BY TypeParts DEF IInv
<1>2. /\ inQueue' = Tail(inQueue) /\ requests' = Emptied(requests)
      /\ status' = status /\ nextId' = nextId
      /\ channel' = [state |-> "Open", key |-> msg.key, temp |-> 0]
      /\ queuedAt' = [r \in Request |->
                        IF \E i \in Waiting : requests[i].id = r THEN conn ELSE queuedAt[r]]
  BY DEF Opened
<1>3. PICK order \in InOrder(Waiting) : outQueue' = outQueue \o Flushed(order, msg.key)
  BY DEF Opened
<1> DEFINE s == Flushed(order, msg.key)
<1>4. /\ msg \in Message /\ 1 \in DOMAIN inQueue /\ msg = inQueue[1]
      /\ inQueue' \in Seq(Message) /\ Less(inQueue', inQueue)
  BY <1>1, <1>2, QueueTypes, HeadFacts, LessIs
<1>5. msg.key \in 0..MaxConns /\ msg.key \in Nat /\ msg.temp \in Nat
  BY <1>4, MessageFacts
<1>6. /\ s \in Seq(Message)
      /\ \A n \in DOMAIN s : \E i \in Waiting :
           s[n].id = requests[i].id /\ s[n].kind = "request" /\ s[n].id # 0
      /\ Distinct(s) /\ Ascending(s) /\ ~Opens(s)
  BY <1>1, <1>5, FlushedFacts DEF IInv
<1>7. outQueue \in Seq(Message) /\ outQueue' = outQueue \o s
  BY <1>1, <1>3, QueueTypes
<1> HIDE DEF s
<1>8. /\ requests' \in Seq(RequestSet) /\ Waiting' = {} /\ ListLess /\ CountsStay
  BY <1>1, <1>2, EmptiedFacts
<1>9. /\ outQueue' \in Seq(Message)
      /\ \A i \in DOMAIN outQueue' :
           \/ i \in DOMAIN outQueue /\ outQueue'[i] = outQueue[i]
           \/ i - Len(outQueue) \in DOMAIN s /\ outQueue'[i] = s[i - Len(outQueue)]
      /\ \A id : Has(outQueue', id) => Has(outQueue, id) \/ Has(s, id)
      /\ Opens(outQueue') => Opens(outQueue)
      /\ /\ Distinct(outQueue) /\ Distinct(s)
         /\ \A i \in DOMAIN s : s[i].id # 0 => ~Has(outQueue, s[i].id)
         => Distinct(outQueue')
      /\ outQueue = <<>> => outQueue' = s
  BY <1>6, <1>7, ConcatFacts
<1>10. /\ channel'.state = "Open" /\ channel'.key = msg.key /\ channel'.temp = 0
       /\ channel' \in [state : {"Closed", "Opening", "Open"}, key : 0..MaxConns, temp : 0..MaxConns]
  BY <1>2, <1>5, Bounds
<1>11. TypeOK'
  <2>1. FlagTypes'
    BY <1>1 DEF FlagTypes
  <2>2. LayerTypes'
    BY <1>1 DEF LayerTypes
  <2>3. ClientTypes'
    BY <1>1, <1>2, <1>4, <1>8, <1>9, <1>10 DEF ClientTypes
  <2>4. HistoryTypes'
    <3>1. conn \in 0..MaxConns
      BY <1>1 DEF ClientTypes
    <3> QED
      BY <1>1, <1>2, <3>1 DEF HistoryTypes
  <2> QED
    BY <2>1, <2>2, <2>3, <2>4, TypeParts
<1>12. HandledIds' = HandledIds /\ \A c : HandledOn(c)' = HandledOn(c)
  BY DEF HandledIds, HandledOn
<1>13. NothingAnswered
  BY <1>1, <1>4, <1>8, <1>12, SameEnds DEF NothingAnswered
<1>14. Answers' /\ OneAnswer' /\ Counted'
  BY <1>1, <1>11, <1>13, TypeParts, AnswersStay, AnsweredStays DEF IInv
<1>15. Started'
  BY <1>2, <1>10 DEF IInv, Started
<1>16. Keys'
  <2>1. msg.key <= conn /\ FromServer(msg)
    BY <1>4 DEF IInv, Answers
  <2>2. secure => msg.key = conn
    <3> SUFFICES ASSUME secure PROVE msg.key = conn
      OBVIOUS
    <3>1. msg.temp \in 1..msg.key
      BY <2>1 DEF FromServer
    <3>2. msg.temp = conn
      BY <1>5, <3>1 DEF IInv, Keys
    <3> QED
      BY <1>1, <1>5, <2>1, <3>1, <3>2, Numbers
  <2>3. ~secure => msg.key = 0
    BY <2>1 DEF FromServer
  <2> QED
    BY <1>10, <2>2, <2>3 DEF IInv, Keys
<1>17. Asks'
  <2>1. \A i \in DOMAIN outQueue' : FromClient(outQueue'[i], conn)
    BY <1>6, <1>9 DEF IInv, Asks, FromClient
  <2>2. \A c \in Conns : \A i \in DOMAIN layers[c].inQueue : FromClient(layers[c].inQueue[i], c)
    BY DEF IInv, Asks
  <2> QED
    BY <2>1, <2>2 DEF Asks, FromClient
<1>18. Given'
  <2>1. PICK f \in [DOMAIN requests' -> DOMAIN requests] :
          /\ \A i, j \in DOMAIN requests' : i < j => f[i] < f[j]
          /\ \A i \in DOMAIN requests' :
               /\ requests'[i].id = requests[f[i]].id
               /\ requests'[i].message => requests[f[i]].message
    BY <1>8 DEF ListLess
  <2>2. \A i \in DOMAIN requests' : requests'[i].id <= nextId'
    BY <1>2, <2>1 DEF IInv, Given
  <2>3. \A i, j \in DOMAIN requests' : i < j => requests'[i].id < requests'[j].id
    BY <2>1 DEF IInv, Given
  <2>4. \A i \in DOMAIN outQueue' : outQueue'[i].id <= nextId'
    <3>1. \A i \in Waiting : requests[i].id <= nextId
      BY DEF IInv, Given, Waiting
    <3> QED
      <4> SUFFICES ASSUME NEW i \in DOMAIN outQueue' PROVE outQueue'[i].id <= nextId'
        OBVIOUS
      <4>1. CASE i \in DOMAIN outQueue /\ outQueue'[i] = outQueue[i]
        BY <1>2, <4>1 DEF IInv, Given
      <4>2. CASE i - Len(outQueue) \in DOMAIN s /\ outQueue'[i] = s[i - Len(outQueue)]
        <5>1. PICK j \in Waiting : s[i - Len(outQueue)].id = requests[j].id
          BY <1>6, <4>2
        <5> QED
          BY <1>2, <3>1, <4>2, <5>1
      <4> QED
        BY <1>9, <4>1, <4>2
  <2> QED
    BY <1>2, <2>2, <2>3, <2>4 DEF IInv, Given
<1>19. \A id \in Request : Has(s, id) =>
         /\ ~Has(outQueue, id) /\ id \notin HandledIds
         /\ \A c \in Conns : ~Has(layers[c].inQueue, id)
  BY <1>6 DEF IInv, OnePlace, Has
<1>20. OnePlace'
  <2>1. \A i \in DOMAIN s : s[i].id # 0 => ~Has(outQueue, s[i].id)
    BY <1>6 DEF IInv, OnePlace
  <2>2. Distinct(outQueue') /\ \A c \in Conns : Distinct(layers'[c].inQueue)
    BY <1>6, <1>9, <2>1 DEF IInv, OnePlace
  <2>3. ASSUME NEW id \in Request
        PROVE  /\ Has(outQueue', id) => id \notin HandledIds'
               /\ \A c \in Conns : Has(layers'[c].inQueue, id) =>
                    /\ ~Has(outQueue', id)
                    /\ id \notin HandledIds'
                    /\ \A d \in Conns : Has(layers'[d].inQueue, id) => c = d
    BY <1>9, <1>12, <1>19 DEF IInv, OnePlace
  <2>4. \A h, g \in DOMAIN handled' : handled'[h].id = handled'[g].id => h = g
    BY DEF IInv, OnePlace
  <2> QED
    BY <1>8, <2>2, <2>3, <2>4 DEF OnePlace
<1>21. Opening'
  BY <1>9, <1>10, <1>12 DEF IInv, Opening, Untouched
<1>22. Ordered'
  <2>1. ASSUME NEW c \in Conns, Live(c)' PROVE InOrderOn(c)'
    <3>1. Live(c) /\ InOrderOn(c)
      BY <1>12, <2>1 DEF IInv, Ordered, Live
    <3>2. CASE c # conn
      BY <1>12, <3>1, <3>2 DEF InOrderOn
    <3>3. CASE c = conn
      <4>1. HandledOn(c) = {}
        BY <3>3 DEF IInv, Opening
      <4>2. outQueue = <<>>
        <5>1. ASSUME Untouched(c) PROVE FALSE
          <6>1. ~Opens(<<>>)
            BY EmptySeq DEF Opens
          <6> QED
            BY <3>1, <5>1, <6>1 DEF Live, Untouched
        <5> QED
          BY <3>3, <5>1 DEF IInv, Opening
      <4>3. outQueue' = s
        BY <1>9, <4>2
      <4>4. ASSUME NEW j \in DOMAIN layers[c].inQueue PROVE layers[c].inQueue[j].id = 0
        <5>1. layers[c].inQueue \in Seq(Message)
          BY <1>1, QueueTypes
        <5>2. layers[c].inQueue # <<>>
          BY <4>4, EmptySeq
        <5>3. layers[c].channel.state = "Closed" /\ Len(layers[c].inQueue) <= 1
          BY <3>3, <5>2 DEF IInv, Opening
        <5>4. Opens(layers[c].inQueue)
          BY <3>1, <4>1, <5>3 DEF Live
        <5>5. PICK k \in DOMAIN layers[c].inQueue : layers[c].inQueue[k].kind = "open"
          BY <5>4 DEF Opens
        <5>6. j = k
          BY <5>1, <5>3, QueueMessages, LenProperties
        <5> QED
          BY <5>5, <5>6 DEF IInv, Asks, FromClient
      <4>5. \A i \in DOMAIN s : s[i].id \in Nat /\ s[i].id > 0
        BY <1>6, QueueMessages, MessageFacts
      <4>6. /\ Ascending(outQueue')
            /\ \A i \in DOMAIN outQueue' : outQueue'[i].id # 0 =>
                 /\ \A id \in HandledOn(c)' : id < outQueue'[i].id
                 /\ \A j \in DOMAIN layers'[c].inQueue :
                      layers'[c].inQueue[j].id < outQueue'[i].id
        BY <1>6, <1>12, <4>1, <4>3, <4>4, <4>5
      <4>7. /\ Ascending(layers'[c].inQueue)
            /\ \A i \in DOMAIN layers'[c].inQueue : \A id \in HandledOn(c)' :
                 layers'[c].inQueue[i].id # 0 => id < layers'[c].inQueue[i].id
        BY <1>12, <3>1 DEF InOrderOn
      <4> QED
        BY <4>6, <4>7 DEF InOrderOn
    <3> QED
      BY <3>2, <3>3
  <2>2. \A h, g \in DOMAIN handled' :
          h < g /\ handled'[h].conn = handled'[g].conn => handled'[h].id < handled'[g].id
    BY DEF IInv, Ordered
  <2> QED
    BY <2>1, <2>2 DEF Ordered
<1> QED
  BY <1>11, <1>14, <1>15, <1>16, <1>17, <1>18, <1>20, <1>21, <1>22 DEF IInv

\* What the client does with a message.
LEMMA ClientHandlesStep ==
  ASSUME IInv, ClientHandles
  PROVE  IInv'
<1>1. inQueue # <<>> /\ UNCHANGED <<secure, conn, layers, serving, dropped, handled>>
  BY DEF ClientHandles
<1>2. CASE channel.state = "Opening" /\ HandleOpening(Head(inQueue))
  <2>1. CASE /\ Head(inQueue).kind = "opened" /\ Head(inQueue).temp = channel.temp
             /\ Opened(Head(inQueue))
    BY <1>1, <1>2, <2>1, OpenedStep
  <2>2. CASE BadKey
    BY <1>1, <2>2, BadKeyStep
  <2>3. CASE ClientAborts
    BY <1>1, <2>3, ClientAbortsStep
  <2>4. CASE Unawaited
    BY <1>1, <2>4, UnawaitedStep
  <2> QED
    BY <1>2, <2>1, <2>2, <2>3, <2>4 DEF HandleOpening
<1>3. CASE HandleOpen(Head(inQueue))
  BY <1>1, <1>3, HandleOpenStep
<1>4. CASE Unawaited
  BY <1>1, <1>4, UnawaitedStep
<1> QED
  BY <1>2, <1>3, <1>4 DEF ClientHandles

-----------------------------------------------------------------------------
(* A request is made.                                                      *)

\* The list with one request more.
LEMMA AddedFacts ==
  ASSUME ClientTypes, NEW r \in RequestSet, r.responseCount = 0, r.responses = <<>>,
         requests' = AddRequest(r)
  PROVE  /\ requests' \in Seq(RequestSet) /\ CountsStay
         /\ \A i \in DOMAIN requests' : \/ i \in DOMAIN requests /\ requests'[i] = requests[i]
                                        \/ i = Len(requests) + 1 /\ requests'[i] = r
<1>1. /\ requests \in Seq(RequestSet) /\ DOMAIN requests = 1..Len(requests)
      /\ Len(requests) \in Nat
  BY LenProperties DEF ClientTypes
<1>2. /\ requests' \in Seq(RequestSet) /\ Len(requests') = Len(requests) + 1
      /\ requests'[Len(requests) + 1] = r
      /\ \A i \in 1..Len(requests) : requests'[i] = requests[i]
  BY <1>1, AppendProperties DEF AddRequest
<1>3. DOMAIN requests' = 1..(Len(requests) + 1)
  BY <1>2, LenProperties
<1>4. \A i \in DOMAIN requests' : \/ i \in DOMAIN requests /\ requests'[i] = requests[i]
                                  \/ i = Len(requests) + 1 /\ requests'[i] = r
  BY <1>1, <1>2, <1>3
<1>5. CountsStay
  BY <1>4 DEF CountsStay
<1> QED
  BY <1>2, <1>4, <1>5

\* The requests that a caller makes.
Unsent(r) == [r EXCEPT !.message = FALSE]

\* A request that was made has its id, no answer and no message yet.
LEMMA NewRequest ==
  ASSUME NEW id \in Request
  PROVE  /\ RequestNew(id) \in RequestSet /\ RequestNew(id).id = id
         /\ RequestNew(id).responseCount = 0 /\ RequestNew(id).responses = <<>>
         /\ Unsent(RequestNew(id)) \in RequestSet /\ Unsent(RequestNew(id)).id = id
         /\ Unsent(RequestNew(id)).responseCount = 0 /\ Unsent(RequestNew(id)).responses = <<>>
         /\ Unsent(RequestNew(id)).message = FALSE
<1>1. <<>> \in Seq(Request) /\ 0 \in Nat
  OBVIOUS
<1> QED
  BY <1>1 DEF RequestNew, Unsent, RequestSet

\* Its id is greater than those that were given.
LEMMA FreshId ==
  ASSUME ClientTypes, LayerTypes, HistoryTypes, Given
  PROVE  LET id == nextId + 1
         IN  /\ \A i \in DOMAIN requests : requests[i].id < id
             /\ \A i \in DOMAIN outQueue : outQueue[i].id < id
             /\ \A c \in Conns : \A i \in DOMAIN layers[c].inQueue : layers[c].inQueue[i].id < id
             /\ \A c : \A x \in HandledOn(c) : x < id
             /\ ~Has(outQueue, id) /\ id \notin HandledIds
             /\ \A c \in Conns : ~Has(layers[c].inQueue, id)
<1> DEFINE id == nextId + 1
<1>1. /\ nextId \in Nat /\ \A i \in DOMAIN requests : requests[i].id \in Nat
      /\ \A h \in DOMAIN handled : handled[h].id \in Nat
  BY Numbers
<1>2. /\ \A i \in DOMAIN outQueue : outQueue[i].id \in Nat
      /\ \A c \in Conns : \A i \in DOMAIN layers[c].inQueue : layers[c].inQueue[i].id \in Nat
  BY QueueTypes, QueueMessages, MessageFacts
<1>3. \A i \in DOMAIN requests : requests[i].id < id
  BY <1>1 DEF Given
<1>4. \A i \in DOMAIN outQueue : outQueue[i].id < id
  BY <1>1, <1>2 DEF Given
<1>5. \A c \in Conns : \A i \in DOMAIN layers[c].inQueue : layers[c].inQueue[i].id < id
  BY <1>1, <1>2 DEF Given
<1>6. \A h \in DOMAIN handled : handled[h].id < id
  BY <1>1 DEF Given
<1>7. \A c : \A x \in HandledOn(c) : x < id
  BY <1>6 DEF HandledOn
<1>8. ~Has(outQueue, id)
  BY <1>1, <1>2, <1>4 DEF Has
<1>9. \A c \in Conns : ~Has(layers[c].inQueue, id)
  BY <1>1, <1>2, <1>5 DEF Has
<1>10. id \notin HandledIds
  BY <1>1, <1>6 DEF HandledIds
<1> QED
  BY <1>3, <1>4, <1>5, <1>7, <1>8, <1>9, <1>10

\* What the invariant needs of any request that is made.
LEMMA SendRequestFacts ==
  ASSUME IInv, NEW r \in RequestSet, r.responseCount = 0, r.responses = <<>>,
         r.id = nextId + 1, requests' = AddRequest(r), nextId' = nextId + 1,
         UNCHANGED <<secure, inQueue, layers, serving, dropped, handled>>,
         ClientTypes', queuedAt' \in [Request -> 0..MaxConns], conn' \in {conn, conn + 1},
         NEW m \in Message, outQueue' \in {outQueue, Append(outQueue, m)},
         m.id # 0 => m.id = r.id /\ r.message = FALSE,
         FromClient(m, conn')
  PROVE  TypeOK' /\ Given' /\ OnePlace' /\ Asks' /\ Answers' /\ OneAnswer' /\ Counted'
<1> DEFINE id == nextId + 1
<1>1. FlagTypes /\ ClientTypes /\ LayerTypes /\ HistoryTypes
  BY TypeParts DEF IInv
<1>2. /\ requests' \in Seq(RequestSet) /\ CountsStay
      /\ \A i \in DOMAIN requests' : \/ i \in DOMAIN requests /\ requests'[i] = requests[i]
                                     \/ i = Len(requests) + 1 /\ requests'[i] = r
  BY <1>1, AddedFacts
<1>3. /\ \A i \in DOMAIN requests : requests[i].id < id
      /\ \A i \in DOMAIN outQueue : outQueue[i].id < id
      /\ \A c \in Conns : \A i \in DOMAIN layers[c].inQueue : layers[c].inQueue[i].id < id
      /\ ~Has(outQueue, id) /\ id \notin HandledIds
      /\ \A c \in Conns : ~Has(layers[c].inQueue, id)
  BY <1>1, FreshId DEF IInv
<1>4. /\ nextId \in Nat /\ conn \in Nat /\ r.id \in Request /\ id \in Nat
      /\ \A i \in DOMAIN requests : requests[i].id \in Nat /\ i \in Nat
  BY <1>1, Numbers DEF RequestSet
<1>5. TypeOK'
  <2>1. FlagTypes'
    BY <1>1 DEF FlagTypes
  <2>2. LayerTypes'
    BY <1>1 DEF LayerTypes
  <2>3. HistoryTypes'
    <3>1. nextId' \in 0..MaxRequest
      BY <1>4, Bounds DEF Request
    <3> QED
      BY <1>1, <3>1 DEF HistoryTypes
  <2> QED
    BY <2>1, <2>2, <2>3, TypeParts
<1>6. /\ outQueue \in Seq(Message)
      /\ \A c \in Conns : layers[c].inQueue \in Seq(Message)
  BY <1>1, QueueTypes
<1>7. /\ \A i \in DOMAIN outQueue' : \/ i \in DOMAIN outQueue /\ outQueue'[i] = outQueue[i]
                                     \/ outQueue'[i] = m
      /\ \A x \in Request : Has(outQueue', x) => Has(outQueue, x) \/ (x = id /\ ~r.message)
      /\ Distinct(outQueue')
  <2>1. CASE outQueue' = outQueue
    BY <2>1 DEF IInv, OnePlace
  <2>2. CASE outQueue' = Append(outQueue, m)
    <3>1. \A i \in DOMAIN outQueue' : \/ i \in DOMAIN outQueue /\ outQueue'[i] = outQueue[i]
                                      \/ outQueue'[i] = m
      BY <1>6, <2>2, AppendFacts
    <3>2. \A x \in Request : Has(outQueue', x) => Has(outQueue, x) \/ (x = id /\ ~r.message)
      BY <1>6, <2>2, AppendFacts, Bounds
    <3>3. Distinct(outQueue')
      BY <1>3, <1>6, <2>2, AppendFacts DEF IInv, OnePlace
    <3> QED
      BY <3>1, <3>2, <3>3
  <2> QED
    BY <2>1, <2>2
<1>8. HandledIds' = HandledIds
  BY DEF HandledIds
<1>9. Given'
  <2>1. \A i \in DOMAIN requests' : requests'[i].id <= nextId'
    BY <1>2, <1>3, <1>4
  <2>2. ASSUME NEW i \in DOMAIN requests', NEW j \in DOMAIN requests', i < j
        PROVE  requests'[i].id < requests'[j].id
    <3>1. CASE j \in DOMAIN requests /\ requests'[j] = requests[j]
      <4>1. i \in DOMAIN requests /\ requests'[i] = requests[i]
        <5>1. DOMAIN requests = 1..Len(requests) /\ Len(requests) \in Nat
          BY <1>1, LenProperties DEF ClientTypes
        <5> QED
          BY <1>2, <2>2, <3>1, <5>1
      <4> QED
        BY <2>2, <3>1, <4>1 DEF IInv, Given
    <3>2. CASE j = Len(requests) + 1 /\ requests'[j] = r
      <4>1. i \in DOMAIN requests /\ requests'[i] = requests[i]
        <5>1. Len(requests) \in Nat
          BY <1>1, LenProperties DEF ClientTypes
        <5> QED
          BY <1>2, <2>2, <3>2, <5>1
      <4> QED
        BY <1>3, <3>2, <4>1
    <3> QED
      BY <1>2, <3>1, <3>2
  <2>3. \A i \in DOMAIN outQueue' : outQueue'[i].id <= nextId'
    <3>1. \A i \in DOMAIN outQueue : outQueue[i].id \in Nat
      BY <1>6, QueueMessages, MessageFacts
    <3> QED
      BY <1>3, <1>4, <1>7, <3>1
  <2>4. \A c \in Conns : \A i \in DOMAIN layers'[c].inQueue : layers'[c].inQueue[i].id <= nextId'
    <3>1. \A c \in Conns : \A i \in DOMAIN layers[c].inQueue : layers[c].inQueue[i].id \in Nat
      BY <1>6, QueueMessages, MessageFacts
    <3> QED
      BY <1>3, <1>4, <3>1
  <2>5. \A h \in DOMAIN handled' : handled'[h].id <= nextId'
    <3>1. \A h \in DOMAIN handled : handled[h].id \in Nat /\ handled[h].id <= nextId
      BY <1>1, Numbers DEF IInv, Given
    <3> QED
      BY <1>4, <3>1
  <2> QED
    BY <2>1, <2>2, <2>3, <2>4, <2>5 DEF Given
<1>10. OnePlace'
  <2>1. ASSUME NEW i \in Waiting'
        PROVE  /\ ~Has(outQueue', requests'[i].id)
               /\ \A c \in Conns : ~Has(layers'[c].inQueue, requests'[i].id)
               /\ requests'[i].id \notin HandledIds'
    <3>0. i \in DOMAIN requests' /\ requests'[i].message
      BY DEF Waiting
    <3>1. CASE i \in DOMAIN requests /\ requests'[i] = requests[i]
      <4>1. i \in Waiting /\ requests[i].id # id /\ requests[i].id \in Request
        BY <1>1, <1>3, <1>4, <3>0, <3>1, Numbers DEF Waiting
      <4> QED
        BY <1>7, <1>8, <3>1, <4>1 DEF IInv, OnePlace
    <3>2. CASE requests'[i] = r
      <4>1. r.message
        BY <3>0, <3>2
      <4> QED
        BY <1>3, <1>4, <1>7, <1>8, <3>2, <4>1
    <3> QED
      BY <1>2, <3>0, <3>1, <3>2
  <2>2. Distinct(outQueue') /\ \A c \in Conns : Distinct(layers'[c].inQueue)
    BY <1>7 DEF IInv, OnePlace
  <2>3. ASSUME NEW x \in Request
        PROVE  /\ Has(outQueue', x) => x \notin HandledIds'
               /\ \A c \in Conns : Has(layers'[c].inQueue, x) =>
                    /\ ~Has(outQueue', x)
                    /\ x \notin HandledIds'
                    /\ \A d \in Conns : Has(layers'[d].inQueue, x) => c = d
    BY <1>3, <1>7, <1>8 DEF IInv, OnePlace
  <2>4. \A h, g \in DOMAIN handled' : handled'[h].id = handled'[g].id => h = g
    BY DEF IInv, OnePlace
  <2> QED
    BY <2>1, <2>2, <2>3, <2>4 DEF OnePlace
<1>11. Asks'
  <2>1. \A x \in Message : FromClient(x, conn) => FromClient(x, conn')
    <3>1. \A x \in Message : x.temp \in Nat
      BY MessageFacts
    <3> QED
      BY <1>4, <3>1 DEF FromClient
  <2>2. \A i \in DOMAIN outQueue' : FromClient(outQueue'[i], conn')
    BY <1>6, <1>7, <2>1, QueueMessages DEF IInv, Asks
  <2>3. \A c \in Conns : \A i \in DOMAIN layers[c].inQueue : FromClient(layers[c].inQueue[i], c)
    BY DEF IInv, Asks
  <2> QED
    BY <2>2, <2>3 DEF Asks, FromClient
<1>12. Answers'
  <2>1. \A i \in DOMAIN inQueue : inQueue[i].key \in Nat
    BY <1>1, QueueTypes, QueueMessages, MessageFacts
  <2>2. \A i \in DOMAIN inQueue' : FromServer(inQueue'[i]) /\ inQueue'[i].key <= conn'
    BY <1>4, <2>1 DEF IInv, Answers
  <2>3. \A c \in Conns : \A i \in DOMAIN layers'[c].outQueue :
          FromServer(layers'[c].outQueue[i]) /\ layers'[c].outQueue[i].key <= c
    BY DEF IInv, Answers
  <2> QED
    BY <2>2, <2>3 DEF Answers, FromServer
<1>13. NothingAnswered
  <2>1. Less(inQueue', inQueue)
    BY <1>1, QueueTypes, LessIs
  <2> QED
    BY <1>1, <1>2, <1>8, <2>1, SameEnds DEF NothingAnswered
<1>14. OneAnswer' /\ Counted'
  BY <1>1, <1>5, <1>13, TypeParts, AnsweredStays DEF IInv
<1> QED
  BY <1>5, <1>9, <1>10, <1>11, <1>12, <1>14

\* A request that opens the channel of a new connection: nothing was written on it.
LEMMA RequestOpens ==
  ASSUME IInv, NEW id \in Request, id = nextId + 1, nextId' = id, ClientOpen,
         requests' = AddRequest(RequestNew(id)), queuedAt' = queuedAt,
         UNCHANGED <<secure, inQueue, layers, serving, dropped, handled>>
  PROVE  IInv'
<1>1. FlagTypes /\ ClientTypes /\ LayerTypes /\ HistoryTypes
  BY TypeParts DEF IInv
<1>0. PICK c : c = conn + 1
  OBVIOUS
<1> DEFINE m == OpenMessage(TempKey)
<1>2. conn \in Nat /\ c \in Conns /\ c \in 0..MaxConns /\ TempKey \in 0..MaxConns
  BY <1>0, <1>1, Numbers, Bounds DEF ClientOpen, Conns, TempKey
<1>3. /\ m \in Message /\ m.kind = "open" /\ m.id = 0 /\ m.temp = TempKey
  BY <1>2, MadeMessages
<1>4. /\ conn' = c /\ status' = "Connecting" /\ outQueue' = Append(outQueue, m)
  BY <1>0 DEF ClientOpen, OpenMessage
<1>5. /\ channel'.state = "Opening" /\ channel'.temp = TempKey
      /\ channel' \in [state : {"Closed", "Opening", "Open"}, key : 0..MaxConns, temp : 0..MaxConns]
  BY <1>1, <1>2 DEF ClientOpen, ClientTypes
<1> HIDE DEF m
<1>6. FromClient(m, conn')
  BY <1>0, <1>2, <1>3, <1>4 DEF FromClient, TempKey
<1>7. /\ RequestNew(id) \in RequestSet /\ RequestNew(id).id = id
      /\ RequestNew(id).responseCount = 0 /\ RequestNew(id).responses = <<>>
  BY NewRequest
<1>8. ClientTypes'
  <2>1. requests' \in Seq(RequestSet)
    BY <1>1, <1>7, AddedFacts
  <2>2. outQueue' \in Seq(Message)
    BY <1>1, <1>3, <1>4, QueueTypes, AppendFacts
  <2> QED
    BY <1>1, <1>2, <1>4, <1>5, <2>1, <2>2 DEF ClientTypes
<1>9. TypeOK' /\ Given' /\ OnePlace' /\ Asks' /\ Answers' /\ OneAnswer' /\ Counted'
  <2>1. queuedAt' \in [Request -> 0..MaxConns]
    BY <1>1 DEF HistoryTypes
  <2> QED
    BY <1>0, <1>3, <1>4, <1>6, <1>7, <1>8, <2>1, SendRequestFacts
<1>10. /\ layers[c] = NoLayer
       /\ \A h \in DOMAIN handled : handled[h].conn < c /\ handled[h].conn # c
  <2>1. layers[c] = NoLayer
    BY <1>0, <1>2 DEF IInv, Started
  <2>2. \A h \in DOMAIN handled : handled[h].conn \in Nat /\ handled[h].conn <= conn
    BY <1>1, Numbers DEF IInv, Started, Conns
  <2> QED
    BY <1>0, <1>2, <2>1, <2>2
<1>11. /\ layers[c].inQueue = <<>> /\ layers[c].channel.state = "Closed"
       /\ HandledOn(c)' = {} /\ \A d : HandledOn(d)' = HandledOn(d)
  <2>1. HandledOn(c)' = {} /\ \A d : HandledOn(d)' = HandledOn(d)
    BY <1>10 DEF HandledOn
  <2> QED
    BY <1>10, <2>1, NoLayerFacts
<1>12. Started'
  <2>1. \A d \in Conns : d > conn' => layers'[d] = NoLayer
    BY <1>0, <1>2, <1>4 DEF IInv, Started, Conns
  <2>2. \A h \in DOMAIN handled' : handled'[h].conn <= conn'
    BY <1>4, <1>10, <1>1, <1>2, Numbers DEF Conns
  <2>3. conn' > 0 /\ channel'.state # "Closed"
    BY <1>0, <1>2, <1>4, <1>5
  <2> QED
    BY <2>1, <2>2, <2>3 DEF Started
<1>13. Untouched(c)'
  BY <1>11 DEF Untouched
<1>14. Len(layers[c].inQueue) <= 1
  BY <1>11, EmptySeq
<1>15. Opening'
  BY <1>0, <1>2, <1>4, <1>5, <1>11, <1>13, <1>14 DEF Opening
<1>16. Ordered'
  <2>1. ASSUME NEW d \in Conns, Live(d)' PROVE InOrderOn(d)'
    <3>1. Live(d) /\ InOrderOn(d)
      BY <1>11, <2>1 DEF IInv, Ordered, Live
    <3>2. /\ Ascending(layers'[d].inQueue)
          /\ \A i \in DOMAIN layers'[d].inQueue : \A x \in HandledOn(d)' :
               layers'[d].inQueue[i].id # 0 => x < layers'[d].inQueue[i].id
      BY <1>11, <3>1 DEF InOrderOn
    <3> QED
      BY <1>5, <3>2 DEF InOrderOn
  <2>2. \A h, g \in DOMAIN handled' :
          h < g /\ handled'[h].conn = handled'[g].conn => handled'[h].id < handled'[g].id
    BY DEF IInv, Ordered
  <2> QED
    BY <2>1, <2>2 DEF Ordered
<1>17. Keys'
  <2>1. secure => channel'.temp = conn'
    BY <1>0, <1>4, <1>5 DEF TempKey
  <2> QED
    BY <1>5, <2>1 DEF IInv, Keys
<1> QED
  BY <1>9, <1>12, <1>15, <1>16, <1>17 DEF IInv

\* A request that waits for the channel.
LEMMA RequestWaits ==
  ASSUME IInv, NEW id \in Request, id = nextId + 1, nextId' = id, status # "Disconnected",
         requests' = AddRequest(RequestNew(id)),
         UNCHANGED <<status, conn, channel, outQueue, queuedAt>>,
         UNCHANGED <<secure, inQueue, layers, serving, dropped, handled>>
  PROVE  IInv'
<1>1. FlagTypes /\ ClientTypes /\ LayerTypes /\ HistoryTypes
  BY TypeParts DEF IInv
<1> DEFINE m == OpenMessage(conn)
<1>2. conn \in Nat /\ conn > 0 /\ conn \in 0..MaxConns
  BY <1>1, Numbers DEF IInv, Started, ClientTypes
<1>3. /\ m \in Message /\ m.kind = "open" /\ m.id = 0 /\ m.temp = conn
  BY <1>2, MadeMessages
<1> HIDE DEF m
<1>4. FromClient(m, conn)
  BY <1>2, <1>3 DEF FromClient
<1>5. /\ RequestNew(id) \in RequestSet /\ RequestNew(id).id = id
      /\ RequestNew(id).responseCount = 0 /\ RequestNew(id).responses = <<>>
  BY NewRequest
<1>6. ClientTypes'
  <2>1. requests' \in Seq(RequestSet)
    BY <1>1, <1>5, AddedFacts
  <2> QED
    BY <1>1, <2>1 DEF ClientTypes
<1>7. TypeOK' /\ Given' /\ OnePlace' /\ Asks' /\ Answers' /\ OneAnswer' /\ Counted'
  <2>1. queuedAt' \in [Request -> 0..MaxConns]
    BY <1>1 DEF HistoryTypes
  <2> QED
    BY <1>3, <1>4, <1>5, <1>6, <2>1, SendRequestFacts
<1>8. Started' /\ Keys'
  BY DEF IInv, Started, Keys
<1>9. \A c : HandledOn(c)' = HandledOn(c)
  BY DEF HandledOn
<1>10. Opening'
  BY <1>9 DEF IInv, Opening, Untouched
<1>11. Ordered'
  BY <1>9 DEF IInv, Ordered, Live, InOrderOn
<1> QED
  BY <1>7, <1>8, <1>10, <1>11 DEF IInv

\* A request that is sent: it comes after all that were.
LEMMA RequestSent ==
  ASSUME IInv, NEW id \in Request, id = nextId + 1, nextId' = id, channel.state = "Open",
         outQueue' = Append(outQueue, EncryptMessage(id)),
         requests' = AddRequest([RequestNew(id) EXCEPT !.message = FALSE]),
         queuedAt' = [queuedAt EXCEPT ![id] = conn],
         UNCHANGED <<status, conn, channel>>,
         UNCHANGED <<secure, inQueue, layers, serving, dropped, handled>>
  PROVE  IInv'
<1>1. FlagTypes /\ ClientTypes /\ LayerTypes /\ HistoryTypes
  BY TypeParts DEF IInv
<1> DEFINE r == Unsent(RequestNew(id))
           key == IF secure THEN channel.key ELSE 0
           m == RequestMessage(id, key)
<1>2. conn \in 0..MaxConns /\ key \in 0..MaxConns
  BY <1>1, Bounds DEF ClientTypes
<1>3. m \in Message /\ m.kind = "request" /\ m.id = id /\ id # 0
  BY <1>2, MadeMessages, Bounds
<1>4. outQueue' = Append(outQueue, m) /\ requests' = AddRequest(r)
  BY DEF EncryptMessage, RequestMessage, Unsent
<1>5. /\ r \in RequestSet /\ r.id = id /\ r.responseCount = 0 /\ r.responses = <<>>
      /\ r.message = FALSE
  BY NewRequest
<1> HIDE DEF m, r, key
<1>6. FromClient(m, conn)
  BY <1>3 DEF FromClient
<1>7. /\ outQueue \in Seq(Message) /\ outQueue' \in Seq(Message)
      /\ \A i \in DOMAIN outQueue' : \/ i \in DOMAIN outQueue /\ outQueue'[i] = outQueue[i]
                                     \/ i = Len(outQueue) + 1 /\ outQueue'[i] = m
      /\ Ascending(outQueue) /\ (\A i \in DOMAIN outQueue : outQueue[i].id < id)
           => Ascending(outQueue')
      /\ Opens(outQueue') <=> Opens(outQueue)
  BY <1>1, <1>3, <1>4, QueueTypes, AppendFacts
<1>8. ClientTypes'
  <2>1. requests' \in Seq(RequestSet)
    BY <1>1, <1>4, <1>5, AddedFacts
  <2> QED
    BY <1>1, <1>7, <2>1 DEF ClientTypes
<1>9. TypeOK' /\ Given' /\ OnePlace' /\ Asks' /\ Answers' /\ OneAnswer' /\ Counted'
  <2>1. queuedAt' \in [Request -> 0..MaxConns]
    BY <1>1, <1>2 DEF HistoryTypes
  <2> QED
    BY <1>3, <1>4, <1>5, <1>6, <1>8, <2>1, SendRequestFacts
<1>10. Started' /\ Keys'
  BY DEF IInv, Started, Keys
<1>11. \A c : HandledOn(c)' = HandledOn(c)
  BY DEF HandledOn
<1>12. /\ \A i \in DOMAIN outQueue : outQueue[i].id < id
       /\ \A c \in Conns : \A i \in DOMAIN layers[c].inQueue : layers[c].inQueue[i].id < id
       /\ \A c : \A x \in HandledOn(c) : x < id
  BY <1>1, FreshId DEF IInv
<1>13. Opening'
  BY <1>7, <1>11 DEF IInv, Opening, Untouched
<1>14. Ordered'
  <2>1. ASSUME NEW d \in Conns, Live(d)' PROVE InOrderOn(d)'
    <3>1. Live(d) /\ InOrderOn(d)
      BY <1>11, <2>1 DEF IInv, Ordered, Live
    <3>2. /\ Ascending(layers'[d].inQueue)
          /\ \A i \in DOMAIN layers'[d].inQueue : \A x \in HandledOn(d)' :
               layers'[d].inQueue[i].id # 0 => x < layers'[d].inQueue[i].id
      BY <1>11, <3>1 DEF InOrderOn
    <3>3. ASSUME d = conn, channel.state = "Open"
          PROVE  /\ Ascending(outQueue')
                 /\ \A i \in DOMAIN outQueue' : outQueue'[i].id # 0 =>
                      /\ \A x \in HandledOn(d) : x < outQueue'[i].id
                      /\ \A j \in DOMAIN layers[d].inQueue :
                           layers[d].inQueue[j].id < outQueue'[i].id
      BY <1>3, <1>7, <1>12, <3>1, <3>3 DEF InOrderOn
    <3> QED
      BY <1>11, <3>2, <3>3 DEF InOrderOn
  <2>2. \A h, g \in DOMAIN handled' :
          h < g /\ handled'[h].conn = handled'[g].conn => handled'[h].id < handled'[g].id
    BY DEF IInv, Ordered
  <2> QED
    BY <2>1, <2>2 DEF Ordered
<1> QED
  BY <1>9, <1>10, <1>13, <1>14 DEF IInv

\* Any request that is made.
LEMMA SendRequestStep ==
  ASSUME IInv, NEW id \in Request, SendRequest(id)
  PROVE  IInv'
<1>1. /\ id = nextId + 1 /\ nextId' = id
      /\ UNCHANGED <<secure, inQueue, layers, serving, dropped, handled>>
  BY DEF SendRequest
<1>2. CASE /\ ClientOpen /\ requests' = AddRequest(RequestNew(id)) /\ UNCHANGED queuedAt
  BY <1>1, <1>2, RequestOpens
<1>3. CASE /\ status # "Disconnected"
           /\ requests' = AddRequest(RequestNew(id))
           /\ UNCHANGED <<status, conn, channel, outQueue, queuedAt>>
  BY <1>1, <1>3, RequestWaits
<1>4. CASE /\ status \in {"Connected", "Unreachable"} /\ channel.state = "Open"
           /\ outQueue' = Append(outQueue, EncryptMessage(id))
           /\ requests' = AddRequest([RequestNew(id) EXCEPT !.message = FALSE])
           /\ queuedAt' = [queuedAt EXCEPT ![id] = conn]
           /\ UNCHANGED <<status, conn, channel>>
  BY <1>1, <1>4, RequestSent
<1> QED
  BY <1>2, <1>3, <1>4 DEF SendRequest

-----------------------------------------------------------------------------
(* A message is written.                                                   *)

\* What an empty queue has.
LEMMA EmptyQueue ==
  /\ <<>> \in Seq(Message) /\ DOMAIN <<>> = {}
  /\ \A id : ~Has(<<>>, id)
  /\ ~Opens(<<>>) /\ Distinct(<<>>) /\ Ascending(<<>>)
BY EmptySeq DEF Has, Opens, Distinct, Ascending

\* The first message of the client arrives: it is the one that opens the channel,
\* or comes after all that did.
LEMMA RequestArrives ==
  ASSUME IInv, ClientWrites,
         layers'[conn].inQueue = Append(layers[conn].inQueue, Head(outQueue))
  PROVE  Given' /\ OnePlace' /\ Opening' /\ Ordered' /\ Asks'
<1> DEFINE m == Head(outQueue)
           q == layers[conn].inQueue
<1>1. FlagTypes /\ ClientTypes /\ LayerTypes /\ HistoryTypes
  BY TypeParts DEF IInv
<1>2. /\ conn \in Conns /\ outQueue # <<>> /\ m \in Message
      /\ outQueue' = <<>>
      /\ \A c \in Conns : c # conn => layers'[c] = layers[c]
      /\ layers'[conn].channel = layers[conn].channel
  BY <1>1, ClientWritesFacts DEF IInv
<1>3. /\ outQueue \in Seq(Message) /\ 1 \in DOMAIN outQueue /\ m = outQueue[1]
      /\ q \in Seq(Message)
  BY <1>1, <1>2, QueueTypes, HeadFacts
<1> HIDE DEF m, q
<1>4. /\ requests' = requests /\ nextId' = nextId /\ handled' = handled /\ conn' = conn
      /\ channel' = channel /\ status = "Connected" /\ secure' = secure
  BY DEF ClientWrites, history
<1>5. /\ HandledIds' = HandledIds /\ \A c : HandledOn(c)' = HandledOn(c)
      /\ Waiting' = Waiting
  BY <1>4 DEF HandledIds, HandledOn, Waiting
<1>6. layers'[conn].inQueue = Append(q, m)
  BY DEF q, m
<1>7. /\ \A x : Has(Append(q, m), x) <=> Has(q, x) \/ m.id = x
      /\ \A i \in DOMAIN Append(q, m) : \/ i \in DOMAIN q /\ Append(q, m)[i] = q[i]
                                        \/ i = Len(q) + 1 /\ Append(q, m)[i] = m
      /\ Distinct(q) /\ (m.id # 0 => ~Has(q, m.id)) => Distinct(Append(q, m))
      /\ Ascending(q) /\ (m.id # 0 => \A i \in DOMAIN q : q[i].id < m.id)
           => Ascending(Append(q, m))
      /\ Opens(Append(q, m)) <=> Opens(q) \/ m.kind = "open"
      /\ Len(Append(q, m)) = Len(q) + 1
  BY <1>2, <1>3, AppendFacts
<1>8. m.id # 0 => m.id \in Request /\ Has(outQueue, m.id)
  BY <1>2, <1>3, MessageFacts DEF Has
<1>9. Asks'
  <2>1. \A i \in DOMAIN Append(q, m) : FromClient(Append(q, m)[i], conn)
    BY <1>2, <1>3, <1>7 DEF IInv, Asks, q
  <2>2. \A c \in Conns : \A i \in DOMAIN layers'[c].inQueue : FromClient(layers'[c].inQueue[i], c)
    <3> SUFFICES ASSUME NEW c \in Conns
                 PROVE  \A i \in DOMAIN layers'[c].inQueue : FromClient(layers'[c].inQueue[i], c)
      OBVIOUS
    <3>1. CASE c = conn
      BY <1>6, <2>1, <3>1
    <3>2. CASE c # conn
      BY <1>2, <3>2 DEF IInv, Asks
    <3> QED
      BY <3>1, <3>2
  <2> QED
    BY <1>2, <1>4, <2>2, EmptyQueue DEF Asks, FromClient
<1>10. Given'
  <2>1. \A i \in DOMAIN Append(q, m) : Append(q, m)[i].id <= nextId
    BY <1>2, <1>3, <1>7 DEF IInv, Given, q
  <2>2. \A c \in Conns : \A i \in DOMAIN layers'[c].inQueue : layers'[c].inQueue[i].id <= nextId
    <3> SUFFICES ASSUME NEW c \in Conns
                 PROVE  \A i \in DOMAIN layers'[c].inQueue : layers'[c].inQueue[i].id <= nextId
      OBVIOUS
    <3>1. CASE c = conn
      BY <1>6, <2>1, <3>1
    <3>2. CASE c # conn
      BY <1>2, <3>2 DEF IInv, Given
    <3> QED
      BY <3>1, <3>2
  <2> QED
    BY <1>2, <1>4, <2>2, EmptyQueue DEF IInv, Given
<1>11. \A x : ~Has(outQueue', x)
  BY <1>2, EmptyQueue
<1>12. ASSUME NEW c \in Conns, NEW x \in Request, Has(layers'[c].inQueue, x)
       PROVE  Has(layers[c].inQueue, x) \/ (c = conn /\ Has(outQueue, x))
  <2>1. CASE c = conn
    BY <1>6, <1>7, <1>8, <1>12, <2>1, Bounds DEF q
  <2>2. CASE c # conn
    BY <1>2, <1>12, <2>2
  <2> QED
    BY <2>1, <2>2
<1>13. OnePlace'
  <2>1. ASSUME NEW i \in Waiting'
        PROVE  /\ ~Has(outQueue', requests'[i].id)
               /\ \A c \in Conns : ~Has(layers'[c].inQueue, requests'[i].id)
               /\ requests'[i].id \notin HandledIds'
    <3>1. i \in Waiting /\ requests[i].id \in Request
      BY <1>1, <1>5, Numbers DEF Waiting
    <3> QED
      BY <1>4, <1>5, <1>11, <1>12, <3>1 DEF IInv, OnePlace
  <2>2. ASSUME NEW c \in Conns PROVE Distinct(layers'[c].inQueue)
    <3>1. CASE c = conn
      <4>1. m.id # 0 => ~Has(q, m.id)
        BY <1>2, <1>8 DEF IInv, OnePlace, q
      <4>2. Distinct(q)
        BY <1>2 DEF IInv, OnePlace, q
      <4> QED
        BY <1>6, <1>7, <3>1, <4>1, <4>2
    <3>2. CASE c # conn
      BY <1>2, <3>2 DEF IInv, OnePlace
    <3> QED
      BY <3>1, <3>2
  <2>3. ASSUME NEW x \in Request
        PROVE  /\ Has(outQueue', x) => x \notin HandledIds'
               /\ \A c \in Conns : Has(layers'[c].inQueue, x) =>
                    /\ ~Has(outQueue', x)
                    /\ x \notin HandledIds'
                    /\ \A d \in Conns : Has(layers'[d].inQueue, x) => c = d
    BY <1>5, <1>11, <1>12 DEF IInv, OnePlace
  <2>4. \A h, g \in DOMAIN handled' : handled'[h].id = handled'[g].id => h = g
    BY <1>4 DEF IInv, OnePlace
  <2> QED
    BY <1>2, <2>1, <2>2, <2>3, <2>4, EmptyQueue DEF OnePlace
<1>14. conn > 0
  BY DEF IInv, Started, ClientWrites
<1>15. Opening'
  <2>1. ASSUME channel.state = "Opening"
        PROVE  /\ HandledOn(conn) = {}
               /\ layers'[conn].channel.state = "Closed" /\ Len(layers'[conn].inQueue) <= 1
    <3>1. Untouched(conn) /\ HandledOn(conn) = {}
      BY <1>2, <2>1 DEF IInv, Opening
    <3>2. q = <<>> /\ layers'[conn].channel.state = "Closed"
      BY <1>2, <3>1 DEF Untouched, q
    <3>3. Len(Append(q, m)) = 1
      BY <1>7, <3>2, EmptySeq
    <3> QED
      BY <1>6, <3>1, <3>2, <3>3
  <2>2. ~Opens(outQueue')
    BY <1>2, EmptyQueue
  <2> QED
    BY <1>2, <1>4, <1>5, <1>14, <2>1, <2>2 DEF Opening
<1>16. channel.state # "Closed" /\ channel.state \in {"Closed", "Opening", "Open"}
  BY <1>1, <1>4 DEF IInv, Started, ClientTypes
<1>17. ASSUME NEW c, c = conn, Live(c)'
       PROVE  /\ Ascending(Append(q, m))
              /\ \A i \in DOMAIN Append(q, m) : \A x \in HandledOn(conn) :
                   Append(q, m)[i].id # 0 => x < Append(q, m)[i].id
  <2>1. CASE Live(conn)
    <3>1. InOrderOn(conn)
      BY <1>2, <2>1 DEF IInv, Ordered
    <3>2. channel.state = "Open"
      <4>1. ~Untouched(conn)
        BY <2>1, EmptyQueue DEF Live, Untouched
      <4> QED
        BY <1>2, <1>16, <4>1 DEF IInv, Opening
    <3>3. /\ Ascending(q)
          /\ \A i \in DOMAIN q : \A x \in HandledOn(conn) : q[i].id # 0 => x < q[i].id
          /\ m.id # 0 => /\ \A x \in HandledOn(conn) : x < m.id
                         /\ \A i \in DOMAIN q : q[i].id < m.id
      BY <1>3, <3>1, <3>2 DEF InOrderOn, q
    <3> QED
      BY <1>7, <3>3
  <2>2. CASE ~Live(conn)
    <3>1. HandledOn(conn) = {} /\ ~Opens(q) /\ Opens(Append(q, m))
      <4>1. /\ HandledOn(c) = {} /\ layers[c].channel.state # "Open"
            /\ ~Opens(layers[c].inQueue)
        BY <1>17, <2>2 DEF Live
      <4>2. layers'[c].inQueue = Append(q, m) /\ layers'[c].channel = layers[c].channel
        BY <1>2, <1>6, <1>17
      <4> QED
        BY <1>5, <1>17, <4>1, <4>2 DEF Live, q
    <3>2. m.kind = "open"
      BY <1>7, <3>1
    <3>3. m.id = 0 /\ Opens(outQueue)
      BY <1>3, <3>2 DEF IInv, Asks, FromClient, Opens
    <3>4. q = <<>>
      BY <3>3 DEF IInv, Opening, Untouched, q
    <3> QED
      BY <1>7, <3>1, <3>3, <3>4, EmptyQueue
  <2> QED
    BY <2>1, <2>2
<1>18. Ordered'
  <2>1. ASSUME NEW c \in Conns, Live(c)' PROVE InOrderOn(c)'
    <3>0. /\ Ascending(outQueue') /\ DOMAIN outQueue' = {}
      BY <1>2, EmptyQueue
    <3>1. CASE c = conn
      <4>1. layers'[c].inQueue = Append(q, m)
        BY <1>6, <3>1
      <4> QED
        BY <1>5, <1>17, <2>1, <3>0, <3>1, <4>1 DEF InOrderOn
    <3>2. CASE c # conn
      <4>1. Live(c) /\ layers'[c] = layers[c]
        BY <1>2, <1>5, <2>1, <3>2 DEF Live
      <4>2. InOrderOn(c)
        BY <4>1 DEF IInv, Ordered
      <4> QED
        BY <1>4, <1>5, <3>2, <4>1, <4>2 DEF InOrderOn
    <3> QED
      BY <3>1, <3>2
  <2>2. \A h, g \in DOMAIN handled' :
          h < g /\ handled'[h].conn = handled'[g].conn => handled'[h].id < handled'[g].id
    BY <1>4 DEF IInv, Ordered
  <2> QED
    BY <2>1, <2>2 DEF Ordered
<1> QED
  BY <1>9, <1>10, <1>13, <1>15, <1>18

\* ClientWrites: the first message arrives or is lost, the others are lost.
LEMMA ClientWritesStep ==
  ASSUME IInv, ClientWrites
  PROVE  IInv'
<1>1. FlagTypes /\ ClientTypes /\ LayerTypes /\ HistoryTypes /\ Started
  BY TypeParts DEF IInv
<1>2. /\ conn \in Conns
      /\ ClientTypes' /\ LayerTypes' /\ HistoryTypes'
      /\ outQueue' = <<>>
      /\ \A c \in Conns : c # conn => layers'[c] = layers[c]
      /\ layers'[conn].outQueue = layers[conn].outQueue
      /\ layers'[conn].channel = layers[conn].channel
      /\ \/ layers'[conn].inQueue = layers[conn].inQueue
         \/ layers'[conn].inQueue = Append(layers[conn].inQueue, Head(outQueue))
  BY <1>1, ClientWritesFacts
<1>3. TypeOK'
  <2>1. FlagTypes'
    BY <1>1 DEF FlagTypes, ClientWrites
  <2> QED
    BY <1>2, <2>1, TypeParts
<1>4. /\ requests' = requests /\ nextId' = nextId /\ handled' = handled /\ conn' = conn
      /\ channel' = channel /\ status' = status /\ secure' = secure /\ inQueue' = inQueue
      /\ HandledIds' = HandledIds
  BY DEF ClientWrites, history, HandledIds
<1>5. /\ ListLess /\ CountsStay /\ Less(inQueue', inQueue) /\ Less(outQueue', outQueue)
  BY <1>1, <1>2, <1>4, SameList, QueueTypes, LessIs
<1>6. \A c \in Conns : /\ Less(layers'[c].outQueue, layers[c].outQueue)
                       /\ layers'[c].channel = layers[c].channel
  <2>1. \A c \in Conns : /\ layers'[c].outQueue = layers[c].outQueue
                         /\ layers'[c].channel = layers[c].channel
    BY <1>2
  <2>2. \A c \in Conns : Less(layers[c].outQueue, layers[c].outQueue)
    BY <1>1, QueueTypes, LessIs
  <2> QED
    BY <2>1, <2>2
<1>7. NothingAnswered
  BY <1>4, <1>5, <1>6 DEF NothingAnswered
<1>8. ChannelQuiet
  BY <1>4 DEF ChannelQuiet
<1>9. EndsQuiet
  <2>1. \A c \in Conns : c > conn => c # conn
    BY <1>1, Numbers
  <2> QED
    BY <1>2, <1>6, <2>1 DEF EndsQuiet
<1>10. CASE layers'[conn].inQueue = layers[conn].inQueue
  <2>1. \A c \in Conns : layers'[c].inQueue = layers[c].inQueue
    BY <1>2, <1>10
  <2>2. \A c \in Conns : Less(layers'[c].inQueue, layers[c].inQueue)
    BY <1>1, <2>1, QueueTypes, LessIs
  <2>3. nextId <= nextId'
    BY <1>1, <1>4, Numbers
  <2>4. NothingAsked
    BY <1>4, <1>5, <1>6, <2>2, <2>3 DEF NothingAsked
  <2> QED
    BY <1>3, <1>7, <1>8, <1>9, <2>4, QuietStep
<1>11. CASE layers'[conn].inQueue = Append(layers[conn].inQueue, Head(outQueue))
  <2>1. Given' /\ OnePlace' /\ Opening' /\ Ordered' /\ Asks'
    BY <1>11, RequestArrives
  <2>2. Answers' /\ OneAnswer' /\ Counted'
    BY <1>1, <1>2, <1>4, <1>7, AnswersStay, AnsweredStays DEF IInv
  <2>3. Started' /\ Keys'
    BY <1>4, <1>8, <1>9, StartedStays, KeysStay DEF IInv
  <2> QED
    BY <1>3, <2>1, <2>2, <2>3 DEF IInv
<1> QED
  BY <1>2, <1>10, <1>11

\* The first message of an end arrives: no answer of its request did.
LEMMA AnswerArrives ==
  ASSUME IInv, NEW c \in Conns, ServerWrites(c), c = conn,
         inQueue' = Append(inQueue, Head(layers[c].outQueue))
  PROVE  Answers' /\ OneAnswer' /\ Counted'
<1> DEFINE q == layers[c].outQueue
           m == Head(q)
<1>1. FlagTypes /\ ClientTypes /\ LayerTypes /\ HistoryTypes
  BY TypeParts DEF IInv
<1>2. /\ q # <<>> /\ m \in Message
      /\ \A d \in Conns : d # c => layers'[d] = layers[d]
      /\ layers'[c].outQueue = <<>>
  BY <1>1, ServerWritesFacts
<1>3. inQueue \in Seq(Message) /\ 1 \in DOMAIN q /\ m = q[1]
  BY <1>1, <1>2, QueueTypes, HeadFacts
<1> HIDE DEF m
<1>4. /\ requests' = requests /\ handled' = handled /\ conn' = conn /\ secure' = secure
      /\ HandledIds' = HandledIds /\ inQueue' = Append(inQueue, m)
  BY DEF ServerWrites, HandledIds, m
<1>5. /\ \A x : Has(inQueue', x) <=> Has(inQueue, x) \/ m.id = x
      /\ \A i \in DOMAIN inQueue' : \/ i \in DOMAIN inQueue /\ inQueue'[i] = inQueue[i]
                                    \/ inQueue'[i] = m
      /\ Distinct(inQueue) /\ (m.id # 0 => ~Has(inQueue, m.id)) => Distinct(inQueue')
  BY <1>2, <1>3, <1>4, AppendFacts
<1>6. m.id # 0 => m.id \in Request /\ Has(q, m.id)
  BY <1>2, <1>3, MessageFacts DEF Has
<1>7. \A d \in Conns : \A x : Has(layers'[d].outQueue, x) => d # c /\ Has(layers[d].outQueue, x)
  BY <1>2, EmptyQueue
<1>8. \A x \in Request : Has(inQueue', x) => Has(inQueue, x) \/ Has(q, x)
  BY <1>5, <1>6, Bounds
<1>9. Answers'
  <2>1. FromServer(m) /\ m.key <= conn
    BY <1>3 DEF IInv, Answers
  <2>2. \A i \in DOMAIN inQueue' : FromServer(inQueue'[i]) /\ inQueue'[i].key <= conn
    BY <1>5, <2>1 DEF IInv, Answers
  <2>3. ASSUME NEW d \in Conns
        PROVE  \A i \in DOMAIN layers'[d].outQueue :
                 FromServer(layers'[d].outQueue[i]) /\ layers'[d].outQueue[i].key <= d
    <3>1. CASE d = c
      BY <1>2, <3>1, EmptyQueue
    <3>2. CASE d # c
      BY <1>2, <3>2 DEF IInv, Answers
    <3> QED
      BY <3>1, <3>2
  <2> QED
    BY <1>4, <2>2, <2>3 DEF Answers, FromServer
<1>10. OneAnswer'
  <2>1. Distinct(inQueue')
    BY <1>5, <1>6 DEF IInv, OneAnswer
  <2>2. ASSUME NEW d \in Conns PROVE Distinct(layers'[d].outQueue)
    <3>1. CASE d = c
      BY <1>2, <3>1, EmptyQueue
    <3>2. CASE d # c
      BY <1>2, <3>2 DEF IInv, OneAnswer
    <3> QED
      BY <3>1, <3>2
  <2>3. ASSUME NEW x \in Request
        PROVE  /\ Has(inQueue', x) => x \in HandledIds'
               /\ \A d \in Conns : Has(layers'[d].outQueue, x) =>
                    /\ x \in HandledIds'
                    /\ ~Has(inQueue', x)
                    /\ \A e \in Conns : Has(layers'[e].outQueue, x) => d = e
    BY <1>4, <1>7, <1>8 DEF IInv, OneAnswer
  <2> QED
    BY <2>1, <2>2, <2>3 DEF OneAnswer
<1>11. Counted'
  <2> SUFFICES ASSUME NEW i \in DOMAIN requests, requests[i].responseCount = 1
               PROVE  /\ ~Has(inQueue', requests[i].id)
                      /\ \A d \in Conns : ~Has(layers'[d].outQueue, requests[i].id)
    BY <1>4 DEF IInv, Counted
  <2>1. requests[i].id \in Request
    BY <1>1, Numbers
  <2> QED
    BY <1>7, <1>8, <2>1 DEF IInv, Counted
<1> QED
  BY <1>9, <1>10, <1>11

\* ServerWrites: the first message arrives or is lost, the others are lost.
LEMMA ServerWritesStep ==
  ASSUME IInv, NEW c \in Conns, ServerWrites(c)
  PROVE  IInv'
<1>1. FlagTypes /\ ClientTypes /\ LayerTypes /\ HistoryTypes
  BY TypeParts DEF IInv
<1>2. /\ ClientTypes' /\ LayerTypes' /\ HistoryTypes'
      /\ \A d \in Conns : d # c => layers'[d] = layers[d]
      /\ layers[c].outQueue # <<>>
      /\ layers'[c].outQueue = <<>>
      /\ layers'[c].inQueue = layers[c].inQueue
      /\ layers'[c].channel = layers[c].channel
      /\ \/ inQueue' = inQueue
         \/ inQueue' = Append(inQueue, Head(layers[c].outQueue)) /\ c = conn
  BY <1>1, ServerWritesFacts
<1>3. TypeOK'
  <2>1. FlagTypes'
    BY <1>1 DEF FlagTypes, ServerWrites
  <2> QED
    BY <1>2, <2>1, TypeParts
<1>4. /\ requests' = requests /\ nextId' = nextId /\ handled' = handled /\ conn' = conn
      /\ channel' = channel /\ status' = status /\ secure' = secure /\ outQueue' = outQueue
      /\ HandledIds' = HandledIds
  BY DEF ServerWrites, history, HandledIds
<1>5. ListLess /\ CountsStay /\ Less(outQueue', outQueue)
  BY <1>1, <1>4, SameList, QueueTypes, LessIs
<1>6. ASSUME NEW d \in Conns
      PROVE  /\ Less(layers'[d].inQueue, layers[d].inQueue)
             /\ Less(layers'[d].outQueue, layers[d].outQueue)
             /\ layers'[d].channel = layers[d].channel
  <2>1. CASE d = c
    BY <1>1, <1>2, <2>1, QueueTypes, LessIs
  <2>2. CASE d # c
    BY <1>1, <1>2, <2>2, QueueTypes, LessIs
  <2> QED
    BY <2>1, <2>2
<1>7. nextId <= nextId'
  BY <1>1, <1>4, Numbers
<1>8. NothingAsked
  BY <1>4, <1>5, <1>6, <1>7 DEF NothingAsked
<1>9. ChannelQuiet
  BY <1>4 DEF ChannelQuiet
<1>10. EndsQuiet
  <2>1. layers[c] # NoLayer
    BY <1>2, NoLayerFacts
  <2> QED
    BY <1>2, <1>6, <2>1 DEF EndsQuiet
<1>11. CASE inQueue' = inQueue
  <2>1. Less(inQueue', inQueue)
    BY <1>1, <1>11, QueueTypes, LessIs
  <2>2. NothingAnswered
    BY <1>4, <1>5, <1>6, <2>1 DEF NothingAnswered
  <2> QED
    BY <1>3, <1>8, <1>9, <1>10, <2>2, QuietStep
<1>12. CASE inQueue' = Append(inQueue, Head(layers[c].outQueue)) /\ c = conn
  <2>1. Given' /\ OnePlace' /\ Opening' /\ Ordered'
    BY <1>1, <1>2, <1>8, AskedStays DEF IInv
  <2>2. Asks'
    BY <1>1, <1>2, <1>4, <1>8, AsksStay DEF IInv
  <2>3. Answers' /\ OneAnswer' /\ Counted'
    BY <1>12, AnswerArrives
  <2>4. Started' /\ Keys'
    BY <1>4, <1>9, <1>10, StartedStays, KeysStay DEF IInv
  <2> QED
    BY <1>3, <2>1, <2>2, <2>3, <2>4 DEF IInv
<1> QED
  BY <1>2, <1>11, <1>12

-----------------------------------------------------------------------------
(* A message is handled at the server.                                     *)

\* Some messages are taken off the queues of the ends.
LEMMA EndsLess ==
  ASSUME LayerTypes, LayerTypes',
         \A c \in Conns : Less(layers'[c].inQueue, layers[c].inQueue)
  PROVE  \A c \in Conns :
           /\ \A id : Has(layers'[c].inQueue, id) => Has(layers[c].inQueue, id)
           /\ \A i \in DOMAIN layers'[c].inQueue :
                \E j \in DOMAIN layers[c].inQueue : layers'[c].inQueue[i] = layers[c].inQueue[j]
           /\ Distinct(layers[c].inQueue) => Distinct(layers'[c].inQueue)
           /\ Ascending(layers[c].inQueue) => Ascending(layers'[c].inQueue)
           /\ Opens(layers'[c].inQueue) => Opens(layers[c].inQueue)
           /\ layers[c].inQueue = <<>> => layers'[c].inQueue = <<>>
           /\ Len(layers[c].inQueue) <= 1 => Len(layers'[c].inQueue) <= 1
BY LessFacts, QueueTypes, QueueTypesNext

\* The messages of the client, when only the server's ends lose some.
LEMMA AsksOfEndsStay ==
  ASSUME LayerTypes, LayerTypes', UNCHANGED <<secure, clientVars>>, Asks,
         \A c \in Conns : Less(layers'[c].inQueue, layers[c].inQueue)
  PROVE  Asks'
<1>1. secure' = secure /\ conn' = conn /\ outQueue' = outQueue
  BY DEF clientVars
<1>2. \A c \in Conns : \A i \in DOMAIN layers'[c].inQueue :
        \E j \in DOMAIN layers[c].inQueue : layers'[c].inQueue[i] = layers[c].inQueue[j]
  BY EndsLess
<1>3. \A c \in Conns : \A i \in DOMAIN layers'[c].inQueue : FromClient(layers'[c].inQueue[i], c)
  BY <1>2 DEF Asks
<1> QED
  BY <1>1, <1>3 DEF Asks, FromClient

\* An end has one answer more: to no request, or to one that was not handled before.
LEMMA AnswerAdded ==
  ASSUME IInv, LayerTypes', UNCHANGED <<secure, clientVars>>, NEW c \in Conns, NEW m \in Message,
         layers'[c].outQueue = Append(layers[c].outQueue, m),
         \A d \in Conns : d # c => layers'[d] = layers[d],
         HandledIds \subseteq HandledIds', m.id # 0 => m.id \in HandledIds' /\ m.id \notin HandledIds,
         FromServer(m), m.key <= c
  PROVE  Answers' /\ OneAnswer' /\ Counted'
<1> DEFINE q == layers[c].outQueue
<1>1. FlagTypes /\ ClientTypes /\ LayerTypes /\ HistoryTypes
  BY TypeParts DEF IInv
<1>2. /\ secure' = secure /\ conn' = conn /\ inQueue' = inQueue /\ requests' = requests
  BY DEF clientVars
<1>3. q \in Seq(Message)
  BY <1>1, QueueTypes
<1>4. /\ \A x : Has(Append(q, m), x) <=> Has(q, x) \/ m.id = x
      /\ \A i \in DOMAIN Append(q, m) : \/ i \in DOMAIN q /\ Append(q, m)[i] = q[i]
                                        \/ Append(q, m)[i] = m
      /\ Distinct(q) /\ (m.id # 0 => ~Has(q, m.id)) => Distinct(Append(q, m))
  BY <1>3, AppendFacts
<1>5. m.id # 0 => m.id \in Request
  BY MessageFacts
<1>6. ASSUME NEW d \in Conns, NEW x \in Request, Has(layers'[d].outQueue, x)
      PROVE  Has(layers[d].outQueue, x) \/ (d = c /\ x = m.id)
  <2>1. CASE d = c
    BY <1>4, <1>6, <2>1
  <2>2. CASE d # c
    BY <1>6, <2>2
  <2> QED
    BY <2>1, <2>2
<1>7. ASSUME m.id # 0
      PROVE  ~Has(inQueue, m.id) /\ \A d \in Conns : ~Has(layers[d].outQueue, m.id)
  BY <1>5, <1>7 DEF IInv, OneAnswer
<1>8. Answers'
  <2>1. ASSUME NEW d \in Conns
        PROVE  \A i \in DOMAIN layers'[d].outQueue :
                 FromServer(layers'[d].outQueue[i]) /\ layers'[d].outQueue[i].key <= d
    <3>1. CASE d = c
      BY <1>4, <3>1 DEF IInv, Answers
    <3>2. CASE d # c
      BY <3>2 DEF IInv, Answers
    <3> QED
      BY <3>1, <3>2
  <2> QED
    BY <1>2, <2>1 DEF IInv, Answers, FromServer
<1>9. OneAnswer'
  <2>1. Distinct(inQueue')
    BY <1>2 DEF IInv, OneAnswer
  <2>2. ASSUME NEW d \in Conns PROVE Distinct(layers'[d].outQueue)
    <3>1. CASE d = c
      BY <1>4, <1>7, <3>1 DEF IInv, OneAnswer
    <3>2. CASE d # c
      BY <3>2 DEF IInv, OneAnswer
    <3> QED
      BY <3>1, <3>2
  <2>3. ASSUME NEW x \in Request
        PROVE  /\ Has(inQueue', x) => x \in HandledIds'
               /\ \A d \in Conns : Has(layers'[d].outQueue, x) =>
                    /\ x \in HandledIds'
                    /\ ~Has(inQueue', x)
                    /\ \A e \in Conns : Has(layers'[e].outQueue, x) => d = e
    <3>1. x # 0
      BY Bounds
    <3> QED
      BY <1>2, <1>6, <1>7, <3>1 DEF IInv, OneAnswer
  <2> QED
    BY <2>1, <2>2, <2>3 DEF OneAnswer
<1>10. Counted'
  <2> SUFFICES ASSUME NEW i \in DOMAIN requests, requests[i].responseCount = 1
               PROVE  /\ requests[i].id \in HandledIds'
                      /\ \A d \in Conns : ~Has(layers'[d].outQueue, requests[i].id)
    BY <1>2 DEF IInv, Counted
  <2>1. requests[i].id \in Request /\ requests[i].id # 0
    BY <1>1, Numbers, Bounds
  <2>2. requests[i].id \in HandledIds
    BY DEF IInv, Counted
  <2> QED
    BY <1>6, <2>1, <2>2 DEF IInv, Counted
<1> QED
  BY <1>8, <1>9, <1>10

\* The message is refused.
LEMMA RefusesStep ==
  ASSUME IInv, TypeOK', NEW c \in Conns, layers[c].status # "none", nextId' = nextId,
         UNCHANGED <<secure, clientVars>>, Refuses(c)
  PROVE  IInv'
<1>1. FlagTypes /\ ClientTypes /\ LayerTypes /\ HistoryTypes
  BY TypeParts DEF IInv
<1>2. /\ ChannelQuiet /\ ListLess /\ CountsStay
      /\ Less(inQueue', inQueue) /\ Less(outQueue', outQueue)
  BY <1>1, SameClient
<1>3. PICK layer, n :
        /\ Taken(c, layer)
        /\ n.inQueue = layer.inQueue /\ n.outQueue = layer.outQueue
        /\ n.channel = layer.channel
        /\ Becomes(c, n)
  BY DEF Refuses
<1>4. /\ layers'[c].inQueue = Tail(layers[c].inQueue) /\ layers[c].inQueue # <<>>
      /\ layers'[c].outQueue = layers[c].outQueue
      /\ layers'[c].channel = layers[c].channel \/ layers'[c].channel = PeerData
      /\ \A d \in Conns : d # c => layers'[d] = layers[d]
  BY <1>3 DEF Taken, Becomes
<1>5. ASSUME NEW d \in Conns
      PROVE  /\ Less(layers'[d].inQueue, layers[d].inQueue)
             /\ Less(layers'[d].outQueue, layers[d].outQueue)
             /\ layers'[d].channel = layers[d].channel \/ layers'[d].channel.state = "Closed"
  <2>1. CASE d = c
    BY <1>1, <1>4, <2>1, QueueTypes, LessIs, NoLayerFacts
  <2>2. CASE d # c
    BY <1>1, <1>4, <2>2, QueueTypes, LessIs
  <2> QED
    BY <2>1, <2>2
<1>6. handled' = handled /\ HandledIds \subseteq HandledIds' /\ nextId <= nextId'
  BY <1>1, Numbers DEF Refuses, HandledIds
<1>7. NothingAsked /\ NothingAnswered
  BY <1>2, <1>5, <1>6 DEF NothingAsked, NothingAnswered, ChannelQuiet
<1>8. EndsQuiet
  <2>1. layers[c] # NoLayer
    BY NoLayerFacts
  <2> QED
    BY <1>4, <1>5, <2>1 DEF EndsQuiet
<1> QED
  BY <1>2, <1>7, <1>8, QuietStep

\* The connection of an end is one that was started.
LEMMA EndStarted ==
  ASSUME ClientTypes, HistoryTypes, Started, NEW c \in Conns, layers[c].status # "none"
  PROVE  c <= conn
BY Numbers, NoLayerFacts DEF Started, Conns

\* The message opens the channel: the client waits for that, and wrote nothing else.
LEMMA OpensStep ==
  ASSUME IInv, TypeOK', NEW c \in Conns, layers[c].status # "none",
         UNCHANGED <<secure, clientVars, nextId>>, layers[c].inQueue # <<>>, OpensChannel(c)
  PROVE  IInv'
<1> DEFINE q == layers[c].inQueue
           msg == Head(q)
           m == IF secure THEN OpenedMessage(c, msg.temp) ELSE Plain("opened")
           k == IF secure THEN c ELSE 0
<1>1. /\ FlagTypes /\ ClientTypes /\ LayerTypes /\ HistoryTypes
      /\ LayerTypes' /\ ClientTypes' /\ HistoryTypes'
  BY TypeParts DEF IInv
<1>2. PICK layer : Taken(c, layer) /\ Becomes(c, OpenChannel(layer, msg, c))
  BY DEF OpensChannel
<1>3. /\ q \in Seq(Message) /\ q # <<>> /\ msg \in Message /\ msg = q[1] /\ 1 \in DOMAIN q
      /\ Len(Tail(q)) = Len(q) - 1 /\ Len(q) \in Nat /\ Tail(q) \in Seq(Message)
      /\ Less(Tail(q), q) /\ msg.kind = "open"
  BY <1>1, QueueTypes, HeadFacts, LessIs DEF OpensChannel
<1>4. /\ layer \in LayerSet /\ layer.inQueue = Tail(q)
      /\ layer.outQueue = layers[c].outQueue
  BY <1>2 DEF Taken
<1> HIDE DEF msg, q, m, k
<1>5. /\ m \in Message
      /\ layers'[c].inQueue = Tail(q)
      /\ layers'[c].outQueue = Append(layers[c].outQueue, m)
      /\ layers'[c].channel.state = "Open" /\ layers'[c].channel.key = k
      /\ \A d \in Conns : d # c => layers'[d] = layers[d]
  <2> DEFINE n == OpenChannel(layer, msg, c)
  <2>1. /\ m \in Message /\ n.inQueue = layer.inQueue
        /\ n.outQueue = Append(layer.outQueue, m)
        /\ n.channel.state = "Open" /\ n.channel.key = k
    BY <1>1, <1>3, <1>4, OpenChannelIs DEF m, k
  <2> HIDE DEF n
  <2>2. layers'[c] = n /\ \A d \in Conns : d # c => layers'[d] = layers[d]
    BY <1>2 DEF Becomes, n
  <2> QED
    BY <1>4, <2>1, <2>2
<1>6. /\ secure' = secure /\ conn' = conn /\ requests' = requests /\ inQueue' = inQueue
      /\ outQueue' = outQueue /\ channel' = channel /\ status' = status /\ nextId' = nextId
      /\ handled' = handled
  BY DEF clientVars, OpensChannel
<1>7. /\ HandledIds' = HandledIds /\ \A d : HandledOn(d)' = HandledOn(d) /\ Waiting' = Waiting
  BY <1>6 DEF HandledIds, HandledOn, Waiting
<1>8. \A d \in Conns : Less(layers'[d].inQueue, layers[d].inQueue)
  <2> SUFFICES ASSUME NEW d \in Conns PROVE Less(layers'[d].inQueue, layers[d].inQueue)
    OBVIOUS
  <2>1. CASE d = c
    BY <1>3, <1>5, <2>1 DEF q
  <2>2. CASE d # c
    BY <1>1, <1>5, <2>2, QueueTypes, LessIs
  <2> QED
    BY <2>1, <2>2
<1>9. \A d \in Conns :
        /\ \A id : Has(layers'[d].inQueue, id) => Has(layers[d].inQueue, id)
        /\ \A i \in DOMAIN layers'[d].inQueue :
             \E j \in DOMAIN layers[d].inQueue : layers'[d].inQueue[i] = layers[d].inQueue[j]
        /\ Distinct(layers[d].inQueue) => Distinct(layers'[d].inQueue)
        /\ Ascending(layers[d].inQueue) => Ascending(layers'[d].inQueue)
        /\ Opens(layers'[d].inQueue) => Opens(layers[d].inQueue)
        /\ layers[d].inQueue = <<>> => layers'[d].inQueue = <<>>
        /\ Len(layers[d].inQueue) <= 1 => Len(layers'[d].inQueue) <= 1
  BY <1>1, <1>8, EndsLess
<1>10. FromClient(msg, c) /\ c \in Nat /\ c > 0
  BY <1>3 DEF IInv, Asks, q, Conns
<1>11. FromServer(m) /\ m.key <= c /\ m.id = 0
  <2>1. CASE secure
    <3>1. /\ msg.temp \in 1..c /\ msg.temp \in 0..MaxConns /\ c \in 0..MaxConns
          /\ 0 \in Request \cup {0}
      BY <1>3, <1>10, <2>1, MessageFacts DEF FromClient, Conns
    <3>2. /\ m.kind = "opened" /\ m.id = 0 /\ m.key = c /\ m.temp = msg.temp
      BY <2>1, <3>1, MadeMessages DEF m
    <3> QED
      BY <1>10, <2>1, <3>1, <3>2 DEF FromServer
  <2>2. CASE ~secure
    <3>1. m.kind = "opened" /\ m.id = 0 /\ m.key = 0
      BY <2>2, PlainFacts DEF m
    <3> QED
      BY <1>10, <2>2, <3>1 DEF FromServer
  <2> QED
    BY <2>1, <2>2
<1>12. Answers' /\ OneAnswer' /\ Counted'
  BY <1>1, <1>5, <1>7, <1>11, AnswerAdded
<1>13. Asks'
  BY <1>1, <1>8, AsksOfEndsStay DEF IInv
<1>14. c <= conn /\ conn \in Nat
  BY <1>1, EndStarted, Numbers DEF IInv
<1>15. Started'
  <2>1. \A d \in Conns : d > conn => d # c
    BY <1>10, <1>14
  <2>2. \A d \in Conns : d > conn => layers'[d] = NoLayer
    BY <1>5, <2>1 DEF IInv, Started
  <2> QED
    BY <1>6, <2>2 DEF IInv, Started
<1>16. Keys'
  <2>1. \A d \in Conns : layers'[d].channel.state = "Open" =>
          layers'[d].channel.key = IF secure THEN d ELSE 0
    BY <1>5 DEF IInv, Keys, k
  <2> QED
    BY <1>6, <2>1 DEF IInv, Keys
<1>17. Given'
  <2>1. \A d \in Conns : \A i \in DOMAIN layers'[d].inQueue : layers'[d].inQueue[i].id <= nextId
    BY <1>9 DEF IInv, Given
  <2> QED
    BY <1>6, <2>1 DEF IInv, Given
<1>18. OnePlace'
  <2>1. \A i \in Waiting' : /\ ~Has(outQueue', requests'[i].id)
                            /\ \A d \in Conns : ~Has(layers'[d].inQueue, requests'[i].id)
                            /\ requests'[i].id \notin HandledIds'
    BY <1>6, <1>7, <1>9 DEF IInv, OnePlace
  <2>2. Distinct(outQueue') /\ \A d \in Conns : Distinct(layers'[d].inQueue)
    BY <1>6, <1>9 DEF IInv, OnePlace
  <2>3. ASSUME NEW x \in Request
        PROVE  /\ Has(outQueue', x) => x \notin HandledIds'
               /\ \A d \in Conns : Has(layers'[d].inQueue, x) =>
                    /\ ~Has(outQueue', x)
                    /\ x \notin HandledIds'
                    /\ \A e \in Conns : Has(layers'[e].inQueue, x) => d = e
    BY <1>6, <1>7, <1>9 DEF IInv, OnePlace
  <2>4. \A h, g \in DOMAIN handled' : handled'[h].id = handled'[g].id => h = g
    BY <1>6 DEF IInv, OnePlace
  <2> QED
    BY <2>1, <2>2, <2>3, <2>4 DEF OnePlace
<1>19. Opening'
  <2>1. ASSUME c = conn PROVE ~Untouched(conn)
    BY <1>3, <2>1 DEF Untouched, q
  <2>2. CASE c # conn
    <3>1. conn > 0 => conn \in Conns
      BY <1>1, ConnIs
    <3>2. conn > 0 => layers'[conn] = layers[conn]
      BY <1>5, <2>2, <3>1
    <3> QED
      BY <1>6, <1>7, <3>2 DEF IInv, Opening, Untouched
  <2>3. CASE c = conn
    <3>1. ~Opens(outQueue)
      BY <2>1, <2>3 DEF IInv, Opening
    <3>2. ASSUME channel.state = "Opening"
          PROVE  /\ outQueue = <<>> /\ HandledOn(conn) = {} /\ conn > 0
                 /\ layers'[conn].channel.state = "Open" /\ layers'[conn].inQueue = <<>>
      <4>1. /\ outQueue = <<>> /\ HandledOn(conn) = {} /\ conn > 0
            /\ Len(q) <= 1
        BY <1>3, <2>1, <2>3, <3>2 DEF IInv, Opening, q
      <4>2. Len(Tail(q)) = 0
        <5>1. Len(Tail(q)) \in Nat
          BY <1>3, LenProperties
        <5> QED
          BY <1>3, <4>1, <5>1
      <4>3. Tail(q) = <<>>
        BY <1>3, <4>2, EmptySeq
      <4> QED
        BY <1>5, <2>3, <4>1, <4>3
    <3> QED
      BY <1>6, <1>7, <3>1, <3>2 DEF Opening
  <2> QED
    BY <2>2, <2>3
<1>20. Ordered'
  <2>1. ASSUME NEW d \in Conns, Live(d)' PROVE InOrderOn(d)'
    <3>1. Live(d)
      <4>1. CASE d = c
        BY <1>3, <4>1 DEF Live, Opens, q
      <4>2. CASE d # c
        BY <1>5, <1>7, <2>1, <4>2 DEF Live
      <4> QED
        BY <4>1, <4>2
    <3>2. InOrderOn(d)
      BY <3>1 DEF IInv, Ordered
    <3>3. /\ Ascending(layers'[d].inQueue)
          /\ \A i \in DOMAIN layers'[d].inQueue : \A x \in HandledOn(d)' :
               layers'[d].inQueue[i].id # 0 => x < layers'[d].inQueue[i].id
      BY <1>7, <1>9, <3>2 DEF InOrderOn
    <3>4. ASSUME d = conn, channel.state = "Open"
          PROVE  /\ Ascending(outQueue)
                 /\ \A i \in DOMAIN outQueue : outQueue[i].id # 0 =>
                      /\ \A x \in HandledOn(d)' : x < outQueue[i].id
                      /\ \A j \in DOMAIN layers'[d].inQueue :
                           layers'[d].inQueue[j].id < outQueue[i].id
      BY <1>7, <1>9, <3>2, <3>4 DEF InOrderOn
    <3> QED
      BY <1>6, <3>3, <3>4 DEF InOrderOn
  <2>2. \A h, g \in DOMAIN handled' :
          h < g /\ handled'[h].conn = handled'[g].conn => handled'[h].id < handled'[g].id
    BY <1>6 DEF IInv, Ordered
  <2> QED
    BY <2>1, <2>2 DEF Ordered
<1> QED
  BY <1>12, <1>13, <1>15, <1>16, <1>17, <1>18, <1>19, <1>20 DEF IInv

\* What happens to the ends when a message is handled.
LEMMA ServesFacts ==
  ASSUME LayerTypes, LayerTypes', NEW c \in Conns, layers[c].status # "none", Serves(c)
  PROVE  /\ layers[c].inQueue # <<>> /\ layers[c].channel.state = "Open"
         /\ Less(layers'[c].inQueue, Tail(layers[c].inQueue))
         /\ \A d \in Conns :
              /\ Less(layers'[d].inQueue, layers[d].inQueue)
              /\ layers'[d].channel = layers[d].channel \/ layers'[d].channel.state = "Closed"
              /\ layers[d] = NoLayer => layers'[d] = NoLayer
<1> DEFINE q == layers[c].inQueue
<1>1. q # <<>> /\ layers[c].channel.state = "Open" /\ layers[c] # NoLayer
  BY NoLayerFacts DEF Serves
<1>2. q \in Seq(Message) /\ Tail(q) \in Seq(Message) /\ Less(Tail(q), q)
  BY <1>1, QueueTypes, LessIs
<1> HIDE DEF q
<1>3. ASSUME NEW layer, NEW n, Taken(c, layer), layer.channel = layers[c].channel,
             IsAnswered(n, layer, Head(q).id), Becomes(c, n)
      PROVE  /\ Less(layers'[c].inQueue, Tail(q))
             /\ \A d \in Conns :
                  /\ Less(layers'[d].inQueue, layers[d].inQueue)
                  /\ layers'[d].channel = layers[d].channel
                  /\ layers[d] = NoLayer => layers'[d] = NoLayer
  <2>1. /\ layers'[c].inQueue = Tail(q) /\ layers'[c].channel = layers[c].channel
        /\ \A d \in Conns : d # c => layers'[d] = layers[d]
    BY <1>3 DEF Taken, IsAnswered, Becomes, q
  <2>2. Less(layers'[c].inQueue, Tail(q))
    BY <1>2, <2>1, LessIs
  <2>3. ASSUME NEW d \in Conns
        PROVE  /\ Less(layers'[d].inQueue, layers[d].inQueue)
               /\ layers'[d].channel = layers[d].channel
               /\ layers[d] = NoLayer => layers'[d] = NoLayer
    <3>1. CASE d = c
      BY <1>1, <1>2, <2>1, <3>1 DEF q
    <3>2. CASE d # c
      BY <2>1, <3>2, QueueTypes, LessIs
    <3> QED
      BY <3>1, <3>2
  <2> QED
    BY <2>2, <2>3
<1>4. ASSUME \A d \in Conns : /\ layers'[d].inQueue = <<>> /\ layers'[d].outQueue = <<>>
                              /\ layers'[d].channel.state = "Closed"
                              /\ layers[d].status = "none" => layers'[d] = NoLayer
      PROVE  /\ Less(layers'[c].inQueue, Tail(q))
             /\ \A d \in Conns :
                  /\ Less(layers'[d].inQueue, layers[d].inQueue)
                  /\ layers'[d].channel.state = "Closed"
                  /\ layers[d] = NoLayer => layers'[d] = NoLayer
  BY <1>2, <1>4, QueueTypes, LessIs, NoLayerFacts
<1> QED
  BY <1>1, <1>3, <1>4 DEF Serves, q

\* What happens to the answers: one more is given, or they stay or are lost.
LEMMA ServesAnswers ==
  ASSUME IInv, TypeOK', NEW c \in Conns, UNCHANGED <<secure, clientVars>>, Serves(c),
         HandledIds \subseteq HandledIds',
         Head(layers[c].inQueue).id # 0 => /\ Head(layers[c].inQueue).id \in HandledIds'
                                           /\ Head(layers[c].inQueue).id \notin HandledIds
  PROVE  Answers' /\ OneAnswer' /\ Counted'
<1> DEFINE id == Head(layers[c].inQueue).id
<1>1. /\ ClientTypes /\ LayerTypes /\ HistoryTypes /\ FlagTypes
      /\ ClientTypes' /\ LayerTypes' /\ HistoryTypes'
  BY TypeParts DEF IInv
<1>2. /\ ChannelQuiet /\ CountsStay /\ Less(inQueue', inQueue)
      /\ secure' = secure /\ conn' = conn
  BY <1>1, SameClient DEF ChannelQuiet
<1>3. ASSUME \A d \in Conns : Less(layers'[d].outQueue, layers[d].outQueue)
      PROVE  Answers' /\ OneAnswer' /\ Counted'
  <2>1. NothingAnswered
    BY <1>2, <1>3 DEF NothingAnswered
  <2> QED
    BY <1>1, <1>2, <2>1, AnswersStay, AnsweredStays DEF IInv
<1>4. ASSUME NEW layer, NEW n, Taken(c, layer), layer.channel = layers[c].channel,
             IsAnswered(n, layer, id), Becomes(c, n)
      PROVE  Answers' /\ OneAnswer' /\ Counted'
  <2>1. /\ layer.outQueue = layers[c].outQueue /\ layers'[c] = n
        /\ \A d \in Conns : d # c => layers'[d] = layers[d]
    BY <1>4 DEF Taken, Becomes
  <2>2. CASE n.outQueue = layer.outQueue
    <3>1. \A d \in Conns : layers'[d].outQueue = layers[d].outQueue
      BY <2>1, <2>2
    <3>2. \A d \in Conns : Less(layers'[d].outQueue, layers[d].outQueue)
      BY <1>1, <3>1, QueueTypes, LessIs
    <3> QED
      BY <1>3, <3>2
  <2>3. ASSUME NEW m \in Message, n.outQueue = Append(layer.outQueue, m),
               m.kind \in {"response", "error"},
               m.id = id, m.answers = id, m.key = layer.channel.key
        PROVE  Answers' /\ OneAnswer' /\ Counted'
    <3>1. layers[c].channel.key = IF secure THEN c ELSE 0
      BY <1>4 DEF Serves, IInv, Keys
    <3>2. m.key <= c
      BY <1>4, <2>3, <3>1 DEF Conns
    <3>3. FromServer(m)
      BY <2>3 DEF FromServer
    <3>4. layers'[c].outQueue = Append(layers[c].outQueue, m)
      BY <2>1, <2>3
    <3>5. m.id # 0 => m.id \in HandledIds' /\ m.id \notin HandledIds
      BY <2>3
    <3> QED
      BY <1>1, <2>1, <3>2, <3>3, <3>4, <3>5, AnswerAdded
  <2> QED
    BY <1>4, <2>2, <2>3 DEF IsAnswered
<1>5. ASSUME \A d \in Conns : layers'[d].outQueue = <<>>
      PROVE  Answers' /\ OneAnswer' /\ Counted'
  <2>1. \A d \in Conns : Less(layers'[d].outQueue, layers[d].outQueue)
    BY <1>1, <1>5, QueueTypes, LessIs
  <2> QED
    BY <1>3, <2>1
<1> QED
  BY <1>4, <1>5 DEF Serves

\* A request is handled: it was nowhere else, and those of its connection that were
\* handled were made before it.
LEMMA RequestHandled ==
  ASSUME IInv, TypeOK', NEW c \in Conns, layers[c].inQueue # <<>>,
         layers[c].channel.state = "Open",
         UNCHANGED <<secure, clientVars, nextId>>,
         Less(layers'[c].inQueue, Tail(layers[c].inQueue)),
         \A d \in Conns :
           /\ Less(layers'[d].inQueue, layers[d].inQueue)
           /\ layers'[d].channel = layers[d].channel \/ layers'[d].channel.state = "Closed",
         NEW id \in Request, id = Head(layers[c].inQueue).id,
         handled' = Append(handled, [id |-> id, conn |-> c])
  PROVE  /\ Given' /\ OnePlace' /\ Opening' /\ Ordered'
         /\ HandledIds' = HandledIds \cup {id} /\ id \notin HandledIds
<1> DEFINE q == layers[c].inQueue
           N == Len(handled)
<1>1. /\ ClientTypes /\ LayerTypes /\ HistoryTypes
      /\ ClientTypes' /\ LayerTypes' /\ HistoryTypes'
  BY TypeParts DEF IInv
<1>2. /\ q \in Seq(Message) /\ Tail(q) \in Seq(Message) /\ 1 \in DOMAIN q /\ q[1].id = id
      /\ \A i \in DOMAIN Tail(q) : /\ i + 1 \in DOMAIN q /\ Tail(q)[i] = q[i + 1]
                                   /\ i \in Nat /\ i > 0
  BY <1>1, QueueTypes, HeadFacts
<1>3. /\ secure' = secure /\ conn' = conn /\ requests' = requests /\ inQueue' = inQueue
      /\ outQueue' = outQueue /\ channel' = channel /\ nextId' = nextId
      /\ Waiting' = Waiting
  BY DEF clientVars, Waiting
<1>4. /\ handled \in Seq([id : Request, conn : Conns]) /\ N \in Nat /\ DOMAIN handled = 1..N
      /\ DOMAIN handled' = 1..(N + 1)
      /\ \A h \in 1..N : handled'[h] = handled[h]
      /\ handled'[N + 1].id = id /\ handled'[N + 1].conn = c
  <2> DEFINE entry == [id |-> id, conn |-> c]
  <2>1. entry \in [id : Request, conn : Conns] /\ entry.id = id /\ entry.conn = c
    OBVIOUS
  <2>2. handled' = Append(handled, entry)
    OBVIOUS
  <2> HIDE DEF entry
  <2>3. /\ handled' \in Seq([id : Request, conn : Conns]) /\ Len(handled') = N + 1
        /\ handled'[N + 1] = entry /\ \A h \in 1..N : handled'[h] = handled[h]
    BY <1>1, <2>1, <2>2, AppendProperties DEF HistoryTypes
  <2> QED
    BY <1>1, <2>1, <2>3, LenProperties DEF HistoryTypes
<1> HIDE DEF q, N
<1>5. /\ HandledIds' = HandledIds \cup {id}
      /\ HandledOn(c)' = HandledOn(c) \cup {id}
      /\ \A d : d # c => HandledOn(d)' = HandledOn(d)
  <2>1. \A h : h \in 1..(N + 1) <=> h \in 1..N \/ h = N + 1
    BY <1>4
  <2>2. HandledIds' = HandledIds \cup {id}
    BY <1>4, <2>1 DEF HandledIds
  <2>3. \A d, x : x \in HandledOn(d)' <=> \E h \in 1..(N + 1) : handled'[h].conn = d /\ x = handled'[h].id
    BY <1>4 DEF HandledOn
  <2>4. \A d, x : x \in HandledOn(d) <=> \E h \in 1..N : handled[h].conn = d /\ x = handled[h].id
    BY <1>4 DEF HandledOn
  <2>5. \A d, x : x \in HandledOn(d)' <=> x \in HandledOn(d) \/ (d = c /\ x = id)
    BY <1>4, <2>1, <2>3, <2>4
  <2>6. ASSUME NEW d PROVE HandledOn(d)' = HandledOn(d) \cup (IF d = c THEN {id} ELSE {})
    <3>1. \A x : x \in HandledOn(d)' <=> x \in HandledOn(d) \/ (d = c /\ x = id)
      BY <2>5
    <3> DEFINE new == HandledOn(d)'
               old == HandledOn(d)
    <3>2. \A x : x \in new <=> x \in old \/ (d = c /\ x = id)
      BY <3>1
    <3> HIDE DEF new, old
    <3>3. new = old \cup (IF d = c THEN {id} ELSE {})
      BY <3>2
    <3> QED
      BY <3>3 DEF new, old
  <2>7. HandledOn(c)' = HandledOn(c) \cup {id}
    BY <2>6
  <2>8. \A d : d # c => HandledOn(d)' = HandledOn(d)
    BY <2>6
  <2> QED
    BY <2>2, <2>7, <2>8
<1>6. \A d \in Conns :
        /\ \A x : Has(layers'[d].inQueue, x) => Has(layers[d].inQueue, x)
        /\ \A i \in DOMAIN layers'[d].inQueue :
             \E j \in DOMAIN layers[d].inQueue : layers'[d].inQueue[i] = layers[d].inQueue[j]
        /\ Distinct(layers[d].inQueue) => Distinct(layers'[d].inQueue)
        /\ Ascending(layers[d].inQueue) => Ascending(layers'[d].inQueue)
        /\ Opens(layers'[d].inQueue) => Opens(layers[d].inQueue)
        /\ layers[d].inQueue = <<>> => layers'[d].inQueue = <<>>
        /\ Len(layers[d].inQueue) <= 1 => Len(layers'[d].inQueue) <= 1
  BY <1>1, EndsLess
<1>7. \A i \in DOMAIN layers'[c].inQueue :
        \E j \in DOMAIN q : j > 1 /\ j \in Nat /\ layers'[c].inQueue[i] = q[j]
  <2>1. \A i \in DOMAIN layers'[c].inQueue :
          \E j \in DOMAIN Tail(q) : layers'[c].inQueue[i] = Tail(q)[j]
    <3>1. layers'[c].inQueue \in Seq(Message)
      BY <1>1, QueueTypesNext
    <3> DEFINE rest == Tail(q)
    <3>2. rest \in Seq(Message) /\ Less(layers'[c].inQueue, rest)
      BY <1>2 DEF q
    <3> HIDE DEF rest
    <3>3. \A i \in DOMAIN layers'[c].inQueue :
            \E j \in DOMAIN rest : layers'[c].inQueue[i] = rest[j]
      BY <3>1, <3>2, LessFacts
    <3> QED
      BY <3>3 DEF rest
  <2>2. \A j \in DOMAIN Tail(q) : j + 1 \in DOMAIN q /\ j + 1 > 1 /\ j + 1 \in Nat /\ Tail(q)[j] = q[j + 1]
    BY <1>2
  <2> QED
    BY <2>1, <2>2
<1>8. /\ id # 0 /\ id \in Nat /\ Has(q, id) /\ id \notin HandledIds
      /\ ~Has(outQueue, id)
      /\ \A d \in Conns : Has(layers[d].inQueue, id) => d = c
  <2>1. Has(q, id) /\ id # 0 /\ id \in Nat
    BY <1>2, Bounds DEF Has
  <2> QED
    BY <2>1 DEF IInv, OnePlace, q
<1>9. ~Has(layers'[c].inQueue, id)
  <2> SUFFICES ASSUME NEW i \in DOMAIN layers'[c].inQueue, layers'[c].inQueue[i].id = id
               PROVE  FALSE
    BY DEF Has
  <2>1. PICK j \in DOMAIN q : j > 1 /\ q[j].id = id
    BY <1>7
  <2>2. Distinct(q)
    BY DEF IInv, OnePlace, q
  <2> QED
    BY <1>2, <1>8, <2>1, <2>2 DEF Distinct
<1>10. Given'
  <2>1. \A d \in Conns : \A i \in DOMAIN layers'[d].inQueue : layers'[d].inQueue[i].id <= nextId
    BY <1>6 DEF IInv, Given
  <2>2. id <= nextId
    BY <1>2 DEF IInv, Given, q
  <2>3. \A h \in DOMAIN handled' : handled'[h].id <= nextId
    BY <1>4, <2>2 DEF IInv, Given
  <2> QED
    BY <1>3, <2>1, <2>3 DEF IInv, Given
<1>11. OnePlace'
  <2>1. ASSUME NEW i \in Waiting
        PROVE  /\ ~Has(outQueue, requests[i].id)
               /\ \A d \in Conns : ~Has(layers'[d].inQueue, requests[i].id)
               /\ requests[i].id \notin HandledIds'
    BY <1>5, <1>6, <1>8 DEF IInv, OnePlace, q
  <2>2. Distinct(outQueue) /\ \A d \in Conns : Distinct(layers'[d].inQueue)
    BY <1>6 DEF IInv, OnePlace
  <2>3. ASSUME NEW x \in Request
        PROVE  /\ Has(outQueue, x) => x \notin HandledIds'
               /\ \A d \in Conns : Has(layers'[d].inQueue, x) =>
                    /\ ~Has(outQueue, x)
                    /\ x \notin HandledIds'
                    /\ \A e \in Conns : Has(layers'[e].inQueue, x) => d = e
    <3>1. Has(outQueue, x) => x \notin HandledIds'
      BY <1>5, <1>8 DEF IInv, OnePlace
    <3>2. ASSUME NEW d \in Conns, Has(layers'[d].inQueue, x)
          PROVE  /\ ~Has(outQueue, x)
                 /\ x \notin HandledIds'
                 /\ \A e \in Conns : Has(layers'[e].inQueue, x) => d = e
      <4>1. Has(layers[d].inQueue, x)
        BY <1>6, <3>2
      <4>2. x # id
        BY <1>8, <1>9, <3>2, <4>1
      <4> QED
        BY <1>5, <1>6, <4>1, <4>2 DEF IInv, OnePlace
    <3> QED
      BY <3>1, <3>2
  <2>4. \A h, g \in DOMAIN handled' : handled'[h].id = handled'[g].id => h = g
    <3>1. \A h \in 1..N : handled[h].id # id
      BY <1>4, <1>8 DEF HandledIds
    <3>2. \A h, g \in 1..N : handled[h].id = handled[g].id => h = g
      BY <1>4 DEF IInv, OnePlace
    <3> QED
      BY <1>4, <3>1, <3>2
  <2> QED
    BY <1>3, <2>1, <2>2, <2>3, <2>4 DEF OnePlace
<1>12. Opening'
  <2>1. CASE conn = c
    <3>1. ~Untouched(conn)
      BY <1>2, <2>1 DEF Untouched, q
    <3>2. channel.state # "Opening" /\ ~Opens(outQueue)
      BY <2>1, <3>1 DEF IInv, Opening
    <3> QED
      BY <1>3, <3>2 DEF Opening
  <2>2. CASE conn # c
    <3>1. conn > 0 => conn \in Conns
      BY <1>1, ConnIs
    <3>2. HandledOn(conn)' = HandledOn(conn)
      BY <1>3, <1>5, <2>2
    <3>3. conn > 0 /\ Untouched(conn) => Untouched(conn)'
      BY <1>3, <1>6, <3>1, <3>2 DEF Untouched
    <3>4. ASSUME conn > 0,
                 \/ layers[conn].channel.state = "Closed" /\ Len(layers[conn].inQueue) <= 1
                 \/ layers[conn].channel.state = "Open" /\ layers[conn].inQueue = <<>>
          PROVE  \/ layers'[conn].channel.state = "Closed" /\ Len(layers'[conn].inQueue) <= 1
                 \/ layers'[conn].channel.state = "Open" /\ layers'[conn].inQueue = <<>>
      <4>1. /\ layers'[conn].channel = layers[conn].channel \/ layers'[conn].channel.state = "Closed"
            /\ layers[conn].inQueue = <<>> => layers'[conn].inQueue = <<>>
            /\ Len(layers[conn].inQueue) <= 1 => Len(layers'[conn].inQueue) <= 1
        BY <1>6, <3>1, <3>4
      <4>2. Len(<<>>) <= 1
        BY EmptySeq
      <4> QED
        BY <3>4, <4>1, <4>2
    <3> QED
      BY <1>3, <3>2, <3>3, <3>4 DEF IInv, Opening
  <2> QED
    BY <2>1, <2>2
<1>13. InOrderOn(c)
  BY DEF IInv, Ordered, Live
<1>14. InOrderOn(c)'
  <2>1. /\ Ascending(q)
        /\ \A i \in DOMAIN q : \A x \in HandledOn(c) : q[i].id # 0 => x < q[i].id
    BY <1>13 DEF InOrderOn, q
  <2>2. \A j \in DOMAIN q : j > 1 /\ j \in Nat /\ q[j].id # 0 => id < q[j].id
    BY <1>2, <1>8, <2>1 DEF Ascending
  <2>3. \A i \in DOMAIN layers'[c].inQueue : \A x \in HandledOn(c)' :
          layers'[c].inQueue[i].id # 0 => x < layers'[c].inQueue[i].id
    BY <1>5, <1>7, <2>1, <2>2
  <2>4. Ascending(layers'[c].inQueue)
    BY <1>6, <2>1 DEF q
  <2>5. ASSUME c = conn, channel.state = "Open"
        PROVE  /\ Ascending(outQueue)
               /\ \A i \in DOMAIN outQueue : outQueue[i].id # 0 =>
                    /\ \A x \in HandledOn(c)' : x < outQueue[i].id
                    /\ \A j \in DOMAIN layers'[c].inQueue : layers'[c].inQueue[j].id < outQueue[i].id
    <3>1. /\ Ascending(outQueue)
          /\ \A i \in DOMAIN outQueue : outQueue[i].id # 0 =>
               /\ \A x \in HandledOn(c) : x < outQueue[i].id
               /\ \A j \in DOMAIN q : q[j].id < outQueue[i].id
      BY <1>13, <2>5 DEF InOrderOn, q
    <3> QED
      BY <1>2, <1>5, <1>7, <3>1
  <2> QED
    BY <1>3, <2>3, <2>4, <2>5 DEF InOrderOn
<1>15. Ordered'
  <2>1. ASSUME NEW d \in Conns, Live(d)' PROVE InOrderOn(d)'
    <3>1. CASE d = c
      BY <1>14, <3>1
    <3>2. CASE d # c
      <4>1. Live(d) /\ HandledOn(d)' = HandledOn(d)
        BY <1>5, <1>6, <2>1, <3>2 DEF Live
      <4>2. InOrderOn(d)
        BY <4>1 DEF IInv, Ordered
      <4>3. /\ Ascending(layers'[d].inQueue)
            /\ \A i \in DOMAIN layers'[d].inQueue : \A x \in HandledOn(d)' :
                 layers'[d].inQueue[i].id # 0 => x < layers'[d].inQueue[i].id
        BY <1>6, <4>1, <4>2 DEF InOrderOn
      <4>4. ASSUME d = conn, channel.state = "Open"
            PROVE  /\ Ascending(outQueue)
                   /\ \A i \in DOMAIN outQueue : outQueue[i].id # 0 =>
                        /\ \A x \in HandledOn(d)' : x < outQueue[i].id
                        /\ \A j \in DOMAIN layers'[d].inQueue :
                             layers'[d].inQueue[j].id < outQueue[i].id
        BY <1>6, <4>1, <4>2, <4>4 DEF InOrderOn
      <4> QED
        BY <1>3, <4>3, <4>4 DEF InOrderOn
    <3> QED
      BY <3>1, <3>2
  <2>2. \A h, g \in DOMAIN handled' :
          h < g /\ handled'[h].conn = handled'[g].conn => handled'[h].id < handled'[g].id
    <3> SUFFICES ASSUME NEW h \in 1..(N + 1), NEW g \in 1..(N + 1), h < g,
                        handled'[h].conn = handled'[g].conn
                 PROVE  handled'[h].id < handled'[g].id
      BY <1>4
    <3>1. h \in 1..N
      BY <1>4
    <3>2. CASE g \in 1..N
      BY <1>4, <3>1, <3>2 DEF IInv, Ordered
    <3>3. CASE g = N + 1
      <4>1. handled[h].conn = c
        BY <1>4, <3>1, <3>3
      <4>2. handled[h].id \in HandledOn(c)
        BY <1>4, <3>1, <4>1 DEF HandledOn
      <4>3. handled[h].id < id
        BY <1>2, <1>8, <1>13, <4>2 DEF InOrderOn, q
      <4> QED
        BY <1>4, <3>1, <3>3, <4>3
    <3> QED
      BY <1>4, <3>2, <3>3
  <2> QED
    BY <2>1, <2>2 DEF Ordered
<1> QED
  BY <1>5, <1>8, <1>10, <1>11, <1>12, <1>15

\* A message is handled.
LEMMA ServesStep ==
  ASSUME IInv, TypeOK', NEW c \in Conns, layers[c].status # "none",
         UNCHANGED <<secure, clientVars, nextId>>, Serves(c)
  PROVE  IInv'
<1> DEFINE msg == Head(layers[c].inQueue)
<1>1. /\ FlagTypes /\ ClientTypes /\ LayerTypes /\ HistoryTypes
      /\ LayerTypes' /\ ClientTypes' /\ HistoryTypes'
  BY TypeParts DEF IInv
<1>2. /\ layers[c].inQueue # <<>> /\ layers[c].channel.state = "Open"
      /\ Less(layers'[c].inQueue, Tail(layers[c].inQueue))
      /\ \A d \in Conns :
           /\ Less(layers'[d].inQueue, layers[d].inQueue)
           /\ layers'[d].channel = layers[d].channel \/ layers'[d].channel.state = "Closed"
           /\ layers[d] = NoLayer => layers'[d] = NoLayer
  BY <1>1, ServesFacts
<1>3. /\ ChannelQuiet /\ ListLess /\ Less(outQueue', outQueue)
      /\ conn' = conn /\ channel' = channel /\ status' = status /\ secure' = secure
      /\ nextId <= nextId'
  BY <1>1, SameClient, Numbers DEF clientVars
<1>4. handled' = IF msg.id = 0 THEN handled ELSE Append(handled, [id |-> msg.id, conn |-> c])
  BY DEF Serves
<1>5. msg.id # 0 => msg.id \in Request
  BY <1>1, <1>2, QueueTypes, HeadFacts, MessageFacts
<1> HIDE DEF msg
<1>6. /\ Given' /\ OnePlace' /\ Opening' /\ Ordered'
      /\ HandledIds \subseteq HandledIds'
      /\ msg.id # 0 => msg.id \in HandledIds' /\ msg.id \notin HandledIds
  <2>1. CASE msg.id = 0
    <3>1. handled' = handled /\ HandledIds' = HandledIds
      BY <1>4, <2>1 DEF HandledIds
    <3>2. NothingAsked
      BY <1>2, <1>3, <3>1 DEF NothingAsked
    <3> QED
      BY <1>1, <2>1, <3>1, <3>2, AskedStays DEF IInv
  <2>2. CASE msg.id # 0
    <3>1. handled' = Append(handled, [id |-> msg.id, conn |-> c])
      BY <1>4, <2>2
    <3>2. /\ Given' /\ OnePlace' /\ Opening' /\ Ordered'
          /\ HandledIds' = HandledIds \cup {msg.id} /\ msg.id \notin HandledIds
      BY <1>2, <1>5, <2>2, <3>1, RequestHandled DEF msg
    <3> QED
      BY <3>2
  <2> QED
    BY <2>1, <2>2
<1>7. Answers' /\ OneAnswer' /\ Counted'
  BY <1>6, ServesAnswers DEF msg
<1>8. Asks'
  BY <1>1, <1>2, AsksOfEndsStay DEF IInv
<1>9. EndsQuiet
  BY <1>2 DEF EndsQuiet
<1>10. Keys'
  BY <1>3, <1>9, KeysStay DEF IInv
<1>11. Started'
  <2>1. \A d \in Conns : d > conn => layers'[d] = NoLayer
    BY <1>2 DEF IInv, Started
  <2>2. c <= conn
    BY <1>1, EndStarted DEF IInv
  <2>3. \A h \in DOMAIN handled' : handled'[h].conn <= conn
    <3>1. CASE msg.id = 0
      BY <1>4, <3>1 DEF IInv, Started
    <3>2. CASE msg.id # 0
      <4> DEFINE entry == [id |-> msg.id, conn |-> c]
      <4>1. /\ entry \in [id : Request, conn : Conns] /\ entry.conn = c
            /\ handled' = Append(handled, entry)
        BY <1>4, <1>5, <3>2
      <4> HIDE DEF entry
      <4>2. /\ Len(handled') = Len(handled) + 1 /\ handled'[Len(handled) + 1] = entry
            /\ \A h \in 1..Len(handled) : handled'[h] = handled[h]
            /\ DOMAIN handled = 1..Len(handled) /\ DOMAIN handled' = 1..Len(handled')
            /\ Len(handled) \in Nat
        BY <1>1, <4>1, AppendProperties, LenProperties DEF HistoryTypes
      <4>3. ASSUME NEW h \in DOMAIN handled' PROVE handled'[h].conn <= conn
        <5>1. CASE h \in 1..Len(handled)
          BY <4>2, <5>1 DEF IInv, Started
        <5>2. CASE h = Len(handled) + 1
          BY <2>2, <4>1, <4>2, <5>2
        <5> QED
          BY <4>2, <5>1, <5>2
      <4> QED
        BY <4>3
    <3> QED
      BY <3>1, <3>2
  <2>4. status' # "Disconnected" => conn' > 0 /\ channel'.state # "Closed"
    BY <1>3 DEF IInv, Started
  <2> QED
    BY <1>3, <2>1, <2>3, <2>4 DEF Started
<1> QED
  BY <1>6, <1>7, <1>8, <1>10, <1>11 DEF IInv

\* ServerHandles: the message is refused, opens the channel, or is handled.
LEMMA ServerHandlesStep ==
  ASSUME IInv, NEW c \in Conns, ServerHandles(c)
  PROVE  IInv'
<1>1. /\ FlagTypes /\ ClientTypes /\ LayerTypes /\ HistoryTypes
  BY TypeParts DEF IInv
<1>2. UNCHANGED <<secure, clientVars, history, dropped>> /\ nextId' = nextId
  BY DEF ServerHandles, history
<1>3. /\ LayerTypes' /\ HistoryTypes'
      /\ layers[c].status # "none" /\ layers[c].inQueue # <<>>
      /\ Refuses(c) \/ OpensChannel(c) \/ Serves(c)
  BY <1>1, ServerHandlesFacts
<1>4. TypeOK'
  <2>1. ClientTypes'
    BY <1>1, <1>2, SameClient
  <2>2. serving' \in BOOLEAN
    <3>1. serving' = serving \/ serving' = FALSE
      BY DEF ServerHandles, RequestHandler, HandleRegister
    <3> QED
      BY <1>1, <3>1 DEF FlagTypes
  <2>3. FlagTypes'
    BY <1>1, <1>2, <2>2 DEF FlagTypes
  <2> QED
    BY <1>3, <2>1, <2>3, TypeParts
<1>5. CASE Refuses(c)
  BY <1>2, <1>3, <1>4, <1>5, RefusesStep
<1>6. CASE OpensChannel(c)
  BY <1>2, <1>3, <1>4, <1>6, OpensStep
<1>7. CASE Serves(c)
  BY <1>2, <1>3, <1>4, <1>7, ServesStep
<1> QED
  BY <1>3, <1>5, <1>6, <1>7

-----------------------------------------------------------------------------
(* The invariant and what follows from it.                                 *)

\* Nothing is asked at first.
LEMMA InitIInv == Init => IInv
<1> SUFFICES ASSUME Init PROVE IInv
  OBVIOUS
<1>1. /\ secure \in BOOLEAN /\ status = "Disconnected" /\ conn = 0
      /\ requests = <<>> /\ inQueue = <<>> /\ outQueue = <<>>
      /\ serving = TRUE /\ nextId = 0 /\ dropped = {} /\ handled = <<>>
  BY DEF Init
<1>2. channel = PeerData /\ channel.state = "Closed" /\ channel.temp = 0
  BY NoLayerFacts DEF Init
<1>3. \A c \in Conns : /\ layers[c] = NoLayer /\ layers[c].inQueue = <<>>
                       /\ layers[c].outQueue = <<>> /\ layers[c].channel.state = "Closed"
  BY NoLayerFacts DEF Init
<1>4. DOMAIN requests = {} /\ DOMAIN handled = {} /\ Waiting = {}
  BY <1>1, EmptySeq DEF Waiting
<1>5. HandledIds = {} /\ \A c : HandledOn(c) = {}
  BY <1>4 DEF HandledIds, HandledOn
<1>6. TypeOK
  <2>1. FlagTypes
    BY <1>1 DEF FlagTypes
  <2>2. ClientTypes
    <3>1. channel \in [state : {"Closed", "Opening", "Open"}, key : 0..MaxConns, temp : 0..MaxConns]
      BY <1>2, Bounds DEF PeerData
    <3>2. requests \in Seq(RequestSet) /\ inQueue \in Seq(Message) /\ outQueue \in Seq(Message)
      BY <1>1
    <3> QED
      BY <1>1, <3>1, <3>2, Bounds DEF ClientTypes
  <2>3. LayerTypes
    BY NoLayerFacts DEF LayerTypes, Init
  <2>4. HistoryTypes
    <3>1. nextId \in 0..MaxRequest /\ 0 \in 0..MaxConns
      BY <1>1, Bounds
    <3>2. queuedAt \in [Request -> 0..MaxConns]
      BY <3>1 DEF Init
    <3>3. handled \in Seq([id : Request, conn : Conns]) /\ dropped \subseteq Request
      BY <1>1
    <3> QED
      BY <3>1, <3>2, <3>3 DEF HistoryTypes
  <2> QED
    BY <2>1, <2>2, <2>3, <2>4, TypeParts
<1>7. Started
  BY <1>1, <1>3, <1>4 DEF Started
<1>8. Asks /\ Answers
  BY <1>1, <1>3, EmptyQueue DEF Asks, Answers
<1>9. Given
  BY <1>1, <1>3, <1>4, EmptyQueue DEF Given
<1>10. OnePlace
  BY <1>1, <1>3, <1>4, EmptyQueue DEF OnePlace
<1>11. Opening
  BY <1>1, <1>2, EmptyQueue DEF Opening
<1>12. Ordered
  <2>1. \A c \in Conns : ~Live(c)
    BY <1>3, <1>5, EmptyQueue DEF Live
  <2> QED
    BY <1>4, <2>1 DEF Ordered
<1>13. OneAnswer /\ Counted
  BY <1>1, <1>3, <1>4, EmptyQueue DEF OneAnswer, Counted
<1>14. Keys
  BY <1>2, <1>3 DEF Keys
<1> QED
  BY <1>6, <1>7, <1>8, <1>9, <1>10, <1>11, <1>12, <1>13, <1>14 DEF IInv

\* Every step keeps it.
LEMMA NextIInv == IInv /\ [Next]_vars => IInv'
<1> SUFFICES ASSUME IInv, [Next]_vars PROVE IInv'
  OBVIOUS
<1>1. CASE OpenFails
  BY <1>1, OpenFailsStep
<1>2. ASSUME NEW id \in Request, SendRequest(id) PROVE IInv'
  BY <1>2, SendRequestStep
<1>3. ASSUME NEW i \in DOMAIN requests, CheckResponse(i) \/ Withdraw(i) PROVE IInv'
  BY <1>3, DequeueStep DEF CheckResponse, Withdraw
<1>4. ASSUME NEW i \in DOMAIN requests, NextResponse(i) PROVE IInv'
  BY <1>4, NextResponseStep
<1>5. ASSUME NEW i \in DOMAIN requests, Abandon(i) PROVE IInv'
  BY <1>5, AbandonStep
<1>6. CASE FinishConnect
  BY <1>6, FinishConnectStep
<1>7. CASE ClientWrites
  BY <1>7, ClientWritesStep
<1>8. CASE ClientDrops
  BY <1>8, ClientDropsStep
<1>9. CASE ClientHandles
  BY <1>9, ClientHandlesStep
<1>10. ASSUME NEW c \in Conns, RemoveDisconnected(c) PROVE IInv'
  BY <1>10, RemoveDisconnectedStep
<1>11. ASSUME NEW c \in Conns, ServerWrites(c) PROVE IInv'
  BY <1>11, ServerWritesStep
<1>12. ASSUME NEW c \in Conns, ServerHandles(c) PROVE IInv'
  BY <1>12, ServerHandlesStep
<1>13. CASE UNCHANGED vars
  <2>1. /\ UNCHANGED <<secure, status, conn, channel, inQueue, outQueue, layers, serving,
                       history, dropped, handled>>
        /\ requests' = requests
    BY <1>13 DEF vars, clientVars
  <2>2. ClientTypes
    BY TypeParts DEF IInv
  <2>3. requests' \in Seq(RequestSet) /\ ListLess /\ CountsStay
    BY <2>1, <2>2, SameList DEF ClientTypes
  <2> QED
    BY <2>1, <2>3, ListStep
<1> QED
  BY <1>1, <1>2, <1>3, <1>4, <1>5, <1>6, <1>7, <1>8, <1>9, <1>10, <1>11, <1>12, <1>13
     DEF Next, Caller

\* The inductive invariant holds: a request and its answer have one place each, and
\* nothing is sent ahead of the message that opens the channel.
THEOREM Invariant == Spec => []IInv
<1>1. Init => IInv
  BY InitIInv
<1>2. IInv /\ [Next]_vars => IInv'
  BY NextIInv
<1> QED
  BY <1>1, <1>2, PTL DEF Spec

\* The queues hold messages, the list holds requests, and the ids and connections
\* are those that were given, whatever is lost.
THEOREM TypeCorrect == Spec => []TypeOK
<1>1. IInv => TypeOK
  BY DEF IInv
<1> QED
  BY <1>1, Invariant, PTL

\* A request is handled at most once over all the connections, in the order the
\* caller made them on each, and is answered at most once, by the response made for
\* it. (ctclient.c, line 905; CTClient__HandleResponse)
THEOREM HandledOnce == Spec => []AtMostOnce
<1>1. IInv => AtMostOnce
  <2> SUFFICES ASSUME IInv PROVE AtMostOnce
    OBVIOUS
  <2>1. FlagTypes /\ ClientTypes /\ LayerTypes /\ HistoryTypes
    BY TypeParts DEF IInv
  <2>2. \A i, j \in DOMAIN handled : i < j =>
          /\ handled[i].id # handled[j].id
          /\ handled[i].conn = handled[j].conn => handled[i].id < handled[j].id
    <3>1. \A i \in DOMAIN handled : i \in Nat
      BY <2>1, Numbers
    <3>2. \A i, j \in DOMAIN handled : i < j => i # j
      BY <3>1
    <3> QED
      BY <3>2 DEF IInv, OnePlace, Ordered
  <2>3. ASSUME NEW i \in DOMAIN requests
        PROVE  /\ requests[i].responseCount <= 1
               /\ requests[i].responseCount = 1 =>
                    \E h \in DOMAIN handled : handled[h].id = requests[i].id
               /\ Range(requests[i].responses) \subseteq {requests[i].id}
    <3>1. requests[i].responseCount <= 1
      BY DEF IInv, Counted
    <3>2. requests[i].responseCount = 1 =>
            \E h \in DOMAIN handled : handled[h].id = requests[i].id
      BY DEF IInv, Counted, HandledIds
    <3>3. Range(requests[i].responses) \subseteq {requests[i].id}
      BY DEF IInv, Counted, Range
    <3> QED
      BY <3>1, <3>2, <3>3
  <2> QED
    BY <2>2, <2>3 DEF AtMostOnce
<1> QED
  BY <1>1, Invariant, PTL

\* When the channel is open on both sides of a connection that is up, both have the
\* same key: what is left of earlier connections does not open it. (ctclient.c, line
\* 409)
THEOREM SameKeys == Spec => []KeysAgree
<1>1. IInv => KeysAgree
  <2> SUFFICES ASSUME IInv, status = "Connected", channel.state = "Open",
                      layers[conn].channel.state = "Open"
               PROVE  channel.key = layers[conn].channel.key
    BY DEF KeysAgree
  <2>1. ClientTypes
    BY TypeParts DEF IInv
  <2>2. conn \in Conns
    BY <2>1, ConnIs DEF IInv, Started
  <2> QED
    BY <2>2 DEF IInv, Keys
<1> QED
  BY <1>1, Invariant, PTL

=============================================================================

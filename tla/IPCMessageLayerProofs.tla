------------------------ MODULE IPCMessageLayerProofs ------------------------
(***************************************************************************)
(* Proofs about IPCMessageLayer, for any sizes of messages, any number of  *)
(* connections and streams of any capacity.                                *)
(*                                                                         *)
(* The bytes of all messages have one order.  What an end has received,    *)
(* what flows to it and what the senders still have to write are sets of   *)
(* bytes one after the other in that order; every step takes bytes from    *)
(* the front of one of them to the end of the one before, or loses some.   *)
(***************************************************************************)
EXTENDS IPCMessageLayer, SequenceTheorems, TLAPS

-----------------------------------------------------------------------------
(* Types, and what the status of a layer says about its cursor.            *)

Byte == [msg : Message, pos : Nat]
Directions == {"up", "down"}

Types ==
  /\ layer \in [Ends -> Layer]
  /\ conn \in 0 .. MaxConnects
  /\ link \in [Conns -> {"none", "refused", "up"}]
  /\ broken \in SUBSET Conns
  /\ wire \in [Conns -> [Directions -> Seq(Byte)]]
  /\ sent \in [Ends -> Seq(Message)]
  /\ taken \in [Ends -> Seq(Message \cup {Garbage})]

\* A layer is blank until it is connected for the first time.
Blank(l) ==
  /\ l.outQueue = <<>> /\ l.inQueue = <<>> /\ l.currentWriteMessage = NoMessage
  /\ l.currentPointer = "null"

\* What is to come has not begun.
Unused ==
  /\ conn = 0 => Status(Client) = "Disconnected" /\ Blank(layer[Client])
  /\ \A k \in Conns :
       /\ Status(k) = "None" => Blank(layer[k]) /\ taken[k] = <<>>
       /\ k > conn => /\ Status(k) = "None" /\ link[k] = "none"
                      /\ \A d \in Directions : wire[k][d] = <<>>

\* The cursor of a layer stays with a message that is half written, and such a
\* layer is not idle before it has something in its queue.
Cursor(l) ==
  /\ l.currentWriteMessage # NoMessage =>
       /\ l.currentPointer = "message"
       /\ l.currentBytesLeft \in 1 .. l.currentWriteMessage.size
  /\ l.currentPointer = "message" => l.currentWriteMessage # NoMessage
  /\ l.currentPointer = "header" =>
       l.readingHeader /\ l.currentBytesLeft \in 1 .. HeaderSize
  /\ l.currentPointer = "body" =>
       /\ ~l.readingHeader /\ l.currentReadBuffer = "held"
       /\ l.currentBytesLeft \in 1 .. Max(Sizes) - HeaderSize
  /\ l.status = "Writing" => l.currentWriteMessage # NoMessage \/ l.outQueue # <<>>
  /\ l.status \in {"Idle", "Connecting"} =>
       l.currentWriteMessage = NoMessage \/ l.outQueue # <<>>
  /\ l.status = "Reading" => l.currentPointer # "message"

Cursors == \A e \in Ends : Cursor(layer[e])

\* The invariant behind CursorBelongs.
CInv == Types /\ Unused /\ Cursors

-----------------------------------------------------------------------------
(* The order of the bytes.                                                 *)

Elements(s) == {s[i] : i \in DOMAIN s}

\* Byte b was sent before byte c.
Earlier(b, c) == Before(b.msg, c.msg) \/ (b.msg = c.msg /\ b.pos < c.pos)

Precede(S, T) == \A b \in S, c \in T : Earlier(b, c)

Sorted(s) == \A i, j \in DOMAIN s : i < j => Earlier(s[i], s[j])

\* The messages of a sequence are in order.
Ascends(s) == \A i, j \in DOMAIN s : i < j => InOrder(s[i], s[j])

\* The bytes of message m from position p on.
Rest(m, p) == {[msg |-> m, pos |-> q] : q \in p .. m.size}

Reads(l) == l.currentPointer \in {"header", "body"}

\* The bytes an end has read of a message, and those it reads next.
Held(e) == IF Reads(layer[e]) THEN layer[e].got ELSE <<>>
Arriving(e) == IF ConnOf(e) \in Conns THEN Incoming(e) ELSE <<>>
Stream(e) == Held(e) \o Arriving(e)

\* The bytes of the messages that an end received.
Arrived(e) == UNION {Rest(m, 1) : m \in Elements(Received(e)) \ {Garbage}}
Past(e) == Arrived(e) \cup Elements(Stream(e))

\* The bytes that an end has to write.
Ahead(l) ==
  (IF l.currentWriteMessage = NoMessage THEN {}
   ELSE Rest(l.currentWriteMessage,
             l.currentWriteMessage.size - l.currentBytesLeft + 1))
  \cup UNION {Rest(m, 1) : m \in Elements(l.outQueue)}

\* A message is in its place among those that end e sent.
IsSent(m, e) == m.from = e /\ m.no \in DOMAIN sent[e] /\ sent[e][m.no] = m

\* Where the bytes come from that an end may read.
Senders(e) == IF e = Client THEN 1 .. conn ELSE {Client}

\* A queue holds messages in the order they were sent, the half written first.
Lined(l, e) ==
  /\ \A i \in DOMAIN l.outQueue : IsSent(l.outQueue[i], e)
  /\ \A i, j \in DOMAIN l.outQueue : i < j => Before(l.outQueue[i], l.outQueue[j])
  /\ l.currentWriteMessage # NoMessage =>
       /\ IsSent(l.currentWriteMessage, e)
       /\ \A i \in DOMAIN l.outQueue : Before(l.currentWriteMessage, l.outQueue[i])

\* Messages are numbered as they are sent, and queued so.
Queued ==
  \A e \in Ends :
    /\ \A i \in DOMAIN sent[e] : sent[e][i].from = e /\ sent[e][i].no = i
    /\ Lined(layer[e], e)

\* Every byte that was written is one of a message sent by the other side.
Genuine ==
  \A e \in Ends : \A b \in Past(e) :
    /\ \E f \in Senders(e) : IsSent(b.msg, f)
    /\ b.pos \in 1 .. b.msg.size

\* Past and future of the streams.
Ordered ==
  /\ \A k, l \in Conns : k < l => Precede(Past(k), Past(l))
  /\ \A e \in Ends :
       /\ Precede(Arrived(e), Elements(Stream(e)))
       /\ Sorted(Stream(e))
       /\ Ascends(Received(e))
       /\ \A b \in Past(e) : Precede({b}, Ahead(layer[b.msg.from]))

\* Nothing came on connections that are not there.
NothingYet == \A k \in Conns : k > conn => Past(k) = {}

\* The invariant behind InOrderOnce.
InOrderInv == Queued /\ Genuine /\ Ordered /\ NothingYet
OInv == CInv /\ InOrderInv

-----------------------------------------------------------------------------
(* The bytes of the first connection.                                      *)

\* Whole messages one after the other, but for the end of the last one.
Chained(s) ==
  \A i \in DOMAIN s : LET m == s[i].msg
                         start == i - s[i].pos
    IN  /\ s[i].pos \in 1 .. m.size /\ s[i].pos <= i
        /\ \A p \in 1 .. m.size :
             start + p \in DOMAIN s => s[start + p] = [msg |-> m, pos |-> p]

\* The stream s ends where the writer l goes on.
EndsAt(s, l) ==
  LET m == l.currentWriteMessage IN
  IF m # NoMessage /\ l.currentBytesLeft < m.size
  THEN s # <<>> /\ s[Len(s)] = [msg |-> m, pos |-> m.size - l.currentBytesLeft]
  ELSE s # <<>> => s[Len(s)].pos = s[Len(s)].msg.size

\* What the reader holds is the beginning of a message, and it knows how much
\* of it is still to come.
Holds(l) ==
  Reads(l) =>
    /\ l.got # <<>>
    /\ l.currentPointer = "header" => Len(l.got) + l.currentBytesLeft = HeaderSize
    /\ l.currentPointer = "body" => Len(l.got) + l.currentBytesLeft = l.got[1].msg.size

\* End r reads what end w writes over the first connection.
Aligned(r, w) ==
  /\ \A i \in DOMAIN Received(r) : Received(r)[i] # Garbage
  /\ conn > 0 /\ Status(r) \notin Gone =>
       /\ Chained(Stream(r))
       /\ Holds(layer[r])
       /\ Status(r) # "Reading" => ~Reads(layer[r])
       /\ conn = 1 /\ 1 \notin broken => EndsAt(Stream(r), layer[w])

UpIsAligned == Aligned(1, Client)
DownIsAligned == Aligned(Client, 1)

-----------------------------------------------------------------------------
(* Constants and messages.                                                 *)

\* The greatest size is one, and bounds the others.
LEMMA SizeFacts ==
  /\ Max(Sizes) \in Sizes
  /\ \A s \in Sizes : s \in Nat /\ s >= 3 /\ s <= Max(Sizes)
<1>1. PICK max \in Sizes : \A s \in Sizes : s <= max
  BY SizesAssumption
<1>2. \A s \in Sizes : s \in Nat /\ s >= 3
  BY SizesAssumption
<1>3. \A s \in Sizes : max >= s
  BY <1>1, <1>2
<1>4. Max(Sizes) \in Sizes /\ \A s \in Sizes : Max(Sizes) >= s
  BY <1>3 DEF Max
<1> QED
  BY <1>2, <1>4

\* The greater and the smaller of two numbers.
LEMMA OfTwo ==
  ASSUME NEW a \in Nat, NEW b \in Nat
  PROVE  /\ Max({a, b}) \in Nat /\ a <= Max({a, b}) /\ b <= Max({a, b})
         /\ Min({a, b}) \in {a, b} /\ Min({a, b}) <= a /\ Min({a, b}) <= b
<1>1. \E x \in {a, b} : \A y \in {a, b} : x >= y
  <2>1. a >= b \/ b >= a
    OBVIOUS
  <2> QED
    BY <2>1
<1>2. \E x \in {a, b} : \A y \in {a, b} : x <= y
  <2>1. a <= b \/ b <= a
    OBVIOUS
  <2> QED
    BY <2>1
<1>3. Max({a, b}) \in {a, b} /\ \A y \in {a, b} : Max({a, b}) >= y
  BY <1>1 DEF Max
<1>4. Min({a, b}) \in {a, b} /\ \A y \in {a, b} : Min({a, b}) <= y
  BY <1>2 DEF Min
<1> QED
  BY <1>3, <1>4

\* The bounds, and the ends they make.
LEMMA Bounds ==
  /\ MaxConnects \in Nat /\ ClientSends \in Nat /\ ServerSends \in Nat
  /\ Conns = 1 .. MaxConnects /\ Client = 0 /\ Client \notin Conns
  /\ Conns \subseteq Ends /\ Client \in Ends
  /\ \A e \in Ends : e \in Nat /\ (e # Client => e \in Conns)
  /\ \A e \in Ends : MaxSends(e) <= Max({ClientSends, ServerSends}) /\ MaxSends(e) \in Nat
  /\ Max({ClientSends, ServerSends}) \in Nat
BY BoundsAssumption, OfTwo DEF Conns, Client, Ends, MaxSends

\* What messages are, and what are none.
LEMMA MessageFacts ==
  /\ \A m \in Message : /\ m.from \in Ends /\ m.from \in Nat
                        /\ m.no \in Nat /\ m.no >= 1
                        /\ m.size \in Nat /\ m.size >= 3 /\ m.size <= Max(Sizes)
                        /\ m.size \in Sizes
  /\ NoMessage \notin Message /\ Garbage \notin Message
  /\ HeaderSize = 2
<1>1. \A m \in Message : /\ m.from \in Ends /\ m.no \in 1 .. Max({ClientSends, ServerSends})
                         /\ m.size \in Sizes
  BY DEF Message
<1>2. NoMessage.no = 0 /\ Garbage.no = 0
  BY DEF NoMessage, Garbage
<1>3. NoMessage \notin Message /\ Garbage \notin Message
  BY <1>1, <1>2, Bounds
<1>4. ASSUME NEW m \in Message
      PROVE  /\ m.from \in Nat /\ m.no \in Nat /\ m.no >= 1
             /\ m.size \in Nat /\ m.size >= 3 /\ m.size <= Max(Sizes)
  <2>1. m.from \in Nat
    BY <1>1, Bounds
  <2>2. m.no \in Nat /\ m.no >= 1
    BY <1>1, Bounds
  <2>3. m.size \in Nat /\ m.size >= 3 /\ m.size <= Max(Sizes)
    BY <1>1, SizeFacts
  <2> QED
    BY <2>1, <2>2, <2>3
<1> QED
  BY <1>1, <1>3, <1>4 DEF HeaderSize

\* Two messages of one sender with one number are the same if both were sent.
LEMMA SentOnce ==
  ASSUME NEW m, NEW n, NEW e, IsSent(m, e), IsSent(n, e), m.no = n.no
  PROVE  m = n
BY DEF IsSent

-----------------------------------------------------------------------------
(* What the operations do to a layer.                                      *)

\* The fields of a layer.
LEMMA LayerFields ==
  ASSUME NEW l \in Layer
  PROVE  /\ l.status \in Statuses
         /\ l.outQueue \in Seq(Message)
         /\ l.inQueue \in Seq(Message \cup {Garbage})
         /\ l.currentWriteMessage \in Message \cup {NoMessage}
         /\ l.currentPointer \in {"null", "header", "body", "message"}
         /\ l.currentBytesLeft \in Nat
         /\ l.readingHeader \in BOOLEAN
         /\ l.got \in Seq(Byte)
         /\ l.currentReadBuffer \in {"null", "held", "freed"}
BY DEF Layer, Byte

\* Only the status of the layer changes.
Restated(l, s) == [l EXCEPT !.status = s]

\* What keeps its fields but the status.
LEMMA RestatedFacts ==
  ASSUME NEW l \in Layer, NEW s \in Statuses
  PROVE  /\ Restated(l, s) \in Layer
         /\ Restated(l, s).status = s
         /\ Restated(l, s).outQueue = l.outQueue
         /\ Restated(l, s).inQueue = l.inQueue
         /\ Restated(l, s).currentWriteMessage = l.currentWriteMessage
         /\ Restated(l, s).currentPointer = l.currentPointer
         /\ Restated(l, s).currentBytesLeft = l.currentBytesLeft
         /\ Restated(l, s).readingHeader = l.readingHeader
         /\ Restated(l, s).got = l.got
         /\ Restated(l, s).currentReadBuffer = l.currentReadBuffer
BY DEF Layer, Restated

\* A message goes to the end of the queue.
LEMMA EnqueuedFacts ==
  ASSUME NEW l \in Layer, NEW m \in Message
  PROVE  /\ Enqueued(l, m) \in Layer
         /\ Enqueued(l, m).status = IF l.status = "Idle" THEN "Writing" ELSE l.status
         /\ Enqueued(l, m).outQueue = Append(l.outQueue, m)
         /\ Enqueued(l, m).inQueue = l.inQueue
         /\ Enqueued(l, m).currentWriteMessage = l.currentWriteMessage
         /\ Enqueued(l, m).currentPointer = l.currentPointer
         /\ Enqueued(l, m).currentBytesLeft = l.currentBytesLeft
         /\ Enqueued(l, m).readingHeader = l.readingHeader
         /\ Enqueued(l, m).got = l.got
         /\ Enqueued(l, m).currentReadBuffer = l.currentReadBuffer
<1>1. Append(l.outQueue, m) \in Seq(Message)
  BY LayerFields, AppendProperties
<1>2. (IF l.status = "Idle" THEN "Writing" ELSE l.status) \in Statuses
  BY LayerFields DEF Statuses
<1> QED
  BY <1>1, <1>2 DEF Layer, Enqueued

\* A layer that reads has its cursor on the message it reads.
LEMMA ReadStartedFacts ==
  ASSUME NEW l \in Layer, Cursor(l), l.status = "Reading"
  PROVE  /\ ReadStarted(l) \in Layer
         /\ ReadStarted(l).status = "Reading"
         /\ ReadStarted(l).outQueue = l.outQueue
         /\ ReadStarted(l).inQueue = l.inQueue
         /\ ReadStarted(l).currentWriteMessage = NoMessage
         /\ l.currentWriteMessage = NoMessage
         /\ Reads(ReadStarted(l))
         /\ ReadStarted(l).currentPointer = "header" =>
              ReadStarted(l).readingHeader /\ ReadStarted(l).currentBytesLeft \in 1 .. HeaderSize
         /\ ReadStarted(l).currentPointer = "body" =>
              /\ ~ReadStarted(l).readingHeader
              /\ ReadStarted(l).currentReadBuffer = "held"
              /\ ReadStarted(l).currentBytesLeft \in 1 .. Max(Sizes) - HeaderSize
         /\ ReadStarted(l).currentBytesLeft \in Nat \ {0}
         /\ ReadStarted(l).got = IF Reads(l) THEN l.got ELSE <<>>
         /\ Reads(l) => ReadStarted(l) = l
         /\ ~Reads(l) => /\ ReadStarted(l).currentPointer = "header"
                         /\ ReadStarted(l).currentBytesLeft = HeaderSize
<1>1. l.currentWriteMessage = NoMessage /\ l.currentPointer # "message"
  BY DEF Cursor
<1>2. CASE l.currentPointer = "null"
  <2> DEFINE x == [l EXCEPT !.currentPointer = "header", !.currentBytesLeft = HeaderSize,
                            !.readingHeader = TRUE, !.got = <<>>]
  <2>1. ReadStarted(l) = x
    BY <1>2 DEF ReadStarted
  <2>2. HeaderSize = 2 /\ <<>> \in Seq(Byte)
    BY EmptySeq DEF HeaderSize
  <2>3. x \in Layer
    BY <2>2 DEF Layer, Byte
  <2>4. /\ x.status = l.status /\ x.outQueue = l.outQueue /\ x.inQueue = l.inQueue
        /\ x.currentWriteMessage = l.currentWriteMessage
        /\ x.currentPointer = "header" /\ x.currentBytesLeft = HeaderSize
        /\ x.readingHeader = TRUE /\ x.got = <<>>
    BY DEF Layer
  <2>5. Reads(x) /\ ~Reads(l)
    BY <1>2, <2>4 DEF Reads
  <2> HIDE DEF x
  <2> QED
    BY <1>1, <2>1, <2>2, <2>3, <2>4, <2>5
<1>3. CASE l.currentPointer # "null"
  <2>1. ReadStarted(l) = l /\ Reads(l)
    BY <1>1, <1>3, LayerFields DEF ReadStarted, Reads
  <2>2. l.currentPointer = "header" => l.readingHeader /\ l.currentBytesLeft \in 1 .. HeaderSize
    BY DEF Cursor
  <2>3. l.currentPointer = "body" => /\ ~l.readingHeader /\ l.currentReadBuffer = "held"
                                     /\ l.currentBytesLeft \in 1 .. Max(Sizes) - HeaderSize
    BY DEF Cursor
  <2>4. l.currentBytesLeft \in Nat \ {0}
    BY <2>1, <2>2, <2>3, LayerFields DEF Reads
  <2> QED
    BY <1>1, <2>1, <2>2, <2>3, <2>4
<1> QED
  BY <1>2, <1>3

\* The layer after it has read n of the bytes that came in.
Filled(l, in, n) == [l EXCEPT !.got = @ \o SubSeq(in, 1, n), !.currentBytesLeft = @ - n]

\* The buffer grows by what the stream loses.
LEMMA FilledFacts ==
  ASSUME NEW l \in Layer, NEW in \in Seq(Byte), NEW n \in Nat, n >= 1, n <= Len(in),
         n <= l.currentBytesLeft
  PROVE  /\ Filled(l, in, n) \in Layer
         /\ Filled(l, in, n).status = l.status
         /\ Filled(l, in, n).outQueue = l.outQueue
         /\ Filled(l, in, n).inQueue = l.inQueue
         /\ Filled(l, in, n).currentWriteMessage = l.currentWriteMessage
         /\ Filled(l, in, n).currentPointer = l.currentPointer
         /\ Filled(l, in, n).currentBytesLeft = l.currentBytesLeft - n
         /\ Filled(l, in, n).readingHeader = l.readingHeader
         /\ Filled(l, in, n).got = l.got \o SubSeq(in, 1, n)
         /\ Filled(l, in, n).currentReadBuffer = l.currentReadBuffer
         /\ Filled(l, in, n).got # <<>>
<1>1. SubSeq(in, 1, n) \in Seq(Byte) /\ Len(SubSeq(in, 1, n)) = n
  BY LenProperties, SubSeqProperties
<1>2. l.got \in Seq(Byte) /\ l.currentBytesLeft \in Nat
  BY LayerFields
<1>3. /\ l.got \o SubSeq(in, 1, n) \in Seq(Byte)
      /\ Len(l.got \o SubSeq(in, 1, n)) = Len(l.got) + n
  BY <1>1, <1>2, ConcatProperties
<1>4. l.got \o SubSeq(in, 1, n) # <<>>
  BY <1>2, <1>3, LenProperties, EmptySeq
<1>5. l.currentBytesLeft - n \in Nat
  BY <1>2
<1>6. Filled(l, in, n) \in Layer
  <2> DEFINE g == l.got \o SubSeq(in, 1, n)
             b == l.currentBytesLeft - n
  <2>1. g \in Seq([msg : Message, pos : Nat]) /\ b \in Nat
    BY <1>3, <1>5 DEF Byte
  <2>2. Filled(l, in, n) = [l EXCEPT !.got = g, !.currentBytesLeft = b]
    BY DEF Filled, Layer
  <2> HIDE DEF g, b
  <2> QED
    BY <2>1, <2>2 DEF Layer
<1>7. /\ Filled(l, in, n).status = l.status
      /\ Filled(l, in, n).outQueue = l.outQueue
      /\ Filled(l, in, n).inQueue = l.inQueue
      /\ Filled(l, in, n).currentWriteMessage = l.currentWriteMessage
      /\ Filled(l, in, n).currentPointer = l.currentPointer
      /\ Filled(l, in, n).currentBytesLeft = l.currentBytesLeft - n
      /\ Filled(l, in, n).readingHeader = l.readingHeader
      /\ Filled(l, in, n).got = l.got \o SubSeq(in, 1, n)
      /\ Filled(l, in, n).currentReadBuffer = l.currentReadBuffer
  BY DEF Filled, Layer
<1> QED
  BY <1>4, <1>6, <1>7

\* A buffer that is not empty holds a message or garbage.
LEMMA DecodedFacts ==
  ASSUME NEW g \in Seq(Byte), g # <<>>
  PROVE  /\ Decoded(g) \in Message \cup {Garbage}
         /\ Decoded(g) # Garbage => Decoded(g) = g[1].msg /\ g = Bytes(g[1].msg)
<1>1. g[1] \in Byte
  BY EmptySeq, LenProperties, ElementOfSeq
<1>2. g[1].msg \in Message
  BY <1>1 DEF Byte
<1> QED
  BY <1>2 DEF Decoded

\* A message is in the queue, and the cursor is free.
LEMMA FinishedFacts ==
  ASSUME NEW l \in Layer, l.got # <<>>
  PROVE  /\ Finished(l) \in Layer
         /\ Finished(l).status = "Idle"
         /\ Finished(l).outQueue = l.outQueue
         /\ Finished(l).inQueue = Append(l.inQueue, Decoded(l.got))
         /\ Finished(l).currentWriteMessage = l.currentWriteMessage
         /\ Finished(l).currentPointer = "null"
<1> DEFINE q == Append(l.inQueue, Decoded(l.got))
<1>1. l.got \in Seq(Byte) /\ l.inQueue \in Seq(Message \cup {Garbage})
  BY LayerFields
<1>2. q \in Seq(Message \cup {Garbage}) /\ <<>> \in Seq([msg : Message, pos : Nat])
  BY <1>1, DecodedFacts, AppendProperties, EmptySeq
<1>3. Finished(l) = [l EXCEPT !.inQueue = q, !.currentReadBuffer = "null",
              !.currentBytesLeft = 0, !.currentPointer = "null", !.got = <<>>,
              !.status = "Idle"]
  BY DEF Finished, Layer
<1> HIDE DEF q
<1>4. Finished(l) \in Layer
  <2> DEFINE x == [l EXCEPT !.inQueue = q, !.currentReadBuffer = "null", !.got = <<>>]
  <2>1. x \in Layer
    BY <1>2 DEF Layer
  <2>2. Finished(l) = [x EXCEPT !.currentBytesLeft = 0, !.currentPointer = "null",
                                !.status = "Idle"]
    BY <1>3 DEF Layer
  <2> HIDE DEF x
  <2>3. [x EXCEPT !.currentBytesLeft = 0, !.currentPointer = "null"] \in Layer
    BY <2>1 DEF Layer
  <2>4. Finished(l) = Restated([x EXCEPT !.currentBytesLeft = 0, !.currentPointer = "null"],
                               "Idle")
    BY <2>2 DEF Restated
  <2>5. "Idle" \in Statuses
    BY DEF Statuses
  <2> QED
    BY <2>3, <2>4, <2>5, RestatedFacts
<1>5. /\ Finished(l).status = "Idle"
      /\ Finished(l).outQueue = l.outQueue
      /\ Finished(l).inQueue = q
      /\ Finished(l).currentWriteMessage = l.currentWriteMessage
      /\ Finished(l).currentPointer = "null"
  BY <1>3 DEF Layer
<1> QED
  BY <1>4, <1>5 DEF q

\* The connection ends, or the rest of the message is still to come, or there is
\* no rest.
LEMMA HeaderReadFacts ==
  ASSUME NEW l \in Layer, l.got # <<>>, NEW size \in Nat
  PROVE  /\ HeaderRead(l, size) \in Layer
         /\ HeaderRead(l, size).outQueue = l.outQueue
         /\ HeaderRead(l, size).currentWriteMessage = l.currentWriteMessage
         /\ \/ /\ size < HeaderSize \/ size > Max(Sizes)
               /\ HeaderRead(l, size).status = "Disconnected"
               /\ HeaderRead(l, size).currentPointer = "null"
               /\ HeaderRead(l, size).inQueue = l.inQueue
            \/ /\ size = HeaderSize
               /\ HeaderRead(l, size).status = "Idle"
               /\ HeaderRead(l, size).currentPointer = "null"
               /\ HeaderRead(l, size).inQueue = Append(l.inQueue, Decoded(l.got))
            \/ /\ size > HeaderSize /\ size <= Max(Sizes)
               /\ HeaderRead(l, size).status = l.status
               /\ HeaderRead(l, size).currentPointer = "body"
               /\ HeaderRead(l, size).currentBytesLeft = size - HeaderSize
               /\ ~HeaderRead(l, size).readingHeader
               /\ HeaderRead(l, size).currentReadBuffer = "held"
               /\ HeaderRead(l, size).got = l.got
               /\ HeaderRead(l, size).inQueue = l.inQueue
<1>1. Max(Sizes) \in Nat /\ HeaderSize = 2
  BY SizeFacts DEF HeaderSize
<1>2. CASE size < HeaderSize \/ size > Max(Sizes)
  <2>1. HeaderRead(l, size) = [Closed(l) EXCEPT !.currentPointer = "null"]
    BY <1>2 DEF HeaderRead
  <2>2. /\ [Closed(l) EXCEPT !.currentPointer = "null"] \in Layer
        /\ [Closed(l) EXCEPT !.currentPointer = "null"].outQueue = l.outQueue
        /\ [Closed(l) EXCEPT !.currentPointer = "null"].inQueue = l.inQueue
        /\ [Closed(l) EXCEPT !.currentPointer = "null"].currentWriteMessage
             = l.currentWriteMessage
        /\ [Closed(l) EXCEPT !.currentPointer = "null"].status = "Disconnected"
        /\ [Closed(l) EXCEPT !.currentPointer = "null"].currentPointer = "null"
    BY DEF Closed, Layer, Statuses
  <2> QED
    BY <1>2, <2>1, <2>2
<1>3. CASE ~(size < HeaderSize \/ size > Max(Sizes))
  <2> DEFINE left == size - HeaderSize
             body == [l EXCEPT !.readingHeader = FALSE, !.currentReadBuffer = "held",
                               !.currentPointer = "body", !.currentBytesLeft = left]
  <2>1. HeaderRead(l, size) = IF size = HeaderSize THEN Finished(body) ELSE body
    BY <1>3 DEF HeaderRead
  <2>2. left \in Nat
    BY <1>1, <1>3
  <2>3. size # HeaderSize => size > HeaderSize /\ size <= Max(Sizes)
    BY <1>1, <1>3
  <2> HIDE DEF left
  <2>4. body \in Layer
    BY <2>2 DEF Layer
  <2>5. /\ body.outQueue = l.outQueue /\ body.inQueue = l.inQueue
        /\ body.currentWriteMessage = l.currentWriteMessage /\ body.status = l.status
        /\ body.got = l.got /\ body.currentReadBuffer = "held"
        /\ ~body.readingHeader /\ body.currentPointer = "body"
        /\ body.currentBytesLeft = left
    BY DEF Layer
  <2> HIDE DEF body
  <2>6. CASE size = HeaderSize
    BY <2>1, <2>4, <2>5, <2>6, FinishedFacts
  <2>7. CASE size # HeaderSize
    BY <2>1, <2>3, <2>4, <2>5, <2>7 DEF left
  <2> QED
    BY <2>6, <2>7
<1> QED
  BY <1>2, <1>3

\* An end of a stream, or an error, frees the cursor.
Abandoned(l) ==
  [Closed(l) EXCEPT !.currentPointer = "null",
                    !.currentReadBuffer = IF @ = "null" THEN "null" ELSE "freed"]

\* What is left of the layer.
LEMMA AbandonedFacts ==
  ASSUME NEW l \in Layer
  PROVE  /\ Abandoned(l) \in Layer
         /\ Abandoned(l).status = "Disconnected"
         /\ Abandoned(l).outQueue = l.outQueue
         /\ Abandoned(l).inQueue = l.inQueue
         /\ Abandoned(l).currentWriteMessage = l.currentWriteMessage
         /\ Abandoned(l).currentPointer = "null"
<1> DEFINE b == IF l.currentReadBuffer = "null" THEN "null" ELSE "freed"
<1>1. b \in {"null", "held", "freed"}
  OBVIOUS
<1>2. Abandoned(l) = [l EXCEPT !.status = "Disconnected", !.currentPointer = "null",
                               !.currentReadBuffer = b]
  BY DEF Abandoned, Closed, Layer
<1> HIDE DEF b
<1> QED
  BY <1>1, <1>2 DEF Layer, Statuses

\* A layer that writes has its cursor on a message, and the code lost what was
\* behind that message in the queue.
LEMMA WriteStartedFacts ==
  ASSUME NEW l \in Layer, Cursor(l), l.currentWriteMessage # NoMessage \/ l.outQueue # <<>>
  PROVE  /\ WriteStarted(l) \in Layer
         /\ WriteStarted(l).status = l.status
         /\ WriteStarted(l).inQueue = l.inQueue
         /\ WriteStarted(l).currentWriteMessage \in Message
         /\ WriteStarted(l).currentPointer = "message"
         /\ WriteStarted(l).currentBytesLeft
              \in 1 .. WriteStarted(l).currentWriteMessage.size
         /\ WriteStarted(l).got = l.got
         /\ \/ l.currentWriteMessage # NoMessage /\ WriteStarted(l) = l
            \/ /\ l.currentWriteMessage = NoMessage
               /\ l.outQueue # <<>>
               /\ WriteStarted(l).outQueue = <<>>
               /\ WriteStarted(l).currentWriteMessage = l.outQueue[1]
               /\ WriteStarted(l).currentBytesLeft = l.outQueue[1].size
<1>1. l.currentWriteMessage \in Message \cup {NoMessage} /\ l.outQueue \in Seq(Message)
  BY LayerFields
<1>2. CASE l.currentWriteMessage # NoMessage
  <2>1. WriteStarted(l) = l
    BY <1>2 DEF WriteStarted
  <2>2. l.currentPointer = "message" /\ l.currentBytesLeft \in 1 .. l.currentWriteMessage.size
    BY <1>2 DEF Cursor
  <2> QED
    BY <1>1, <1>2, <2>1, <2>2
<1>3. CASE l.currentWriteMessage = NoMessage
  <2> DEFINE m == l.outQueue[1]
             left == m.size
             rest == SubSeq(l.outQueue, 1, 1 - 1)
             x == [l EXCEPT !.currentWriteMessage = m, !.outQueue = rest,
                            !.currentPointer = "message", !.currentBytesLeft = left]
  <2>1. l.outQueue # <<>>
    BY <1>3
  <2>2. m \in Message /\ Head(l.outQueue) = m
    BY <1>1, <2>1, EmptySeq, LenProperties, ElementOfSeq, HeadTailProperties
  <2>3. left \in 1 .. left /\ left \in Nat
    BY <2>2, MessageFacts
  <2>4. rest = <<>> /\ <<>> \in Seq(Message)
    BY <1>1, SubSeqProperties, EmptySeq, LenProperties
  <2>5. WriteStarted(l) = x
    BY <1>3, <2>2 DEF WriteStarted, RemoveMessage
  <2> HIDE DEF m, left, rest
  <2>6. x \in Layer
    <3> DEFINE y == [l EXCEPT !.currentWriteMessage = m, !.outQueue = rest]
    <3>1. y \in Layer
      BY <2>2, <2>4 DEF Layer
    <3>2. x = [y EXCEPT !.currentPointer = "message", !.currentBytesLeft = left]
      BY DEF Layer
    <3> HIDE DEF y
    <3> QED
      BY <3>1, <3>2, <2>3 DEF Layer
  <2>7. /\ x.status = l.status /\ x.inQueue = l.inQueue /\ x.currentWriteMessage = m
        /\ x.currentPointer = "message" /\ x.currentBytesLeft = left /\ x.got = l.got
        /\ x.outQueue = rest
    BY DEF Layer
  <2> HIDE DEF x
  <2>8. x.currentBytesLeft \in 1 .. x.currentWriteMessage.size
    BY <2>3, <2>7 DEF left
  <2> QED
    BY <1>3, <2>1, <2>2, <2>4, <2>5, <2>6, <2>7, <2>8 DEF m, left
<1> QED
  BY <1>2, <1>3

\* The layer after it has written n bytes of its message.
Advanced(l, n) == Written([l EXCEPT !.currentBytesLeft = @ - n])

\* The message has fewer bytes to write, or none, and then it is done with.
LEMMA AdvancedFacts ==
  ASSUME NEW l \in Layer, NEW n \in 1 .. l.currentBytesLeft
  PROVE  /\ Advanced(l, n) \in Layer
         /\ Advanced(l, n).outQueue = l.outQueue
         /\ Advanced(l, n).inQueue = l.inQueue
         /\ Advanced(l, n).got = l.got
         /\ \/ /\ n < l.currentBytesLeft
               /\ Advanced(l, n).status = l.status
               /\ Advanced(l, n).currentWriteMessage = l.currentWriteMessage
               /\ Advanced(l, n).currentPointer = l.currentPointer
               /\ Advanced(l, n).currentBytesLeft = l.currentBytesLeft - n
            \/ /\ n = l.currentBytesLeft
               /\ Advanced(l, n).status = "Idle"
               /\ Advanced(l, n).currentWriteMessage = NoMessage
               /\ Advanced(l, n).currentPointer = "null"
<1> DEFINE left == l.currentBytesLeft - n
           x == [l EXCEPT !.currentBytesLeft = left]
<1>1. l.currentBytesLeft \in Nat
  BY LayerFields
<1>2. left \in Nat /\ (left > 0 <=> n < l.currentBytesLeft) /\ (left = 0 <=> n = l.currentBytesLeft)
  BY <1>1
<1>3. Advanced(l, n) = Written(x)
  BY DEF Advanced, Layer
<1> HIDE DEF left
<1>4. /\ x \in Layer
      /\ x.status = l.status /\ x.outQueue = l.outQueue /\ x.inQueue = l.inQueue
      /\ x.currentWriteMessage = l.currentWriteMessage
      /\ x.currentPointer = l.currentPointer /\ x.currentBytesLeft = left
      /\ x.got = l.got
  BY <1>2 DEF Layer
<1> HIDE DEF x
<1>5. CASE left > 0
  <2>1. Written(x) = x
    BY <1>4, <1>5 DEF Written
  <2> QED
    BY <1>2, <1>3, <1>4, <1>5, <2>1 DEF left
<1>6. CASE left = 0
  <2> DEFINE y == [x EXCEPT !.currentWriteMessage = NoMessage, !.currentPointer = "null",
                            !.status = "Idle"]
  <2>1. Written(x) = y
    BY <1>4, <1>6 DEF Written
  <2>2. y \in Layer
    BY <1>4 DEF Layer, Statuses
  <2>3. /\ y.status = "Idle" /\ y.outQueue = x.outQueue /\ y.inQueue = x.inQueue
        /\ y.currentWriteMessage = NoMessage /\ y.currentPointer = "null" /\ y.got = x.got
    BY <1>4 DEF Layer
  <2> HIDE DEF y
  <2> QED
    BY <1>2, <1>3, <1>4, <1>6, <2>1, <2>2, <2>3
<1> QED
  BY <1>2, <1>5, <1>6

-----------------------------------------------------------------------------
(* The cursor.                                                             *)

\* A step that leaves the cursor alone and gives the layer a status that fits.
LEMMA CursorKept ==
  ASSUME NEW l \in Layer, NEW x \in Layer, Cursor(l),
         x.currentWriteMessage = l.currentWriteMessage,
         x.currentPointer = l.currentPointer,
         x.currentBytesLeft = l.currentBytesLeft,
         x.readingHeader = l.readingHeader,
         x.currentReadBuffer = l.currentReadBuffer,
         x.status = "Writing" => l.currentWriteMessage # NoMessage \/ x.outQueue # <<>>,
         x.status \in {"Idle", "Connecting"} =>
           l.currentWriteMessage = NoMessage \/ x.outQueue # <<>>,
         x.status = "Reading" => l.currentPointer # "message"
  PROVE  Cursor(x)
BY DEF Cursor

\* A layer that has no message to write and reads none.
LEMMA CursorFree ==
  ASSUME NEW x \in Layer, x.currentWriteMessage = NoMessage, x.currentPointer = "null",
         x.status # "Writing"
  PROVE  Cursor(x)
BY DEF Cursor

\* A step of one layer.
LEMMA PutKeeps ==
  ASSUME layer \in [Ends -> Layer], Cursors,
         NEW e \in Ends, NEW x \in Layer, Cursor(x), layer' = [layer EXCEPT ![e] = x]
  PROVE  /\ layer' \in [Ends -> Layer]
         /\ Cursors'
         /\ layer'[e] = x
         /\ \A f \in Ends : f # e => layer'[f] = layer[f]
<1>1. layer' \in [Ends -> Layer] /\ layer'[e] = x /\ \A f \in Ends : f # e => layer'[f] = layer[f]
  OBVIOUS
<1>2. \A f \in Ends : Cursor(layer'[f])
  BY <1>1 DEF Cursors
<1>3. Cursors' = (\A f \in Ends : Cursor(layer'[f]))
  BY DEF Cursors, Cursor
<1> QED
  BY <1>1, <1>2, <1>3

\* A step of a layer that is in use, on connections that are.
LEMMA UnusedKept ==
  ASSUME layer \in [Ends -> Layer], conn \in 0 .. MaxConnects, Unused,
         NEW e \in Ends, NEW x \in Layer, layer' = [layer EXCEPT ![e] = x],
         Status(e) # "None", x.status # "None", e = Client => conn # 0,
         conn' = conn, link' = link,
         \A k \in Conns : k > conn => wire'[k] = wire[k],
         \A k \in Conns : k # e => taken'[k] = taken[k]
  PROVE  Unused'
<1>1. layer'[e] = x /\ \A f \in Ends : f # e => layer'[f] = layer[f]
  OBVIOUS
<1>2. ASSUME conn' = 0
      PROVE  Status(Client)' = "Disconnected" /\ Blank(layer[Client])'
  BY <1>1, <1>2, Bounds DEF Unused, Status, Blank
<1>3. ASSUME NEW k \in Conns, Status(k)' = "None"
      PROVE  Blank(layer[k])' /\ taken'[k] = <<>>
  <2>1. k # e /\ layer'[k] = layer[k]
    BY <1>1, <1>3, Bounds DEF Status
  <2>2. Status(k) = "None"
    BY <1>3, <2>1 DEF Status
  <2> QED
    BY <2>1, <2>2 DEF Unused, Blank
<1>4. ASSUME NEW k \in Conns, k > conn'
      PROVE  /\ Status(k)' = "None" /\ link'[k] = "none"
             /\ \A d \in Directions : wire'[k][d] = <<>>
  <2>1. Status(k) = "None" /\ k # e
    BY <1>4 DEF Unused
  <2>2. layer'[k] = layer[k]
    BY <1>1, <2>1, Bounds
  <2> QED
    BY <1>4, <2>1, <2>2 DEF Unused, Status
<1> QED
  BY <1>2, <1>3, <1>4 DEF Unused

-----------------------------------------------------------------------------
(* Steps that read and write.                                              *)

\* A layer in use has a connection, and the connection has streams.
LEMMA Connected ==
  ASSUME Types, Unused, NEW e \in Ends, Status(e) # "None", e = Client => conn # 0
  PROVE  /\ ConnOf(e) \in Conns /\ ConnOf(e) <= conn
         /\ InDir(e) \in Directions /\ OutDir(e) \in Directions
         /\ InDir(e) # OutDir(e)
         /\ Incoming(e) \in Seq(Byte) /\ Outgoing(e) \in Seq(Byte)
<1>1. ConnOf(e) \in Conns /\ ConnOf(e) <= conn
  <2>1. CASE e = Client
    BY <2>1, Bounds DEF ConnOf, Types
  <2>2. CASE e # Client
    BY <2>2, Bounds DEF ConnOf, Types, Unused
  <2> QED
    BY <2>1, <2>2
<1>2. /\ InDir(e) \in Directions /\ OutDir(e) \in Directions
      /\ InDir(e) # OutDir(e)
  BY DEF InDir, OutDir, Directions
<1> QED
  BY <1>1, <1>2 DEF Types, Incoming, Outgoing

\* What becomes of a layer r that has read.
ReadOutcome(r, x) ==
  \/ r.currentBytesLeft > 0 /\ x = r
  \/ /\ r.currentBytesLeft = 0 /\ r.readingHeader
     /\ \E size \in DeclaredSizes(r.got) : x = HeaderRead(r, size)
  \/ r.currentBytesLeft = 0 /\ ~r.readingHeader /\ x = Finished(r)

\* The sizes a header declares are numbers.
LEMMA DeclaredNumbers ==
  ASSUME NEW g \in Seq(Byte), g # <<>>
  PROVE  DeclaredSizes(g) \subseteq Nat
<1>1. g[1] \in Byte
  BY EmptySeq, LenProperties, ElementOfSeq
<1>2. g[1].msg.size \in Nat
  BY <1>1, MessageFacts DEF Byte
<1>3. Max(Sizes) \in Nat
  BY SizeFacts
<1> QED
  BY <1>2, <1>3 DEF DeclaredSizes

\* The layer r that has read some bytes, and what becomes of it.
LEMMA OutcomeFacts ==
  ASSUME NEW r \in Layer, NEW x, ReadOutcome(r, x), r.got # <<>>,
         r.status = "Reading", r.currentWriteMessage = NoMessage, Reads(r),
         r.currentPointer = "header" => r.readingHeader,
         r.currentPointer = "header" => r.currentBytesLeft <= HeaderSize,
         r.currentPointer = "body" =>
           /\ ~r.readingHeader /\ r.currentReadBuffer = "held"
           /\ r.currentBytesLeft <= Max(Sizes) - HeaderSize
  PROVE  /\ x \in Layer
         /\ Cursor(x)
         /\ x.outQueue = r.outQueue /\ x.currentWriteMessage = NoMessage
         /\ x.status \in {"Reading", "Idle", "Disconnected"}
         /\ \/ Reads(x) /\ x.status = "Reading" /\ x.got = r.got /\ x.inQueue = r.inQueue
            \/ ~Reads(x) /\ x.status = "Disconnected" /\ x.inQueue = r.inQueue
            \/ ~Reads(x) /\ x.status = "Idle" /\ x.inQueue = Append(r.inQueue, Decoded(r.got))
<1> USE DEF Reads
<1>1. HeaderSize = 2 /\ Max(Sizes) \in Nat
  BY SizeFacts DEF HeaderSize
<1>2. r.currentBytesLeft \in Nat /\ r.got \in Seq(Byte)
  BY LayerFields
<1>3. CASE r.currentBytesLeft > 0 /\ x = r
  <2>1. r.currentPointer = "header" => r.currentBytesLeft \in 1 .. HeaderSize
    BY <1>1, <1>2, <1>3
  <2>2. r.currentPointer = "body" => r.currentBytesLeft \in 1 .. Max(Sizes) - HeaderSize
    BY <1>1, <1>2, <1>3
  <2>3. Cursor(r)
    BY <2>1, <2>2 DEF Cursor
  <2> QED
    BY <1>3, <2>3
<1>4. CASE r.currentBytesLeft = 0 /\ ~r.readingHeader /\ x = Finished(r)
  <2>1. Cursor(x)
    BY <1>4, FinishedFacts, CursorFree
  <2> QED
    BY <1>4, <2>1, FinishedFacts
<1>5. CASE r.currentBytesLeft = 0 /\ r.readingHeader
           /\ \E size \in DeclaredSizes(r.got) : x = HeaderRead(r, size)
  <2>1. PICK size \in Nat : x = HeaderRead(r, size)
    BY <1>2, <1>5, DeclaredNumbers
  <2>2. CASE size < HeaderSize \/ size > Max(Sizes)
    <3>1. /\ x \in Layer /\ x.outQueue = r.outQueue /\ x.currentWriteMessage = NoMessage
          /\ x.status = "Disconnected" /\ x.currentPointer = "null"
          /\ x.inQueue = r.inQueue
      <4>1. size # HeaderSize /\ ~(size > HeaderSize /\ size <= Max(Sizes))
        BY <1>1, <2>2, SizeFacts
      <4> QED
        BY <2>1, <4>1, HeaderReadFacts
    <3>2. Cursor(x)
      BY <3>1, CursorFree
    <3> QED
      BY <3>1, <3>2
  <2>3. CASE size = HeaderSize
    <3>1. /\ x \in Layer /\ x.outQueue = r.outQueue /\ x.currentWriteMessage = NoMessage
          /\ x.status = "Idle" /\ x.currentPointer = "null"
          /\ x.inQueue = Append(r.inQueue, Decoded(r.got))
      <4>1. ~(size < HeaderSize \/ size > Max(Sizes))
        BY <1>1, <2>3, SizeFacts
      <4> QED
        BY <1>1, <2>1, <2>3, <4>1, HeaderReadFacts
    <3>2. Cursor(x)
      BY <3>1, CursorFree
    <3> QED
      BY <3>1, <3>2
  <2>4. CASE size > HeaderSize /\ size <= Max(Sizes)
    <3>1. /\ x \in Layer /\ x.outQueue = r.outQueue /\ x.currentWriteMessage = NoMessage
          /\ x.status = "Reading" /\ x.currentPointer = "body"
          /\ x.currentBytesLeft = size - HeaderSize
          /\ ~x.readingHeader /\ x.currentReadBuffer = "held"
          /\ x.got = r.got /\ x.inQueue = r.inQueue
      BY <1>1, <2>1, <2>4, HeaderReadFacts
    <3>2. x.currentBytesLeft \in 1 .. Max(Sizes) - HeaderSize
      BY <1>1, <2>4, <3>1
    <3>3. Cursor(x)
      BY <3>1, <3>2 DEF Cursor
    <3> QED
      BY <3>1, <3>3
  <2> QED
    BY <1>1, <2>2, <2>3, <2>4
<1> QED
  BY <1>3, <1>4, <1>5 DEF ReadOutcome

\* The stream without its first n bytes.
Drained(e, n) ==
  [wire EXCEPT ![ConnOf(e)][InDir(e)] = SubSeq(@, n + 1, Len(@))]

\* Reading moves bytes from the stream to the layer.
LEMMA ReadStep ==
  ASSUME CInv, NEW e \in Ends, Read(e)
  PROVE  \E n \in Nat, x \in Layer :
           LET l == ReadStarted(layer[e])
               r == Filled(l, Incoming(e), n)
           IN  /\ n >= 1 /\ n <= l.currentBytesLeft /\ n <= Len(Incoming(e))
               /\ ConnOf(e) \in Conns /\ ConnOf(e) <= conn
               /\ r \in Layer
               /\ ReadOutcome(r, x)
               /\ Cursor(x)
               /\ x.outQueue = layer[e].outQueue
               /\ x.currentWriteMessage = NoMessage
               /\ layer[e].currentWriteMessage = NoMessage
               /\ x.status \in {"Reading", "Idle", "Disconnected"}
               /\ \/ /\ Reads(x) /\ x.status = "Reading" /\ x.got = r.got
                     /\ x.inQueue = layer[e].inQueue
                  \/ /\ ~Reads(x) /\ x.status = "Disconnected"
                     /\ x.inQueue = layer[e].inQueue
                  \/ /\ ~Reads(x) /\ x.status = "Idle"
                     /\ x.inQueue = Append(layer[e].inQueue, Decoded(r.got))
               /\ layer' = [layer EXCEPT ![e] = x]
               /\ wire' = Drained(e, n)
<1> DEFINE l == ReadStarted(layer[e])
           in == Incoming(e)
<1>1. layer[e] \in Layer /\ Cursor(layer[e]) /\ layer[e].status = "Reading"
  BY DEF CInv, Types, Cursors, Read, Status
<1>2. e = Client => conn # 0
  BY <1>1 DEF CInv, Unused, Status
<1>3. ConnOf(e) \in Conns /\ ConnOf(e) <= conn /\ in \in Seq(Byte)
  BY <1>1, <1>2, Connected DEF CInv, Status
<1>4. /\ l \in Layer /\ l.status = "Reading" /\ l.outQueue = layer[e].outQueue
      /\ l.inQueue = layer[e].inQueue /\ l.currentWriteMessage = NoMessage
      /\ layer[e].currentWriteMessage = NoMessage
      /\ Reads(l)
      /\ l.currentPointer = "header" => l.readingHeader /\ l.currentBytesLeft \in 1 .. HeaderSize
      /\ l.currentPointer = "body" => /\ ~l.readingHeader /\ l.currentReadBuffer = "held"
                                      /\ l.currentBytesLeft \in 1 .. Max(Sizes) - HeaderSize
      /\ l.currentBytesLeft \in Nat \ {0}
  BY <1>1, ReadStartedFacts
<1>5. PICK n \in 1 .. Min({l.currentBytesLeft, Len(in)}) :
        /\ wire' = Drained(e, n)
        /\ \/ Filled(l, in, n).currentBytesLeft > 0 /\ Put(e, Filled(l, in, n))
           \/ /\ Filled(l, in, n).currentBytesLeft = 0 /\ Filled(l, in, n).readingHeader
              /\ \E size \in DeclaredSizes(Filled(l, in, n).got) :
                   Put(e, HeaderRead(Filled(l, in, n), size))
           \/ /\ Filled(l, in, n).currentBytesLeft = 0 /\ ~Filled(l, in, n).readingHeader
              /\ Put(e, Finished(Filled(l, in, n)))
  BY DEF Read, Filled, Drained
<1> HIDE DEF l, in
<1> DEFINE r == Filled(l, in, n)
<1>6. n \in Nat /\ n >= 1 /\ n <= l.currentBytesLeft /\ n <= Len(in)
  <2>1. Len(in) \in Nat
    BY <1>3, LenProperties
  <2>2. /\ Min({l.currentBytesLeft, Len(in)}) <= l.currentBytesLeft
        /\ Min({l.currentBytesLeft, Len(in)}) <= Len(in)
        /\ Min({l.currentBytesLeft, Len(in)}) \in Nat
    BY <1>4, <2>1, OfTwo
  <2>3. n \in Nat /\ n >= 1 /\ n <= Min({l.currentBytesLeft, Len(in)})
    BY <2>2
  <2> QED
    BY <1>4, <2>1, <2>2, <2>3
<1>7. /\ r \in Layer
      /\ r.status = l.status /\ r.outQueue = l.outQueue /\ r.inQueue = l.inQueue
      /\ r.currentWriteMessage = l.currentWriteMessage
      /\ r.currentPointer = l.currentPointer
      /\ r.currentBytesLeft = l.currentBytesLeft - n
      /\ r.readingHeader = l.readingHeader
      /\ r.currentReadBuffer = l.currentReadBuffer
      /\ r.got # <<>>
  BY <1>3, <1>4, <1>6, FilledFacts
<1>8. PICK x : layer' = [layer EXCEPT ![e] = x] /\ ReadOutcome(r, x)
  BY <1>5 DEF ReadOutcome, Put
<1>9. r.currentBytesLeft <= l.currentBytesLeft
  BY <1>4, <1>6, <1>7
<1>10. Reads(r)
  BY <1>4, <1>7 DEF Reads
<1>11. /\ r.currentPointer = "header" => r.readingHeader
       /\ r.currentPointer = "header" => r.currentBytesLeft <= HeaderSize
       /\ r.currentPointer = "body" =>
            /\ ~r.readingHeader /\ r.currentReadBuffer = "held"
            /\ r.currentBytesLeft <= Max(Sizes) - HeaderSize
  <2>1. HeaderSize = 2 /\ Max(Sizes) \in Nat /\ r.currentBytesLeft \in Nat
    BY <1>7, SizeFacts, LayerFields DEF HeaderSize
  <2> QED
    BY <1>4, <1>7, <1>9, <2>1
<1> HIDE DEF r
<1>12. /\ x \in Layer
       /\ Cursor(x)
       /\ x.outQueue = r.outQueue /\ x.currentWriteMessage = NoMessage
       /\ x.status \in {"Reading", "Idle", "Disconnected"}
       /\ \/ Reads(x) /\ x.status = "Reading" /\ x.got = r.got /\ x.inQueue = r.inQueue
          \/ ~Reads(x) /\ x.status = "Disconnected" /\ x.inQueue = r.inQueue
          \/ ~Reads(x) /\ x.status = "Idle" /\ x.inQueue = Append(r.inQueue, Decoded(r.got))
  BY <1>4, <1>7, <1>8, <1>10, <1>11, OutcomeFacts
<1>13. /\ x.outQueue = layer[e].outQueue
       /\ \/ Reads(x) /\ x.status = "Reading" /\ x.got = r.got /\ x.inQueue = layer[e].inQueue
          \/ ~Reads(x) /\ x.status = "Disconnected" /\ x.inQueue = layer[e].inQueue
          \/ /\ ~Reads(x) /\ x.status = "Idle"
             /\ x.inQueue = Append(layer[e].inQueue, Decoded(r.got))
  BY <1>4, <1>7, <1>12
<1> QED
  BY <1>3, <1>4, <1>5, <1>6, <1>7, <1>8, <1>12, <1>13 DEF l, in, r

\* A piece of a message.
LEMMA PieceFacts ==
  ASSUME NEW m \in Message, NEW a \in Nat, NEW n \in Nat, a + n <= m.size
  PROVE  /\ SubSeq(Bytes(m), a + 1, a + n) \in Seq(Byte)
         /\ Len(SubSeq(Bytes(m), a + 1, a + n)) = n
         /\ \A i \in 1 .. n : SubSeq(Bytes(m), a + 1, a + n)[i] = [msg |-> m, pos |-> a + i]
<1>1. m.size \in Nat
  BY MessageFacts
<1>2. Bytes(m) \in [1 .. m.size -> Byte]
  BY <1>1 DEF Bytes, Byte
<1>3. \A i \in 1 .. m.size : Bytes(m)[i] = [msg |-> m, pos |-> i] /\ Bytes(m)[i] \in Byte
  BY <1>1, <1>2 DEF Bytes
<1> DEFINE b == Bytes(m)
           first == a + 1
           last == a + n
<1>4. /\ first \in Int /\ last \in Int
      /\ last - first + 1 = n /\ (first <= last \/ n = 0)
      /\ \A i \in 1 .. n : first + i - 1 = a + i /\ a + i \in 1 .. m.size
      /\ \A i \in first .. last : i \in 1 .. m.size
  BY <1>1
<1>5. \A i \in first .. last : b[i] \in Byte
  BY <1>3, <1>4
<1> HIDE DEF b, first, last
<1>6. /\ SubSeq(b, first, last) \in Seq(Byte)
      /\ Len(SubSeq(b, first, last)) = IF first <= last THEN last - first + 1 ELSE 0
      /\ \A i \in 1 .. last - first + 1 : SubSeq(b, first, last)[i] = b[first + i - 1]
  BY ONLY <1>4, <1>5, SubSeqProperties
<1>7. /\ Len(SubSeq(b, first, last)) = n
      /\ \A i \in 1 .. n : SubSeq(b, first, last)[i] = b[a + i]
  BY <1>4, <1>6
<1>8. \A i \in 1 .. n : b[a + i] = [msg |-> m, pos |-> a + i]
  BY <1>3, <1>4 DEF b
<1> QED
  BY <1>6, <1>7, <1>8 DEF b, first, last

\* The stream with a piece of a message behind it.
Extended(e, piece) == [wire EXCEPT ![ConnOf(e)][OutDir(e)] = @ \o piece]

\* Writing moves bytes from the message to the stream, or loses them.
LEMMA WriteStep ==
  ASSUME CInv, NEW e \in Ends, Write(e)
  PROVE  LET l == WriteStarted(layer[e])
             m == l.currentWriteMessage
             done == m.size - l.currentBytesLeft
         IN  \E n \in 1 .. l.currentBytesLeft :
               /\ l \in Layer
               /\ layer[e].currentWriteMessage # NoMessage \/ layer[e].outQueue # <<>>
               /\ m \in Message /\ done \in Nat /\ n \in Nat
               /\ l.currentBytesLeft \in Nat
               /\ l.currentBytesLeft = m.size - done /\ done + n <= m.size
               /\ l.status = "Writing" /\ l.currentPointer = "message"
               /\ l.inQueue = layer[e].inQueue
               /\ ConnOf(e) \in Conns /\ ConnOf(e) <= conn
               /\ Advanced(l, n) \in Layer
               /\ Cursor(Advanced(l, n))
               /\ ~Reads(Advanced(l, n))
               /\ Advanced(l, n).status \in {"Writing", "Idle"}
               /\ Advanced(l, n).inQueue = layer[e].inQueue
               /\ layer' = [layer EXCEPT ![e] = Advanced(l, n)]
               /\ \/ /\ ~PeerGone(e)
                     /\ wire' = Extended(e, SubSeq(Bytes(m), done + 1, done + n))
                  \/ PeerGone(e) /\ wire' = wire
<1> DEFINE l == WriteStarted(layer[e])
           m == l.currentWriteMessage
           done == m.size - l.currentBytesLeft
<1>1. layer[e] \in Layer /\ Cursor(layer[e]) /\ layer[e].status = "Writing"
  BY DEF CInv, Types, Cursors, Write, Status
<1>2. layer[e].currentWriteMessage # NoMessage \/ layer[e].outQueue # <<>>
  BY <1>1 DEF Cursor
<1>3. e = Client => conn # 0
  BY <1>1 DEF CInv, Unused, Status
<1>4. ConnOf(e) \in Conns /\ ConnOf(e) <= conn
  BY <1>1, <1>3, Connected DEF CInv, Status
<1>5. /\ l \in Layer /\ l.status = "Writing" /\ l.inQueue = layer[e].inQueue
      /\ m \in Message
      /\ l.currentPointer = "message"
      /\ l.currentBytesLeft \in 1 .. m.size
  BY <1>1, <1>2, WriteStartedFacts
<1>6. PICK n \in 1 .. l.currentBytesLeft :
        /\ layer' = [layer EXCEPT ![e] = Advanced(l, n)]
        /\ \/ /\ ~PeerGone(e)
              /\ wire' = Extended(e, SubSeq(Bytes(m), done + 1, done + n))
           \/ PeerGone(e) /\ wire' = wire
  BY DEF Write, Put, Advanced, Extended
<1> HIDE DEF l
<1>7. m.size \in Nat /\ l.currentBytesLeft \in Nat
  BY <1>5, MessageFacts
<1>8. /\ done \in Nat /\ n \in Nat /\ l.currentBytesLeft = m.size - done
      /\ done + n <= m.size
  BY <1>5, <1>7
<1> DEFINE x == Advanced(l, n)
<1>9. /\ x \in Layer
      /\ x.outQueue = l.outQueue /\ x.inQueue = l.inQueue
      /\ \/ /\ n < l.currentBytesLeft
            /\ x.status = l.status
            /\ x.currentWriteMessage = m
            /\ x.currentPointer = l.currentPointer
            /\ x.currentBytesLeft = l.currentBytesLeft - n
         \/ /\ n = l.currentBytesLeft
            /\ x.status = "Idle"
            /\ x.currentWriteMessage = NoMessage
            /\ x.currentPointer = "null"
  BY <1>5, AdvancedFacts
<1> HIDE DEF x, done
<1>10. Cursor(x) /\ ~Reads(x)
  <2>1. CASE n < l.currentBytesLeft
    <3>1. /\ x.status = "Writing" /\ x.currentWriteMessage = m
          /\ x.currentPointer = "message" /\ m # NoMessage
      BY <1>5, <1>9, <2>1, <1>7, MessageFacts
    <3>2. x.currentBytesLeft \in 1 .. m.size
      BY <1>5, <1>7, <1>9, <2>1
    <3> QED
      BY <3>1, <3>2 DEF Cursor, Reads
  <2>2. CASE n = l.currentBytesLeft
    <3>1. x.status = "Idle" /\ x.currentWriteMessage = NoMessage /\ x.currentPointer = "null"
      BY <1>7, <1>9, <2>2
    <3> QED
      BY <1>9, <3>1, CursorFree DEF Reads
  <2> QED
    BY <1>9, <2>1, <2>2
<1>11. x.status \in {"Writing", "Idle"} /\ x.inQueue = layer[e].inQueue
  BY <1>5, <1>9
<1> QED
  BY <1>2, <1>4, <1>5, <1>6, <1>7, <1>8, <1>9, <1>10, <1>11 DEF l, x, done

-----------------------------------------------------------------------------
(* CInv is inductive: one lemma per action.                                *)

\* A message with the number of the next one to be sent.
LEMMA NextMessageFacts ==
  ASSUME Types, NEW e \in Ends, NEW size \in Sizes, Len(sent[e]) < MaxSends(e)
  PROVE  [from |-> e, no |-> Len(sent[e]) + 1, size |-> size] \in Message
<1>1. Len(sent[e]) \in Nat
  BY LenProperties DEF Types
<1>2. Len(sent[e]) + 1 \in 1 .. Max({ClientSends, ServerSends})
  <2>1. /\ MaxSends(e) <= Max({ClientSends, ServerSends}) /\ MaxSends(e) \in Nat
        /\ Max({ClientSends, ServerSends}) \in Nat
    BY Bounds
  <2> QED
    BY <1>1, <2>1
<1> QED
  BY <1>2 DEF Message

\* A user sends a message.
LEMMA SendMessageKeepsCInv ==
  ASSUME CInv, NEW e \in Ends, NEW size \in Sizes, SendMessage(e, size)
  PROVE  CInv'
<1> DEFINE m == [from |-> e, no |-> Len(sent[e]) + 1, size |-> size]
           x == Enqueued(layer[e], m)
<1>1. m \in Message
  BY NextMessageFacts DEF CInv, SendMessage
<1>2. /\ layer[e].status \in {"Idle", "Reading", "Writing"}
      /\ layer' = [layer EXCEPT ![e] = x]
      /\ sent' = [sent EXCEPT ![e] = Append(@, m)]
      /\ UNCHANGED <<conn, link, broken, wire, taken, faults>>
  BY DEF SendMessage, Put, Status
<1> HIDE DEF m
<1>3. layer[e] \in Layer /\ Cursor(layer[e])
  BY DEF CInv, Types, Cursors
<1>4. /\ x \in Layer
      /\ x.status = IF layer[e].status = "Idle" THEN "Writing" ELSE layer[e].status
      /\ x.outQueue = Append(layer[e].outQueue, m)
      /\ x.currentWriteMessage = layer[e].currentWriteMessage
      /\ x.currentPointer = layer[e].currentPointer
      /\ x.currentBytesLeft = layer[e].currentBytesLeft
      /\ x.readingHeader = layer[e].readingHeader
      /\ x.currentReadBuffer = layer[e].currentReadBuffer
  BY <1>1, <1>3, EnqueuedFacts
<1> HIDE DEF x
<1>5. x.outQueue # <<>>
  <2>1. layer[e].outQueue \in Seq(Message)
    BY <1>3, LayerFields
  <2>2. Append(layer[e].outQueue, m) # <<>>
    BY <1>1, <2>1, AppendProperties
  <2> QED
    BY <1>4, <2>2
<1>6. Cursor(x)
  <2>1. x.status = "Reading" => layer[e].currentPointer # "message"
    BY <1>2, <1>3, <1>4 DEF Cursor
  <2> QED
    BY <1>3, <1>4, <1>5, <2>1, CursorKept
<1>7. layer' \in [Ends -> Layer] /\ Cursors'
  BY <1>2, <1>4, <1>6, PutKeeps DEF CInv, Types
<1>8. Unused'
  <2>1. Status(e) # "None" /\ x.status # "None"
    BY <1>2, <1>4 DEF Status
  <2>2. e = Client => conn # 0
    BY <1>2 DEF CInv, Unused, Status
  <2> QED
    BY <1>2, <1>4, <2>1, <2>2, UnusedKept DEF CInv, Types
<1>9. sent' \in [Ends -> Seq(Message)]
  <2>1. sent[e] \in Seq(Message)
    BY DEF CInv, Types
  <2>2. Append(sent[e], m) \in Seq(Message)
    BY <1>1, <2>1, AppendProperties
  <2> QED
    BY <1>2, <2>2 DEF CInv, Types
<1> QED
  BY <1>2, <1>7, <1>8, <1>9 DEF CInv, Types

\* A user takes a message.
LEMMA NextMessageKeepsCInv ==
  ASSUME CInv, NEW e \in Ends, NextMessage(e)
  PROVE  CInv'
<1> DEFINE q == Tail(layer[e].inQueue)
           x == [layer[e] EXCEPT !.inQueue = q]
<1>1. /\ layer[e].status \notin {"None", "Freed"} /\ layer[e].inQueue # <<>>
      /\ taken' = [taken EXCEPT ![e] = Append(@, Head(layer[e].inQueue))]
      /\ layer' = [layer EXCEPT ![e] = x]
      /\ UNCHANGED <<conn, link, broken, wire, sent, faults>>
  BY DEF NextMessage, Put, Status
<1>2. layer[e] \in Layer /\ Cursor(layer[e]) /\ taken[e] \in Seq(Message \cup {Garbage})
  BY DEF CInv, Types, Cursors
<1>3. layer[e].inQueue \in Seq(Message \cup {Garbage})
  BY <1>2, LayerFields
<1>4. q \in Seq(Message \cup {Garbage}) /\ Head(layer[e].inQueue) \in Message \cup {Garbage}
  BY <1>1, <1>3, HeadTailProperties
<1> HIDE DEF q
<1>5. /\ x \in Layer
      /\ x.status = layer[e].status /\ x.outQueue = layer[e].outQueue
      /\ x.currentWriteMessage = layer[e].currentWriteMessage
      /\ x.currentPointer = layer[e].currentPointer
      /\ x.currentBytesLeft = layer[e].currentBytesLeft
      /\ x.readingHeader = layer[e].readingHeader
      /\ x.currentReadBuffer = layer[e].currentReadBuffer
  BY <1>2, <1>4 DEF Layer
<1> HIDE DEF x
<1>6. Cursor(x)
  BY <1>2, <1>5 DEF Cursor
<1>7. layer' \in [Ends -> Layer] /\ Cursors'
  BY <1>1, <1>5, <1>6, PutKeeps DEF CInv, Types
<1>8. Unused'
  <2>1. Status(e) # "None" /\ x.status # "None"
    BY <1>1, <1>5 DEF Status
  <2>2. e = Client => conn # 0
    BY <1>1 DEF CInv, Unused, Blank
  <2>3. \A k \in Conns : k # e => taken'[k] = taken[k]
    BY <1>1, Bounds DEF CInv, Types
  <2> QED
    BY <1>1, <1>5, <2>1, <2>2, <2>3, UnusedKept DEF CInv, Types
<1>9. taken' \in [Ends -> Seq(Message \cup {Garbage})]
  <2>1. Append(taken[e], Head(layer[e].inQueue)) \in Seq(Message \cup {Garbage})
    BY <1>2, <1>4, AppendProperties
  <2> QED
    BY <1>1, <2>1 DEF CInv, Types
<1> QED
  BY <1>1, <1>7, <1>8, <1>9 DEF CInv, Types

\* A step of a layer that changes nothing but its status.
LEMMA RestatedKeepsCInv ==
  ASSUME CInv, NEW e \in Ends, NEW s \in Statuses \ {"None"},
         layer' = [layer EXCEPT ![e] = Restated(layer[e], s)],
         Status(e) # "None", e = Client => conn # 0,
         s = "Writing" => layer[e].outQueue # <<>>,
         s \in {"Idle", "Connecting"} =>
           layer[e].currentWriteMessage = NoMessage \/ layer[e].outQueue # <<>>,
         s = "Reading" => layer[e].currentPointer # "message",
         UNCHANGED <<conn, link, broken, wire, sent, taken>>
  PROVE  CInv'
<1> DEFINE x == Restated(layer[e], s)
<1>1. layer[e] \in Layer /\ Cursor(layer[e])
  BY DEF CInv, Types, Cursors
<1>2. /\ x \in Layer
      /\ x.status = s /\ x.outQueue = layer[e].outQueue
      /\ x.currentWriteMessage = layer[e].currentWriteMessage
      /\ x.currentPointer = layer[e].currentPointer
      /\ x.currentBytesLeft = layer[e].currentBytesLeft
      /\ x.readingHeader = layer[e].readingHeader
      /\ x.currentReadBuffer = layer[e].currentReadBuffer
  BY <1>1, RestatedFacts
<1> HIDE DEF x
<1>3. Cursor(x)
  BY <1>1, <1>2, CursorKept
<1>4. layer' = [layer EXCEPT ![e] = x]
  BY DEF x
<1>5. layer' \in [Ends -> Layer] /\ Cursors'
  BY <1>2, <1>3, <1>4, PutKeeps DEF CInv, Types
<1>6. Unused'
  BY <1>2, <1>4, UnusedKept DEF CInv, Types
<1> QED
  BY <1>5, <1>6 DEF CInv, Types

\* The steps that change nothing but the status of a layer.
Restates(e) ==
  \/ ShutDown(e)
  \/ e \in Conns /\ RemoveDisconnected(e)
  \/ IdleCheck(e)
  \/ e = Client /\ FinishConnect

\* What the status becomes.
LEMMA RestateStep ==
  ASSUME CInv, NEW e \in Ends, Restates(e)
  PROVE  \E s \in Statuses \ {"None"} :
           /\ layer' = [layer EXCEPT ![e] = Restated(layer[e], s)]
           /\ Status(e) # "None" /\ (e = Client => conn # 0)
           /\ s = "Writing" => layer[e].outQueue # <<>>
           /\ s \in {"Idle", "Connecting"} =>
                layer[e].currentWriteMessage = NoMessage \/ layer[e].outQueue # <<>>
           /\ s = "Reading" => layer[e].currentPointer # "message" /\ Status(e) = "Idle"
           /\ Status(e) \in Gone => s \in Gone
           /\ Status(e) = "Reading" => s \in Gone
           /\ UNCHANGED <<conn, link, broken, wire, sent, taken>>
<1>1. layer[e] \in Layer /\ Cursor(layer[e])
  BY DEF CInv, Types, Cursors
<1>2. CASE ShutDown(e)
  <2>1. /\ layer' = [layer EXCEPT ![e] = Restated(layer[e], "Disconnected")]
        /\ Status(e) \in {"Idle", "Connecting", "Reading", "Writing"}
        /\ UNCHANGED <<conn, link, broken, wire, sent, taken>>
    BY <1>2 DEF ShutDown, Put, Closed, Restated
  <2>2. Status(e) # "None" /\ (e = Client => conn # 0)
    BY <2>1 DEF CInv, Unused
  <2> QED
    BY <2>1, <2>2 DEF Statuses, Gone
<1>3. CASE e \in Conns /\ RemoveDisconnected(e)
  <2>1. /\ layer' = [layer EXCEPT ![e] = Restated(layer[e], "Freed")]
        /\ Status(e) = "Disconnected" /\ e # Client
        /\ UNCHANGED <<conn, link, broken, wire, sent, taken>>
    BY <1>3 DEF RemoveDisconnected, Put, Restated
  <2> QED
    BY <2>1 DEF Statuses, Gone
<1>4. CASE IdleCheck(e)
  <2>1. /\ Status(e) = "Idle"
        /\ UNCHANGED <<conn, link, broken, wire, sent, taken>>
        /\ \/ /\ layer[e].outQueue # <<>>
              /\ layer' = [layer EXCEPT ![e] = Restated(layer[e], "Writing")]
           \/ /\ layer[e].outQueue = <<>>
              /\ layer' = [layer EXCEPT ![e] = Restated(layer[e], "Reading")]
    BY <1>4 DEF IdleCheck, Put, Restated
  <2>2. Status(e) # "None" /\ (e = Client => conn # 0)
    BY <2>1 DEF CInv, Unused
  <2>3. layer[e].outQueue = <<>> => layer[e].currentPointer # "message"
    BY <1>1, <2>1 DEF Cursor, Status
  <2> QED
    BY <2>1, <2>2, <2>3 DEF Statuses, Gone
<1>5. CASE e = Client /\ FinishConnect
  <2>1. /\ Status(e) = "Connecting"
        /\ UNCHANGED <<conn, link, broken, wire, sent, taken>>
        /\ \E s \in {"Idle", "Unreachable"} :
             layer' = [layer EXCEPT ![e] = Restated(layer[e], s)]
    BY <1>5 DEF FinishConnect, Put, Restated
  <2>2. Status(e) # "None" /\ (e = Client => conn # 0)
    BY <2>1 DEF CInv, Unused
  <2>3. layer[e].currentWriteMessage = NoMessage \/ layer[e].outQueue # <<>>
    BY <1>1, <2>1 DEF Cursor, Status
  <2> QED
    BY <2>1, <2>2, <2>3 DEF Statuses, Gone
<1> QED
  BY <1>2, <1>3, <1>4, <1>5 DEF Restates

\* The client connects.
LEMMA ConnectKeepsCInv ==
  ASSUME CInv, NEW size \in Sizes, NEW result \in {"up", "refused"}, Connect(size, result)
  PROVE  CInv'
<1> DEFINE m == [from |-> Client, no |-> Len(sent[Client]) + 1, size |-> size]
           l == [layer[Client] EXCEPT !.status = "Connecting"]
           x == Enqueued(l, m)
<1>1. /\ layer[Client].status = "Disconnected"
      /\ conn < MaxConnects /\ Len(sent[Client]) < ClientSends
      /\ conn' = conn + 1
      /\ link' = [link EXCEPT ![conn + 1] = result]
      /\ layer' = [layer EXCEPT ![Client] = x]
      /\ sent' = [sent EXCEPT ![Client] = Append(@, m)]
      /\ UNCHANGED <<broken, wire, taken, faults>>
  BY DEF Connect, Put, Status
<1>2. m \in Message
  <2>1. Len(sent[Client]) < MaxSends(Client)
    BY <1>1 DEF MaxSends
  <2> QED
    BY <2>1, NextMessageFacts, Bounds DEF CInv
<1> HIDE DEF m
<1>3. layer[Client] \in Layer /\ Cursor(layer[Client])
  BY Bounds DEF CInv, Types, Cursors
<1>4. /\ l \in Layer /\ l.status = "Connecting" /\ l.outQueue = layer[Client].outQueue
      /\ l.currentWriteMessage = layer[Client].currentWriteMessage
      /\ l.currentPointer = layer[Client].currentPointer
      /\ l.currentBytesLeft = layer[Client].currentBytesLeft
      /\ l.readingHeader = layer[Client].readingHeader
      /\ l.currentReadBuffer = layer[Client].currentReadBuffer
  <2>1. l = Restated(layer[Client], "Connecting") /\ "Connecting" \in Statuses
    BY DEF Restated, Statuses
  <2> QED
    BY <1>3, <2>1, RestatedFacts
<1> HIDE DEF l
<1>5. /\ x \in Layer
      /\ x.status = "Connecting"
      /\ x.outQueue = Append(l.outQueue, m)
      /\ x.currentWriteMessage = layer[Client].currentWriteMessage
      /\ x.currentPointer = layer[Client].currentPointer
      /\ x.currentBytesLeft = layer[Client].currentBytesLeft
      /\ x.readingHeader = layer[Client].readingHeader
      /\ x.currentReadBuffer = layer[Client].currentReadBuffer
  BY <1>2, <1>4, EnqueuedFacts
<1> HIDE DEF x
<1>6. x.outQueue # <<>>
  <2>1. l.outQueue \in Seq(Message)
    BY <1>4, LayerFields
  <2>2. Append(l.outQueue, m) # <<>>
    BY <1>2, <2>1, AppendProperties
  <2> QED
    BY <1>5, <2>2
<1>7. Cursor(x)
  BY <1>3, <1>5, <1>6, CursorKept
<1>8. layer' \in [Ends -> Layer] /\ Cursors' /\ layer'[Client] = x
      /\ \A f \in Ends : f # Client => layer'[f] = layer[f]
  BY <1>1, <1>5, <1>7, PutKeeps, Bounds DEF CInv, Types
<1>9. conn \in Nat /\ conn + 1 \in Conns /\ conn' \in 1 .. MaxConnects
  BY <1>1, Bounds DEF CInv, Types
<1>10. Unused'
  <2>1. ASSUME conn' = 0 PROVE FALSE
    BY <1>9, <2>1
  <2>2. ASSUME NEW k \in Conns, Status(k)' = "None"
        PROVE  Blank(layer[k])' /\ taken'[k] = <<>>
    <3>1. layer'[k] = layer[k] /\ taken' = taken
      BY <1>1, <1>8, Bounds
    <3> QED
      BY <2>2, <3>1 DEF CInv, Unused, Blank, Status
  <2>3. ASSUME NEW k \in Conns, k > conn'
        PROVE  /\ Status(k)' = "None" /\ link'[k] = "none"
               /\ \A d \in Directions : wire'[k][d] = <<>>
    <3>1. k > conn /\ k # conn + 1
      BY <1>1, <1>9, <2>3, Bounds
    <3>2. layer'[k] = layer[k] /\ link'[k] = link[k] /\ wire' = wire
      BY <1>1, <1>8, <3>1, Bounds DEF CInv, Types
    <3> QED
      BY <3>1, <3>2 DEF CInv, Unused, Status
  <2> QED
    BY <2>1, <2>2, <2>3 DEF Unused
<1>11. sent' \in [Ends -> Seq(Message)]
  <2>1. sent[Client] \in Seq(Message)
    BY Bounds DEF CInv, Types
  <2>2. Append(sent[Client], m) \in Seq(Message)
    BY <1>2, <2>1, AppendProperties
  <2> QED
    BY <1>1, <2>2 DEF CInv, Types
<1>12. link' \in [Conns -> {"none", "refused", "up"}]
  BY <1>1, <1>9 DEF CInv, Types
<1>13. Types'
  BY <1>1, <1>8, <1>9, <1>11, <1>12 DEF CInv, Types
<1> QED
  BY <1>8, <1>10, <1>13 DEF CInv

\* A fresh layer is blank and reads and writes nothing.
LEMMA FreshFacts ==
  /\ FreshLayer \in Layer /\ Cursor(FreshLayer)
  /\ FreshLayer.status = "Idle" /\ FreshLayer.outQueue = <<>> /\ FreshLayer.inQueue = <<>>
  /\ FreshLayer.currentWriteMessage = NoMessage /\ FreshLayer.currentPointer = "null"
<1>1. <<>> \in Seq(Message) /\ <<>> \in Seq(Message \cup {Garbage})
      /\ <<>> \in Seq([msg : Message, pos : Nat])
  BY EmptySeq
<1>2. FreshLayer \in Layer
  BY <1>1 DEF FreshLayer, Layer, Statuses
<1>3. /\ FreshLayer.status = "Idle" /\ FreshLayer.outQueue = <<>> /\ FreshLayer.inQueue = <<>>
      /\ FreshLayer.currentWriteMessage = NoMessage /\ FreshLayer.currentPointer = "null"
  BY DEF FreshLayer
<1> QED
  BY <1>2, <1>3, CursorFree

\* The server accepts a connection.
LEMMA AcceptKeepsCInv ==
  ASSUME CInv, NEW k \in Conns, Accept(k)
  PROVE  CInv'
<1>1. /\ link[k] = "up" /\ layer[k].status = "None"
      /\ layer' = [layer EXCEPT ![k] = FreshLayer]
      /\ UNCHANGED <<conn, link, broken, wire, sent, taken, faults>>
  BY DEF Accept, Put, Status
<1>2. k \in Ends /\ k # Client
  BY Bounds
<1>3. /\ layer' \in [Ends -> Layer] /\ Cursors' /\ layer'[k] = FreshLayer
      /\ \A f \in Ends : f # k => layer'[f] = layer[f]
  BY <1>1, <1>2, FreshFacts, PutKeeps DEF CInv, Types
<1>4. k <= conn
  BY <1>1, Bounds DEF CInv, Types, Unused
<1>5. Unused'
  <2>1. ASSUME conn' = 0
        PROVE  Status(Client)' = "Disconnected" /\ Blank(layer[Client])'
    <3>1. layer'[Client] = layer[Client] /\ conn = 0
      BY <1>1, <1>2, <1>3, <2>1, Bounds
    <3> QED
      BY <3>1 DEF CInv, Unused, Blank, Status
  <2>2. ASSUME NEW j \in Conns, Status(j)' = "None"
        PROVE  Blank(layer[j])' /\ taken'[j] = <<>>
    <3>1. j # k
      BY <1>3, <2>2, FreshFacts DEF Status
    <3>2. layer'[j] = layer[j] /\ taken' = taken
      BY <1>1, <1>3, <3>1, Bounds
    <3> QED
      BY <2>2, <3>2 DEF CInv, Unused, Blank, Status
  <2>3. ASSUME NEW j \in Conns, j > conn'
        PROVE  /\ Status(j)' = "None" /\ link'[j] = "none"
               /\ \A d \in Directions : wire'[j][d] = <<>>
    <3>1. j > conn /\ j # k
      BY <1>1, <1>4, <2>3, Bounds DEF CInv, Types
    <3>2. layer'[j] = layer[j]
      BY <1>3, <3>1, Bounds
    <3> QED
      BY <1>1, <3>1, <3>2 DEF CInv, Unused, Status
  <2> QED
    BY <2>1, <2>2, <2>3 DEF Unused
<1> QED
  BY <1>1, <1>3, <1>5 DEF CInv, Types

\* The network fails.
LEMMA BreakKeepsCInv ==
  ASSUME CInv, NEW k \in Conns, Break(k)
  PROVE  CInv'
<1>1. /\ broken' = broken \cup {k}
      /\ UNCHANGED <<layer, conn, link, wire, sent, taken>>
  BY DEF Break
<1>2. Types'
  BY <1>1 DEF CInv, Types
<1>3. Unused' /\ Cursors'
  BY <1>1 DEF CInv, Unused, Cursors, Cursor, Blank, Status
<1> QED
  BY <1>2, <1>3 DEF CInv

\* Nothing of the streams that are not there changes.
LEMMA DrainedFacts ==
  ASSUME Types, NEW e \in Ends, NEW n \in Nat, n <= Len(Incoming(e)),
         ConnOf(e) \in Conns, ConnOf(e) <= conn
  PROVE  /\ Drained(e, n) \in [Conns -> [Directions -> Seq(Byte)]]
         /\ Drained(e, n)[ConnOf(e)][InDir(e)]
              = SubSeq(Incoming(e), n + 1, Len(Incoming(e)))
         /\ \A k \in Conns, d \in Directions :
              k # ConnOf(e) \/ d # InDir(e) => Drained(e, n)[k][d] = wire[k][d]
         /\ \A k \in Conns : k > conn => Drained(e, n)[k] = wire[k]
<1> DEFINE c == ConnOf(e)
           d0 == InDir(e)
           s == SubSeq(Incoming(e), n + 1, Len(Incoming(e)))
<1>1. d0 \in Directions /\ conn \in Nat /\ \A k \in Conns : k \in Nat
  BY Bounds DEF InDir, Directions, Types
<1>2. Incoming(e) \in Seq(Byte) /\ Incoming(e) = wire[c][d0]
  BY <1>1 DEF Types, Incoming
<1>3. s \in Seq(Byte)
  <2>1. Len(Incoming(e)) \in Nat
    BY <1>2, LenProperties
  <2>2. \A i \in n + 1 .. Len(Incoming(e)) : Incoming(e)[i] \in Byte
    BY <1>2, <2>1, ElementOfSeq
  <2> QED
    BY <2>1, <2>2, SubSeqProperties
<1>4. Drained(e, n) = [wire EXCEPT ![c] = [wire[c] EXCEPT ![d0] = s]]
  BY <1>1, <1>2 DEF Drained, Types
<1> HIDE DEF c, d0, s
<1>5. c \in Conns /\ c <= conn
  BY DEF c
<1>6. [wire[c] EXCEPT ![d0] = s] \in [Directions -> Seq(Byte)]
  BY <1>1, <1>3, <1>5 DEF Types
<1>7. Drained(e, n) \in [Conns -> [Directions -> Seq(Byte)]]
  BY <1>4, <1>5, <1>6 DEF Types
<1>8. Drained(e, n)[c][d0] = s
  BY <1>1, <1>4, <1>5 DEF Types
<1>9. \A k \in Conns, d \in Directions : k # c \/ d # d0 => Drained(e, n)[k][d] = wire[k][d]
  BY <1>1, <1>4, <1>5 DEF Types
<1>10. ASSUME NEW k \in Conns, k > conn
       PROVE  Drained(e, n)[k] = wire[k]
  <2>1. k # c
    BY <1>1, <1>5, <1>10
  <2> QED
    BY <1>4, <2>1 DEF Types
<1> QED
  BY <1>7, <1>8, <1>9, <1>10 DEF c, d0, s

\* The same of what is written.
LEMMA ExtendedFacts ==
  ASSUME Types, NEW e \in Ends, NEW piece \in Seq(Byte),
         ConnOf(e) \in Conns, ConnOf(e) <= conn
  PROVE  /\ Extended(e, piece) \in [Conns -> [Directions -> Seq(Byte)]]
         /\ Extended(e, piece)[ConnOf(e)][OutDir(e)] = Outgoing(e) \o piece
         /\ \A k \in Conns, d \in Directions :
              k # ConnOf(e) \/ d # OutDir(e) => Extended(e, piece)[k][d] = wire[k][d]
         /\ \A k \in Conns : k > conn => Extended(e, piece)[k] = wire[k]
<1> DEFINE c == ConnOf(e)
           d0 == OutDir(e)
           s == Outgoing(e) \o piece
<1>1. d0 \in Directions /\ conn \in Nat /\ \A k \in Conns : k \in Nat
  BY Bounds DEF OutDir, Directions, Types
<1>2. Outgoing(e) \in Seq(Byte) /\ Outgoing(e) = wire[c][d0]
  BY <1>1 DEF Types, Outgoing
<1>3. s \in Seq(Byte)
  BY <1>2, ConcatProperties
<1>4. Extended(e, piece) = [wire EXCEPT ![c] = [wire[c] EXCEPT ![d0] = s]]
  BY <1>1, <1>2 DEF Extended, Types
<1> HIDE DEF c, d0, s
<1>5. c \in Conns /\ c <= conn
  BY DEF c
<1>6. [wire[c] EXCEPT ![d0] = s] \in [Directions -> Seq(Byte)]
  BY <1>1, <1>3, <1>5 DEF Types
<1>7. Extended(e, piece) \in [Conns -> [Directions -> Seq(Byte)]]
  BY <1>4, <1>5, <1>6 DEF Types
<1>8. Extended(e, piece)[c][d0] = s
  BY <1>1, <1>4, <1>5 DEF Types
<1>9. \A k \in Conns, d \in Directions :
        k # c \/ d # d0 => Extended(e, piece)[k][d] = wire[k][d]
  BY <1>1, <1>4, <1>5 DEF Types
<1>10. ASSUME NEW k \in Conns, k > conn
       PROVE  Extended(e, piece)[k] = wire[k]
  <2>1. k # c
    BY <1>1, <1>5, <1>10
  <2> QED
    BY <1>4, <2>1 DEF Types
<1> QED
  BY <1>7, <1>8, <1>9, <1>10 DEF c, d0, s

\* A layer reads.
LEMMA ReadKeepsCInv ==
  ASSUME CInv, NEW e \in Ends, Read(e)
  PROVE  CInv'
<1>1. PICK n \in Nat, x \in Layer :
        /\ n <= Len(Incoming(e)) /\ ConnOf(e) \in Conns /\ ConnOf(e) <= conn
        /\ Cursor(x) /\ x.status \in {"Reading", "Idle", "Disconnected"}
        /\ layer' = [layer EXCEPT ![e] = x]
        /\ wire' = Drained(e, n)
  BY ReadStep
<1>2. Status(e) = "Reading" /\ UNCHANGED <<conn, link, broken, sent, taken, faults>>
  BY DEF Read
<1>3. layer' \in [Ends -> Layer] /\ Cursors'
  BY <1>1, PutKeeps DEF CInv, Types
<1>4. /\ wire' \in [Conns -> [Directions -> Seq(Byte)]]
      /\ \A k \in Conns : k > conn => wire'[k] = wire[k]
  BY <1>1, DrainedFacts DEF CInv
<1>5. Unused'
  <2>1. Status(e) # "None" /\ x.status # "None"
    BY <1>1, <1>2
  <2>2. e = Client => conn # 0
    BY <1>2 DEF CInv, Unused
  <2> QED
    BY <1>1, <1>2, <1>4, <2>1, <2>2, UnusedKept DEF CInv, Types
<1> QED
  BY <1>2, <1>3, <1>4, <1>5 DEF CInv, Types

\* What a layer is when its stream has ended.
LEMMA ReadFailsStep ==
  ASSUME CInv, NEW e \in Ends, ReadFails(e)
  PROVE  \E x \in Layer :
           /\ layer' = [layer EXCEPT ![e] = x]
           /\ x.status = "Disconnected" /\ x.currentPointer = "null"
           /\ x.outQueue = layer[e].outQueue /\ x.inQueue = layer[e].inQueue
           /\ x.currentWriteMessage = NoMessage
           /\ layer[e].currentWriteMessage = NoMessage
           /\ Status(e) = "Reading" /\ PeerGone(e)
           /\ UNCHANGED <<conn, link, broken, wire, sent, taken, faults>>
<1> DEFINE l == ReadStarted(layer[e])
<1>1. layer[e] \in Layer /\ Cursor(layer[e]) /\ layer[e].status = "Reading"
  BY DEF CInv, Types, Cursors, ReadFails, Status
<1>2. /\ layer' = [layer EXCEPT ![e] = Abandoned(l)]
      /\ UNCHANGED <<conn, link, broken, wire, sent, taken, faults>>
      /\ PeerGone(e) /\ Status(e) = "Reading"
  BY DEF ReadFails, Put, Abandoned
<1>3. /\ l \in Layer /\ l.outQueue = layer[e].outQueue /\ l.inQueue = layer[e].inQueue
      /\ l.currentWriteMessage = NoMessage /\ layer[e].currentWriteMessage = NoMessage
  BY <1>1, ReadStartedFacts
<1> HIDE DEF l
<1> DEFINE x == Abandoned(l)
<1>4. /\ x \in Layer /\ x.status = "Disconnected" /\ x.currentPointer = "null"
      /\ x.outQueue = layer[e].outQueue /\ x.inQueue = layer[e].inQueue
      /\ x.currentWriteMessage = NoMessage
  BY <1>3, AbandonedFacts
<1>5. layer' = [layer EXCEPT ![e] = x]
  BY <1>2
<1> HIDE DEF x
<1> QED
  BY <1>2, <1>3, <1>4, <1>5

\* A layer meets the end of its stream.
LEMMA ReadFailsKeepsCInv ==
  ASSUME CInv, NEW e \in Ends, ReadFails(e)
  PROVE  CInv'
<1>1. PICK x \in Layer :
        /\ layer' = [layer EXCEPT ![e] = x]
        /\ x.status = "Disconnected" /\ x.currentPointer = "null"
        /\ x.currentWriteMessage = NoMessage
        /\ Status(e) = "Reading"
        /\ UNCHANGED <<conn, link, broken, wire, sent, taken, faults>>
  BY ReadFailsStep
<1>2. layer' \in [Ends -> Layer] /\ Cursors'
  BY <1>1, CursorFree, PutKeeps DEF CInv, Types
<1>3. Unused'
  <2>1. e = Client => conn # 0
    BY <1>1 DEF CInv, Unused
  <2> QED
    BY <1>1, <2>1, UnusedKept DEF CInv, Types
<1> QED
  BY <1>1, <1>2, <1>3 DEF CInv, Types

\* A layer writes.
LEMMA WriteKeepsCInv ==
  ASSUME CInv, NEW e \in Ends, Write(e)
  PROVE  CInv'
<1>1. PICK x \in Layer, n \in Nat, m \in Message, done \in Nat :
        /\ Cursor(x) /\ x.status \in {"Writing", "Idle"}
        /\ ConnOf(e) \in Conns /\ ConnOf(e) <= conn
        /\ done + n <= m.size
        /\ layer' = [layer EXCEPT ![e] = x]
        /\ \/ wire' = Extended(e, SubSeq(Bytes(m), done + 1, done + n))
           \/ wire' = wire
  <2> DEFINE l == WriteStarted(layer[e])
             m0 == l.currentWriteMessage
             done0 == m0.size - l.currentBytesLeft
  <2>1. PICK n0 \in 1 .. l.currentBytesLeft :
          /\ m0 \in Message /\ done0 \in Nat /\ n0 \in Nat /\ done0 + n0 <= m0.size
          /\ ConnOf(e) \in Conns /\ ConnOf(e) <= conn
          /\ Advanced(l, n0) \in Layer /\ Cursor(Advanced(l, n0))
          /\ Advanced(l, n0).status \in {"Writing", "Idle"}
          /\ layer' = [layer EXCEPT ![e] = Advanced(l, n0)]
          /\ \/ wire' = Extended(e, SubSeq(Bytes(m0), done0 + 1, done0 + n0))
             \/ wire' = wire
    BY WriteStep
  <2> HIDE DEF l, m0, done0
  <2> QED
    BY <2>1
<1>2. Status(e) = "Writing" /\ UNCHANGED <<conn, link, broken, sent, taken, faults>>
  BY DEF Write
<1>3. layer' \in [Ends -> Layer] /\ Cursors'
  BY <1>1, PutKeeps DEF CInv, Types
<1>4. /\ wire' \in [Conns -> [Directions -> Seq(Byte)]]
      /\ \A k \in Conns : k > conn => wire'[k] = wire[k]
  <2> DEFINE piece == SubSeq(Bytes(m), done + 1, done + n)
  <2>1. piece \in Seq(Byte)
    BY <1>1, PieceFacts
  <2>2. wire' = Extended(e, piece) \/ wire' = wire
    BY <1>1
  <2> HIDE DEF piece
  <2>3. CASE wire' = Extended(e, piece)
    BY <1>1, <2>1, <2>3, ExtendedFacts DEF CInv
  <2>4. CASE wire' = wire
    BY <2>4 DEF CInv, Types
  <2> QED
    BY <2>2, <2>3, <2>4
<1>5. Unused'
  <2>1. Status(e) # "None" /\ x.status # "None"
    BY <1>1, <1>2
  <2>2. e = Client => conn # 0
    BY <1>2 DEF CInv, Unused
  <2> QED
    BY <1>1, <1>2, <1>4, <2>1, <2>2, UnusedKept DEF CInv, Types
<1> QED
  BY <1>2, <1>3, <1>4, <1>5 DEF CInv, Types

\* What a layer is when it cannot write.
LEMMA WriteFailsStep ==
  ASSUME CInv, NEW e \in Ends, WriteFails(e)
  PROVE  LET l == WriteStarted(layer[e])
             x == Restated(l, "Disconnected")
         IN  /\ layer' = [layer EXCEPT ![e] = x]
             /\ layer[e].currentWriteMessage # NoMessage \/ layer[e].outQueue # <<>>
             /\ l \in Layer /\ x \in Layer /\ Cursor(x)
             /\ x.status = "Disconnected" /\ ~Reads(x)
             /\ x.inQueue = layer[e].inQueue
             /\ Status(e) = "Writing" /\ PeerGone(e)
             /\ UNCHANGED <<conn, link, broken, wire, sent, taken, faults>>
<1> DEFINE l == WriteStarted(layer[e])
           x == Restated(l, "Disconnected")
<1>1. layer[e] \in Layer /\ Cursor(layer[e]) /\ layer[e].status = "Writing"
  BY DEF CInv, Types, Cursors, WriteFails, Status
<1>2. layer[e].currentWriteMessage # NoMessage \/ layer[e].outQueue # <<>>
  BY <1>1 DEF Cursor
<1>3. /\ layer' = [layer EXCEPT ![e] = x]
      /\ UNCHANGED <<conn, link, broken, wire, sent, taken, faults>>
      /\ Status(e) = "Writing" /\ PeerGone(e)
  BY DEF WriteFails, Put, Closed, Restated
<1>4. /\ l \in Layer /\ l.inQueue = layer[e].inQueue
      /\ l.currentWriteMessage \in Message /\ l.currentPointer = "message"
      /\ l.currentBytesLeft \in 1 .. l.currentWriteMessage.size
  BY <1>1, <1>2, WriteStartedFacts
<1> HIDE DEF l
<1>5. /\ x \in Layer /\ x.status = "Disconnected" /\ x.inQueue = l.inQueue
      /\ x.currentWriteMessage = l.currentWriteMessage
      /\ x.currentPointer = l.currentPointer /\ x.currentBytesLeft = l.currentBytesLeft
  BY <1>4, RestatedFacts DEF Statuses
<1> HIDE DEF x
<1>6. Cursor(x) /\ ~Reads(x)
  BY <1>4, <1>5, MessageFacts DEF Cursor, Reads
<1> QED
  BY <1>2, <1>3, <1>4, <1>5, <1>6 DEF l, x

\* A layer cannot write.
LEMMA WriteFailsKeepsCInv ==
  ASSUME CInv, NEW e \in Ends, WriteFails(e)
  PROVE  CInv'
<1>1. PICK x \in Layer :
        /\ layer' = [layer EXCEPT ![e] = x]
        /\ x.status = "Disconnected" /\ Cursor(x)
        /\ Status(e) = "Writing"
        /\ UNCHANGED <<conn, link, broken, wire, sent, taken, faults>>
  BY WriteFailsStep
<1>2. layer' \in [Ends -> Layer] /\ Cursors'
  BY <1>1, PutKeeps DEF CInv, Types
<1>3. Unused'
  <2>1. e = Client => conn # 0
    BY <1>1 DEF CInv, Unused
  <2> QED
    BY <1>1, <2>1, UnusedKept DEF CInv, Types
<1> QED
  BY <1>1, <1>2, <1>3 DEF CInv, Types

\* The actions, by what they do to the layers.
LEMMA Steps ==
  ASSUME Next
  PROVE  \/ \E e \in Ends : Restates(e) \/ NextMessage(e) \/ Read(e) \/ ReadFails(e)
                            \/ Write(e) \/ WriteFails(e)
         \/ \E e \in Ends, size \in Sizes : SendMessage(e, size)
         \/ \E size \in Sizes, result \in {"up", "refused"} : Connect(size, result)
         \/ \E k \in Conns : Accept(k) \/ Break(k)
BY Bounds DEF Next, Work, Restates

\* Initially nothing is connected.
LEMMA InitCInv == Init => CInv
<1> SUFFICES ASSUME Init PROVE CInv
  OBVIOUS
<1>1. \A e \in Ends : layer[e] = Restated(FreshLayer, IF e = Client THEN "Disconnected" ELSE "None")
  BY DEF Init, Restated
<1>2. ASSUME NEW e \in Ends
      PROVE  /\ layer[e] \in Layer /\ Cursor(layer[e]) /\ Blank(layer[e])
             /\ layer[e].status = IF e = Client THEN "Disconnected" ELSE "None"
  <2> DEFINE s == IF e = Client THEN "Disconnected" ELSE "None"
  <2>1. s \in Statuses /\ s \notin {"Writing", "Idle", "Connecting", "Reading"}
    BY DEF Statuses
  <2>2. layer[e] = Restated(FreshLayer, s)
    BY <1>1
  <2> HIDE DEF s
  <2>3. /\ layer[e] \in Layer /\ layer[e].status = s
        /\ layer[e].outQueue = <<>> /\ layer[e].inQueue = <<>>
        /\ layer[e].currentWriteMessage = NoMessage /\ layer[e].currentPointer = "null"
    BY <2>1, <2>2, FreshFacts, RestatedFacts
  <2> QED
    BY <2>1, <2>3, CursorFree DEF Blank, s
<1>3. <<>> \in Seq(Byte) /\ <<>> \in Seq(Message) /\ <<>> \in Seq(Message \cup {Garbage})
  BY EmptySeq
<1>4. layer \in [Ends -> Layer] /\ Cursors
  BY <1>2 DEF Init, Cursors
<1>5. Types
  BY <1>3, <1>4, Bounds DEF Init, Types, Directions
<1>6. Unused
  BY <1>2, Bounds DEF Init, Unused, Status, Directions
<1> QED
  BY <1>4, <1>5, <1>6 DEF CInv

\* No step breaks CInv.
LEMMA NextCInv == CInv /\ [Next]_vars => CInv'
<1> SUFFICES ASSUME CInv, [Next]_vars PROVE CInv'
  OBVIOUS
<1>1. CASE UNCHANGED vars
  BY <1>1 DEF CInv, Types, Unused, Cursors, Cursor, Blank, Status, vars
<1>2. ASSUME NEW e \in Ends, Restates(e)
      PROVE  CInv'
  BY <1>2, RestateStep, RestatedKeepsCInv
<1>3. ASSUME Next PROVE CInv'
  BY <1>2, <1>3, Steps, NextMessageKeepsCInv, ReadKeepsCInv, ReadFailsKeepsCInv,
     WriteKeepsCInv, WriteFailsKeepsCInv, SendMessageKeepsCInv, ConnectKeepsCInv,
     AcceptKeepsCInv, BreakKeepsCInv
<1> QED
  BY <1>1, <1>3

\* The layers keep to what was read before.
LEMMA CInvHolds == Spec => []CInv
<1> QED
  BY InitCInv, NextCInv, PTL DEF Spec

\* Reading and writing never get into each other's way, whatever happens to the
\* connections (the shared currentPointer and currentBytesLeft of ipcmessagelayer.c).
THEOREM CursorIsSafe == Spec => []CursorBelongs
<1>1. CInv => CursorBelongs
  <2> SUFFICES ASSUME CInv PROVE CursorBelongs
    OBVIOUS
  <2>1. \A e \in Ends : layer[e] \in Layer /\ Cursor(layer[e])
    BY DEF CInv, Types, Cursors
  <2> QED
    BY <2>1 DEF CursorBelongs, Cursor
<1> QED
  BY <1>1, CInvHolds, PTL

-----------------------------------------------------------------------------
(* Bytes and streams.                                                      *)

\* The elements of a sequence.
LEMMA ElementFacts ==
  ASSUME NEW S, NEW s \in Seq(S)
  PROVE  /\ Elements(s) \subseteq S
         /\ DOMAIN s = 1 .. Len(s) /\ Len(s) \in Nat
         /\ s = <<>> <=> Elements(s) = {}
         /\ \A a \in S : Elements(Append(s, a)) = Elements(s) \cup {a}
<1>1. DOMAIN s = 1 .. Len(s) /\ Len(s) \in Nat /\ \A i \in 1 .. Len(s) : s[i] \in S
  BY LenProperties, ElementOfSeq
<1>2. ASSUME s # <<>> PROVE Elements(s) # {}
  <2>1. 1 \in DOMAIN s
    BY <1>1, <1>2, EmptySeq
  <2> QED
    BY <2>1 DEF Elements
<1>3. ASSUME s = <<>> PROVE Elements(s) = {}
  <2>1. DOMAIN s = {}
    BY <1>1, <1>3, EmptySeq
  <2> QED
    BY <2>1 DEF Elements
<1>4. ASSUME NEW a \in S PROVE Elements(Append(s, a)) = Elements(s) \cup {a}
  <2>1. /\ Append(s, a) \in Seq(S) /\ Len(Append(s, a)) = Len(s) + 1
        /\ \A i \in 1 .. Len(s) : Append(s, a)[i] = s[i]
        /\ Append(s, a)[Len(s) + 1] = a
    BY <1>1, AppendProperties
  <2>2. DOMAIN Append(s, a) = 1 .. Len(s) + 1
    BY <2>1, LenProperties
  <2>3. \A b \in Elements(Append(s, a)) : b \in Elements(s) \cup {a}
    BY <1>1, <2>1, <2>2 DEF Elements
  <2>4. \A b \in Elements(s) : b \in Elements(Append(s, a))
    BY <1>1, <2>1, <2>2 DEF Elements
  <2>5. a \in Elements(Append(s, a))
    BY <1>1, <2>1, <2>2 DEF Elements
  <2> QED
    BY <2>3, <2>4, <2>5
<1>5. Elements(s) \subseteq S
  BY <1>1 DEF Elements
<1> QED
  BY <1>1, <1>2, <1>3, <1>4, <1>5

\* Where the elements of a concatenation are.
LEMMA ConcatFacts ==
  ASSUME NEW S, NEW s \in Seq(S), NEW t \in Seq(S)
  PROVE  /\ s \o t \in Seq(S) /\ Len(s \o t) = Len(s) + Len(t)
         /\ DOMAIN (s \o t) = 1 .. Len(s) + Len(t)
         /\ \A i \in DOMAIN s : (s \o t)[i] = s[i]
         /\ \A i \in DOMAIN t : (s \o t)[Len(s) + i] = t[i]
         /\ Elements(s \o t) = Elements(s) \cup Elements(t)
<1>1. /\ s \o t \in Seq(S) /\ Len(s \o t) = Len(s) + Len(t)
      /\ \A i \in 1 .. Len(s) + Len(t) : (s \o t)[i] = IF i <= Len(s) THEN s[i] ELSE t[i - Len(s)]
  BY ConcatProperties
<1>2. /\ DOMAIN s = 1 .. Len(s) /\ Len(s) \in Nat
      /\ DOMAIN t = 1 .. Len(t) /\ Len(t) \in Nat
      /\ DOMAIN (s \o t) = 1 .. Len(s) + Len(t)
  BY <1>1, LenProperties
<1>3. \A i \in DOMAIN s : (s \o t)[i] = s[i] /\ i \in DOMAIN (s \o t)
  BY <1>1, <1>2
<1>4. \A i \in DOMAIN t : (s \o t)[Len(s) + i] = t[i] /\ Len(s) + i \in DOMAIN (s \o t)
  BY <1>1, <1>2
<1>5. \A b \in Elements(s \o t) : b \in Elements(s) \cup Elements(t)
  <2> SUFFICES ASSUME NEW i \in DOMAIN (s \o t)
               PROVE  (s \o t)[i] \in Elements(s) \cup Elements(t)
    BY DEF Elements
  <2>1. CASE i <= Len(s)
    BY <1>1, <1>2, <2>1 DEF Elements
  <2>2. CASE i > Len(s)
    <3>1. i - Len(s) \in DOMAIN t /\ (s \o t)[i] = t[i - Len(s)]
      BY <1>1, <1>2, <2>2
    <3> QED
      BY <3>1 DEF Elements
  <2> QED
    BY <1>2, <2>1, <2>2
<1>6. \A b \in Elements(s) : b \in Elements(s \o t)
  BY <1>3 DEF Elements
<1>7. \A b \in Elements(t) : b \in Elements(s \o t)
  BY <1>4 DEF Elements
<1> QED
  BY <1>1, <1>2, <1>3, <1>4, <1>5, <1>6, <1>7

\* The two parts of a sorted stream.
LEMMA SortedParts ==
  ASSUME NEW s \in Seq(Byte), NEW t \in Seq(Byte), Sorted(s \o t)
  PROVE  Sorted(s) /\ Sorted(t) /\ Precede(Elements(s), Elements(t))
<1>1. /\ DOMAIN s = 1 .. Len(s) /\ Len(s) \in Nat
      /\ DOMAIN t = 1 .. Len(t) /\ Len(t) \in Nat
  BY ElementFacts
<1>2. /\ DOMAIN (s \o t) = 1 .. Len(s) + Len(t)
      /\ \A i \in DOMAIN s : (s \o t)[i] = s[i]
      /\ \A i \in DOMAIN t : (s \o t)[Len(s) + i] = t[i]
  BY ConcatFacts
<1>3. Sorted(s)
  BY <1>1, <1>2 DEF Sorted
<1>4. ASSUME NEW i \in DOMAIN t, NEW j \in DOMAIN t, i < j
      PROVE  Earlier(t[i], t[j])
  <2>1. /\ Len(s) + i \in DOMAIN (s \o t) /\ Len(s) + j \in DOMAIN (s \o t)
        /\ Len(s) + i < Len(s) + j
    BY <1>1, <1>2, <1>4
  <2>2. Earlier((s \o t)[Len(s) + i], (s \o t)[Len(s) + j])
    BY <2>1 DEF Sorted
  <2> QED
    BY <1>2, <2>2
<1>5. ASSUME NEW i \in DOMAIN s, NEW j \in DOMAIN t
      PROVE  Earlier(s[i], t[j])
  <2>1. /\ i \in DOMAIN (s \o t) /\ Len(s) + j \in DOMAIN (s \o t)
        /\ i < Len(s) + j
    BY <1>1, <1>2
  <2>2. Earlier((s \o t)[i], (s \o t)[Len(s) + j])
    BY <2>1 DEF Sorted
  <2> QED
    BY <1>2, <2>2
<1> QED
  BY <1>3, <1>4, <1>5 DEF Sorted, Precede, Elements

\* A stream made of two sorted parts.
LEMMA SortedWhole ==
  ASSUME NEW s \in Seq(Byte), NEW t \in Seq(Byte),
         Sorted(s), Sorted(t), Precede(Elements(s), Elements(t))
  PROVE  Sorted(s \o t)
<1>1. /\ DOMAIN s = 1 .. Len(s) /\ Len(s) \in Nat
      /\ DOMAIN t = 1 .. Len(t) /\ Len(t) \in Nat
  BY ElementFacts
<1>2. /\ DOMAIN (s \o t) = 1 .. Len(s) + Len(t)
      /\ \A i \in DOMAIN s : (s \o t)[i] = s[i]
      /\ \A i \in DOMAIN t : (s \o t)[Len(s) + i] = t[i]
  BY ConcatFacts
<1> SUFFICES ASSUME NEW i \in DOMAIN (s \o t), NEW j \in DOMAIN (s \o t), i < j
             PROVE  Earlier((s \o t)[i], (s \o t)[j])
  BY DEF Sorted
<1>3. CASE j <= Len(s)
  <2>1. i \in DOMAIN s /\ j \in DOMAIN s
    BY <1>1, <1>2, <1>3
  <2> QED
    BY <1>2, <2>1 DEF Sorted
<1>4. CASE i <= Len(s) /\ j > Len(s)
  <2>1. i \in DOMAIN s /\ j - Len(s) \in DOMAIN t /\ Len(s) + (j - Len(s)) = j
    BY <1>1, <1>2, <1>4
  <2>2. (s \o t)[i] = s[i] /\ (s \o t)[j] = t[j - Len(s)]
    BY <1>2, <2>1
  <2> QED
    BY <2>1, <2>2 DEF Precede, Elements
<1>5. CASE i > Len(s)
  <2>1. /\ i - Len(s) \in DOMAIN t /\ Len(s) + (i - Len(s)) = i
        /\ j - Len(s) \in DOMAIN t /\ Len(s) + (j - Len(s)) = j
        /\ i - Len(s) < j - Len(s)
    <3> DEFINE a == Len(s)
               b == Len(t)
    <3>1. a \in Nat /\ b \in Nat /\ i \in 1 .. a + b /\ j \in 1 .. a + b /\ i < j /\ i > a
      BY <1>1, <1>2, <1>5
    <3> HIDE DEF a, b
    <3>2. /\ i - a \in 1 .. b /\ a + (i - a) = i
          /\ j - a \in 1 .. b /\ a + (j - a) = j
          /\ i - a < j - a
      BY ONLY <3>1
    <3> QED
      BY <1>1, <3>2 DEF a, b
  <2>2. (s \o t)[i] = t[i - Len(s)] /\ (s \o t)[j] = t[j - Len(s)]
    BY <1>2, <2>1
  <2> QED
    BY <2>1, <2>2 DEF Sorted
<1> QED
  BY <1>1, <1>2, <1>3, <1>4, <1>5

\* The bytes of a message are those of its buffer.
LEMMA RestFacts ==
  ASSUME NEW m \in Message
  PROVE  /\ Rest(m, 1) \subseteq Byte
         /\ Elements(Bytes(m)) = Rest(m, 1)
         /\ [msg |-> m, pos |-> 1] \in Rest(m, 1)
         /\ [msg |-> m, pos |-> m.size] \in Rest(m, 1)
         /\ \A p \in Nat \ {0} : Rest(m, p) \subseteq Rest(m, 1)
         /\ \A p \in Nat : \A b \in Rest(m, p) : b.msg = m /\ b.pos \in p .. m.size
<1>1. m.size \in Nat /\ m.size >= 3
  BY MessageFacts
<1>2. \A q \in 1 .. m.size : Bytes(m)[q] = [msg |-> m, pos |-> q]
  BY DEF Bytes
<1>3. DOMAIN Bytes(m) = 1 .. m.size
  BY DEF Bytes
<1>4. Elements(Bytes(m)) = Rest(m, 1)
  BY <1>2, <1>3 DEF Elements, Rest
<1>5. Rest(m, 1) \subseteq Byte
  BY <1>1 DEF Rest, Byte
<1>6. 1 \in 1 .. m.size /\ m.size \in 1 .. m.size
  BY <1>1
<1>7. ASSUME NEW p \in Nat \ {0} PROVE Rest(m, p) \subseteq Rest(m, 1)
  <2>1. p .. m.size \subseteq 1 .. m.size
    BY <1>1
  <2> QED
    BY <2>1 DEF Rest
<1>8. ASSUME NEW p \in Nat, NEW b \in Rest(m, p) PROVE b.msg = m /\ b.pos \in p .. m.size
  BY DEF Rest
<1> QED
  BY <1>4, <1>5, <1>6, <1>7, <1>8 DEF Rest

\* Whole messages one before the other.
LEMMA WholeBefore ==
  ASSUME NEW m \in Message, NEW n \in Message,
         Earlier([msg |-> m, pos |-> m.size], [msg |-> n, pos |-> 1])
  PROVE  Before(m, n)
<1>1. m.size \in Nat /\ m.size >= 3
  BY MessageFacts
<1>2. ~(m.size < 1)
  BY <1>1
<1> QED
  BY <1>2 DEF Earlier

-----------------------------------------------------------------------------
(* How steps change what an end received and what flows to it.             *)

\* The streams are sequences of bytes.
LEMMA StreamTypes ==
  ASSUME Types, NEW e \in Ends
  PROVE  /\ Held(e) \in Seq(Byte) /\ Arriving(e) \in Seq(Byte) /\ Stream(e) \in Seq(Byte)
         /\ Received(e) \in Seq(Message \cup {Garbage})
         /\ Arrived(e) \subseteq Byte /\ Past(e) \subseteq Byte
<1>1. layer[e] \in Layer
  BY DEF Types
<1>2. Held(e) \in Seq(Byte)
  BY <1>1, LayerFields, EmptySeq DEF Held
<1>3. Arriving(e) \in Seq(Byte)
  <2>1. InDir(e) \in Directions
    BY DEF InDir, Directions
  <2>2. ConnOf(e) \in Conns => wire[ConnOf(e)][InDir(e)] \in Seq(Byte)
    BY <2>1 DEF Types
  <2> QED
    BY <2>2, EmptySeq DEF Arriving, Incoming
<1>4. Stream(e) \in Seq(Byte)
  BY <1>2, <1>3, ConcatProperties DEF Stream
<1>5. Received(e) \in Seq(Message \cup {Garbage})
  BY <1>1, LayerFields, ConcatProperties DEF Received, Types
<1>6. Elements(Received(e)) \ {Garbage} \subseteq Message
  BY <1>5, ElementFacts
<1>7. Arrived(e) \subseteq Byte
  <2>1. \A m \in Elements(Received(e)) \ {Garbage} : Rest(m, 1) \subseteq Byte
    BY <1>6, RestFacts
  <2> QED
    BY <2>1 DEF Arrived
<1>8. Elements(Stream(e)) \subseteq Byte
  BY <1>4, ElementFacts
<1> QED
  BY <1>2, <1>3, <1>4, <1>5, <1>7, <1>8 DEF Past

\* What an end received is what its messages are made of.
LEMMA SameReceived ==
  ASSUME NEW e, Received(e)' = Received(e)
  PROVE  Arrived(e)' = Arrived(e)
BY DEF Arrived

\* An end that nothing happens to.
LEMMA Untouched ==
  ASSUME NEW e, layer'[e] = layer[e], taken'[e] = taken[e]
  PROVE  Held(e)' = Held(e) /\ Received(e)' = Received(e)
BY DEF Held, Reads, Received

\* A stream that nothing happens to.
LEMMA StillArriving ==
  ASSUME NEW e, e = Client => conn' = conn,
         ConnOf(e) \in Conns => wire'[ConnOf(e)][InDir(e)] = wire[ConnOf(e)][InDir(e)]
  PROVE  Arriving(e)' = Arriving(e)
<1>1. ConnOf(e)' = ConnOf(e) /\ InDir(e)' = InDir(e)
  BY DEF ConnOf, InDir
<1> QED
  BY <1>1 DEF Arriving, Incoming

\* What is taken from the queue of a layer was received before.
LEMMA TakenFacts ==
  ASSUME NEW S, NEW t \in Seq(S), NEW q \in Seq(S)
  PROVE  /\ q # <<>> => Append(t, Head(q)) \o Tail(q) = t \o q
         /\ \A a \in S : t \o Append(q, a) = Append(t \o q, a)
<1>1. Len(t) \in Nat /\ Len(q) \in Nat
  BY LenProperties
<1>2. /\ t \o q \in Seq(S) /\ Len(t \o q) = Len(t) + Len(q)
      /\ \A i \in 1 .. Len(t) + Len(q) : (t \o q)[i] = IF i <= Len(t) THEN t[i] ELSE q[i - Len(t)]
  BY ConcatProperties
<1>3. ASSUME q # <<>>
      PROVE  Append(t, Head(q)) \o Tail(q) = t \o q
  <2> DEFINE u == Append(t, Head(q))
             v == Tail(q)
  <2>1. /\ Head(q) \in S /\ Head(q) = q[1] /\ v \in Seq(S)
        /\ Len(v) = Len(q) - 1
        /\ \A i \in 1 .. Len(v) : v[i] = q[i + 1]
    BY <1>3, HeadTailProperties
  <2>2. /\ u \in Seq(S) /\ Len(u) = Len(t) + 1
        /\ \A i \in 1 .. Len(t) : u[i] = t[i]
        /\ u[Len(t) + 1] = Head(q)
    BY <2>1, AppendProperties
  <2> HIDE DEF u, v
  <2>3. /\ u \o v \in Seq(S) /\ Len(u \o v) = Len(t) + Len(q)
        /\ \A i \in 1 .. Len(t) + Len(q) :
             (u \o v)[i] = IF i <= Len(t) + 1 THEN u[i] ELSE v[i - (Len(t) + 1)]
    <3>1. /\ u \o v \in Seq(S) /\ Len(u \o v) = Len(u) + Len(v)
          /\ \A i \in 1 .. Len(u) + Len(v) : (u \o v)[i] = IF i <= Len(u) THEN u[i] ELSE v[i - Len(u)]
      BY <2>1, <2>2, ConcatProperties
    <3>2. Len(u) + Len(v) = Len(t) + Len(q)
      BY <1>1, <2>1, <2>2
    <3> QED
      BY <2>2, <3>1, <3>2
  <2>4. ASSUME NEW i \in 1 .. Len(t) + Len(q)
        PROVE  (u \o v)[i] = (t \o q)[i]
    <3>1. CASE i <= Len(t)
      BY <1>1, <1>2, <2>2, <2>3, <3>1
    <3>2. CASE i = Len(t) + 1
      <4>1. (u \o v)[i] = q[1]
        BY <1>1, <2>1, <2>2, <2>3, <3>2
      <4>2. (t \o q)[i] = q[i - Len(t)] /\ i - Len(t) = 1
        BY <1>1, <1>2, <3>2
      <4> QED
        BY <4>1, <4>2
    <3>3. CASE i > Len(t) + 1
      <4>1. (u \o v)[i] = v[i - (Len(t) + 1)] /\ i - (Len(t) + 1) \in 1 .. Len(v)
        BY <1>1, <2>1, <2>3, <3>3
      <4>2. v[i - (Len(t) + 1)] = q[i - (Len(t) + 1) + 1]
        BY <2>1, <4>1
      <4>3. (t \o q)[i] = q[i - Len(t)] /\ i - (Len(t) + 1) + 1 = i - Len(t)
        BY <1>1, <1>2, <3>3
      <4> QED
        BY <4>1, <4>2, <4>3
    <3>4. i <= Len(t) \/ i = Len(t) + 1 \/ i > Len(t) + 1
      BY <1>1
    <3> QED
      BY <3>1, <3>2, <3>3, <3>4
  <2> QED
    BY <1>2, <2>3, <2>4, SeqEqual DEF u, v
<1>4. ASSUME NEW a \in S
      PROVE  t \o Append(q, a) = Append(t \o q, a)
  <2> DEFINE u == Append(q, a)
             v == Append(t \o q, a)
  <2>1. /\ u \in Seq(S) /\ Len(u) = Len(q) + 1
        /\ \A i \in 1 .. Len(q) : u[i] = q[i]
        /\ u[Len(q) + 1] = a
    BY AppendProperties
  <2>2. /\ v \in Seq(S) /\ Len(v) = Len(t) + Len(q) + 1
        /\ \A i \in 1 .. Len(t) + Len(q) : v[i] = (t \o q)[i]
        /\ v[Len(t) + Len(q) + 1] = a
    BY <1>2, AppendProperties
  <2> HIDE DEF u, v
  <2>3. /\ t \o u \in Seq(S) /\ Len(t \o u) = Len(t) + Len(q) + 1
        /\ \A i \in 1 .. Len(t) + Len(q) + 1 :
             (t \o u)[i] = IF i <= Len(t) THEN t[i] ELSE u[i - Len(t)]
    <3>1. /\ t \o u \in Seq(S) /\ Len(t \o u) = Len(t) + Len(u)
          /\ \A i \in 1 .. Len(t) + Len(u) :
               (t \o u)[i] = IF i <= Len(t) THEN t[i] ELSE u[i - Len(t)]
      BY <2>1, ConcatProperties
    <3>2. Len(t) + Len(u) = Len(t) + Len(q) + 1
      BY <1>1, <2>1
    <3> QED
      BY <3>1, <3>2
  <2>4. ASSUME NEW i \in 1 .. Len(t) + Len(q) + 1
        PROVE  (t \o u)[i] = v[i]
    <3>1. CASE i <= Len(t)
      <4>1. i \in 1 .. Len(t) + Len(q)
        BY <1>1, <3>1
      <4> QED
        BY <1>2, <2>2, <2>3, <3>1, <4>1
    <3>2. CASE i > Len(t) /\ i <= Len(t) + Len(q)
      <4>1. (t \o u)[i] = u[i - Len(t)] /\ i - Len(t) \in 1 .. Len(q)
        BY <1>1, <2>3, <3>2
      <4>2. v[i] = q[i - Len(t)]
        BY <1>1, <1>2, <2>2, <3>2
      <4> QED
        BY <2>1, <4>1, <4>2
    <3>3. CASE i = Len(t) + Len(q) + 1
      <4>1. (t \o u)[i] = u[i - Len(t)] /\ i - Len(t) = Len(q) + 1
        BY <1>1, <2>3, <3>3
      <4> QED
        BY <2>1, <2>2, <3>3, <4>1
    <3>4. i <= Len(t) \/ (i > Len(t) /\ i <= Len(t) + Len(q)) \/ i = Len(t) + Len(q) + 1
      BY <1>1
    <3> QED
      BY <3>1, <3>2, <3>3, <3>4
  <2> QED
    BY <2>2, <2>3, <2>4, SeqEqual DEF u, v
<1> QED
  BY <1>3, <1>4

\* Nothing new came to end e, and what is left of the past is in order.
Shrinks(e) ==
  /\ Past(e)' \subseteq Past(e)
  /\ Precede(Arrived(e)', Elements(Stream(e)'))
  /\ Sorted(Stream(e)')
  /\ Ascends(Received(e)')

\* Nothing happened to the end.
LEMMA ShrinksSame ==
  ASSUME Ordered, NEW e \in Ends, Stream(e)' = Stream(e), Received(e)' = Received(e)
  PROVE  Shrinks(e)
<1>1. Arrived(e)' = Arrived(e)
  BY SameReceived
<1>2. Past(e)' = Past(e)
  BY <1>1 DEF Past
<1> QED
  BY <1>1, <1>2 DEF Shrinks, Ordered

\* The stream lost its beginning, or its end.
LEMMA ShrinksLoss ==
  ASSUME Ordered, NEW e \in Ends, NEW g \in Seq(Byte), NEW t \in Seq(Byte),
         Stream(e) = g \o t, Stream(e)' \in {g, t}, Received(e)' = Received(e)
  PROVE  Shrinks(e)
<1>1. Arrived(e)' = Arrived(e)
  BY SameReceived
<1>2. Elements(Stream(e)) = Elements(g) \cup Elements(t)
  BY ConcatFacts
<1>3. Sorted(g) /\ Sorted(t)
  BY SortedParts DEF Ordered
<1>4. Precede(Arrived(e), Elements(Stream(e)))
  BY DEF Ordered
<1>5. Precede(Arrived(e), Elements(g)) /\ Precede(Arrived(e), Elements(t))
  BY <1>2, <1>4 DEF Precede
<1>6. Past(e)' \subseteq Past(e)
  <2>1. Past(e)' = Arrived(e)' \cup Elements(Stream(e)')
    BY DEF Past, Elements
  <2>2. Past(e) = Arrived(e) \cup Elements(Stream(e))
    BY DEF Past
  <2> QED
    BY <1>1, <1>2, <2>1, <2>2
<1>7. Ascends(Received(e))
  BY DEF Ordered
<1> QED
  BY <1>1, <1>3, <1>5, <1>6, <1>7 DEF Shrinks

\* The bytes before those still to come became a message.
LEMMA ShrinksTake ==
  ASSUME Types, Ordered, NEW e \in Ends,
         NEW g \in Seq(Byte), NEW t \in Seq(Byte), g # <<>>,
         Stream(e) = g \o t, Stream(e)' = t,
         Received(e)' = Append(Received(e), Decoded(g))
  PROVE  Shrinks(e)
<1> DEFINE m == Decoded(g)
<1>1. /\ m \in Message \cup {Garbage}
      /\ m # Garbage => m = g[1].msg /\ g = Bytes(m)
  BY DecodedFacts
<1>2. Received(e) \in Seq(Message \cup {Garbage})
  BY StreamTypes
<1> HIDE DEF m
<1>3. Elements(Received(e)') = Elements(Received(e)) \cup {m}
  <2> DEFINE s == Received(e)
  <2>1. Received(e)' = Append(s, m)
    BY DEF m
  <2>2. s \in Seq(Message \cup {Garbage})
    BY <1>2
  <2> HIDE DEF s
  <2>3. Elements(Append(s, m)) = Elements(s) \cup {m}
    BY <1>1, <2>2, ElementFacts
  <2> QED
    BY <2>1, <2>3 DEF s
<1>4. m # Garbage => m \in Message /\ Rest(m, 1) = Elements(g)
  BY <1>1, RestFacts
<1>5. Arrived(e)' = Arrived(e) \cup (IF m = Garbage THEN {} ELSE Rest(m, 1))
  <2>1. Arrived(e)' = UNION {Rest(n, 1) : n \in Elements(Received(e)') \ {Garbage}}
    BY DEF Arrived, Rest, Elements
  <2>2. Arrived(e) = UNION {Rest(n, 1) : n \in Elements(Received(e)) \ {Garbage}}
    BY DEF Arrived
  <2>3. CASE m = Garbage
    <3>1. Elements(Received(e)') \ {Garbage} = Elements(Received(e)) \ {Garbage}
      BY <1>3, <2>3
    <3> QED
      BY <2>1, <2>2, <2>3, <3>1
  <2>4. CASE m # Garbage
    <3>1. Elements(Received(e)') \ {Garbage} = (Elements(Received(e)) \ {Garbage}) \cup {m}
      BY <1>3, <2>4
    <3> QED
      BY <2>1, <2>2, <2>4, <3>1
  <2> QED
    BY <2>3, <2>4
<1>6. Elements(Stream(e)) = Elements(g) \cup Elements(t)
  BY ConcatFacts
<1>7. Sorted(t) /\ Precede(Elements(g), Elements(t))
  BY SortedParts DEF Ordered
<1>8. Precede(Arrived(e), Elements(Stream(e)))
  BY DEF Ordered
<1>9. Precede(Arrived(e)', Elements(Stream(e)'))
  <2>1. \A b \in Arrived(e)' : b \in Arrived(e) \/ b \in Elements(g)
    BY <1>4, <1>5
  <2>2. \A b \in Arrived(e), c \in Elements(t) : Earlier(b, c)
    BY <1>6, <1>8 DEF Precede
  <2>3. \A b \in Elements(g), c \in Elements(t) : Earlier(b, c)
    BY <1>7 DEF Precede
  <2>4. \A b \in Arrived(e)', c \in Elements(t) : Earlier(b, c)
    BY <2>1, <2>2, <2>3
  <2> QED
    BY <2>4 DEF Precede
<1>10. Past(e)' \subseteq Past(e)
  <2>1. Past(e)' = Arrived(e)' \cup Elements(Stream(e)')
    BY DEF Past, Elements
  <2>2. Past(e) = Arrived(e) \cup Elements(Stream(e))
    BY DEF Past
  <2>3. Arrived(e)' \subseteq Arrived(e) \cup Elements(g)
    BY <1>4, <1>5
  <2> QED
    BY <1>6, <2>1, <2>2, <2>3
<1>11. Ascends(Received(e)')
  <2> DEFINE s == Received(e)
             u == Append(s, m)
  <2>1. /\ Len(s) \in Nat /\ DOMAIN s = 1 .. Len(s)
        /\ DOMAIN u = 1 .. Len(s) + 1
        /\ \A i \in 1 .. Len(s) : u[i] = s[i]
        /\ u[Len(s) + 1] = m
    <3>1. /\ u \in Seq(Message \cup {Garbage}) /\ Len(u) = Len(s) + 1
          /\ \A i \in 1 .. Len(s) : u[i] = s[i]
          /\ u[Len(s) + 1] = m
      BY <1>1, <1>2, AppendProperties
    <3> QED
      BY <1>2, <3>1, LenProperties
  <2>2. \A i, j \in DOMAIN s : i < j => InOrder(s[i], s[j])
    BY DEF Ordered, Ascends
  <2>3. ASSUME NEW i \in DOMAIN s, s[i] # Garbage, m # Garbage
        PROVE  Before(s[i], m)
    <3>1. s[i] \in Message /\ m \in Message
      BY <1>2, <1>4, <2>1, <2>3, ElementOfSeq
    <3>2. [msg |-> s[i], pos |-> s[i].size] \in Arrived(e)
      <4>1. s[i] \in Elements(s) \ {Garbage}
        BY <2>3 DEF Elements
      <4>2. [msg |-> s[i], pos |-> s[i].size] \in Rest(s[i], 1)
        BY <3>1, RestFacts
      <4> QED
        BY <4>1, <4>2 DEF Arrived
    <3>3. [msg |-> m, pos |-> 1] \in Elements(Stream(e))
      <4>1. [msg |-> m, pos |-> 1] \in Rest(m, 1)
        BY <3>1, RestFacts
      <4>2. Rest(m, 1) = Elements(g)
        BY <1>4, <2>3
      <4> QED
        BY <1>6, <4>1, <4>2
    <3>4. Earlier([msg |-> s[i], pos |-> s[i].size], [msg |-> m, pos |-> 1])
      BY <1>8, <3>2, <3>3 DEF Precede
    <3> QED
      BY <3>1, <3>4, WholeBefore
  <2>4. Received(e)' = u
    BY DEF m
  <2> HIDE DEF s, u
  <2>5. ASSUME NEW i \in DOMAIN u, NEW j \in DOMAIN u, i < j
        PROVE  InOrder(u[i], u[j])
    <3>1. i \in DOMAIN s /\ (j \in DOMAIN s \/ j = Len(s) + 1)
      BY <2>1, <2>5
    <3>2. CASE j \in DOMAIN s
      BY <2>1, <2>2, <2>5, <3>1, <3>2
    <3>3. CASE j = Len(s) + 1
      BY <2>1, <2>3, <3>1, <3>3 DEF InOrder
    <3> QED
      BY <3>1, <3>2, <3>3
  <2> QED
    BY <2>4, <2>5 DEF Ascends
<1> QED
  BY <1>7, <1>9, <1>10, <1>11 DEF Shrinks

\* Where nothing new came to any end, and the senders have nothing more to write
\* than they had and what they sent just now, the order is kept.
LEMMA OrderKept ==
  ASSUME Types, Queued, Genuine, Ordered, NothingYet,
         \A e \in Ends : Shrinks(e),
         \A f \in Ends : \A c \in Ahead(layer'[f]) :
           \/ c \in Ahead(layer[f])
           \/ c.msg.from = f /\ c.msg.no = Len(sent[f]) + 1,
         \A f \in Ends, m \in Message : IsSent(m, f) => IsSent(m, f)',
         conn' \in Nat, conn <= conn'
  PROVE  Genuine' /\ Ordered' /\ NothingYet'
<1>1. \A e \in Ends : Past(e)' \subseteq Past(e)
  BY DEF Shrinks
<1>2. NothingYet'
  <2> SUFFICES ASSUME NEW k \in Conns, k > conn' PROVE Past(k)' = {}
    BY DEF NothingYet
  <2>1. k > conn
    BY Bounds DEF Types
  <2>2. Past(k) = {}
    BY <2>1 DEF NothingYet
  <2> QED
    BY <1>1, <2>2, Bounds
<1>3. Genuine'
  <2> SUFFICES ASSUME NEW e \in Ends, NEW b \in Past(e)'
               PROVE  /\ \E f \in Senders(e)' : IsSent(b.msg, f)'
                      /\ b.pos \in 1 .. b.msg.size
    BY DEF Genuine
  <2>1. b \in Past(e) /\ b.msg \in Message
    BY <1>1, StreamTypes DEF Byte
  <2>2. PICK f \in Senders(e) : IsSent(b.msg, f)
    BY <2>1 DEF Genuine
  <2>3. f \in Ends /\ f \in Senders(e)'
    <3>1. conn \in 0 .. MaxConnects
      BY DEF Types
    <3>2. 1 .. conn \subseteq Ends /\ 1 .. conn \subseteq 1 .. conn'
      BY <3>1, Bounds
    <3> QED
      BY <3>2, Bounds DEF Senders
  <2>4. b.pos \in 1 .. b.msg.size
    BY <2>1 DEF Genuine
  <2> QED
    BY <2>1, <2>2, <2>3, <2>4
<1>4. ASSUME NEW k \in Conns, NEW l \in Conns, k < l
      PROVE  Precede(Past(k)', Past(l)')
  <2>1. Precede(Past(k), Past(l))
    BY <1>4 DEF Ordered
  <2> QED
    BY <1>1, <2>1, Bounds DEF Precede
<1>5. ASSUME NEW e \in Ends
      PROVE  /\ Precede(Arrived(e)', Elements(Stream(e)'))
             /\ Sorted(Stream(e)')
             /\ Ascends(Received(e)')
  BY DEF Shrinks
<1>6. ASSUME NEW e \in Ends, NEW b \in Past(e)'
      PROVE  Precede({b}, Ahead(layer'[b.msg.from]))
  <2>1. b \in Past(e) /\ b.msg \in Message
    BY <1>1, StreamTypes DEF Byte
  <2>2. PICK f \in Senders(e) : IsSent(b.msg, f)
    BY <2>1 DEF Genuine
  <2>3. f \in Ends /\ b.msg.from = f /\ b.msg.no \in DOMAIN sent[f]
    BY <2>1, <2>2, MessageFacts DEF IsSent
  <2>4. b.msg.no <= Len(sent[f]) /\ Len(sent[f]) \in Nat /\ b.msg.no \in Nat
    <3>1. sent[f] \in Seq(Message)
      BY <2>3 DEF Types
    <3>2. DOMAIN sent[f] = 1 .. Len(sent[f]) /\ Len(sent[f]) \in Nat
      BY <3>1, LenProperties
    <3> QED
      BY <2>3, <3>2
  <2>5. Precede({b}, Ahead(layer[f]))
    BY <2>1, <2>3 DEF Ordered
  <2>6. ASSUME NEW c \in Ahead(layer'[f])
        PROVE  Earlier(b, c)
    <3>1. CASE c \in Ahead(layer[f])
      BY <2>5, <3>1 DEF Precede
    <3>2. CASE c.msg.from = f /\ c.msg.no = Len(sent[f]) + 1
      <4>1. b.msg.no < c.msg.no
        BY <2>4, <3>2
      <4> QED
        BY <2>3, <3>2, <4>1 DEF Earlier, Before
    <3> QED
      BY <2>3, <3>1, <3>2
  <2> QED
    BY <2>3, <2>6 DEF Precede
<1>7. Ordered'
  <2>1. \A k, l \in Conns : k < l => Precede(Past(k)', Past(l)')
    BY <1>4
  <2>2. \A e \in Ends : /\ Precede(Arrived(e)', Elements(Stream(e)'))
                        /\ Sorted(Stream(e)')
                        /\ Ascends(Received(e)')
    BY <1>5
  <2>3. \A e \in Ends : \A b \in Past(e)' : Precede({b}, Ahead(layer'[b.msg.from]))
    BY <1>6
  <2> QED
    BY <2>1, <2>2, <2>3 DEF Ordered, Precede, Sorted, Ascends, Elements, Ahead, Rest
<1> QED
  BY <1>2, <1>3, <1>7

-----------------------------------------------------------------------------
(* What is still to be written.                                            *)

\* A layer that keeps its queue and its half written message.
SameAhead(x, l) ==
  /\ x.outQueue = l.outQueue
  /\ x.currentWriteMessage = l.currentWriteMessage
  /\ l.currentWriteMessage # NoMessage => x.currentBytesLeft = l.currentBytesLeft

\* Nothing changes for it.
LEMMA AheadSame ==
  ASSUME NEW l, NEW x, SameAhead(x, l), NEW e
  PROVE  Ahead(x) = Ahead(l) /\ (Lined(l, e) => Lined(x, e))
<1>1. Ahead(x) = Ahead(l)
  BY DEF SameAhead, Ahead
<1>2. Lined(l, e) => Lined(x, e)
  BY DEF SameAhead, Lined
<1> QED
  BY <1>1, <1>2

\* What a layer has to write are bytes.
LEMMA AheadTypes ==
  ASSUME NEW l \in Layer, Cursor(l)
  PROVE  Ahead(l) \subseteq Byte
<1>1. l.outQueue \in Seq(Message) /\ l.currentWriteMessage \in Message \cup {NoMessage}
      /\ l.currentBytesLeft \in Nat
  BY LayerFields
<1>2. Elements(l.outQueue) \subseteq Message
  BY <1>1, ElementFacts
<1>3. ASSUME l.currentWriteMessage # NoMessage
      PROVE  Rest(l.currentWriteMessage,
                  l.currentWriteMessage.size - l.currentBytesLeft + 1) \subseteq Byte
  <2> DEFINE m == l.currentWriteMessage
             p == m.size - l.currentBytesLeft + 1
  <2>1. m \in Message /\ l.currentBytesLeft \in 1 .. m.size
    BY <1>1, <1>3 DEF Cursor
  <2>2. m.size \in Nat
    BY <2>1, MessageFacts
  <2>3. p \in Nat \ {0}
    BY <2>1, <2>2
  <2> HIDE DEF m, p
  <2>4. Rest(m, p) \subseteq Rest(m, 1) /\ Rest(m, 1) \subseteq Byte
    BY <2>1, <2>3, RestFacts
  <2> QED
    BY <2>4 DEF m, p
<1>4. UNION {Rest(m, 1) : m \in Elements(l.outQueue)} \subseteq Byte
  <2>1. \A m \in Elements(l.outQueue) : Rest(m, 1) \subseteq Byte
    BY <1>2, RestFacts
  <2> QED
    BY <2>1
<1> QED
  BY <1>3, <1>4 DEF Ahead

\* The first message of the queue becomes the one that is written.
LEMMA AheadStarted ==
  ASSUME NEW l \in Layer, Cursor(l), l.currentWriteMessage # NoMessage \/ l.outQueue # <<>>,
         NEW e, Lined(l, e)
  PROVE  Ahead(WriteStarted(l)) \subseteq Ahead(l) /\ Lined(WriteStarted(l), e)
<1> DEFINE x == WriteStarted(l)
<1>1. CASE l.currentWriteMessage # NoMessage
  <2>1. x = l
    BY <1>1, WriteStartedFacts
  <2> QED
    BY <2>1
<1>2. CASE l.currentWriteMessage = NoMessage
  <2> DEFINE m == l.outQueue[1]
  <2>1. /\ l.outQueue # <<>> /\ x.outQueue = <<>> /\ x.currentWriteMessage = m
        /\ x.currentBytesLeft = m.size
        /\ x.currentWriteMessage \in Message
    BY <1>2, WriteStartedFacts
  <2>2. l.outQueue \in Seq(Message)
    BY LayerFields
  <2>3. 1 \in DOMAIN l.outQueue /\ DOMAIN x.outQueue = {}
    BY <2>1, <2>2, EmptySeq, LenProperties
  <2>4. m \in Elements(l.outQueue) /\ Elements(x.outQueue) = {}
    BY <2>3 DEF Elements
  <2>5. m.size \in Nat /\ m # NoMessage
    BY <2>1, MessageFacts
  <2>6. m.size - m.size + 1 = 1
    BY <2>5
  <2> HIDE DEF m, x
  <2>7. Ahead(x) = Rest(m, 1)
    <3>1. UNION {Rest(n, 1) : n \in Elements(x.outQueue)} = {}
      BY <2>4
    <3> QED
      BY <2>1, <2>5, <2>6, <3>1 DEF Ahead
  <2>8. Rest(m, 1) \subseteq Ahead(l)
    BY <2>4 DEF Ahead
  <2>9. Lined(x, e)
    <3>1. IsSent(m, e)
      BY <2>3 DEF Lined, m
    <3> QED
      BY <2>1, <2>3, <3>1 DEF Lined
  <2> QED
    BY <2>7, <2>8, <2>9 DEF x
<1> QED
  BY <1>1, <1>2

\* The next piece of a message comes before what is then still to be written.
LEMMA AheadAdvanced ==
  ASSUME NEW l \in Layer, l.currentWriteMessage \in Message,
         l.currentBytesLeft \in 1 .. l.currentWriteMessage.size,
         NEW n \in 1 .. l.currentBytesLeft, NEW e, Lined(l, e),
         NEW done \in Nat, done = l.currentWriteMessage.size - l.currentBytesLeft
  PROVE  LET piece == SubSeq(Bytes(l.currentWriteMessage), done + 1, done + n)
         IN  /\ piece \in Seq(Byte) /\ Sorted(piece)
             /\ Elements(piece) \subseteq Ahead(l)
             /\ Ahead(Advanced(l, n)) \subseteq Ahead(l)
             /\ Precede(Elements(piece), Ahead(Advanced(l, n)))
             /\ Lined(Advanced(l, n), e)
             /\ \A b \in Elements(piece) : b.msg = l.currentWriteMessage
<1> DEFINE m == l.currentWriteMessage
           left == l.currentBytesLeft
           piece == SubSeq(Bytes(m), done + 1, done + n)
           x == Advanced(l, n)
           later == UNION {Rest(k, 1) : k \in Elements(l.outQueue)}
<1>1. /\ m \in Message /\ m.size \in Nat /\ m # NoMessage
      /\ left \in 1 .. m.size /\ n \in 1 .. left /\ done = m.size - left
  BY MessageFacts
<1>2. left \in Nat /\ n \in Nat /\ done + n <= m.size /\ m.size - left + 1 = done + 1
      /\ (n < left => m.size - (left - n) + 1 = done + n + 1)
  BY <1>1
<1>3. /\ x.outQueue = l.outQueue
      /\ \/ n < left /\ x.currentWriteMessage = m /\ x.currentBytesLeft = left - n
         \/ n = left /\ x.currentWriteMessage = NoMessage
  BY AdvancedFacts
<1>4. /\ piece \in Seq(Byte) /\ Len(piece) = n
      /\ \A i \in 1 .. n : piece[i] = [msg |-> m, pos |-> done + i]
  BY <1>1, <1>2, PieceFacts
<1>5. DOMAIN piece = 1 .. n
  BY <1>4, LenProperties
<1>6. l.outQueue \in Seq(Message) /\ Elements(l.outQueue) \subseteq Message
  BY LayerFields, ElementFacts
<1>7. Ahead(l) = Rest(m, done + 1) \cup later
  BY <1>1, <1>2 DEF Ahead
<1>8. Ahead(x) = IF n < left THEN Rest(m, done + n + 1) \cup later ELSE later
  <2>1. CASE n < left /\ x.currentWriteMessage = m /\ x.currentBytesLeft = left - n
    <3>1. m.size - x.currentBytesLeft + 1 = done + n + 1
      BY <1>2, <2>1
    <3> QED
      BY <1>1, <1>3, <2>1, <3>1 DEF Ahead
  <2>2. CASE n = left /\ x.currentWriteMessage = NoMessage
    <3>1. ~(n < left)
      BY <1>2, <2>2
    <3> QED
      BY <1>3, <2>2, <3>1 DEF Ahead
  <2> QED
    BY <1>3, <2>1, <2>2
<1>9. IsSent(m, e) /\ \A i \in DOMAIN l.outQueue : Before(m, l.outQueue[i])
  BY <1>1 DEF Lined
<1>10. Lined(x, e)
  <2>1. x.currentWriteMessage \in {m, NoMessage}
    BY <1>3
  <2> HIDE DEF x, m
  <2> QED
    BY <1>3, <1>9, <2>1 DEF Lined
<1> HIDE DEF x, m, piece, left
<1>11. Sorted(piece)
  <2> SUFFICES ASSUME NEW i \in 1 .. n, NEW j \in 1 .. n, i < j
               PROVE  Earlier(piece[i], piece[j])
    BY <1>5 DEF Sorted
  <2>1. done + i < done + j
    BY <1>2
  <2> QED
    BY <1>4, <2>1 DEF Earlier
<1>12. Elements(piece) \subseteq Rest(m, done + 1)
  <2>1. \A i \in 1 .. n : done + i \in done + 1 .. m.size
    BY <1>1, <1>2
  <2> QED
    BY <1>4, <1>5, <2>1 DEF Elements, Rest
<1>13. Ahead(x) \subseteq Ahead(l)
  <2>1. n < left => Rest(m, done + n + 1) \subseteq Rest(m, done + 1)
    <3>1. done + n + 1 .. m.size \subseteq done + 1 .. m.size
      BY <1>1, <1>2
    <3> QED
      BY <3>1 DEF Rest
  <2> QED
    BY <1>7, <1>8, <2>1
<1>14. ASSUME NEW b \in Elements(piece), NEW c \in Ahead(x)
       PROVE  Earlier(b, c)
  <2>1. PICK i \in 1 .. n : b = [msg |-> m, pos |-> done + i]
    BY <1>4, <1>5 DEF Elements
  <2>2. CASE c \in Rest(m, done + n + 1)
    <3>1. PICK q \in done + n + 1 .. m.size : c = [msg |-> m, pos |-> q]
      BY <2>2 DEF Rest
    <3>2. done + i < q
      BY <1>1, <1>2, <3>1
    <3> QED
      BY <2>1, <3>1, <3>2 DEF Earlier
  <2>3. CASE c \in later
    <3>1. PICK k \in Elements(l.outQueue) : c \in Rest(k, 1)
      BY <2>3
    <3>2. Before(m, k) /\ k \in Message
      BY <1>6, <1>9, <3>1 DEF Elements
    <3>3. c.msg = k
      BY <3>1, <3>2, RestFacts
    <3> QED
      BY <2>1, <3>2, <3>3 DEF Earlier
  <2> QED
    BY <1>8, <2>2, <2>3
<1>15. \A b \in Elements(piece) : b.msg = m
  BY <1>4, <1>5 DEF Elements
<1>16. Elements(piece) \subseteq Ahead(l)
  BY <1>7, <1>12
<1>17. Precede(Elements(piece), Ahead(x))
  BY <1>14 DEF Precede
<1> QED
  BY <1>4, <1>10, <1>11, <1>13, <1>15, <1>16, <1>17 DEF piece, m, x

\* A step that leaves the queues as they are, or takes from one of them.
LEMMA QueuesKept ==
  ASSUME Types, Queued, NEW e \in Ends, NEW x \in Layer, layer' = [layer EXCEPT ![e] = x],
         sent' = sent, Lined(x, e), Ahead(x) \subseteq Ahead(layer[e])
  PROVE  /\ Queued'
         /\ \A f \in Ends : Ahead(layer'[f]) \subseteq Ahead(layer[f])
         /\ \A f \in Ends, m \in Message : IsSent(m, f) => IsSent(m, f)'
<1>1. layer'[e] = x /\ \A f \in Ends : f # e => layer'[f] = layer[f]
  BY DEF Types
<1>2. \A f \in Ends : Lined(layer'[f], f)
  BY <1>1 DEF Queued
<1>3. Queued'
  <2>1. \A f \in Ends : Lined(layer[f], f)' <=> Lined(layer'[f], f)
    BY DEF Lined, IsSent
  <2> QED
    BY <1>2, <2>1 DEF Queued
<1>4. \A f \in Ends, m \in Message : IsSent(m, f) => IsSent(m, f)'
  BY DEF IsSent
<1> QED
  BY <1>1, <1>3, <1>4

\* A message goes into the queue.
LEMMA QueueGrows ==
  ASSUME Types, Queued, NEW e \in Ends, NEW m \in Message,
         m.from = e, m.no = Len(sent[e]) + 1,
         sent' = [sent EXCEPT ![e] = Append(@, m)],
         NEW x \in Layer, layer' = [layer EXCEPT ![e] = x],
         x.outQueue = Append(layer[e].outQueue, m),
         x.currentWriteMessage = layer[e].currentWriteMessage,
         x.currentBytesLeft = layer[e].currentBytesLeft
  PROVE  /\ Queued'
         /\ \A f \in Ends : \A c \in Ahead(layer'[f]) :
              \/ c \in Ahead(layer[f])
              \/ c.msg.from = f /\ c.msg.no = Len(sent[f]) + 1
         /\ \A f \in Ends, n \in Message : IsSent(n, f) => IsSent(n, f)'
<1> DEFINE s == sent[e]
           q == layer[e].outQueue
<1>1. layer'[e] = x /\ \A f \in Ends : f # e => layer'[f] = layer[f]
  BY DEF Types
<1>2. sent'[e] = Append(s, m) /\ \A f \in Ends : f # e => sent'[f] = sent[f]
  BY DEF Types
<1>3. s \in Seq(Message) /\ q \in Seq(Message)
  BY LayerFields DEF Types
<1> HIDE DEF s, q
<1>4. /\ Len(s) \in Nat /\ DOMAIN s = 1 .. Len(s) /\ DOMAIN Append(s, m) = 1 .. Len(s) + 1
      /\ \A i \in 1 .. Len(s) : Append(s, m)[i] = s[i]
      /\ Append(s, m)[Len(s) + 1] = m
  <2>1. /\ Append(s, m) \in Seq(Message) /\ Len(Append(s, m)) = Len(s) + 1
        /\ \A i \in 1 .. Len(s) : Append(s, m)[i] = s[i]
        /\ Append(s, m)[Len(s) + 1] = m
    BY <1>3, AppendProperties
  <2> QED
    BY <1>3, <2>1, LenProperties
<1>5. /\ Len(q) \in Nat /\ DOMAIN q = 1 .. Len(q) /\ DOMAIN Append(q, m) = 1 .. Len(q) + 1
      /\ \A i \in 1 .. Len(q) : Append(q, m)[i] = q[i]
      /\ Append(q, m)[Len(q) + 1] = m
  <2>1. /\ Append(q, m) \in Seq(Message) /\ Len(Append(q, m)) = Len(q) + 1
        /\ \A i \in 1 .. Len(q) : Append(q, m)[i] = q[i]
        /\ Append(q, m)[Len(q) + 1] = m
    BY <1>3, AppendProperties
  <2> QED
    BY <1>3, <2>1, LenProperties
<1>6. \A i \in 1 .. Len(s) + 1 : i \in 1 .. Len(s) \/ i = Len(s) + 1
  BY <1>4
<1>7. \A i \in 1 .. Len(q) + 1 : i \in 1 .. Len(q) \/ i = Len(q) + 1
  BY <1>5
<1>8. \A f \in Ends, n \in Message : IsSent(n, f) => IsSent(n, f)'
  <2> SUFFICES ASSUME NEW f \in Ends, NEW n \in Message, IsSent(n, f) PROVE IsSent(n, f)'
    OBVIOUS
  <2>1. CASE f = e
    <3>1. n.from = e /\ n.no \in 1 .. Len(s) /\ s[n.no] = n
      BY <1>4, <2>1 DEF IsSent, s
    <3>2. n.no \in 1 .. Len(s) + 1
      BY <1>4, <3>1
    <3> QED
      BY <1>2, <1>4, <2>1, <3>1, <3>2 DEF IsSent
  <2>2. CASE f # e
    BY <1>2, <2>2 DEF IsSent
  <2> QED
    BY <2>1, <2>2
<1>9. IsSent(m, e)'
  <2>1. m.no \in 1 .. Len(s) + 1 /\ m.no = Len(s) + 1
    BY <1>4 DEF s
  <2> QED
    BY <1>2, <1>4, <2>1 DEF IsSent
<1>10. \A n \in Message : IsSent(n, e) => Before(n, m)
  <2> SUFFICES ASSUME NEW n \in Message, IsSent(n, e) PROVE Before(n, m)
    OBVIOUS
  <2>1. n.from = e /\ n.no \in 1 .. Len(s)
    BY <1>4 DEF IsSent, s
  <2>2. n.no < m.no
    BY <1>4, <2>1 DEF s
  <2> QED
    BY <2>1, <2>2 DEF Before
<1>11. Lined(layer[e], e)
  BY DEF Queued
<1>12. ASSUME NEW i \in DOMAIN q PROVE q[i] \in Message /\ IsSent(q[i], e)
  <2>1. q[i] \in Message
    BY <1>3, <1>5, ElementOfSeq
  <2> QED
    BY <1>11, <2>1 DEF Lined, q
<1>13. Lined(layer[e], e)'
  <2>1. x.outQueue = Append(q, m)
    BY DEF q
  <2>2. \A i \in DOMAIN x.outQueue : IsSent(x.outQueue[i], e)'
    BY <1>5, <1>7, <1>8, <1>9, <1>12, <2>1
  <2>3. ASSUME NEW i \in DOMAIN x.outQueue, NEW j \in DOMAIN x.outQueue, i < j
        PROVE  Before(x.outQueue[i], x.outQueue[j])
    <3>1. i \in 1 .. Len(q)
      BY <1>5, <2>1, <2>3
    <3>2. CASE j \in 1 .. Len(q)
      <4>1. Before(q[i], q[j])
        BY <1>5, <1>11, <2>3, <3>1, <3>2 DEF Lined, q
      <4> QED
        BY <1>5, <2>1, <3>1, <3>2, <4>1
    <3>3. CASE j = Len(q) + 1
      <4>1. Before(q[i], m)
        BY <1>5, <1>10, <1>12, <3>1
      <4> QED
        BY <1>5, <2>1, <3>1, <3>3, <4>1
    <3> QED
      BY <1>5, <1>7, <2>1, <3>2, <3>3
  <2>4. ASSUME x.currentWriteMessage # NoMessage
        PROVE  /\ IsSent(x.currentWriteMessage, e)'
               /\ \A i \in DOMAIN x.outQueue : Before(x.currentWriteMessage, x.outQueue[i])
    <3> DEFINE w == x.currentWriteMessage
    <3>1. w \in Message /\ IsSent(w, e) /\ \A i \in DOMAIN q : Before(w, q[i])
      BY <1>11, <2>4, LayerFields DEF Lined, q
    <3> HIDE DEF w
    <3>2. Before(w, m) /\ IsSent(w, e)'
      BY <1>8, <1>10, <3>1
    <3>3. \A i \in DOMAIN x.outQueue : Before(w, x.outQueue[i])
      BY <1>5, <1>7, <2>1, <3>1, <3>2
    <3> QED
      BY <3>2, <3>3 DEF w
  <2>5. layer'[e] = x
    BY <1>1
  <2> QED
    BY <2>2, <2>3, <2>4, <2>5 DEF Lined
<1>14. Queued'
  <2> SUFFICES ASSUME NEW f \in Ends
               PROVE  /\ \A i \in DOMAIN sent'[f] : sent'[f][i].from = f /\ sent'[f][i].no = i
                      /\ Lined(layer[f], f)'
    BY DEF Queued
  <2>1. CASE f = e
    <3>1. \A i \in 1 .. Len(s) : s[i].from = e /\ s[i].no = i
      BY <1>4 DEF Queued, s
    <3>2. m.from = e /\ m.no = Len(s) + 1
      BY DEF s
    <3> QED
      BY <1>2, <1>4, <1>6, <1>13, <2>1, <3>1, <3>2
  <2>2. CASE f # e
    <3>1. layer'[f] = layer[f] /\ sent'[f] = sent[f]
      BY <1>1, <1>2, <2>2
    <3>2. \A n : IsSent(n, f)' <=> IsSent(n, f)
      BY <3>1 DEF IsSent
    <3>3. Lined(layer[f], f)
      BY DEF Queued
    <3>4. Lined(layer[f], f)'
      BY <3>1, <3>2, <3>3 DEF Lined
    <3> QED
      BY <3>1, <3>4 DEF Queued
  <2> QED
    BY <2>1, <2>2
<1>15. ASSUME NEW c \in Ahead(x)
       PROVE  c \in Ahead(layer[e]) \/ (c.msg.from = e /\ c.msg.no = Len(sent[e]) + 1)
  <2>1. Elements(x.outQueue) = Elements(q) \cup {m}
    <3>1. Elements(Append(q, m)) = Elements(q) \cup {m}
      BY <1>3, ElementFacts
    <3> QED
      BY <3>1 DEF q
  <2>2. c \in Ahead(layer[e]) \/ c \in Rest(m, 1)
    BY <2>1 DEF Ahead, q
  <2>3. c \in Rest(m, 1) => c.msg = m
    BY RestFacts
  <2> QED
    BY <2>2, <2>3
<1> QED
  BY <1>1, <1>8, <1>14, <1>15

-----------------------------------------------------------------------------
(* OInv is inductive: one lemma per action.                                *)

\* A step of one layer that sends nothing new.
LEMMA QuietOrder ==
  ASSUME Types, InOrderInv, NEW e \in Ends, NEW x \in Layer,
         layer' = [layer EXCEPT ![e] = x], sent' = sent, conn' = conn,
         Lined(x, e), Ahead(x) \subseteq Ahead(layer[e]),
         \A f \in Ends : Shrinks(f)
  PROVE  InOrderInv'
<1>1. /\ Queued'
      /\ \A f \in Ends : Ahead(layer'[f]) \subseteq Ahead(layer[f])
      /\ \A f \in Ends, m \in Message : IsSent(m, f) => IsSent(m, f)'
  BY QueuesKept DEF InOrderInv
<1>2. conn' \in Nat /\ conn <= conn'
  BY Bounds DEF Types
<1>3. \A f \in Ends : \A c \in Ahead(layer'[f]) :
        c \in Ahead(layer[f]) \/ (c.msg.from = f /\ c.msg.no = Len(sent[f]) + 1)
  BY <1>1
<1>4. Genuine' /\ Ordered' /\ NothingYet'
  BY <1>1, <1>2, <1>3, OrderKept DEF InOrderInv
<1> QED
  BY <1>1, <1>4 DEF InOrderInv

\* The ends that a step of end e leaves alone.
LEMMA OthersRest ==
  ASSUME Types, InOrderInv, NEW e \in Ends, NEW x \in Layer,
         layer' = [layer EXCEPT ![e] = x], NEW f \in Ends, f # e,
         taken'[f] = taken[f], f = Client => conn' = conn,
         ConnOf(f) \in Conns => wire'[ConnOf(f)][InDir(f)] = wire[ConnOf(f)][InDir(f)]
  PROVE  /\ Shrinks(f) /\ Stream(f)' = Stream(f) /\ Received(f)' = Received(f)
         /\ Held(f)' = Held(f)
<1>1. layer'[f] = layer[f]
  BY DEF Types
<1>2. Held(f)' = Held(f) /\ Received(f)' = Received(f)
  BY <1>1, Untouched
<1>3. Arriving(f)' = Arriving(f)
  BY StillArriving
<1>4. Stream(f)' = Stream(f)
  BY <1>2, <1>3 DEF Stream
<1> QED
  BY <1>2, <1>4, ShrinksSame DEF InOrderInv

\* A step of one layer that moves no bytes and takes no message.
LEMMA StandStill ==
  ASSUME Types, InOrderInv, NEW e \in Ends, NEW x \in Layer,
         layer' = [layer EXCEPT ![e] = x],
         UNCHANGED <<conn, wire, taken>>,
         x.inQueue = layer[e].inQueue,
         (Reads(x) /\ Reads(layer[e]) /\ x.got = layer[e].got) \/ ~Reads(x)
  PROVE  \A f \in Ends : Shrinks(f)
<1>1. layer'[e] = x
  BY DEF Types
<1>2. Received(e)' = Received(e)
  BY <1>1 DEF Received
<1>3. Arriving(e)' = Arriving(e)
  BY StillArriving
<1>4. Held(e) \in Seq(Byte) /\ Arriving(e) \in Seq(Byte)
  BY StreamTypes
<1>5. Held(e)' \in {Held(e), <<>>}
  BY <1>1 DEF Held, Reads
<1>6. Stream(e)' = Held(e)' \o Arriving(e)
  BY <1>3 DEF Stream
<1>7. Shrinks(e)
  <2>1. CASE Held(e)' = Held(e)
    <3>1. Stream(e)' = Stream(e)
      BY <1>6, <2>1 DEF Stream
    <3> QED
      BY <1>2, <3>1, ShrinksSame DEF InOrderInv
  <2>2. CASE Held(e)' = <<>>
    <3>1. Stream(e)' = Arriving(e)
      BY <1>4, <1>6, <2>2, ConcatEmptySeq
    <3>2. Stream(e) = Held(e) \o Arriving(e)
      BY DEF Stream
    <3> QED
      BY <1>2, <1>4, <3>1, <3>2, ShrinksLoss DEF InOrderInv
  <2> QED
    BY <1>5, <2>1, <2>2
<1>8. ASSUME NEW f \in Ends, f # e PROVE Shrinks(f)
  BY <1>8, OthersRest
<1> QED
  BY <1>7, <1>8

\* A step that changes nothing but the status of a layer.
LEMMA RestateKeepsOrder ==
  ASSUME CInv, InOrderInv, NEW e \in Ends, Restates(e)
  PROVE  InOrderInv'
<1>1. PICK s \in Statuses \ {"None"} :
        /\ layer' = [layer EXCEPT ![e] = Restated(layer[e], s)]
        /\ UNCHANGED <<conn, link, broken, wire, sent, taken>>
  BY RestateStep
<1> DEFINE x == Restated(layer[e], s)
<1>2. layer[e] \in Layer
  BY DEF CInv, Types
<1>3. /\ x \in Layer /\ x.inQueue = layer[e].inQueue /\ x.outQueue = layer[e].outQueue
      /\ x.currentPointer = layer[e].currentPointer /\ x.got = layer[e].got
      /\ x.currentWriteMessage = layer[e].currentWriteMessage
      /\ x.currentBytesLeft = layer[e].currentBytesLeft
  BY <1>2, RestatedFacts
<1>4. layer' = [layer EXCEPT ![e] = x]
  BY <1>1
<1> HIDE DEF x
<1>5. SameAhead(x, layer[e]) /\ Lined(layer[e], e)
  BY <1>3 DEF SameAhead, InOrderInv, Queued
<1>6. Ahead(x) = Ahead(layer[e]) /\ Lined(x, e)
  BY <1>5, AheadSame
<1>7. \A f \in Ends : Shrinks(f)
  <2>1. Reads(x) <=> Reads(layer[e])
    BY <1>3 DEF Reads
  <2> QED
    BY <1>1, <1>3, <1>4, <2>1, StandStill DEF CInv
<1> QED
  BY <1>1, <1>3, <1>4, <1>6, <1>7, QuietOrder DEF CInv

\* A user takes a message: it had arrived before.
LEMMA NextMessageKeepsOrder ==
  ASSUME CInv, InOrderInv, NEW e \in Ends, NextMessage(e)
  PROVE  InOrderInv' /\ \A f \in Ends : Received(f)' = Received(f) /\ Stream(f)' = Stream(f)
                                        /\ Held(f)' = Held(f)
<1> DEFINE t == taken[e]
           i == layer[e].inQueue
           x == [layer[e] EXCEPT !.inQueue = Tail(i)]
<1>1. /\ i # <<>>
      /\ taken' = [taken EXCEPT ![e] = Append(t, Head(i))]
      /\ layer' = [layer EXCEPT ![e] = x]
      /\ UNCHANGED <<conn, link, broken, wire, sent, faults>>
  BY DEF NextMessage, Put, CInv, Types
<1>2. layer[e] \in Layer /\ t \in Seq(Message \cup {Garbage}) /\ i \in Seq(Message \cup {Garbage})
  BY LayerFields DEF CInv, Types
<1>3. Tail(i) \in Seq(Message \cup {Garbage})
  BY <1>1, <1>2, HeadTailProperties
<1>4. /\ x \in Layer /\ x.inQueue = Tail(i) /\ x.outQueue = layer[e].outQueue
      /\ x.currentPointer = layer[e].currentPointer /\ x.got = layer[e].got
      /\ x.currentWriteMessage = layer[e].currentWriteMessage
      /\ x.currentBytesLeft = layer[e].currentBytesLeft
  <2> DEFINE q == Tail(i)
  <2>1. q \in Seq(Message \cup {Garbage})
    BY <1>3
  <2> HIDE DEF q
  <2>2. [layer[e] EXCEPT !.inQueue = q] \in Layer
    BY <1>2, <2>1 DEF Layer
  <2> QED
    BY <1>2, <2>2 DEF Layer, q
<1> HIDE DEF x
<1>5. layer'[e] = x /\ taken'[e] = Append(t, Head(i))
  BY <1>1 DEF CInv, Types
<1>6. Received(e)' = Received(e)
  <2>1. Received(e)' = Append(t, Head(i)) \o Tail(i)
    BY <1>4, <1>5 DEF Received
  <2>2. Append(t, Head(i)) \o Tail(i) = t \o i
    <3> HIDE DEF t, i
    <3> QED
      BY <1>1, <1>2, TakenFacts
  <2> QED
    BY <2>1, <2>2 DEF Received
<1>7. Held(e)' = Held(e) /\ Arriving(e)' = Arriving(e)
  <2>1. Held(e)' = Held(e)
    BY <1>4, <1>5 DEF Held, Reads
  <2> QED
    BY <1>1, <2>1, StillArriving
<1>8. Stream(e)' = Stream(e)
  BY <1>7 DEF Stream
<1>9. ASSUME NEW f \in Ends, f # e
      PROVE  Shrinks(f) /\ Received(f)' = Received(f) /\ Stream(f)' = Stream(f)
             /\ Held(f)' = Held(f)
  <2>1. taken'[f] = taken[f]
    BY <1>1, <1>9 DEF CInv, Types
  <2> QED
    BY <1>1, <1>4, <1>9, <2>1, OthersRest DEF CInv
<1>10. Shrinks(e)
  BY <1>6, <1>8, ShrinksSame DEF InOrderInv
<1>11. Ahead(x) = Ahead(layer[e]) /\ Lined(x, e)
  <2>1. SameAhead(x, layer[e]) /\ Lined(layer[e], e)
    BY <1>4 DEF SameAhead, InOrderInv, Queued
  <2> QED
    BY <2>1, AheadSame
<1>12. \A f \in Ends : Shrinks(f)
  BY <1>9, <1>10
<1>13. InOrderInv'
  BY <1>1, <1>4, <1>11, <1>12, QuietOrder DEF CInv
<1> QED
  BY <1>6, <1>7, <1>8, <1>9, <1>13

\* The server accepts a connection.
LEMMA AcceptKeepsOrder ==
  ASSUME CInv, InOrderInv, NEW k \in Conns, Accept(k)
  PROVE  InOrderInv'
<1>1. /\ layer[k].status = "None" /\ k \in Ends
      /\ layer' = [layer EXCEPT ![k] = FreshLayer]
      /\ UNCHANGED <<conn, link, broken, wire, sent, taken, faults>>
  BY Bounds DEF Accept, Put, Status
<1>2. Blank(layer[k])
  BY <1>1 DEF CInv, Unused, Status
<1>3. SameAhead(FreshLayer, layer[k]) /\ Lined(layer[k], k)
  BY <1>1, <1>2, FreshFacts DEF SameAhead, Blank, InOrderInv, Queued
<1>4. Ahead(FreshLayer) = Ahead(layer[k]) /\ Lined(FreshLayer, k)
  BY <1>3, AheadSame
<1>5. \A f \in Ends : Shrinks(f)
  <2>1. FreshLayer.inQueue = layer[k].inQueue /\ ~Reads(FreshLayer)
    BY <1>2, FreshFacts DEF Blank, Reads
  <2> QED
    BY <1>1, <2>1, FreshFacts, StandStill DEF CInv
<1> QED
  BY <1>1, <1>4, <1>5, FreshFacts, QuietOrder DEF CInv

\* A step that changes none of what the order is about.
LEMMA IdleKeepsOrder ==
  ASSUME CInv, InOrderInv, UNCHANGED <<layer, conn, wire, sent, taken>>
  PROVE  InOrderInv'
<1>1. Client \in Ends /\ layer[Client] \in Layer /\ layer' = [layer EXCEPT ![Client] = layer[Client]]
  BY Bounds DEF CInv, Types
<1>2. Lined(layer[Client], Client)
  BY <1>1 DEF InOrderInv, Queued
<1>3. \A f \in Ends : Shrinks(f)
  BY <1>1, StandStill DEF CInv
<1> QED
  BY <1>1, <1>2, <1>3, QuietOrder DEF CInv

\* The end of a stream loses what was read of a message.
LEMMA ReadFailsKeepsOrder ==
  ASSUME CInv, InOrderInv, NEW e \in Ends, ReadFails(e)
  PROVE  InOrderInv'
<1>1. PICK x \in Layer :
        /\ layer' = [layer EXCEPT ![e] = x]
        /\ x.status = "Disconnected" /\ x.currentPointer = "null"
        /\ x.outQueue = layer[e].outQueue /\ x.inQueue = layer[e].inQueue
        /\ x.currentWriteMessage = NoMessage
        /\ layer[e].currentWriteMessage = NoMessage
        /\ UNCHANGED <<conn, link, broken, wire, sent, taken, faults>>
  BY ReadFailsStep
<1>2. Ahead(x) = Ahead(layer[e]) /\ Lined(x, e)
  <2>1. SameAhead(x, layer[e]) /\ Lined(layer[e], e)
    BY <1>1 DEF SameAhead, InOrderInv, Queued
  <2> QED
    BY <2>1, AheadSame
<1>3. \A f \in Ends : Shrinks(f)
  <2>1. ~Reads(x)
    BY <1>1 DEF Reads
  <2> QED
    BY <1>1, <2>1, StandStill DEF CInv
<1> QED
  BY <1>1, <1>2, <1>3, QuietOrder DEF CInv

\* A write that fails loses what was read of a message before.
LEMMA WriteFailsKeepsOrder ==
  ASSUME CInv, InOrderInv, NEW e \in Ends, WriteFails(e)
  PROVE  InOrderInv'
<1> DEFINE l == WriteStarted(layer[e])
           x == Restated(l, "Disconnected")
<1>1. /\ layer' = [layer EXCEPT ![e] = x]
      /\ layer[e].currentWriteMessage # NoMessage \/ layer[e].outQueue # <<>>
      /\ l \in Layer /\ x \in Layer
      /\ ~Reads(x)
      /\ x.inQueue = layer[e].inQueue
      /\ UNCHANGED <<conn, link, broken, wire, sent, taken, faults>>
  BY WriteFailsStep
<1>2. layer[e] \in Layer /\ Cursor(layer[e]) /\ Lined(layer[e], e)
  BY DEF CInv, Types, Cursors, InOrderInv, Queued
<1>3. Ahead(l) \subseteq Ahead(layer[e]) /\ Lined(l, e)
  BY <1>1, <1>2, AheadStarted
<1> HIDE DEF l
<1>4. Ahead(x) = Ahead(l) /\ Lined(x, e)
  <2>1. SameAhead(x, l)
    BY <1>1, RestatedFacts DEF SameAhead, Statuses
  <2> QED
    BY <1>3, <2>1, AheadSame
<1> HIDE DEF x
<1>5. \A f \in Ends : Shrinks(f)
  BY <1>1, StandStill DEF CInv
<1> QED
  BY <1>1, <1>3, <1>4, <1>5, QuietOrder DEF CInv

\* Reading moves bytes from what arrives to what is held, or to a message.
LEMMA ReadMoves ==
  ASSUME CInv, InOrderInv, NEW e \in Ends, NEW n \in Nat, NEW x \in Layer,
         NEW l, l = ReadStarted(layer[e]),
         NEW g, g = Filled(l, Incoming(e), n).got,
         Status(e) = "Reading",
         n >= 1, n <= l.currentBytesLeft, n <= Len(Incoming(e)),
         ConnOf(e) \in Conns, ConnOf(e) <= conn,
         \/ /\ Reads(x) /\ x.got = g /\ x.inQueue = layer[e].inQueue
         \/ ~Reads(x) /\ x.inQueue = layer[e].inQueue
         \/ ~Reads(x) /\ x.inQueue = Append(layer[e].inQueue, Decoded(g)),
         layer' = [layer EXCEPT ![e] = x],
         wire' = Drained(e, n),
         UNCHANGED <<conn, taken>>
  PROVE  \E t \in Seq(Byte) :
           /\ g \in Seq(Byte) /\ g # <<>>
           /\ Stream(e) = g \o t
           /\ g = Held(e) \o SubSeq(Incoming(e), 1, n)
           /\ Stream(e)' = IF Reads(x) THEN Stream(e) ELSE t
           /\ Received(e)' = IF x.inQueue = layer[e].inQueue THEN Received(e)
                             ELSE Append(Received(e), Decoded(g))
           /\ \A f \in Ends : Shrinks(f)
           /\ \A f \in Ends \ {e} : Stream(f)' = Stream(f) /\ Received(f)' = Received(f)
                                    /\ Held(f)' = Held(f)
<1> DEFINE in == Incoming(e)
           a == SubSeq(in, 1, n)
           t == SubSeq(in, n + 1, Len(in))
<1>1. layer[e] \in Layer /\ Cursor(layer[e]) /\ layer[e].status = "Reading"
  BY DEF CInv, Types, Cursors, Status
<1>2. /\ l \in Layer
      /\ l.got = IF Reads(layer[e]) THEN layer[e].got ELSE <<>>
  BY <1>1, ReadStartedFacts
<1>3. in = wire[ConnOf(e)][InDir(e)] /\ in \in Seq(Byte) /\ InDir(e) \in Directions
  BY DEF Incoming, CInv, Types, InDir, Directions
<1>4. Len(in) \in Nat /\ n \in 1 .. Len(in)
  BY <1>3, LenProperties
<1>5. /\ Filled(l, in, n).got = l.got \o SubSeq(in, 1, n)
      /\ Filled(l, in, n).got # <<>>
  BY <1>2, <1>3, <1>4, FilledFacts
<1>6. Held(e) = l.got
  BY <1>2 DEF Held
<1>7. Held(e) \in Seq(Byte) /\ Arriving(e) = in
  BY <1>3, StreamTypes DEF CInv, Arriving
<1>8. in = a \o t /\ a \in Seq(Byte) /\ t \in Seq(Byte)
  <2>1. /\ \A i \in 1 .. n : in[i] \in Byte
        /\ \A i \in n + 1 .. Len(in) : in[i] \in Byte
    BY <1>3, <1>4, ElementOfSeq
  <2>2. a \in Seq(Byte) /\ t \in Seq(Byte)
    BY <1>4, <2>1, SubSeqProperties
  <2>3. SubSeq(in, 1, n) \o SubSeq(in, n + 1, Len(in)) = SubSeq(in, 1, Len(in))
    <3>1. 1 \in 1 .. Len(in) + 1 /\ n \in 1 - 1 .. Len(in) /\ Len(in) \in n .. Len(in)
      BY <1>4
    <3> HIDE DEF in
    <3> QED
      BY <1>3, <3>1, ConcatAdjacentSubSeq
  <2>4. SubSeq(in, 1, Len(in)) = in
    BY <1>3, SubSeqFull
  <2> QED
    BY <2>2, <2>3, <2>4
<1>9. g = Held(e) \o a /\ g # <<>> /\ g \in Seq(Byte)
  <2>1. g = Held(e) \o a /\ g # <<>>
    BY <1>5, <1>6
  <2> DEFINE h == Held(e)
  <2>2. h \in Seq(Byte) /\ a \in Seq(Byte)
    BY <1>7, <1>8
  <2> HIDE DEF h, a
  <2>3. h \o a \in Seq(Byte)
    BY ONLY <2>2, ConcatProperties
  <2> QED
    BY <2>1, <2>3 DEF h
<1>10. t = SubSeq(Incoming(e), n + 1, Len(Incoming(e))) /\ a = SubSeq(Incoming(e), 1, n)
  OBVIOUS
<1> HIDE DEF in, a, t
<1>11. Stream(e) = g \o t
  <2>1. Stream(e) = Held(e) \o (a \o t)
    BY <1>7, <1>8 DEF Stream
  <2>2. (Held(e) \o a) \o t = Held(e) \o (a \o t)
    <3> DEFINE h == Held(e)
    <3>1. h \in Seq(Byte) /\ a \in Seq(Byte) /\ t \in Seq(Byte)
      BY <1>7, <1>8
    <3> HIDE DEF h
    <3>2. (h \o a) \o t = h \o (a \o t)
      BY ONLY <3>1, ConcatAssociative
    <3> QED
      BY <3>2 DEF h
  <2> QED
    BY <1>9, <2>1, <2>2
<1>12. /\ Drained(e, n)[ConnOf(e)][InDir(e)] = t
       /\ \A k \in Conns, d \in Directions :
            k # ConnOf(e) \/ d # InDir(e) => Drained(e, n)[k][d] = wire[k][d]
  BY <1>10, DrainedFacts DEF CInv
<1>13. layer'[e] = x /\ \A f \in Ends : f # e => layer'[f] = layer[f]
  BY DEF CInv, Types
<1>14. Arriving(e)' = t
  <2>1. ConnOf(e)' = ConnOf(e) /\ InDir(e)' = InDir(e)
    BY DEF ConnOf, InDir
  <2>2. Arriving(e)' = wire'[ConnOf(e)][InDir(e)]
    BY <2>1 DEF Arriving, Incoming
  <2> QED
    BY <1>12, <2>2
<1>15. Stream(e)' = IF Reads(x) THEN Stream(e) ELSE t
  <2>1. CASE Reads(x)
    <3>1. Held(e)' = g
      BY <1>13, <2>1 DEF Held, Reads
    <3> QED
      BY <1>11, <1>14, <2>1, <3>1 DEF Stream
  <2>2. CASE ~Reads(x)
    <3>1. Held(e)' = <<>>
      BY <1>13, <2>2 DEF Held, Reads
    <3>2. Stream(e)' = <<>> \o t
      BY <1>14, <3>1 DEF Stream
    <3> QED
      BY <1>8, <2>2, <3>2, ConcatEmptySeq
  <2> QED
    BY <2>1, <2>2
<1>16. Received(e)' = IF x.inQueue = layer[e].inQueue THEN Received(e)
                      ELSE Append(Received(e), Decoded(g))
  <2>1. Received(e)' = taken[e] \o x.inQueue
    BY <1>13 DEF Received
  <2>2. CASE x.inQueue = layer[e].inQueue
    BY <2>1, <2>2 DEF Received
  <2>3. CASE x.inQueue # layer[e].inQueue /\ x.inQueue = Append(layer[e].inQueue, Decoded(g))
    <3> DEFINE q == layer[e].inQueue
               m == Decoded(g)
               tk == taken[e]
    <3>1. tk \in Seq(Message \cup {Garbage}) /\ q \in Seq(Message \cup {Garbage})
          /\ m \in Message \cup {Garbage}
      BY <1>1, <1>9, LayerFields, DecodedFacts DEF CInv, Types
    <3>2. Received(e)' = tk \o Append(q, m) /\ Received(e) = tk \o q
      BY <2>1, <2>3 DEF Received
    <3> HIDE DEF q, m, tk
    <3>3. tk \o Append(q, m) = Append(tk \o q, m)
      BY <3>1, TakenFacts
    <3>4. Received(e)' = Append(Received(e), m)
      BY <3>2, <3>3
    <3> QED
      BY <2>3, <3>4 DEF m
  <2> QED
    BY <2>2, <2>3
<1>17. Shrinks(e)
  <2>1. CASE Reads(x)
    <3>1. Stream(e)' = Stream(e) /\ Received(e)' = Received(e)
      BY <1>15, <1>16, <2>1
    <3> QED
      BY <3>1, ShrinksSame DEF InOrderInv
  <2>2. CASE ~Reads(x) /\ x.inQueue = layer[e].inQueue
    <3>1. Stream(e)' = t /\ Received(e)' = Received(e)
      BY <1>15, <1>16, <2>2
    <3> QED
      BY <1>8, <1>9, <1>11, <3>1, ShrinksLoss DEF InOrderInv
  <2>3. CASE ~Reads(x) /\ x.inQueue # layer[e].inQueue
    <3>1. Stream(e)' = t /\ Received(e)' = Append(Received(e), Decoded(g))
      BY <1>15, <1>16, <2>3
    <3> QED
      BY <1>8, <1>9, <1>11, <3>1, ShrinksTake DEF InOrderInv, CInv
  <2> QED
    BY <2>1, <2>2, <2>3
<1>18. ASSUME NEW f \in Ends, f # e
       PROVE  Shrinks(f) /\ Stream(f)' = Stream(f) /\ Received(f)' = Received(f)
              /\ Held(f)' = Held(f)
  <2>1. ConnOf(f) # ConnOf(e) \/ InDir(f) # InDir(e)
    BY <1>18 DEF ConnOf, InDir
  <2>2. InDir(f) \in Directions
    BY DEF InDir, Directions
  <2>3. ConnOf(f) \in Conns => wire'[ConnOf(f)][InDir(f)] = wire[ConnOf(f)][InDir(f)]
    BY <1>12, <2>1, <2>2
  <2> QED
    BY <1>18, <2>3, OthersRest DEF CInv
<1> QED
  BY <1>8, <1>9, <1>10, <1>11, <1>15, <1>16, <1>17, <1>18

\* A layer reads.
LEMMA ReadKeepsOrder ==
  ASSUME CInv, InOrderInv, NEW e \in Ends, Read(e)
  PROVE  InOrderInv'
<1> DEFINE l == ReadStarted(layer[e])
<1>1. Status(e) = "Reading" /\ UNCHANGED <<conn, link, broken, sent, taken, faults>>
  BY DEF Read
<1>2. PICK n \in Nat, x \in Layer :
        /\ n >= 1 /\ n <= l.currentBytesLeft /\ n <= Len(Incoming(e))
        /\ ConnOf(e) \in Conns /\ ConnOf(e) <= conn
        /\ x.outQueue = layer[e].outQueue
        /\ x.currentWriteMessage = NoMessage
        /\ layer[e].currentWriteMessage = NoMessage
        /\ \/ /\ Reads(x) /\ x.got = Filled(l, Incoming(e), n).got
              /\ x.inQueue = layer[e].inQueue
           \/ ~Reads(x) /\ x.inQueue = layer[e].inQueue
           \/ /\ ~Reads(x)
              /\ x.inQueue = Append(layer[e].inQueue, Decoded(Filled(l, Incoming(e), n).got))
        /\ layer' = [layer EXCEPT ![e] = x]
        /\ wire' = Drained(e, n)
  BY ReadStep
<1> DEFINE g == Filled(l, Incoming(e), n).got
<1>3. \A f \in Ends : Shrinks(f)
  <2>1. l = ReadStarted(layer[e]) /\ g = Filled(l, Incoming(e), n).got
    OBVIOUS
  <2> HIDE DEF l, g
  <2> QED
    BY <1>1, <1>2, <2>1, ReadMoves
<1>4. Ahead(x) = Ahead(layer[e]) /\ Lined(x, e)
  <2>1. SameAhead(x, layer[e]) /\ Lined(layer[e], e)
    BY <1>2 DEF SameAhead, InOrderInv, Queued
  <2> QED
    BY <2>1, AheadSame
<1> QED
  BY <1>1, <1>2, <1>3, <1>4, QuietOrder DEF CInv

\* A user sends a message.
LEMMA SendMessageKeepsOrder ==
  ASSUME CInv, InOrderInv, NEW e \in Ends, NEW size \in Sizes, SendMessage(e, size)
  PROVE  InOrderInv'
<1> DEFINE m == [from |-> e, no |-> Len(sent[e]) + 1, size |-> size]
           x == Enqueued(layer[e], m)
<1>1. m \in Message
  BY NextMessageFacts DEF CInv, SendMessage
<1>2. /\ layer' = [layer EXCEPT ![e] = x]
      /\ sent' = [sent EXCEPT ![e] = Append(@, m)]
      /\ UNCHANGED <<conn, link, broken, wire, taken, faults>>
      /\ m.from = e /\ m.no = Len(sent[e]) + 1
  BY DEF SendMessage, Put
<1> HIDE DEF m
<1>3. layer[e] \in Layer
  BY DEF CInv, Types
<1>4. /\ x \in Layer /\ x.inQueue = layer[e].inQueue
      /\ x.outQueue = Append(layer[e].outQueue, m)
      /\ x.currentWriteMessage = layer[e].currentWriteMessage
      /\ x.currentPointer = layer[e].currentPointer
      /\ x.currentBytesLeft = layer[e].currentBytesLeft
      /\ x.got = layer[e].got
  BY <1>1, <1>3, EnqueuedFacts
<1> HIDE DEF x
<1>5. \A f \in Ends : Shrinks(f)
  <2>1. Reads(x) <=> Reads(layer[e])
    BY <1>4 DEF Reads
  <2> QED
    BY <1>2, <1>4, <2>1, StandStill DEF CInv
<1>6. /\ Queued'
      /\ \A f \in Ends : \A c \in Ahead(layer'[f]) :
           c \in Ahead(layer[f]) \/ (c.msg.from = f /\ c.msg.no = Len(sent[f]) + 1)
      /\ \A f \in Ends, n \in Message : IsSent(n, f) => IsSent(n, f)'
  BY <1>1, <1>2, <1>4, QueueGrows DEF CInv, InOrderInv
<1>7. conn' \in Nat /\ conn <= conn'
  BY <1>2, Bounds DEF CInv, Types
<1>8. Genuine' /\ Ordered' /\ NothingYet'
  BY <1>5, <1>6, <1>7, OrderKept DEF CInv, InOrderInv
<1> QED
  BY <1>6, <1>8 DEF InOrderInv

\* The client connects again: what came over the last connection is lost, and
\* nothing has come over the new one.
LEMMA ConnectKeepsOrder ==
  ASSUME CInv, InOrderInv, NEW size \in Sizes, NEW result \in {"up", "refused"},
         Connect(size, result)
  PROVE  InOrderInv'
<1> DEFINE m == [from |-> Client, no |-> Len(sent[Client]) + 1, size |-> size]
           l == [layer[Client] EXCEPT !.status = "Connecting"]
           x == Enqueued(l, m)
<1>1. /\ conn < MaxConnects /\ Len(sent[Client]) < ClientSends
      /\ conn' = conn + 1
      /\ layer' = [layer EXCEPT ![Client] = x]
      /\ sent' = [sent EXCEPT ![Client] = Append(@, m)]
      /\ UNCHANGED <<broken, wire, taken, faults>>
      /\ m.from = Client /\ m.no = Len(sent[Client]) + 1
  BY DEF Connect, Put
<1>2. m \in Message
  <2>1. Len(sent[Client]) < MaxSends(Client)
    BY <1>1 DEF MaxSends
  <2> QED
    BY <2>1, NextMessageFacts, Bounds DEF CInv
<1> HIDE DEF m
<1>3. Client \in Ends /\ layer[Client] \in Layer
  BY Bounds DEF CInv, Types
<1>4. /\ l \in Layer /\ l.inQueue = layer[Client].inQueue
      /\ l.outQueue = layer[Client].outQueue
      /\ l.currentWriteMessage = layer[Client].currentWriteMessage
      /\ l.currentPointer = layer[Client].currentPointer
      /\ l.currentBytesLeft = layer[Client].currentBytesLeft
      /\ l.got = layer[Client].got
  <2>1. l = Restated(layer[Client], "Connecting") /\ "Connecting" \in Statuses
    BY DEF Restated, Statuses
  <2> QED
    BY <1>3, <2>1, RestatedFacts
<1> HIDE DEF l
<1>5. /\ x \in Layer /\ x.inQueue = layer[Client].inQueue
      /\ x.outQueue = Append(layer[Client].outQueue, m)
      /\ x.currentWriteMessage = layer[Client].currentWriteMessage
      /\ x.currentPointer = layer[Client].currentPointer
      /\ x.currentBytesLeft = layer[Client].currentBytesLeft
      /\ x.got = layer[Client].got
  BY <1>2, <1>4, EnqueuedFacts
<1> HIDE DEF x
<1>6. conn \in Nat /\ conn + 1 \in Conns /\ conn + 1 > conn
  BY <1>1, Bounds DEF CInv, Types
<1>7. Arriving(Client)' = <<>>
  <2>1. wire[conn + 1]["down"] = <<>>
    BY <1>6 DEF CInv, Unused, Directions
  <2>2. ConnOf(Client)' = conn + 1 /\ InDir(Client)' = "down"
    BY <1>1 DEF ConnOf, InDir
  <2> QED
    BY <1>1, <1>6, <2>1, <2>2 DEF Arriving, Incoming
<1>8. layer'[Client] = x
  BY <1>1, <1>3 DEF CInv, Types
<1>9. Held(Client)' = Held(Client) /\ Received(Client)' = Received(Client)
  BY <1>1, <1>5, <1>8 DEF Held, Reads, Received
<1>10. Shrinks(Client)
  <2>1. Held(Client) \in Seq(Byte) /\ Arriving(Client) \in Seq(Byte)
    BY <1>3, StreamTypes DEF CInv
  <2>2. Stream(Client)' = Held(Client)
    <3>1. Stream(Client)' = Held(Client) \o <<>>
      BY <1>7, <1>9 DEF Stream
    <3> QED
      BY <2>1, <3>1, ConcatEmptySeq
  <2>3. Stream(Client) = Held(Client) \o Arriving(Client)
    BY DEF Stream
  <2> QED
    BY <1>3, <1>9, <2>1, <2>2, <2>3, ShrinksLoss DEF InOrderInv
<1>11. ASSUME NEW f \in Ends, f # Client PROVE Shrinks(f)
  BY <1>1, <1>3, <1>5, <1>11, OthersRest DEF CInv
<1>12. \A f \in Ends : Shrinks(f)
  BY <1>10, <1>11
<1>13. /\ Queued'
       /\ \A f \in Ends : \A c \in Ahead(layer'[f]) :
            c \in Ahead(layer[f]) \/ (c.msg.from = f /\ c.msg.no = Len(sent[f]) + 1)
       /\ \A f \in Ends, n \in Message : IsSent(n, f) => IsSent(n, f)'
  BY <1>1, <1>2, <1>3, <1>5, QueueGrows DEF CInv, InOrderInv
<1>14. conn' \in Nat /\ conn <= conn'
  BY <1>1, <1>6
<1>15. Genuine' /\ Ordered' /\ NothingYet'
  BY <1>12, <1>13, <1>14, OrderKept DEF CInv, InOrderInv
<1> QED
  BY <1>13, <1>15 DEF InOrderInv

\* The end that reads what end e writes over the last connection.
Reader(e) == IF e = Client THEN conn ELSE Client

\* What is written goes to the end of the stream of the reader.
LEMMA WriteMoves ==
  ASSUME CInv, InOrderInv, NEW e \in Ends, NEW x \in Layer, NEW piece \in Seq(Byte),
         NEW r, r = Reader(e), ~PeerGone(e), ConnOf(e) \in Conns, ConnOf(e) <= conn,
         layer' = [layer EXCEPT ![e] = x], ~Reads(x), x.inQueue = layer[e].inQueue,
         wire' = Extended(e, piece), UNCHANGED <<conn, taken>>
  PROVE  /\ r \in Ends /\ r # e
         /\ ConnOf(e) = conn /\ conn \in Conns
         /\ e # Client => e = conn
         /\ Stream(r)' = Stream(r) \o piece
         /\ Received(r)' = Received(r)
         /\ Held(r)' = Held(r)
         /\ Received(e)' = Received(e)
         /\ Stream(e)' = Arriving(e)
         /\ \A f \in Ends : f # r => Shrinks(f)
         /\ \A f \in Ends \ {e, r} :
              Stream(f)' = Stream(f) /\ Received(f)' = Received(f)
<1>1. /\ r \in Ends /\ r # e
      /\ ConnOf(e) = conn /\ conn \in Conns
      /\ e # Client => e = conn
      /\ ConnOf(r) = conn /\ InDir(r) = OutDir(e)
  <2>1. CASE e = Client
    <3>1. ConnOf(e) = conn /\ r = conn /\ conn \in Conns
      BY <2>1 DEF ConnOf, Reader
    <3> QED
      BY <2>1, <3>1, Bounds DEF ConnOf, InDir, OutDir
  <2>2. CASE e # Client
    <3>1. conn = e /\ ConnOf(e) = e /\ r = Client
      BY <2>2 DEF PeerGone, ConnOf, Reader
    <3> QED
      BY <2>2, <3>1, Bounds DEF ConnOf, InDir, OutDir
  <2> QED
    BY <2>1, <2>2
<1>2. OutDir(e) \in Directions /\ InDir(e) \in Directions /\ InDir(e) # OutDir(e)
  BY DEF OutDir, InDir, Directions
<1>3. /\ wire'[conn][OutDir(e)] = Outgoing(e) \o piece
      /\ \A k \in Conns, d \in Directions :
           k # conn \/ d # OutDir(e) => wire'[k][d] = wire[k][d]
  <2>1. /\ wire'[ConnOf(e)][OutDir(e)] = Outgoing(e) \o piece
        /\ \A k \in Conns, d \in Directions :
             k # ConnOf(e) \/ d # OutDir(e) => wire'[k][d] = wire[k][d]
    BY ExtendedFacts DEF CInv
  <2> QED
    BY <1>1, <2>1
<1>4. layer'[e] = x /\ \A f \in Ends : f # e => layer'[f] = layer[f]
  BY DEF CInv, Types
<1>5. Held(r)' = Held(r) /\ Received(r)' = Received(r)
  BY <1>1, <1>4, Untouched
<1>6. Stream(r)' = Stream(r) \o piece
  <2> DEFINE h == Held(r)
             a == Arriving(r)
  <2>1. a = Outgoing(e) /\ Arriving(r)' = Outgoing(e) \o piece
    <3>1. ConnOf(r)' = ConnOf(r) /\ InDir(r)' = InDir(r)
      BY DEF ConnOf, InDir
    <3> QED
      BY <1>1, <1>3, <3>1 DEF Arriving, Incoming, Outgoing
  <2>2. Stream(r)' = h \o (a \o piece) /\ Stream(r) = h \o a
    BY <1>5, <2>1 DEF Stream
  <2>3. h \in Seq(Byte) /\ a \in Seq(Byte)
    BY <1>1, StreamTypes DEF CInv
  <2> HIDE DEF h, a
  <2>4. (h \o a) \o piece = h \o (a \o piece)
    BY ONLY <2>3, ConcatAssociative, piece \in Seq(Byte)
  <2> QED
    BY <2>2, <2>4
<1>7. Received(e)' = Received(e)
  BY <1>4 DEF Received
<1>8. Arriving(e)' = Arriving(e)
  BY <1>1, <1>2, <1>3, StillArriving
<1>9. Held(e)' = <<>> /\ Held(e) \in Seq(Byte) /\ Arriving(e) \in Seq(Byte)
  BY <1>4, StreamTypes DEF Held, Reads, CInv
<1>10. Stream(e)' = Arriving(e)
  <2>1. Stream(e)' = <<>> \o Arriving(e)
    BY <1>8, <1>9 DEF Stream
  <2> QED
    BY <1>9, <2>1, ConcatEmptySeq
<1>11. Shrinks(e)
  <2>1. Stream(e) = Held(e) \o Arriving(e)
    BY DEF Stream
  <2> QED
    BY <1>7, <1>9, <1>10, <2>1, ShrinksLoss DEF InOrderInv
<1>12. ASSUME NEW f \in Ends, f # e, f # r
       PROVE  Shrinks(f) /\ Stream(f)' = Stream(f) /\ Received(f)' = Received(f)
  <2>1. ConnOf(f) # conn \/ InDir(f) # OutDir(e)
    BY <1>1, <1>12 DEF ConnOf, InDir, OutDir, Reader
  <2>2. InDir(f) \in Directions
    BY DEF InDir, Directions
  <2>3. ConnOf(f) \in Conns => wire'[ConnOf(f)][InDir(f)] = wire[ConnOf(f)][InDir(f)]
    BY <1>3, <2>1, <2>2
  <2> QED
    BY <1>12, <2>3, OthersRest DEF CInv
<1> QED
  BY <1>1, <1>5, <1>6, <1>7, <1>10, <1>11, <1>12

\* Bytes that a reader gets come after those it got before.
LEMMA PieceComesLast ==
  ASSUME CInv, InOrderInv, NEW e \in Ends, NEW r \in Ends, r = Reader(e),
         conn \in Conns, e # Client => e = conn,
         NEW m \in Message, m.from = e,
         NEW P, P \subseteq Ahead(layer[e]), \A c \in P : c.msg = m
  PROVE  /\ Precede(Past(r), P)
         /\ \A k \in Conns : r = conn => Precede(Past(k), P)
<1>1. conn \in Nat /\ conn # Client /\ \A k \in Conns : k \in Nat /\ k # Client /\ k \in Ends
  BY Bounds
<1>2. ASSUME NEW f \in Ends, NEW b \in Past(f), b.msg.from = e
      PROVE  Precede({b}, P)
  <2>1. Precede({b}, Ahead(layer[e]))
    BY <1>2 DEF InOrderInv, Ordered
  <2> QED
    BY <2>1 DEF Precede
<1>3. ASSUME NEW k \in Conns, r = conn PROVE Precede(Past(k), P)
  <2>1. e = Client
    BY <1>1, <1>3 DEF Reader
  <2>2. ASSUME NEW b \in Past(k) PROVE b.msg.from = e
    <3>1. Senders(k) = {Client} /\ k \in Ends
      BY <1>1 DEF Senders
    <3>2. PICK f \in Senders(k) : IsSent(b.msg, f)
      BY <2>2, <3>1 DEF InOrderInv, Genuine
    <3> QED
      BY <2>1, <3>1, <3>2 DEF IsSent
  <2> QED
    BY <1>1, <1>2, <2>2 DEF Precede
<1>4. CASE e = Client
  <2>1. r = conn
    BY <1>4 DEF Reader
  <2> QED
    BY <1>3, <2>1
<1>5. CASE e # Client
  <2>1. r = Client /\ e = conn
    BY <1>5 DEF Reader
  <2>2. ASSUME NEW b \in Past(r), NEW c \in P PROVE Earlier(b, c)
    <3>1. PICK f \in 1 .. conn : IsSent(b.msg, f)
      BY <2>1 DEF InOrderInv, Genuine, Senders
    <3>2. b.msg.from = f /\ c.msg.from = conn
      BY <2>1, <3>1 DEF IsSent
    <3>3. CASE f = conn
      BY <1>2, <2>1, <3>2, <3>3 DEF Precede
    <3>4. CASE f < conn
      BY <3>2, <3>4 DEF Earlier, Before
    <3> QED
      BY <1>1, <3>3, <3>4
  <2> QED
    BY <1>1, <2>1, <2>2 DEF Precede
<1> QED
  BY <1>3, <1>4, <1>5

\* Bytes that are written over a connection.
LEMMA WrittenKeepsOrder ==
  ASSUME CInv, InOrderInv, NEW e \in Ends, NEW x \in Layer, NEW piece \in Seq(Byte),
         NEW r, r = Reader(e), r \in Ends, r # e, conn \in Conns, e # Client => e = conn,
         NEW m \in Message, IsSent(m, e),
         Sorted(piece), Elements(piece) \subseteq Ahead(layer[e]),
         \A b \in Elements(piece) : b.msg = m /\ b.pos \in 1 .. m.size,
         Precede(Elements(piece), Ahead(x)),
         Ahead(x) \subseteq Ahead(layer[e]), Lined(x, e),
         layer' = [layer EXCEPT ![e] = x], sent' = sent, conn' = conn,
         Stream(r)' = Stream(r) \o piece, Received(r)' = Received(r),
         \A f \in Ends : f # r => Shrinks(f)
  PROVE  InOrderInv'
<1> DEFINE P == Elements(piece)
<1>1. /\ Queued'
      /\ \A f \in Ends : Ahead(layer'[f]) \subseteq Ahead(layer[f])
      /\ \A f \in Ends, n \in Message : IsSent(n, f) => IsSent(n, f)'
  BY QueuesKept DEF CInv, InOrderInv
<1>2. m.from = e
  BY DEF IsSent
<1>3. Precede(Past(r), P) /\ \A k \in Conns : r = conn => Precede(Past(k), P)
  BY <1>2, PieceComesLast
<1>4. Stream(r) \in Seq(Byte) /\ Past(r) \subseteq Byte
  BY StreamTypes DEF CInv
<1>5. Elements(Stream(r)') = Elements(Stream(r)) \cup P
  <2> DEFINE s == Stream(r)
  <2> HIDE DEF s
  <2>1. s \in Seq(Byte)
    BY <1>4 DEF s
  <2>2. Elements(s \o piece) = Elements(s) \cup P
    BY <2>1, ConcatFacts
  <2> QED
    BY <2>2 DEF s
<1> HIDE DEF P
<1>6. Arrived(r)' = Arrived(r)
  BY SameReceived
<1>7. Past(r)' = Past(r) \cup P
  <2>1. Past(r)' = Arrived(r)' \cup Elements(Stream(r)')
    BY DEF Past, Elements
  <2> QED
    BY <1>5, <1>6, <2>1 DEF Past
<1>8. \A f \in Ends : f # r => Past(f)' \subseteq Past(f)
  BY DEF Shrinks
<1>9. Precede(Arrived(r)', Elements(Stream(r)'))
  <2>1. Precede(Arrived(r), Elements(Stream(r)))
    BY DEF InOrderInv, Ordered
  <2>2. Precede(Arrived(r), P)
    BY <1>3 DEF Past, Precede
  <2> QED
    BY <1>5, <1>6, <2>1, <2>2 DEF Precede
<1>10. Sorted(Stream(r)')
  <2>1. Sorted(Stream(r)) /\ Precede(Elements(Stream(r)), Elements(piece))
    BY <1>3 DEF InOrderInv, Ordered, Past, Precede, P
  <2> DEFINE s == Stream(r)
  <2> HIDE DEF s
  <2>2. s \in Seq(Byte) /\ Sorted(s) /\ Precede(Elements(s), Elements(piece))
    BY <1>4, <2>1 DEF s
  <2>3. Sorted(s \o piece)
    BY <2>2, SortedWhole
  <2> QED
    BY <2>3 DEF s
<1>11. Ascends(Received(r)')
  BY DEF InOrderInv, Ordered
<1>12. NothingYet'
  <2> SUFFICES ASSUME NEW k \in Conns, k > conn' PROVE Past(k)' = {}
    BY DEF NothingYet
  <2>1. k # r /\ k \in Ends
    BY Bounds DEF Reader
  <2>2. Past(k) = {}
    BY DEF InOrderInv, NothingYet
  <2> QED
    BY <1>8, <2>1, <2>2
<1>13. Genuine'
  <2> SUFFICES ASSUME NEW f \in Ends, NEW b \in Past(f)'
               PROVE  /\ \E g \in Senders(f)' : IsSent(b.msg, g)'
                      /\ b.pos \in 1 .. b.msg.size
    BY DEF Genuine
  <2>1. \A n, g : IsSent(n, g)' <=> IsSent(n, g)
    BY DEF IsSent
  <2>2. Senders(f)' = Senders(f)
    BY DEF Senders
  <2>3. CASE b \in Past(f)
    BY <2>1, <2>2, <2>3 DEF InOrderInv, Genuine
  <2>4. CASE b \notin Past(f)
    <3>1. f = r /\ b \in P
      BY <1>7, <1>8, <2>4
    <3>2. e \in Senders(r)
      BY Bounds DEF Senders, Reader
    <3>3. b.msg = m /\ b.pos \in 1 .. m.size
      BY <3>1 DEF P
    <3> QED
      BY <2>1, <2>2, <3>1, <3>2, <3>3
  <2> QED
    BY <2>3, <2>4
<1>14. ASSUME NEW k \in Conns, NEW l \in Conns, k < l
       PROVE  Precede(Past(k)', Past(l)')
  <2>1. Precede(Past(k), Past(l)) /\ k \in Ends /\ l \in Ends
    BY <1>14, Bounds DEF InOrderInv, Ordered
  <2>2. CASE k # r /\ l # r
    BY <1>8, <2>1, <2>2 DEF Precede
  <2>3. CASE l = r
    <3>1. r = conn /\ k # r
      BY <1>14, <2>3, Bounds DEF Reader
    <3>2. Precede(Past(k), P)
      BY <1>3, <3>1
    <3> QED
      BY <1>7, <1>8, <2>1, <2>3, <3>1, <3>2 DEF Precede
  <2>4. CASE k = r
    <3>1. r = conn /\ l # r /\ l > conn
      BY <1>14, <2>4, Bounds DEF Reader
    <3>2. Past(l) = {}
      BY <3>1 DEF InOrderInv, NothingYet
    <3>3. Past(l)' = {}
      BY <1>8, <2>1, <3>1, <3>2
    <3> QED
      BY <3>3 DEF Precede
  <2> QED
    BY <2>2, <2>3, <2>4
<1>15. ASSUME NEW f \in Ends, NEW b \in Past(f)'
       PROVE  Precede({b}, Ahead(layer'[b.msg.from]))
  <2>1. CASE b \in Past(f)
    <3>1. b.msg.from \in Ends
      <4>1. b \in Byte
        BY <2>1, StreamTypes DEF CInv
      <4>2. b.msg \in Message
        BY <4>1 DEF Byte
      <4> QED
        BY <4>2, MessageFacts
    <3>2. Precede({b}, Ahead(layer[b.msg.from]))
      BY <2>1 DEF InOrderInv, Ordered
    <3> QED
      BY <1>1, <3>1, <3>2 DEF Precede
  <2>2. CASE b \notin Past(f)
    <3>1. b \in P
      BY <1>7, <1>8, <2>2
    <3>2. b.msg.from = e
      BY <1>2, <3>1 DEF P
    <3>3. layer'[e] = x
      BY DEF CInv, Types
    <3>4. Precede({b}, Ahead(x))
      BY <3>1 DEF P, Precede
    <3> QED
      BY <3>2, <3>3, <3>4
  <2> QED
    BY <2>1, <2>2
<1>16. Ordered'
  <2>1. \A k, l \in Conns : k < l => Precede(Past(k)', Past(l)')
    BY <1>14
  <2>2. \A f \in Ends : /\ Precede(Arrived(f)', Elements(Stream(f)'))
                        /\ Sorted(Stream(f)')
                        /\ Ascends(Received(f)')
    BY <1>9, <1>10, <1>11 DEF Shrinks
  <2>3. \A f \in Ends : \A b \in Past(f)' : Precede({b}, Ahead(layer'[b.msg.from]))
    BY <1>15
  <2> QED
    BY <2>1, <2>2, <2>3 DEF Ordered, Precede, Sorted, Ascends, Elements, Ahead, Rest
<1> QED
  BY <1>1, <1>12, <1>13, <1>16 DEF InOrderInv

\* A layer writes.
LEMMA WriteKeepsOrder ==
  ASSUME CInv, InOrderInv, NEW e \in Ends, Write(e)
  PROVE  InOrderInv'
<1> DEFINE l == WriteStarted(layer[e])
           m == l.currentWriteMessage
           done == m.size - l.currentBytesLeft
<1>1. UNCHANGED <<conn, link, broken, sent, taken, faults>>
  BY DEF Write
<1>2. PICK n \in 1 .. l.currentBytesLeft :
        /\ l \in Layer
        /\ layer[e].currentWriteMessage # NoMessage \/ layer[e].outQueue # <<>>
        /\ m \in Message /\ done \in Nat /\ n \in Nat
        /\ l.currentBytesLeft \in Nat
        /\ l.currentBytesLeft = m.size - done /\ done + n <= m.size
        /\ ConnOf(e) \in Conns /\ ConnOf(e) <= conn
        /\ Advanced(l, n) \in Layer
        /\ ~Reads(Advanced(l, n))
        /\ Advanced(l, n).inQueue = layer[e].inQueue
        /\ layer' = [layer EXCEPT ![e] = Advanced(l, n)]
        /\ \/ /\ ~PeerGone(e)
              /\ wire' = Extended(e, SubSeq(Bytes(m), done + 1, done + n))
           \/ PeerGone(e) /\ wire' = wire
  BY WriteStep
<1> DEFINE piece == SubSeq(Bytes(m), done + 1, done + n)
           x == Advanced(l, n)
<1>3. layer[e] \in Layer /\ Cursor(layer[e]) /\ Lined(layer[e], e)
  BY DEF CInv, Types, Cursors, InOrderInv, Queued
<1>4. /\ Ahead(l) \subseteq Ahead(layer[e]) /\ Lined(l, e)
      /\ l.currentBytesLeft \in 1 .. m.size
  BY <1>2, <1>3, AheadStarted, WriteStartedFacts
<1> HIDE DEF l
<1>5. /\ piece \in Seq(Byte) /\ Sorted(piece)
      /\ Elements(piece) \subseteq Ahead(l)
      /\ Ahead(x) \subseteq Ahead(l)
      /\ Precede(Elements(piece), Ahead(x))
      /\ Lined(x, e)
      /\ \A b \in Elements(piece) : b.msg = m
  BY <1>2, <1>4, AheadAdvanced
<1>6. \A b \in Elements(piece) : b.pos \in 1 .. m.size
  <2>1. Len(piece) = n /\ \A i \in 1 .. n : piece[i] = [msg |-> m, pos |-> done + i]
    BY <1>2, PieceFacts
  <2>2. DOMAIN piece = 1 .. n
    BY <1>5, <2>1, LenProperties
  <2>3. \A i \in 1 .. n : done + i \in 1 .. m.size
    <3>1. m.size \in Nat
      BY <1>2, MessageFacts
    <3> HIDE DEF done, m
    <3> QED
      BY <1>2, <3>1
  <2> HIDE DEF piece, done
  <2> QED
    BY <2>1, <2>2, <2>3 DEF Elements
<1>7. IsSent(m, e)
  <2>1. m # NoMessage
    BY <1>2, MessageFacts
  <2> QED
    BY <1>4, <2>1 DEF Lined
<1>8. x \in Layer /\ ~Reads(x) /\ x.inQueue = layer[e].inQueue
      /\ layer' = [layer EXCEPT ![e] = x]
      /\ Ahead(x) \subseteq Ahead(layer[e]) /\ Elements(piece) \subseteq Ahead(layer[e])
  BY <1>2, <1>4, <1>5
<1>9. \/ ~PeerGone(e) /\ wire' = Extended(e, piece)
      \/ wire' = wire
  BY <1>2
<1> HIDE DEF x, piece, m
<1>10. CASE ~PeerGone(e) /\ wire' = Extended(e, piece)
  <2>1. PICK r : r = Reader(e)
    OBVIOUS
  <2>2. /\ r \in Ends /\ r # e /\ conn \in Conns /\ (e # Client => e = conn)
        /\ Stream(r)' = Stream(r) \o piece
        /\ Received(r)' = Received(r)
        /\ \A f \in Ends : f # r => Shrinks(f)
    BY <1>1, <1>2, <1>5, <1>8, <1>10, <2>1, WriteMoves
  <2> QED
    BY <1>1, <1>2, <1>5, <1>6, <1>7, <1>8, <2>1, <2>2, WrittenKeepsOrder
<1>11. CASE wire' = wire
  <2>1. \A f \in Ends : Shrinks(f)
    BY <1>1, <1>8, <1>11, StandStill DEF CInv
  <2> QED
    BY <1>1, <1>5, <1>8, <2>1, QuietOrder DEF CInv
<1> QED
  BY <1>9, <1>10, <1>11

\* Initially nothing was sent.
LEMMA InitOrder == Init => OInv
<1> SUFFICES ASSUME Init PROVE OInv
  OBVIOUS
<1>1. CInv
  BY InitCInv
<1>2. conn = 0 /\ \A e \in Ends : sent[e] = <<>> /\ taken[e] = <<>>
  BY DEF Init
<1>3. \A k \in Conns : k > conn
  BY <1>2, Bounds
<1>4. ASSUME NEW e \in Ends
      PROVE  /\ Blank(layer[e])
             /\ Held(e) = <<>> /\ Arriving(e) = <<>> /\ Received(e) = <<>>
  <2>1. Blank(layer[e])
    <3>1. CASE e = Client
      BY <1>1, <1>2, <3>1 DEF CInv, Unused
    <3>2. CASE e # Client
      BY <1>1, <1>3, <3>2, Bounds DEF CInv, Unused
    <3> QED
      BY <3>1, <3>2
  <2>2. Held(e) = <<>>
    BY <2>1 DEF Held, Reads, Blank
  <2>3. Arriving(e) = <<>>
    <3>1. \A k \in Conns, d \in Directions : wire[k][d] = <<>>
      BY DEF Init, Directions
    <3> QED
      BY <3>1 DEF Arriving, Incoming, InDir, Directions
  <2>4. Received(e) = <<>>
    <3>1. <<>> \in Seq(Message)
      BY EmptySeq
    <3>2. <<>> \o <<>> = <<>>
      BY <3>1, ConcatEmptySeq
    <3> QED
      BY <1>2, <2>1, <3>2 DEF Received, Blank
  <2> QED
    BY <2>1, <2>2, <2>3, <2>4
<1>5. <<>> \in Seq(Byte) /\ <<>> \in Seq(Message)
  BY EmptySeq
<1>6. DOMAIN <<>> = {} /\ Elements(<<>>) = {}
  <2>1. Elements(<<>>) = {}
    BY <1>5, ElementFacts
  <2>2. DOMAIN <<>> = {}
    BY <1>5, LenProperties, EmptySeq
  <2> QED
    BY <2>1, <2>2
<1>7. ASSUME NEW e \in Ends
      PROVE  Stream(e) = <<>> /\ Arrived(e) = {} /\ Past(e) = {}
  <2>1. Stream(e) = <<>>
    BY <1>4, <1>5, ConcatEmptySeq DEF Stream
  <2>2. Arrived(e) = {}
    BY <1>4, <1>6 DEF Arrived
  <2> QED
    BY <1>6, <2>1, <2>2 DEF Past
<1>8. Queued
  BY <1>2, <1>4, <1>6 DEF Queued, Lined, Blank
<1>9. Genuine /\ NothingYet
  BY <1>7, Bounds DEF Genuine, NothingYet
<1>10. Ordered
  <2>1. \A k, l \in Conns : Precede(Past(k), Past(l))
    BY <1>7, Bounds DEF Precede
  <2>2. \A e \in Ends : /\ Precede(Arrived(e), Elements(Stream(e)))
                        /\ Sorted(Stream(e)) /\ Ascends(Received(e))
    BY <1>4, <1>6, <1>7 DEF Precede, Sorted, Ascends
  <2> QED
    BY <1>7, <2>1, <2>2 DEF Ordered
<1> QED
  BY <1>1, <1>8, <1>9, <1>10 DEF OInv, InOrderInv

\* No step breaks OInv.
LEMMA NextOrder == OInv /\ [Next]_vars => OInv'
<1> SUFFICES ASSUME CInv, InOrderInv, [Next]_vars PROVE CInv' /\ InOrderInv'
  BY DEF OInv
<1>1. CInv'
  BY NextCInv
<1>2. CASE UNCHANGED vars
  BY <1>1, <1>2, IdleKeepsOrder DEF vars
<1>3. ASSUME NEW k \in Conns, Break(k) PROVE InOrderInv'
  BY <1>3, IdleKeepsOrder DEF Break
<1>4. ASSUME Next PROVE InOrderInv'
  BY <1>3, <1>4, Steps, RestateKeepsOrder, NextMessageKeepsOrder, ReadKeepsOrder,
     ReadFailsKeepsOrder, WriteKeepsOrder, WriteFailsKeepsOrder, SendMessageKeepsOrder,
     ConnectKeepsOrder, AcceptKeepsOrder
<1> QED
  BY <1>1, <1>2, <1>4

\* The bytes keep their order.
LEMMA OInvHolds == Spec => []OInv
<1> QED
  BY InitOrder, NextOrder, PTL DEF Spec

\* Whatever happens to the connections, messages arrive in the order in which they
\* were sent and none arrives twice, though queues and half written messages
\* outlive a connection (IPCMessageLayer_Work of ipcmessagelayer.c).
THEOREM OrderIsSafe == Spec => []InOrderOnce
<1>1. OInv => InOrderOnce
  <2> SUFFICES ASSUME CInv, InOrderInv PROVE InOrderOnce
    BY DEF OInv
  <2>1. \A e \in Ends : \A i, j \in DOMAIN Received(e) :
          i < j => InOrder(Received(e)[i], Received(e)[j])
    BY DEF InOrderInv, Ordered, Ascends
  <2>2. ASSUME NEW k \in Conns, NEW l \in Conns, k < l,
               NEW i \in DOMAIN Received(k), NEW j \in DOMAIN Received(l),
               Received(k)[i] # Garbage, Received(l)[j] # Garbage
        PROVE  Before(Received(k)[i], Received(l)[j])
    <3> DEFINE m == Received(k)[i]
               n == Received(l)[j]
    <3>1. k \in Ends /\ l \in Ends
      BY Bounds
    <3>2. /\ Received(k) \in Seq(Message \cup {Garbage})
          /\ Received(l) \in Seq(Message \cup {Garbage})
      BY <3>1, StreamTypes DEF CInv
    <3>3. m \in Elements(Received(k)) \ {Garbage} /\ n \in Elements(Received(l)) \ {Garbage}
      BY <2>2 DEF Elements
    <3>4. m \in Message /\ n \in Message
      BY <3>2, <3>3, ElementFacts
    <3> HIDE DEF m, n
    <3>5. [msg |-> m, pos |-> m.size] \in Rest(m, 1) /\ [msg |-> n, pos |-> 1] \in Rest(n, 1)
      BY <3>4, RestFacts
    <3>6. [msg |-> m, pos |-> m.size] \in Past(k) /\ [msg |-> n, pos |-> 1] \in Past(l)
      BY <3>3, <3>5 DEF Past, Arrived
    <3>7. Earlier([msg |-> m, pos |-> m.size], [msg |-> n, pos |-> 1])
      BY <2>2, <3>6 DEF InOrderInv, Ordered, Precede
    <3>8. Before(m, n)
      BY <3>4, <3>7, WholeBefore
    <3> QED
      BY <3>8 DEF m, n
  <2> QED
    BY <2>1, <2>2 DEF InOrderOnce, InOrder
<1> QED
  BY <1>1, OInvHolds, PTL

-----------------------------------------------------------------------------
(* Streams of whole messages.                                              *)

\* What a chained stream begins with.
LEMMA ChainBegins ==
  ASSUME NEW g \in Seq(Byte), NEW t \in Seq(Byte), g # <<>>, Chained(g \o t),
         Len(g) <= g[1].msg.size
  PROVE  /\ g[1].msg \in Message
         /\ \A i \in 1 .. Len(g) : g[i] = [msg |-> g[1].msg, pos |-> i]
<1> DEFINE s == g \o t
           m == g[1].msg
<1>1. /\ DOMAIN g = 1 .. Len(g) /\ Len(g) \in Nat /\ Len(t) \in Nat
      /\ DOMAIN s = 1 .. Len(g) + Len(t)
      /\ \A i \in DOMAIN g : s[i] = g[i]
  BY ElementFacts, ConcatFacts
<1>2. Len(g) >= 1
  BY <1>1, EmptySeq
<1>3. 1 \in DOMAIN g /\ s[1] = g[1] /\ g[1] \in Byte
  BY <1>1, <1>2, ElementOfSeq
<1>4. m \in Message /\ g[1].pos \in Nat /\ m.size \in Nat
  BY <1>3, MessageFacts DEF Byte
<1>5. /\ s[1].pos \in 1 .. m.size /\ s[1].pos <= 1
      /\ \A p \in 1 .. m.size :
           1 - s[1].pos + p \in DOMAIN s => s[1 - s[1].pos + p] = [msg |-> m, pos |-> p]
  <2>1. 1 \in DOMAIN s
    BY <1>1, <1>2
  <2> QED
    BY <1>3, <2>1 DEF Chained
<1>6. s[1].pos = 1
  BY <1>3, <1>4, <1>5
<1> HIDE DEF s, m
<1>7. ASSUME NEW i \in 1 .. Len(g)
      PROVE  g[i] = [msg |-> m, pos |-> i]
  <2>1. i \in 1 .. m.size /\ 1 - 1 + i = i /\ i \in DOMAIN s /\ i \in DOMAIN g
    BY <1>1, <1>4 DEF m
  <2>2. s[i] = [msg |-> m, pos |-> i]
    BY <1>5, <1>6, <2>1
  <2> QED
    BY <1>1, <2>1, <2>2
<1> QED
  BY <1>4, <1>7 DEF m

\* The beginning of a message, and the whole.
LEMMA PrefixIsBytes ==
  ASSUME NEW g \in Seq(Byte), NEW m \in Message, Len(g) <= m.size,
         \A i \in 1 .. Len(g) : g[i] = [msg |-> m, pos |-> i]
  PROVE  /\ g = SubSeq(Bytes(m), 1, Len(g))
         /\ Len(g) = m.size => g = Bytes(m)
<1>1. Len(g) \in Nat /\ m.size \in Nat /\ DOMAIN g = 1 .. Len(g)
  BY LenProperties, MessageFacts
<1>2. g = SubSeq(Bytes(m), 1, Len(g))
  <2> DEFINE k == Len(g)
             h == SubSeq(Bytes(m), 0 + 1, 0 + k)
  <2>1. k \in Nat /\ 0 \in Nat /\ 0 + k <= m.size
    BY <1>1
  <2>2. 0 + 1 = 1 /\ 0 + k = k /\ \A i \in 1 .. k : 0 + i = i
    BY <2>1
  <2> HIDE DEF k
  <2>3. /\ h \in Seq(Byte) /\ Len(h) = k
        /\ \A i \in 1 .. k : h[i] = [msg |-> m, pos |-> 0 + i]
    BY <2>1, PieceFacts
  <2>4. h = SubSeq(Bytes(m), 1, k)
    BY <2>2
  <2> HIDE DEF h
  <2>5. \A i \in 1 .. k : h[i] = g[i]
    BY <2>2, <2>3 DEF k
  <2>6. Len(g) = Len(h) /\ \A i \in 1 .. Len(g) : g[i] = h[i]
    BY <2>3, <2>5 DEF k
  <2>7. g = h
    BY <2>3, <2>6, SeqEqual
  <2> QED
    BY <2>4, <2>7 DEF k
<1>3. ASSUME Len(g) = m.size PROVE g = Bytes(m)
  <2>1. DOMAIN Bytes(m) = 1 .. m.size /\ \A i \in 1 .. m.size : Bytes(m)[i] = [msg |-> m, pos |-> i]
    BY DEF Bytes
  <2>2. Bytes(m) \in Seq(Byte) /\ Len(Bytes(m)) = m.size
    <3>1. Bytes(m) \in [1 .. m.size -> Byte]
      BY <1>1 DEF Bytes, Byte
    <3> QED
      BY <1>1, <3>1, SeqDef, LenProperties
  <2>3. \A i \in 1 .. Len(g) : g[i] = Bytes(m)[i]
    BY <1>3, <2>1
  <2> QED
    BY <1>3, <2>2, <2>3, SeqEqual
<1> QED
  BY <1>2, <1>3

\* A stream after its first message was taken.
LEMMA ChainTaken ==
  ASSUME NEW m \in Message, NEW t \in Seq(Byte), NEW g \in Seq(Byte), g = Bytes(m),
         Len(g) = m.size, Chained(g \o t)
  PROVE  Chained(t)
<1> DEFINE s == g \o t
           z == m.size
<1>1. z \in Nat /\ z >= 3 /\ Len(t) \in Nat /\ DOMAIN t = 1 .. Len(t)
  BY MessageFacts, LenProperties
<1>2. /\ DOMAIN s = 1 .. z + Len(t)
      /\ \A i \in DOMAIN t : s[z + i] = t[i]
      /\ \A i \in DOMAIN g : s[i] = g[i]
  BY ConcatFacts
<1>3. DOMAIN g = 1 .. z /\ s[z] = [msg |-> m, pos |-> z]
  <2>1. DOMAIN Bytes(m) = 1 .. m.size /\ Bytes(m)[m.size] = [msg |-> m, pos |-> m.size]
    BY <1>1 DEF Bytes
  <2>2. z \in DOMAIN g
    BY <1>1, <2>1
  <2> QED
    BY <1>2, <2>1, <2>2
<1>4. ASSUME NEW i \in DOMAIN s
      PROVE  /\ s[i].pos \in 1 .. s[i].msg.size /\ s[i].pos <= i
             /\ \A p \in 1 .. s[i].msg.size :
                  i - s[i].pos + p \in DOMAIN s =>
                    s[i - s[i].pos + p] = [msg |-> s[i].msg, pos |-> p]
  BY <1>4 DEF Chained
<1> HIDE DEF s
<1> SUFFICES ASSUME NEW i \in DOMAIN t
             PROVE  /\ t[i].pos \in 1 .. t[i].msg.size /\ t[i].pos <= i
                    /\ \A p \in 1 .. t[i].msg.size :
                         i - t[i].pos + p \in DOMAIN t =>
                           t[i - t[i].pos + p] = [msg |-> t[i].msg, pos |-> p]
  BY DEF Chained
<1> DEFINE b == t[i]
           w == b.msg.size
           q == b.pos
<1>5. b \in Byte
  BY <1>1, ElementOfSeq
<1>6. w \in Nat /\ q \in Nat /\ i \in Nat /\ i >= 1
  BY <1>1, <1>5, MessageFacts DEF Byte
<1>7. z + i \in DOMAIN s /\ s[z + i] = b
  BY <1>1, <1>2
<1>8. /\ q \in 1 .. w /\ q <= z + i
      /\ \A p \in 1 .. w :
           (z + i) - q + p \in DOMAIN s => s[(z + i) - q + p] = [msg |-> b.msg, pos |-> p]
  BY <1>4, <1>7
<1> HIDE DEF z, q, w
<1>9. q <= i
  <2> SUFFICES ASSUME q > i PROVE FALSE
    BY <1>6
  <2>1. q - i \in 1 .. w /\ (z + i) - q + (q - i) = z /\ z \in DOMAIN s
    BY <1>1, <1>2, <1>6, <1>8
  <2>2. s[z] = [msg |-> b.msg, pos |-> q - i]
    BY <1>8, <2>1
  <2>3. z = q - i /\ b.msg = m
    BY <1>3, <2>2
  <2>4. z = w
    BY <2>3 DEF z, w
  <2> QED
    BY <1>1, <1>6, <1>8, <2>3, <2>4
<1>10. ASSUME NEW p \in 1 .. w, i - q + p \in DOMAIN t
       PROVE  t[i - q + p] = [msg |-> b.msg, pos |-> p]
  <2>1. (z + i) - q + p = z + (i - q + p)
    BY <1>1, <1>6
  <2>2. z + (i - q + p) \in DOMAIN s /\ s[z + (i - q + p)] = t[i - q + p]
    BY <1>1, <1>2, <1>10
  <2> QED
    BY <1>8, <2>1, <2>2
<1> QED
  BY <1>8, <1>9, <1>10 DEF q, w

\* A stream that ends where the next piece of a message begins.
EndsWith(s, m, done) ==
  IF done > 0 THEN s # <<>> /\ s[Len(s)] = [msg |-> m, pos |-> done]
  ELSE s # <<>> => s[Len(s)].pos = s[Len(s)].msg.size

\* It goes on with that piece.
LEMMA ChainExtended ==
  ASSUME NEW s \in Seq(Byte), NEW m \in Message, NEW done \in Nat, NEW n \in Nat,
         n >= 1, done + n <= m.size, NEW piece \in Seq(Byte), Len(piece) = n,
         \A j \in 1 .. n : piece[j] = [msg |-> m, pos |-> done + j],
         Chained(s), EndsWith(s, m, done)
  PROVE  /\ Chained(s \o piece)
         /\ s \o piece # <<>>
         /\ (s \o piece)[Len(s \o piece)] = [msg |-> m, pos |-> done + n]
<1> DEFINE k == Len(s)
           u == s \o piece
<1>1. k \in Nat /\ DOMAIN s = 1 .. k /\ DOMAIN piece = 1 .. n /\ m.size \in Nat
  BY LenProperties, MessageFacts
<1>2. /\ u \in Seq(Byte) /\ Len(u) = k + n /\ DOMAIN u = 1 .. k + n
      /\ \A i \in 1 .. k : u[i] = s[i]
      /\ \A j \in 1 .. n : u[k + j] = [msg |-> m, pos |-> done + j]
  <2>1. /\ u \in Seq(Byte) /\ Len(u) = k + Len(piece) /\ DOMAIN u = 1 .. k + Len(piece)
        /\ \A i \in DOMAIN s : u[i] = s[i]
        /\ \A j \in DOMAIN piece : u[k + j] = piece[j]
    <3>1. s \in Seq(Byte) /\ piece \in Seq(Byte)
      OBVIOUS
    <3> QED
      BY ONLY <3>1, ConcatFacts
  <2> HIDE DEF u, k
  <2> QED
    BY <1>1, <2>1
<1>3. s # <<>> => k >= 1 /\ s[k] \in Byte
  <2>1. s # <<>> => k >= 1
    BY <1>1, EmptySeq
  <2>2. k >= 1 => s[k] \in Byte
    BY <1>1, ElementOfSeq
  <2> QED
    BY <2>1, <2>2
<1>4. ASSUME NEW i \in 1 .. k
      PROVE  /\ s[i].pos \in 1 .. s[i].msg.size /\ s[i].pos <= i
             /\ \A p \in 1 .. s[i].msg.size :
                  i - s[i].pos + p \in 1 .. k =>
                    s[i - s[i].pos + p] = [msg |-> s[i].msg, pos |-> p]
  BY <1>1, <1>4 DEF Chained
<1> HIDE DEF k, u
<1>5. done > 0 => /\ k >= 1 /\ s[k] = [msg |-> m, pos |-> done] /\ done <= k
                  /\ \A p \in 1 .. m.size :
                       k - done + p \in 1 .. k => s[k - done + p] = [msg |-> m, pos |-> p]
  <2> SUFFICES ASSUME done > 0
               PROVE  /\ k >= 1 /\ s[k] = [msg |-> m, pos |-> done] /\ done <= k
                      /\ \A p \in 1 .. m.size :
                           k - done + p \in 1 .. k => s[k - done + p] = [msg |-> m, pos |-> p]
    OBVIOUS
  <2>1. s # <<>> /\ s[k] = [msg |-> m, pos |-> done]
    BY DEF EndsWith, k
  <2>2. k \in 1 .. k /\ s[k].pos = done /\ s[k].msg = m
    BY <1>1, <1>3, <2>1
  <2> QED
    BY <1>4, <2>1, <2>2
<1>6. ASSUME NEW i \in 1 .. k, NEW p \in 1 .. s[i].msg.size, i - s[i].pos + p \in 1 .. k + n
      PROVE  u[i - s[i].pos + p] = [msg |-> s[i].msg, pos |-> p]
  <2> DEFINE b == s[i]
             start == i - b.pos
  <2>1. b.pos \in 1 .. b.msg.size /\ b.pos <= i /\ b.pos \in Nat /\ b.msg.size \in Nat
    <3>1. b \in Byte
      BY <1>1, ElementOfSeq DEF k
    <3>2. b.pos \in Nat /\ b.msg.size \in Nat
      BY <3>1, MessageFacts DEF Byte
    <3> QED
      BY <1>4, <3>2
  <2>2. start \in Nat /\ start < k /\ start + p \in 1 .. k + n
    <3> DEFINE pos == b.pos
    <3>1. pos \in Nat /\ pos >= 1 /\ pos <= i /\ i - pos + p \in 1 .. k + n
      BY <1>6, <2>1
    <3> HIDE DEF pos, b
    <3>2. i - pos \in Nat /\ i - pos < k /\ i - pos + p \in 1 .. k + n
      BY ONLY <1>1, <3>1, i \in 1 .. k
    <3> QED
      BY <3>2 DEF pos, b
  <2>3. CASE start + p <= k
    <3>1. start + p \in 1 .. k
      BY <1>1, <2>2, <2>3
    <3> QED
      BY <1>2, <1>4, <3>1
  <2>4. CASE start + p > k
    <3>1. k - start \in 1 .. b.msg.size /\ start + (k - start) = k /\ k \in 1 .. k
      <4>1. p \in 1 .. b.msg.size
        OBVIOUS
      <4> HIDE DEF b, start
      <4> QED
        BY <1>1, <2>1, <2>2, <2>4, <4>1
    <3>2. s[k] = [msg |-> b.msg, pos |-> k - start]
      <4>1. start + (k - start) \in 1 .. k
        BY <3>1
      <4>2. s[start + (k - start)] = [msg |-> b.msg, pos |-> k - start]
        BY <1>4, <3>1, <4>1
      <4> QED
        BY <3>1, <4>2
    <3> HIDE DEF start
    <3>3. k - start < b.msg.size
      <4> DEFINE z == b.msg.size
      <4>1. p \in 1 .. z /\ z \in Nat
        BY <2>1
      <4> HIDE DEF z, b
      <4>2. k - start < z
        BY ONLY <1>1, <2>2, <2>4, <4>1
      <4> QED
        BY <4>2 DEF z
    <3>4. done > 0
      <4> SUFFICES ASSUME ~(done > 0) PROVE FALSE
        OBVIOUS
      <4>1. s # <<>>
        BY <1>1, <3>1, EmptySeq DEF k
      <4>2. s[k].pos = s[k].msg.size
        BY <4>1 DEF EndsWith, k
      <4>3. k - start = b.msg.size
        BY <3>2, <4>2
      <4> QED
        BY <1>1, <2>1, <2>2, <3>3, <4>3
    <3>5. b.msg = m /\ k - start = done
      BY <1>5, <3>2, <3>4
    <3>6. start + p = k + (p - done) /\ p - done \in 1 .. n /\ done + (p - done) = p
      BY <1>1, <2>1, <2>2, <2>4, <3>5
    <3>7. u[k + (p - done)] = [msg |-> m, pos |-> done + (p - done)]
      BY <1>2, <3>6
    <3> QED
      BY <3>5, <3>6, <3>7 DEF start
  <2> QED
    BY <1>1, <2>2, <2>3, <2>4
<1>7. ASSUME NEW p \in 1 .. m.size, k - done + p \in 1 .. k + n
      PROVE  u[k - done + p] = [msg |-> m, pos |-> p]
  <2>1. CASE p <= done
    <3>1. done > 0 /\ k - done + p \in 1 .. k
      BY <1>1, <1>7, <2>1
    <3> QED
      BY <1>2, <1>5, <3>1
  <2>2. CASE p > done
    <3>1. k - done + p = k + (p - done) /\ p - done \in 1 .. n /\ done + (p - done) = p
      BY <1>1, <1>7, <2>2
    <3>2. u[k + (p - done)] = [msg |-> m, pos |-> done + (p - done)]
      BY <1>2, <3>1
    <3> QED
      BY <3>1, <3>2
  <2> QED
    BY <1>1, <2>1, <2>2
<1>8. Chained(u)
  <2> SUFFICES ASSUME NEW i \in 1 .. k + n
               PROVE  /\ u[i].pos \in 1 .. u[i].msg.size /\ u[i].pos <= i
                      /\ \A p \in 1 .. u[i].msg.size :
                           i - u[i].pos + p \in 1 .. k + n =>
                             u[i - u[i].pos + p] = [msg |-> u[i].msg, pos |-> p]
    BY <1>2 DEF Chained
  <2>1. CASE i <= k
    <3>1. i \in 1 .. k /\ u[i] = s[i]
      BY <1>1, <1>2, <2>1
    <3> QED
      BY <1>4, <1>6, <3>1
  <2>2. CASE i > k
    <3> DEFINE j == i - k
    <3>1. j \in 1 .. n /\ k + j = i
      BY <1>1, <2>2
    <3>2. u[i].msg = m /\ u[i].pos = done + j
      <4>1. u[i] = [msg |-> m, pos |-> done + j]
        BY <1>2, <3>1
      <4> QED
        BY <4>1
    <3>3. done + j \in 1 .. m.size /\ done + j <= i
      BY <1>1, <1>5, <3>1
    <3>4. i - (done + j) = k - done
      BY <1>1, <3>1
    <3> HIDE DEF j
    <3> QED
      BY <1>7, <3>2, <3>3, <3>4
  <2> QED
    BY <1>1, <2>1, <2>2
<1>9. u # <<>> /\ u[Len(u)] = [msg |-> m, pos |-> done + n]
  <2>1. Len(u) >= 1 /\ n \in 1 .. n /\ Len(u) = k + n
    BY <1>1, <1>2
  <2>2. u # <<>>
    BY <2>1, EmptySeq
  <2> QED
    BY <1>2, <2>1, <2>2
<1> QED
  BY <1>8, <1>9 DEF u

\* A piece of a message, and a stream that ends with a byte of one.
PieceOf(piece, m, done, n) ==
  /\ piece \in Seq(Byte) /\ Len(piece) = n
  /\ \A j \in 1 .. n : piece[j] = [msg |-> m, pos |-> done + j]
LastIs(u, m, pos) == u # <<>> /\ u[Len(u)] = [msg |-> m, pos |-> pos]

\* The same in these terms.
LEMMA PieceGoesOn ==
  ASSUME NEW s \in Seq(Byte), NEW m \in Message, NEW done \in Nat, NEW n \in Nat,
         n >= 1, done + n <= m.size, NEW piece, PieceOf(piece, m, done, n),
         Chained(s), EndsWith(s, m, done), NEW u, u = s \o piece
  PROVE  Chained(u) /\ LastIs(u, m, done + n)
<1>1. /\ piece \in Seq(Byte) /\ Len(piece) = n
      /\ \A j \in 1 .. n : piece[j] = [msg |-> m, pos |-> done + j]
  BY DEF PieceOf
<1>2. /\ Chained(s \o piece)
      /\ s \o piece # <<>>
      /\ (s \o piece)[Len(s \o piece)] = [msg |-> m, pos |-> done + n]
  BY <1>1, ChainExtended
<1> QED
  BY <1>2 DEF LastIs


-----------------------------------------------------------------------------
(* One connection: what is read is what was written.                       *)

\* A header has two bytes and a message more, so what is read never goes beyond
\* the message whose beginning the layer holds.
LEMMA ReadHolds ==
  ASSUME NEW l0 \in Layer, Cursor(l0), l0.status = "Reading", Holds(l0),
         NEW in \in Seq(Byte), NEW n \in Nat,
         n >= 1, n <= ReadStarted(l0).currentBytesLeft, n <= Len(in),
         NEW q, q = Filled(ReadStarted(l0), in, n),
         NEW x \in Layer, ReadOutcome(q, x),
         NEW t \in Seq(Byte), Chained(q.got \o t)
  PROVE  LET m == q.got[1].msg
         IN  /\ m \in Message
             /\ Holds(x)
             /\ \/ /\ x.status = "Reading" /\ Reads(x) /\ x.got = q.got
                   /\ x.inQueue = l0.inQueue
                \/ /\ x.status = "Idle" /\ ~Reads(x)
                   /\ q.got = Bytes(m) /\ Len(q.got) = m.size
                   /\ x.inQueue = Append(l0.inQueue, m)
<1> DEFINE l == ReadStarted(l0)
           g == q.got
           m == g[1].msg
<1>1. /\ l \in Layer /\ l.status = "Reading" /\ l.inQueue = l0.inQueue
      /\ Reads(l)
      /\ l.currentPointer = "header" => l.readingHeader /\ l.currentBytesLeft \in 1 .. HeaderSize
      /\ l.currentPointer = "body" => /\ ~l.readingHeader /\ l.currentReadBuffer = "held"
                                      /\ l.currentBytesLeft \in 1 .. Max(Sizes) - HeaderSize
      /\ l.currentBytesLeft \in Nat \ {0}
      /\ l.got = IF Reads(l0) THEN l0.got ELSE <<>>
      /\ Reads(l0) => l = l0
      /\ ~Reads(l0) => l.currentPointer = "header" /\ l.currentBytesLeft = HeaderSize
  BY ReadStartedFacts
<1>2. l.got \in Seq(Byte) /\ Len(l.got) \in Nat
  <2>1. l.got \in Seq(Byte)
    BY <1>1, LayerFields
  <2> QED
    BY <2>1, LenProperties
<1>3. /\ l.currentPointer = "header" => Len(l.got) + l.currentBytesLeft = HeaderSize
      /\ l.currentPointer = "body" => /\ l.got # <<>>
                                      /\ Len(l.got) + l.currentBytesLeft = l.got[1].msg.size
  <2>1. CASE Reads(l0)
    BY <1>1, <2>1 DEF Holds
  <2>2. CASE ~Reads(l0)
    <3>1. Len(l.got) = 0
      BY <1>1, <1>2, <2>2, EmptySeq
    <3>2. l.currentPointer = "header" /\ l.currentBytesLeft = HeaderSize /\ HeaderSize \in Nat
      BY <1>1, <2>2 DEF HeaderSize
    <3> QED
      BY <3>1, <3>2
  <2> QED
    BY <2>1, <2>2
<1> HIDE DEF l
<1>4. /\ q \in Layer /\ q.status = l.status /\ q.inQueue = l.inQueue
      /\ q.currentPointer = l.currentPointer
      /\ q.currentBytesLeft = l.currentBytesLeft - n
      /\ q.readingHeader = l.readingHeader
      /\ q.got = l.got \o SubSeq(in, 1, n) /\ q.got # <<>>
  <2> HIDE DEF g, m
  <2>1. n <= l.currentBytesLeft /\ q = Filled(l, in, n) /\ l \in Layer
    BY <1>1 DEF l
  <2> QED
    BY ONLY <2>1, in \in Seq(Byte), n \in Nat, n >= 1, n <= Len(in), FilledFacts
<1>5. /\ g \in Seq(Byte) /\ g # <<>> /\ Len(g) = Len(l.got) + n
      /\ l.got # <<>> => g[1] = l.got[1]
  <2> DEFINE a == SubSeq(in, 1, n)
             h == l.got
  <2>1. a \in Seq(Byte) /\ Len(a) = n
    BY LenProperties, SubSeqProperties
  <2>2. g = h \o a /\ g # <<>> /\ h \in Seq(Byte)
    BY <1>2, <1>4
  <2> HIDE DEF a, g, h, m
  <2>3. /\ h \o a \in Seq(Byte) /\ Len(h \o a) = Len(h) + Len(a)
        /\ \A i \in DOMAIN h : (h \o a)[i] = h[i]
    <3>1. ASSUME NEW u \in Seq(Byte), NEW v \in Seq(Byte)
          PROVE  /\ u \o v \in Seq(Byte) /\ Len(u \o v) = Len(u) + Len(v)
                 /\ \A i \in DOMAIN u : (u \o v)[i] = u[i]
      BY ONLY ConcatFacts
    <3> QED
      BY ONLY <2>1, <2>2, <3>1
  <2>4. h # <<>> => 1 \in DOMAIN h
    BY ONLY <2>2, EmptySeq, LenProperties
  <2>5. Len(g) = Len(h) + n /\ g \in Seq(Byte) /\ (h # <<>> => g[1] = h[1])
    BY <2>1, <2>2, <2>3, <2>4
  <2> QED
    BY <2>2, <2>5 DEF h
<1>6. m \in Message /\ m.size \in Nat /\ m.size >= 3 /\ m.size <= Max(Sizes) /\ m.size \in Sizes
  <2>1. g[1] \in Byte
    BY <1>5, EmptySeq, LenProperties, ElementOfSeq
  <2>2. m \in Message
    BY <2>1 DEF Byte
  <2> HIDE DEF m
  <2> QED
    BY <2>2, MessageFacts
<1>7. Len(g) \in Nat /\ q.currentBytesLeft \in Nat
  BY <1>4, <1>5, LayerFields, LenProperties
<1>8. Chained(g \o t)
  OBVIOUS
<1> HIDE DEF g, m
<1>9. q.currentPointer \in {"header", "body"}
  BY <1>1, <1>4 DEF Reads
<1>10. /\ q.currentPointer = "header" => Len(g) + q.currentBytesLeft = HeaderSize
       /\ q.currentPointer = "body" => Len(g) + q.currentBytesLeft = m.size
  <2>1. Len(g) + q.currentBytesLeft = Len(l.got) + l.currentBytesLeft
    <3> DEFINE a == Len(g)
               b == q.currentBytesLeft
               c == Len(l.got)
               d == l.currentBytesLeft
    <3>1. a = c + n
      BY <1>5
    <3>2. b = d - n
      BY <1>4
    <3>3. a \in Nat /\ b \in Nat /\ c \in Nat /\ d \in Nat
      BY <1>1, <1>2, <1>7
    <3> HIDE DEF a, b, c, d
    <3>4. a + b = c + d
      BY ONLY <3>1, <3>2, <3>3, n \in Nat
    <3> QED
      BY <3>4 DEF a, b, c, d
  <2>2. q.currentPointer = "body" => g[1].msg = l.got[1].msg
    BY <1>3, <1>4, <1>5
  <2> QED
    BY <1>3, <1>4, <2>1, <2>2 DEF m
<1>11. Len(g) <= m.size
  <2>1. HeaderSize = 2
    BY DEF HeaderSize
  <2> QED
    BY <1>6, <1>7, <1>9, <1>10, <2>1
<1>12. \A i \in 1 .. Len(g) : g[i] = [msg |-> m, pos |-> i]
  BY <1>5, <1>8, <1>11, ChainBegins DEF m
<1>13. g = SubSeq(Bytes(m), 1, Len(g)) /\ (Len(g) = m.size => g = Bytes(m))
  BY <1>5, <1>6, <1>11, <1>12, PrefixIsBytes
<1>14. CASE q.currentBytesLeft > 0 /\ x = q
  <2>1. Holds(x)
    BY <1>4, <1>10, <1>14 DEF Holds, g, m
  <2>2. Reads(x) /\ x.status = "Reading" /\ x.got = g /\ x.inQueue = l0.inQueue
    BY <1>1, <1>4, <1>9, <1>14 DEF Reads, g
  <2> QED
    BY <1>6, <2>1, <2>2 DEF g, m
<1>15. CASE /\ q.currentBytesLeft = 0 /\ q.readingHeader
            /\ \E size \in DeclaredSizes(g) : x = HeaderRead(q, size)
  <2>1. q.currentPointer = "header" /\ Len(g) = HeaderSize /\ HeaderSize = 2
    <3>1. q.currentPointer = "header"
      BY <1>1, <1>4, <1>9, <1>15
    <3>2. HeaderSize = 2
      BY DEF HeaderSize
    <3> QED
      BY <1>7, <1>10, <1>15, <3>1, <3>2
  <2>2. DeclaredSizes(g) = {m.size}
    BY <1>13, <2>1 DEF DeclaredSizes, m
  <2>3. x = HeaderRead(q, m.size)
    BY <1>15, <2>2
  <2>4. ~(m.size < HeaderSize \/ m.size > Max(Sizes)) /\ m.size # HeaderSize
    BY <1>6, <2>1, SizeFacts
  <2>5. /\ x.status = q.status /\ x.currentPointer = "body"
        /\ x.currentBytesLeft = m.size - HeaderSize /\ x.got = q.got
        /\ x.inQueue = q.inQueue
    <3> DEFINE z == m.size
    <3>1. z \in Nat /\ q \in Layer /\ q.got # <<>> /\ x = HeaderRead(q, z)
          /\ ~(z < HeaderSize \/ z > Max(Sizes)) /\ z # HeaderSize
      BY <1>4, <1>6, <2>3, <2>4
    <3> HIDE DEF z
    <3>2. /\ x.status = q.status /\ x.currentPointer = "body"
          /\ x.currentBytesLeft = z - HeaderSize /\ x.got = q.got
          /\ x.inQueue = q.inQueue
      BY ONLY <3>1, HeaderReadFacts
    <3> QED
      BY <3>2 DEF z
  <2>6. Len(g) + x.currentBytesLeft = m.size
    BY <1>6, <2>1, <2>5
  <2>7. Holds(x) /\ Reads(x)
    BY <1>5, <2>5, <2>6 DEF Holds, Reads, g, m
  <2> QED
    BY <1>1, <1>4, <1>6, <2>5, <2>7 DEF g, m
<1>16. CASE q.currentBytesLeft = 0 /\ ~q.readingHeader /\ x = Finished(q)
  <2>1. q.currentPointer = "body" /\ Len(g) = m.size
    <3>1. q.currentPointer = "body"
      BY <1>1, <1>4, <1>9, <1>16
    <3> QED
      BY <1>6, <1>7, <1>10, <1>16, <3>1
  <2>2. g = Bytes(m)
    BY <1>13, <2>1
  <2>3. Decoded(g) = m
    BY <2>2 DEF Decoded, m
  <2>4. /\ x.status = "Idle" /\ x.currentPointer = "null"
        /\ x.inQueue = Append(q.inQueue, Decoded(q.got))
    BY <1>4, <1>16, FinishedFacts
  <2>5. ~Reads(x) /\ Holds(x)
    BY <2>4 DEF Reads, Holds
  <2>6. x.inQueue = Append(l0.inQueue, m)
    BY <1>1, <1>4, <2>3, <2>4 DEF g
  <2> QED
    BY <1>6, <2>1, <2>2, <2>4, <2>5, <2>6 DEF g, m
<1> QED
  BY <1>14, <1>15, <1>16 DEF ReadOutcome, g

\* The ends of the first connection, one of which reads what the other writes; the
\* client's end is of one connection only if it connects once.
Facing(r, w) ==
  /\ 1 \in Conns
  /\ (r = 1 /\ w = Client) \/ (r = Client /\ w = 1 /\ MaxConnects = 1)

\* What follows for the connection.
LEMMA FacingFacts ==
  ASSUME Types, NEW r, NEW w, Facing(r, w)
  PROVE  /\ r \in Ends /\ w \in Ends /\ r # w
         /\ conn \in Nat
         /\ conn = 1 => Reader(w) = r /\ ConnOf(r) = 1 /\ ConnOf(w) = 1
         /\ conn = 1 /\ PeerGone(w) => 1 \in broken \/ Status(r) \in Gone
         /\ r = Client => conn \in {0, 1}
         /\ w # Client => conn \in {0, 1}
<1>1. conn \in 0 .. MaxConnects /\ conn \in Nat
  BY Bounds DEF Types
<1>2. CASE r = 1 /\ w = Client
  BY <1>1, <1>2, Bounds DEF Facing, Reader, ConnOf, PeerGone
<1>3. CASE r = Client /\ w = 1 /\ MaxConnects = 1
  <2>1. conn \in {0, 1}
    BY <1>1, <1>3
  <2> QED
    BY <1>1, <1>3, <2>1, Bounds DEF Facing, Reader, ConnOf, PeerGone
<1> QED
  BY <1>2, <1>3 DEF Facing

\* A layer that holds what it held.
SameHold(x, l) ==
  /\ Reads(x) <=> Reads(l)
  /\ Reads(l) => /\ x.currentPointer = l.currentPointer
                 /\ x.got = l.got /\ x.currentBytesLeft = l.currentBytesLeft

\* A layer whose half written message is what it was.
SameWrite(x, l) ==
  /\ x.currentWriteMessage = l.currentWriteMessage
  /\ l.currentWriteMessage # NoMessage => x.currentBytesLeft = l.currentBytesLeft

\* What the first connection is to be after a step.
LEMMA AlignedNext ==
  ASSUME NEW r, NEW w, \A i \in DOMAIN Received(r)' : Received(r)'[i] # Garbage,
         conn' > 0 /\ layer'[r].status \notin Gone =>
           /\ Chained(Stream(r)') /\ Holds(layer'[r])
           /\ layer'[r].status # "Reading" => ~Reads(layer'[r])
           /\ conn' = 1 /\ 1 \notin broken' => EndsAt(Stream(r)', layer'[w])
  PROVE  Aligned(r, w)'
BY DEF Aligned, Status, Chained, Holds, EndsAt, Reads

\* A step that the first connection does not notice.
LEMMA AlignedKept ==
  ASSUME NEW r, NEW w, Aligned(r, w), conn' = conn, broken \subseteq broken',
         Received(r)' = Received(r),
         conn > 0 /\ layer'[r].status \notin Gone =>
           /\ Status(r) \notin Gone /\ Stream(r)' = Stream(r)
           /\ SameHold(layer'[r], layer[r])
           /\ layer'[r].status # "Reading" => Status(r) # "Reading" \/ ~Reads(layer[r])
           /\ conn = 1 /\ 1 \notin broken' => SameWrite(layer'[w], layer[w])
  PROVE  Aligned(r, w)'
<1>1. \A i \in DOMAIN Received(r)' : Received(r)'[i] # Garbage
  BY DEF Aligned
<1>2. ASSUME conn > 0, layer'[r].status \notin Gone
      PROVE  /\ Chained(Stream(r)')
             /\ Holds(layer'[r])
             /\ layer'[r].status # "Reading" => ~Reads(layer'[r])
             /\ conn = 1 /\ 1 \notin broken' => EndsAt(Stream(r)', layer'[w])
  <2>1. /\ Chained(Stream(r)) /\ Holds(layer[r])
        /\ Status(r) # "Reading" => ~Reads(layer[r])
        /\ conn = 1 /\ 1 \notin broken => EndsAt(Stream(r), layer[w])
    BY <1>2 DEF Aligned
  <2>2. Holds(layer'[r])
    BY <1>2, <2>1 DEF Holds, SameHold, Reads
  <2>3. conn = 1 /\ 1 \notin broken' => EndsAt(Stream(r)', layer'[w])
    <3>1. conn = 1 /\ 1 \notin broken' => EndsAt(Stream(r), layer[w]) /\ SameWrite(layer'[w], layer[w])
      BY <1>2, <2>1
    <3>2. SameWrite(layer'[w], layer[w]) /\ EndsAt(Stream(r), layer[w]) =>
            EndsAt(Stream(r), layer'[w])
      BY DEF SameWrite, EndsAt
    <3> QED
      BY <1>2, <3>1, <3>2
  <2> QED
    BY <1>2, <2>1, <2>2, <2>3 DEF SameHold
<1> QED
  BY <1>1, <1>2, AlignedNext

\* A step of one layer that moves no bytes.
LEMMA StaysAligned ==
  ASSUME CInv, NEW r, NEW w, Facing(r, w), Aligned(r, w), NEW e \in Ends, NEW x \in Layer,
         layer' = [layer EXCEPT ![e] = x], UNCHANGED <<conn, wire, taken>>,
         broken \subseteq broken', x.inQueue = layer[e].inQueue,
         e = r /\ conn > 0 /\ x.status \notin Gone =>
           /\ Status(r) \notin Gone /\ SameHold(x, layer[r])
           /\ x.status # "Reading" => Status(r) # "Reading" \/ ~Reads(layer[r]),
         e = w /\ conn = 1 /\ 1 \notin broken' /\ Status(r) \notin Gone =>
           SameWrite(x, layer[w])
  PROVE  Aligned(r, w)'
<1>1. r \in Ends /\ w \in Ends /\ r # w
  BY FacingFacts DEF CInv
<1>2. layer'[e] = x /\ \A f \in Ends : f # e => layer'[f] = layer[f]
  BY DEF CInv, Types
<1>3. Received(r)' = Received(r)
  BY <1>1, <1>2 DEF Received
<1>4. Arriving(r)' = Arriving(r)
  BY StillArriving
<1>5. SameHold(layer[r], layer[r]) /\ SameWrite(layer[w], layer[w])
  BY DEF SameHold, SameWrite
<1>6. ASSUME conn > 0, layer'[r].status \notin Gone
      PROVE  /\ Status(r) \notin Gone /\ SameHold(layer'[r], layer[r])
             /\ layer'[r].status # "Reading" => Status(r) # "Reading" \/ ~Reads(layer[r])
  BY <1>1, <1>2, <1>5, <1>6 DEF Status
<1>7. ASSUME SameHold(layer'[r], layer[r]) PROVE Stream(r)' = Stream(r)
  <2>1. Held(r)' = Held(r)
    BY <1>7 DEF SameHold, Held, Reads
  <2> QED
    BY <1>4, <2>1 DEF Stream
<1>8. conn = 1 /\ 1 \notin broken' /\ Status(r) \notin Gone =>
        SameWrite(layer'[w], layer[w])
  BY <1>1, <1>2, <1>5
<1> QED
  BY <1>3, <1>6, <1>7, <1>8, AlignedKept

\* A step that changes nothing but the status of a layer.
LEMMA RestateAligned ==
  ASSUME CInv, NEW r, NEW w, Facing(r, w), Aligned(r, w), NEW e \in Ends, Restates(e)
  PROVE  Aligned(r, w)'
<1>1. PICK s \in Statuses \ {"None"} :
        /\ layer' = [layer EXCEPT ![e] = Restated(layer[e], s)]
        /\ Status(e) \in Gone => s \in Gone
        /\ Status(e) = "Reading" => s \in Gone
        /\ UNCHANGED <<conn, link, broken, wire, sent, taken>>
  BY RestateStep
<1> DEFINE x == Restated(layer[e], s)
<1>2. layer[e] \in Layer
  BY DEF CInv, Types
<1>3. /\ x \in Layer /\ x.inQueue = layer[e].inQueue /\ x.status = s
      /\ x.currentPointer = layer[e].currentPointer /\ x.got = layer[e].got
      /\ x.currentWriteMessage = layer[e].currentWriteMessage
      /\ x.currentBytesLeft = layer[e].currentBytesLeft
  BY <1>2, RestatedFacts
<1>4. layer' = [layer EXCEPT ![e] = x]
  BY <1>1
<1> HIDE DEF x
<1>5. SameHold(x, layer[e]) /\ SameWrite(x, layer[e])
  BY <1>3 DEF SameHold, SameWrite, Reads
<1>6. /\ x.status \notin Gone => Status(e) \notin Gone /\ Status(e) # "Reading"
      /\ UNCHANGED <<conn, wire, taken>> /\ broken \subseteq broken'
  BY <1>1, <1>3
<1> QED
  BY ONLY CInv, Facing(r, w), Aligned(r, w), e \in Ends, <1>3, <1>4, <1>5, <1>6, StaysAligned

\* A user takes a message that had arrived before.
LEMMA NextMessageAligned ==
  ASSUME CInv, InOrderInv, NEW r, NEW w, Facing(r, w), Aligned(r, w),
         NEW e \in Ends, NextMessage(e)
  PROVE  Aligned(r, w)'
<1>1. r \in Ends /\ w \in Ends
  BY FacingFacts DEF CInv
<1>2. Received(r)' = Received(r) /\ Stream(r)' = Stream(r)
  BY <1>1, NextMessageKeepsOrder
<1>3. /\ layer' = [layer EXCEPT ![e] = [layer[e] EXCEPT !.inQueue = Tail(@)]]
      /\ UNCHANGED <<conn, link, broken, wire, sent, faults>>
  BY DEF NextMessage, Put
<1>4. ASSUME NEW f \in Ends
      PROVE  /\ layer'[f].status = layer[f].status
             /\ SameHold(layer'[f], layer[f]) /\ SameWrite(layer'[f], layer[f])
  <2>1. layer[f] \in Layer
    BY DEF CInv, Types
  <2>2. /\ layer'[f].status = layer[f].status
        /\ layer'[f].currentPointer = layer[f].currentPointer
        /\ layer'[f].got = layer[f].got
        /\ layer'[f].currentWriteMessage = layer[f].currentWriteMessage
        /\ layer'[f].currentBytesLeft = layer[f].currentBytesLeft
    <3>1. CASE f = e
      <4>1. layer'[f] = [layer[f] EXCEPT !.inQueue = Tail(@)]
        BY <1>3, <3>1 DEF CInv, Types
      <4> QED
        BY <2>1, <4>1 DEF Layer
    <3>2. CASE f # e
      BY <1>3, <3>2 DEF CInv, Types
    <3> QED
      BY <3>1, <3>2
  <2> QED
    BY <2>2 DEF SameHold, SameWrite, Reads
<1> QED
  BY <1>1, <1>2, <1>3, <1>4, AlignedKept DEF Status

\* A user sends a message.
LEMMA SendMessageAligned ==
  ASSUME CInv, NEW r, NEW w, Facing(r, w), Aligned(r, w),
         NEW e \in Ends, NEW size \in Sizes, SendMessage(e, size)
  PROVE  Aligned(r, w)'
<1> DEFINE m == [from |-> e, no |-> Len(sent[e]) + 1, size |-> size]
           x == Enqueued(layer[e], m)
<1>1. m \in Message
  BY NextMessageFacts DEF CInv, SendMessage
<1>2. /\ layer' = [layer EXCEPT ![e] = x]
      /\ Status(e) \in {"Idle", "Reading", "Writing"}
      /\ UNCHANGED <<conn, link, broken, wire, taken, faults>>
  BY DEF SendMessage, Put
<1> HIDE DEF m
<1>3. layer[e] \in Layer
  BY DEF CInv, Types
<1>4. /\ x \in Layer /\ x.inQueue = layer[e].inQueue
      /\ x.status = IF layer[e].status = "Idle" THEN "Writing" ELSE layer[e].status
      /\ x.currentWriteMessage = layer[e].currentWriteMessage
      /\ x.currentPointer = layer[e].currentPointer
      /\ x.currentBytesLeft = layer[e].currentBytesLeft
      /\ x.got = layer[e].got
  BY <1>1, <1>3, EnqueuedFacts
<1> HIDE DEF x
<1>5. SameHold(x, layer[e]) /\ SameWrite(x, layer[e])
  BY <1>4 DEF SameHold, SameWrite, Reads
<1>6. /\ Status(e) \notin Gone
      /\ x.status # "Reading" => Status(e) # "Reading"
  BY <1>2, <1>4 DEF Status, Gone
<1> QED
  BY <1>2, <1>4, <1>5, <1>6, StaysAligned

\* The server accepts a connection: the layer held nothing, and holds nothing.
LEMMA AcceptAligned ==
  ASSUME CInv, NEW r, NEW w, Facing(r, w), Aligned(r, w), NEW k \in Conns, Accept(k)
  PROVE  Aligned(r, w)'
<1>1. /\ Status(k) = "None" /\ k \in Ends
      /\ layer' = [layer EXCEPT ![k] = FreshLayer]
      /\ UNCHANGED <<conn, link, broken, wire, sent, taken, faults>>
  BY Bounds DEF Accept, Put
<1>2. Blank(layer[k])
  BY <1>1 DEF CInv, Unused
<1>3. /\ FreshLayer \in Layer /\ FreshLayer.inQueue = layer[k].inQueue
      /\ SameHold(FreshLayer, layer[k]) /\ SameWrite(FreshLayer, layer[k])
      /\ Status(k) \notin Gone /\ Status(k) # "Reading"
  BY <1>1, <1>2, FreshFacts DEF Blank, SameHold, SameWrite, Reads, Gone
<1> QED
  BY <1>1, <1>3, StaysAligned

\* The network fails, or nothing happens.
LEMMA IdleAligned ==
  ASSUME CInv, NEW r, NEW w, Facing(r, w), Aligned(r, w),
         UNCHANGED <<layer, conn, wire, taken>>, broken \subseteq broken'
  PROVE  Aligned(r, w)'
<1>1. r \in Ends /\ layer[r] \in Layer /\ layer' = [layer EXCEPT ![r] = layer[r]]
  BY FacingFacts DEF CInv, Types
<1>2. SameHold(layer[r], layer[r]) /\ r # w
  BY FacingFacts DEF SameHold, CInv
<1> QED
  BY <1>1, <1>2, StaysAligned DEF Status

\* A layer meets the end of its stream, and is gone.
LEMMA ReadFailsAligned ==
  ASSUME CInv, NEW r, NEW w, Facing(r, w), Aligned(r, w), NEW e \in Ends, ReadFails(e)
  PROVE  Aligned(r, w)'
<1>1. PICK x \in Layer :
        /\ layer' = [layer EXCEPT ![e] = x]
        /\ x.status = "Disconnected" /\ x.inQueue = layer[e].inQueue
        /\ x.currentWriteMessage = NoMessage
        /\ layer[e].currentWriteMessage = NoMessage
        /\ UNCHANGED <<conn, link, broken, wire, sent, taken, faults>>
  BY ReadFailsStep
<1>2. x.status \in Gone /\ SameWrite(x, layer[e])
  BY <1>1 DEF Gone, SameWrite
<1> QED
  BY <1>1, <1>2, StaysAligned

\* A layer cannot write, for its peer is gone.
LEMMA WriteFailsAligned ==
  ASSUME CInv, NEW r, NEW w, Facing(r, w), Aligned(r, w), NEW e \in Ends, WriteFails(e)
  PROVE  Aligned(r, w)'
<1> DEFINE x == Restated(WriteStarted(layer[e]), "Disconnected")
<1>1. /\ layer' = [layer EXCEPT ![e] = x]
      /\ x \in Layer /\ x.status = "Disconnected" /\ x.inQueue = layer[e].inQueue
      /\ PeerGone(e)
      /\ UNCHANGED <<conn, link, broken, wire, sent, taken, faults>>
  BY WriteFailsStep
<1> HIDE DEF x
<1>2. x.status \in Gone
  BY <1>1 DEF Gone
<1>3. e = w /\ conn = 1 => 1 \in broken \/ Status(r) \in Gone
  BY <1>1, FacingFacts DEF CInv
<1> QED
  BY <1>1, <1>2, <1>3, StaysAligned

\* Where the writer goes on, the stream ends.
LEMMA WriterGoesOn ==
  ASSUME NEW l0 \in Layer, Cursor(l0), l0.currentWriteMessage # NoMessage \/ l0.outQueue # <<>>,
         NEW s \in Seq(Byte), EndsAt(s, l0),
         NEW m \in Message, m = WriteStarted(l0).currentWriteMessage,
         NEW done \in Nat, done = m.size - WriteStarted(l0).currentBytesLeft
  PROVE  EndsWith(s, m, done)
<1>1. m.size \in Nat /\ l0.currentBytesLeft \in Nat
  BY MessageFacts, LayerFields
<1>2. CASE l0.currentWriteMessage # NoMessage
  <2>1. m = l0.currentWriteMessage /\ done = m.size - l0.currentBytesLeft
    BY <1>2 DEF WriteStarted
  <2>2. done > 0 <=> l0.currentBytesLeft < m.size
    BY <1>1, <2>1
  <2> QED
    BY <1>2, <2>1, <2>2 DEF EndsAt, EndsWith
<1>3. CASE l0.currentWriteMessage = NoMessage
  <2>1. m = l0.outQueue[1] /\ WriteStarted(l0).currentBytesLeft = m.size
    BY <1>3, WriteStartedFacts
  <2>2. done = 0
    BY <1>1, <2>1
  <2> QED
    BY <1>3, <2>2 DEF EndsAt, EndsWith
<1> QED
  BY <1>2, <1>3

\* Where the writer is after it has written, the stream ends.
LEMMA WriterWentOn ==
  ASSUME NEW l \in Layer, NEW m \in Message, m = l.currentWriteMessage,
         NEW done \in Nat, l.currentBytesLeft = m.size - done,
         NEW n \in 1 .. l.currentBytesLeft, NEW x, x = Advanced(l, n),
         NEW u, u # <<>>, u[Len(u)] = [msg |-> m, pos |-> done + n]
  PROVE  EndsAt(u, x)
<1> DEFINE z == m.size
           left == l.currentBytesLeft
<1>1. z \in Nat /\ left \in Nat /\ m # NoMessage
  BY MessageFacts, LayerFields
<1>2. n \in Nat /\ n >= 1 /\ left = z - done
  BY <1>1
<1>3. \/ /\ n < left /\ x.currentWriteMessage = m
         /\ x.currentBytesLeft = left - n
      \/ n = left /\ x.currentWriteMessage = NoMessage
  BY AdvancedFacts
<1>4. u[Len(u)].pos = done + n /\ u[Len(u)].msg = m
  OBVIOUS
<1>5. CASE /\ n < left /\ x.currentWriteMessage = m
           /\ x.currentBytesLeft = left - n
  <2> HIDE DEF z, left
  <2>1. x.currentBytesLeft < z /\ z - x.currentBytesLeft = done + n
    BY ONLY <1>1, <1>2, <1>5, done \in Nat
  <2>2. u[Len(u)] = [msg |-> m, pos |-> z - x.currentBytesLeft]
    BY <2>1
  <2> QED
    BY <1>1, <1>5, <2>1, <2>2 DEF EndsAt, z
<1>6. CASE n = left /\ x.currentWriteMessage = NoMessage
  <2> HIDE DEF z, left
  <2>1. done + n = z
    BY ONLY <1>1, <1>2, <1>6, done \in Nat
  <2>2. u[Len(u)].pos = u[Len(u)].msg.size
    BY <1>4, <2>1 DEF z
  <2> QED
    BY <1>6, <2>2 DEF EndsAt
<1> QED
  BY <1>3, <1>5, <1>6

\* A layer writes.
LEMMA WriteAligned ==
  ASSUME CInv, InOrderInv, NEW r, NEW w, Facing(r, w), Aligned(r, w),
         NEW e \in Ends, Write(e)
  PROVE  Aligned(r, w)'
<1> DEFINE l == WriteStarted(layer[e])
           m == l.currentWriteMessage
           done == m.size - l.currentBytesLeft
<1>1. Status(e) = "Writing" /\ UNCHANGED <<conn, link, broken, sent, taken, faults>>
  BY DEF Write
<1>2. PICK n \in 1 .. l.currentBytesLeft :
        /\ l \in Layer
        /\ layer[e].currentWriteMessage # NoMessage \/ layer[e].outQueue # <<>>
        /\ m \in Message /\ done \in Nat /\ n \in Nat
        /\ l.currentBytesLeft \in Nat
        /\ l.currentBytesLeft = m.size - done /\ done + n <= m.size
        /\ ConnOf(e) \in Conns /\ ConnOf(e) <= conn
        /\ Advanced(l, n) \in Layer
        /\ ~Reads(Advanced(l, n))
        /\ Advanced(l, n).inQueue = layer[e].inQueue
        /\ layer' = [layer EXCEPT ![e] = Advanced(l, n)]
        /\ \/ /\ ~PeerGone(e)
              /\ wire' = Extended(e, SubSeq(Bytes(m), done + 1, done + n))
           \/ PeerGone(e) /\ wire' = wire
  BY WriteStep
<1> DEFINE piece == SubSeq(Bytes(m), done + 1, done + n)
           x == Advanced(l, n)
<1>3. layer[e] \in Layer /\ Cursor(layer[e])
  BY DEF CInv, Types, Cursors
<1>4. /\ r \in Ends /\ w \in Ends /\ r # w
      /\ conn = 1 => Reader(w) = r /\ ConnOf(w) = 1
      /\ conn = 1 /\ PeerGone(w) => 1 \in broken \/ Status(r) \in Gone
  BY FacingFacts DEF CInv
<1>5. conn > 0
  BY <1>2, Bounds DEF CInv, Types
<1>6. ASSUME e = r
      PROVE  Status(r) \notin Gone /\ SameHold(x, layer[r]) /\ ~Reads(layer[r])
  <2>1. Status(r) \notin Gone /\ Status(r) # "Reading"
    BY <1>1, <1>6 DEF Gone
  <2>2. ~Reads(layer[r])
    BY <1>5, <2>1 DEF Aligned
  <2> QED
    BY <1>2, <2>1, <2>2 DEF SameHold
<1>7. CASE PeerGone(e) /\ wire' = wire
  <2>1. x \in Layer /\ layer' = [layer EXCEPT ![e] = x] /\ x.inQueue = layer[e].inQueue
    BY <1>2
  <2> HIDE DEF x
  <2> QED
    BY <1>1, <1>4, <1>6, <1>7, <2>1, StaysAligned
<1>8. CASE ~PeerGone(e) /\ wire' = Extended(e, piece)
  <2>1. piece \in Seq(Byte) /\ Len(piece) = n
        /\ \A i \in 1 .. n : piece[i] = [msg |-> m, pos |-> done + i]
    BY <1>2, PieceFacts
  <2>2. x \in Layer /\ ~Reads(x) /\ layer' = [layer EXCEPT ![e] = x]
        /\ x.inQueue = layer[e].inQueue
    BY <1>2
  <2>3. PICK q : q = Reader(e)
    OBVIOUS
  <2>4. layer'[e] = x /\ \A f \in Ends : f # e => layer'[f] = layer[f]
    BY <2>2 DEF CInv, Types
  <2>5. /\ q \in Ends /\ q # e
        /\ ConnOf(e) = conn /\ conn \in Conns /\ (e # Client => e = conn)
        /\ Stream(q)' = Stream(q) \o piece
        /\ Received(q)' = Received(q)
        /\ Received(e)' = Received(e)
        /\ Stream(e)' = Arriving(e)
        /\ \A f \in Ends \ {e, q} :
             Stream(f)' = Stream(f) /\ Received(f)' = Received(f)
    <3> HIDE DEF x, piece
    <3> QED
      BY <1>1, <1>2, <1>8, <2>1, <2>2, <2>3, WriteMoves
  <2>6. q = r => e = w /\ conn = 1
    <3>1. CASE r = 1 /\ w = Client
      <4>1. 1 # Client
        BY DEF Client
      <4> QED
        BY <2>3, <3>1, <4>1 DEF Reader
    <3>2. CASE r = Client /\ w = 1 /\ MaxConnects = 1
      <4>1. conn \in 1 .. 1
        BY <2>5, <3>2 DEF Conns
      <4>2. conn = 1
        BY ONLY <4>1
      <4> QED
        BY <2>5, <3>2, <4>2
    <3> QED
      BY <3>1, <3>2 DEF Facing
  <2>7. CASE e = r
    <3>1. Stream(r)' = Stream(r)
      <4>1. Held(r) = <<>> /\ Arriving(r) \in Seq(Byte)
        BY <1>4, <1>6, <2>7, StreamTypes DEF Held, CInv
      <4>2. Stream(r) = Arriving(r)
        BY <4>1, ConcatEmptySeq DEF Stream
      <4> QED
        BY <2>5, <2>7, <4>2
    <3>2. SameWrite(layer'[w], layer[w])
      BY <1>4, <2>4, <2>7 DEF SameWrite
    <3> QED
      BY <1>1, <1>6, <2>4, <2>5, <2>7, <3>1, <3>2, AlignedKept
  <2>8. CASE e # r /\ q # r
    <3>1. Stream(r)' = Stream(r) /\ Received(r)' = Received(r) /\ layer'[r] = layer[r]
      BY <1>4, <2>4, <2>5, <2>8
    <3>2. conn = 1 => e # w
      BY <1>4, <2>3, <2>8
    <3>3. conn = 1 => SameWrite(layer'[w], layer[w])
      BY <1>4, <2>4, <3>2 DEF SameWrite
    <3>4. SameHold(layer[r], layer[r])
      BY DEF SameHold
    <3> QED
      BY <1>1, <3>1, <3>3, <3>4, AlignedKept DEF Status
  <2>9. CASE q = r
    <3>1. e = w /\ conn = 1 /\ layer'[r] = layer[r] /\ layer'[w] = x
      BY <1>4, <2>4, <2>6, <2>9
    <3>2. Received(r)' = Received(r) /\ Stream(r)' = Stream(r) \o piece
      BY <2>5, <2>9
    <3>3. 1 \notin broken
      BY <1>4, <1>8, <3>1 DEF PeerGone
    <3>4. ASSUME Status(r) \notin Gone
          PROVE  Chained(Stream(r) \o piece) /\ EndsAt(Stream(r) \o piece, x)
      <4> DEFINE s == Stream(r)
      <4>1. s \in Seq(Byte) /\ Chained(s) /\ EndsAt(s, layer[e])
        BY <1>4, <1>5, <3>1, <3>3, <3>4, StreamTypes DEF Aligned, CInv
      <4>2. EndsWith(s, m, done)
        <5>1. l = WriteStarted(layer[e]) /\ m = l.currentWriteMessage
              /\ done = m.size - l.currentBytesLeft
          OBVIOUS
        <5> HIDE DEF s, m, done
        <5> QED
          BY <1>2, <1>3, <4>1, <5>1, WriterGoesOn
      <4>3. n >= 1 /\ n \in Nat /\ done \in Nat /\ done + n <= m.size /\ m \in Message
        BY <1>2
      <4>4. l \in Layer /\ m = l.currentWriteMessage /\ l.currentBytesLeft = m.size - done
            /\ n \in 1 .. l.currentBytesLeft /\ x = Advanced(l, n)
        BY <1>2
      <4> HIDE DEF s, m, done, piece, x, l
      <4>5. PieceOf(piece, m, done, n)
        BY <2>1, <4>3 DEF PieceOf
      <4>6. PICK u : u = s \o piece
        OBVIOUS
      <4>7. Chained(u) /\ LastIs(u, m, done + n)
        BY ONLY <4>1, <4>2, <4>3, <4>5, <4>6, PieceGoesOn
      <4>8. EndsAt(u, x)
        BY ONLY <4>3, <4>4, <4>7, WriterWentOn DEF LastIs
      <4> QED
        BY <4>6, <4>7, <4>8 DEF s
    <3>5. /\ \A i \in DOMAIN Received(r)' : Received(r)'[i] # Garbage
          /\ Status(r) \notin Gone =>
               Holds(layer[r]) /\ (Status(r) # "Reading" => ~Reads(layer[r]))
      BY <1>5, <3>2 DEF Aligned
    <3>6. conn' > 0 /\ layer'[r].status \notin Gone =>
            /\ Chained(Stream(r)') /\ Holds(layer'[r])
            /\ layer'[r].status # "Reading" => ~Reads(layer'[r])
            /\ conn' = 1 /\ 1 \notin broken' => EndsAt(Stream(r)', layer'[w])
      <4> HIDE DEF x, piece
      <4> QED
        BY <3>1, <3>2, <3>4, <3>5 DEF Status
    <3> QED
      BY <3>5, <3>6, AlignedNext
  <2> QED
    BY <2>7, <2>8, <2>9
<1> QED
  BY <1>2, <1>7, <1>8

\* Behind a whole message the stream ends where it ended.
LEMMA EndStays ==
  ASSUME NEW m \in Message, NEW g \in Seq(Byte), g = Bytes(m), Len(g) = m.size,
         NEW t \in Seq(Byte), NEW l \in Layer, EndsAt(g \o t, l),
         l.currentWriteMessage # NoMessage =>
           l.currentBytesLeft \in 1 .. l.currentWriteMessage.size
  PROVE  EndsAt(t, l)
<1> DEFINE s == g \o t
           k == Len(g)
<1>1. m.size \in Nat /\ m.size >= 3 /\ Len(t) \in Nat /\ DOMAIN t = 1 .. Len(t)
  BY MessageFacts, LenProperties
<1>2. /\ Len(s) = k + Len(t)
      /\ DOMAIN s = 1 .. k + Len(t)
      /\ \A i \in DOMAIN t : s[k + i] = t[i]
      /\ \A i \in DOMAIN g : s[i] = g[i]
  BY ConcatFacts
<1>3. CASE t # <<>>
  <2>1. Len(t) \in DOMAIN t
    BY <1>1, <1>3, EmptySeq
  <2>2. s[Len(s)] = t[Len(t)]
    BY <1>2, <2>1
  <2>3. s # <<>>
    <3>1. Len(s) # 0
      BY <1>1, <1>2
    <3> QED
      BY <3>1, EmptySeq
  <2> QED
    BY <1>3, <2>2, <2>3 DEF EndsAt
<1>4. CASE t = <<>>
  <2>1. Len(t) = 0 /\ s # <<>>
    <3>1. Len(s) # 0
      BY <1>1, <1>2
    <3> QED
      BY <1>4, <3>1, EmptySeq
  <2>2. s[Len(s)] = [msg |-> m, pos |-> m.size]
    <3>1. Len(s) = k /\ k \in DOMAIN g
      BY <1>1, <1>2, <2>1, LenProperties
    <3>2. s[Len(s)] = Bytes(m)[m.size]
      BY <1>2, <3>1
    <3> QED
      BY <1>1, <3>2 DEF Bytes
  <2>3. ~(/\ l.currentWriteMessage # NoMessage
          /\ l.currentBytesLeft < l.currentWriteMessage.size)
    <3> SUFFICES ASSUME /\ l.currentWriteMessage # NoMessage
                        /\ l.currentBytesLeft < l.currentWriteMessage.size
                 PROVE  FALSE
      OBVIOUS
    <3> DEFINE v == l.currentWriteMessage
               left == l.currentBytesLeft
    <3>1. v \in Message /\ left \in Nat /\ left >= 1
      BY LayerFields
    <3>2. v.size \in Nat
      BY <3>1, MessageFacts
    <3>3. [msg |-> m, pos |-> m.size] = [msg |-> v, pos |-> v.size - left]
      BY <2>1, <2>2 DEF EndsAt
    <3>4. m.size = v.size /\ m.size = v.size - left
      BY <3>3
    <3> HIDE DEF v, left
    <3> QED
      BY <1>1, <3>1, <3>2, <3>4
  <2> QED
    BY <1>4, <2>3 DEF EndsAt
<1> QED
  BY <1>3, <1>4

\* Another layer reads.
LEMMA ReadOfOthers ==
  ASSUME CInv, InOrderInv, NEW r, NEW w, Facing(r, w), Aligned(r, w),
         NEW e \in Ends, Read(e), e # r
  PROVE  Aligned(r, w)' /\ Received(r)' = Received(r)
<1> DEFINE l == ReadStarted(layer[e])
<1>1. Status(e) = "Reading" /\ UNCHANGED <<conn, link, broken, sent, taken, faults>>
  BY DEF Read
<1>2. PICK n \in Nat, x \in Layer :
        /\ n >= 1 /\ n <= l.currentBytesLeft /\ n <= Len(Incoming(e))
        /\ ConnOf(e) \in Conns /\ ConnOf(e) <= conn
        /\ x.currentWriteMessage = NoMessage
        /\ layer[e].currentWriteMessage = NoMessage
        /\ \/ /\ Reads(x) /\ x.got = Filled(l, Incoming(e), n).got
              /\ x.inQueue = layer[e].inQueue
           \/ ~Reads(x) /\ x.inQueue = layer[e].inQueue
           \/ /\ ~Reads(x)
              /\ x.inQueue = Append(layer[e].inQueue, Decoded(Filled(l, Incoming(e), n).got))
        /\ layer' = [layer EXCEPT ![e] = x]
        /\ wire' = Drained(e, n)
  BY ReadStep
<1> DEFINE g == Filled(l, Incoming(e), n).got
<1>3. r \in Ends /\ w \in Ends /\ r # w
  BY FacingFacts DEF CInv
<1>4. Stream(r)' = Stream(r) /\ Received(r)' = Received(r)
  <2>1. l = ReadStarted(layer[e]) /\ g = Filled(l, Incoming(e), n).got
    OBVIOUS
  <2> HIDE DEF l, g
  <2>2. \A f \in Ends \ {e} : Stream(f)' = Stream(f) /\ Received(f)' = Received(f)
    BY <1>1, <1>2, <2>1, ReadMoves
  <2> QED
    BY <1>3, <2>2
<1>5. layer'[r] = layer[r] /\ SameWrite(layer'[w], layer[w])
  <2>1. layer'[e] = x /\ \A f \in Ends : f # e => layer'[f] = layer[f]
    BY <1>2 DEF CInv, Types
  <2>2. SameWrite(x, layer[e]) /\ SameWrite(layer[w], layer[w])
    BY <1>2 DEF SameWrite
  <2> QED
    BY <1>3, <2>1, <2>2
<1>6. SameHold(layer[r], layer[r])
  BY DEF SameHold
<1> QED
  BY <1>1, <1>4, <1>5, <1>6, AlignedKept DEF Status

\* What a layer reads, and what becomes of it and of its stream.
LEMMA ReadTakes ==
  ASSUME CInv, InOrderInv, NEW e \in Ends, Read(e)
  PROVE  \E n \in Nat, x \in Layer, t \in Seq(Byte) :
           LET q == Filled(ReadStarted(layer[e]), Incoming(e), n)
           IN  /\ n >= 1 /\ n <= ReadStarted(layer[e]).currentBytesLeft
               /\ n <= Len(Incoming(e))
               /\ ConnOf(e) \in Conns /\ ConnOf(e) <= conn
               /\ ReadOutcome(q, x)
               /\ layer' = [layer EXCEPT ![e] = x]
               /\ q.got \in Seq(Byte) /\ q.got # <<>>
               /\ Stream(e) = q.got \o t
               /\ Stream(e)' = IF Reads(x) THEN Stream(e) ELSE t
               /\ Received(e)' = IF x.inQueue = layer[e].inQueue THEN Received(e)
                                 ELSE Append(Received(e), Decoded(q.got))
<1> DEFINE l == ReadStarted(layer[e])
<1>1. Status(e) = "Reading" /\ UNCHANGED <<conn, link, broken, sent, taken, faults>>
  BY DEF Read
<1>2. PICK n \in Nat, x \in Layer :
        /\ n >= 1 /\ n <= l.currentBytesLeft /\ n <= Len(Incoming(e))
        /\ ConnOf(e) \in Conns /\ ConnOf(e) <= conn
        /\ ReadOutcome(Filled(l, Incoming(e), n), x)
        /\ \/ /\ Reads(x) /\ x.got = Filled(l, Incoming(e), n).got
              /\ x.inQueue = layer[e].inQueue
           \/ ~Reads(x) /\ x.inQueue = layer[e].inQueue
           \/ /\ ~Reads(x)
              /\ x.inQueue = Append(layer[e].inQueue, Decoded(Filled(l, Incoming(e), n).got))
        /\ layer' = [layer EXCEPT ![e] = x]
        /\ wire' = Drained(e, n)
  BY ReadStep
<1> DEFINE g == Filled(l, Incoming(e), n).got
<1>3. \E t \in Seq(Byte) :
        /\ g \in Seq(Byte) /\ g # <<>>
        /\ Stream(e) = g \o t
        /\ g = Held(e) \o SubSeq(Incoming(e), 1, n)
        /\ Stream(e)' = IF Reads(x) THEN Stream(e) ELSE t
        /\ Received(e)' = IF x.inQueue = layer[e].inQueue THEN Received(e)
                          ELSE Append(Received(e), Decoded(g))
        /\ \A f \in Ends : Shrinks(f)
        /\ \A f \in Ends \ {e} : Stream(f)' = Stream(f) /\ Received(f)' = Received(f)
                                 /\ Held(f)' = Held(f)
  <2>1. l = ReadStarted(layer[e]) /\ g = Filled(l, Incoming(e), n).got
    OBVIOUS
  <2>2. /\ Status(e) = "Reading" /\ UNCHANGED <<conn, taken>>
        /\ n >= 1 /\ n <= l.currentBytesLeft /\ n <= Len(Incoming(e))
        /\ ConnOf(e) \in Conns /\ ConnOf(e) <= conn
        /\ \/ Reads(x) /\ x.got = g /\ x.inQueue = layer[e].inQueue
           \/ ~Reads(x) /\ x.inQueue = layer[e].inQueue
           \/ ~Reads(x) /\ x.inQueue = Append(layer[e].inQueue, Decoded(g))
        /\ layer' = [layer EXCEPT ![e] = x]
        /\ wire' = Drained(e, n)
    BY <1>1, <1>2
  <2> HIDE DEF l, g
  <2> QED
    BY <2>1, <2>2, ReadMoves, ZenonT(60)
<1> QED
  BY <1>2, <1>3

\* The reader of the first connection reads: a whole message, if one is complete.
LEMMA ReadAligned ==
  ASSUME CInv, InOrderInv, NEW r, NEW w, Facing(r, w), Aligned(r, w), Read(r)
  PROVE  /\ Aligned(r, w)'
         /\ \/ Received(r)' = Received(r)
            \/ \E m \in Message : Received(r)' = Append(Received(r), m)
<1> DEFINE l == ReadStarted(layer[r])
           in == Incoming(r)
<1>1. Status(r) = "Reading" /\ UNCHANGED <<conn, link, broken, sent, taken, faults>>
  BY DEF Read
<1>2. r \in Ends /\ w \in Ends /\ r # w
  BY FacingFacts DEF CInv
<1>3. PICK n \in Nat, x \in Layer, t \in Seq(Byte) :
        /\ n >= 1 /\ n <= l.currentBytesLeft /\ n <= Len(in)
        /\ ConnOf(r) \in Conns /\ ConnOf(r) <= conn
        /\ ReadOutcome(Filled(l, in, n), x)
        /\ layer' = [layer EXCEPT ![r] = x]
        /\ Filled(l, in, n).got \in Seq(Byte) /\ Filled(l, in, n).got # <<>>
        /\ Stream(r) = Filled(l, in, n).got \o t
        /\ Stream(r)' = IF Reads(x) THEN Stream(r) ELSE t
        /\ Received(r)' = IF x.inQueue = layer[r].inQueue THEN Received(r)
                          ELSE Append(Received(r), Decoded(Filled(l, in, n).got))
  BY <1>2, ReadTakes
<1> DEFINE q == Filled(l, in, n)
           g == q.got
           m == g[1].msg
<1>4. /\ g \in Seq(Byte) /\ g # <<>>
      /\ Stream(r) = g \o t
      /\ Stream(r)' = IF Reads(x) THEN Stream(r) ELSE t
      /\ Received(r)' = IF x.inQueue = layer[r].inQueue THEN Received(r)
                        ELSE Append(Received(r), Decoded(g))
  BY <1>3
<1>5. /\ layer[r] \in Layer /\ Cursor(layer[r]) /\ layer[r].status = "Reading"
      /\ layer[w] \in Layer /\ Cursor(layer[w])
  BY <1>1, <1>2 DEF CInv, Types, Cursors, Status
<1>6. conn > 0
  BY <1>3, Bounds DEF CInv, Types
<1>7. /\ \A i \in DOMAIN Received(r) : Received(r)[i] # Garbage
      /\ Chained(g \o t) /\ Holds(layer[r])
      /\ conn = 1 /\ 1 \notin broken => EndsAt(g \o t, layer[w])
  <2>1. Status(r) \notin Gone
    BY <1>1 DEF Gone
  <2> HIDE DEF g
  <2> QED
    BY <1>4, <1>6, <2>1 DEF Aligned
<1>8. /\ m \in Message
      /\ Holds(x)
      /\ \/ /\ x.status = "Reading" /\ Reads(x) /\ x.inQueue = layer[r].inQueue
         \/ /\ x.status = "Idle" /\ ~Reads(x)
            /\ g = Bytes(m) /\ Len(g) = m.size
            /\ x.inQueue = Append(layer[r].inQueue, m)
  <2>1. in \in Seq(Byte)
    <3>1. Status(r) # "None" /\ (r = Client => conn # 0)
      BY <1>1, <1>6
    <3> QED
      BY <1>2, <3>1, Connected DEF CInv
  <2>2. q = Filled(ReadStarted(layer[r]), in, n) /\ ReadOutcome(q, x)
        /\ n <= ReadStarted(layer[r]).currentBytesLeft
    BY <1>3
  <2>3. Chained(q.got \o t)
    BY <1>7
  <2>4. n >= 1 /\ n <= Len(in) /\ g = q.got /\ m = q.got[1].msg
    BY <1>3
  <2>5. PICK l0 \in Layer : l0 = layer[r]
    BY <1>5
  <2>6. Cursor(l0) /\ l0.status = "Reading" /\ Holds(l0)
    BY <1>5, <1>7, <2>5
  <2>7. q = Filled(ReadStarted(l0), in, n) /\ n <= ReadStarted(l0).currentBytesLeft
    BY <2>2, <2>5
  <2> HIDE DEF q, in, l, g, m
  <2>8. LET v == q.got[1].msg
        IN  /\ v \in Message
            /\ Holds(x)
            /\ \/ /\ x.status = "Reading" /\ Reads(x) /\ x.got = q.got
                  /\ x.inQueue = l0.inQueue
               \/ /\ x.status = "Idle" /\ ~Reads(x)
                  /\ q.got = Bytes(v) /\ Len(q.got) = v.size
                  /\ x.inQueue = Append(l0.inQueue, v)
    BY ONLY n \in Nat, x \in Layer, t \in Seq(Byte), l0 \in Layer,
       <2>1, <2>2, <2>3, <2>4, <2>6, <2>7, ReadHolds
  <2> QED
    BY <2>4, <2>5, <2>8
<1>9. layer'[r] = x /\ layer'[w] = layer[w]
  BY <1>2, <1>3 DEF CInv, Types
<1> HIDE DEF q, in, l, g, m
<1>10. CASE x.status = "Reading" /\ Reads(x) /\ x.inQueue = layer[r].inQueue
  <2>1. Stream(r)' = g \o t /\ Received(r)' = Received(r)
    BY <1>4, <1>10
  <2>2. conn' > 0 /\ layer'[r].status \notin Gone =>
          /\ Chained(Stream(r)') /\ Holds(layer'[r])
          /\ layer'[r].status # "Reading" => ~Reads(layer'[r])
          /\ conn' = 1 /\ 1 \notin broken' => EndsAt(Stream(r)', layer'[w])
    BY <1>1, <1>7, <1>8, <1>9, <1>10, <2>1
  <2>3. \A i \in DOMAIN Received(r)' : Received(r)'[i] # Garbage
    BY <1>7, <2>1
  <2> QED
    BY <2>1, <2>2, <2>3, AlignedNext
<1>11. CASE /\ x.status = "Idle" /\ ~Reads(x)
            /\ g = Bytes(m) /\ Len(g) = m.size
            /\ x.inQueue = Append(layer[r].inQueue, m)
  <2>1. x.inQueue # layer[r].inQueue
    <3> DEFINE i == layer[r].inQueue
    <3>1. i \in Seq(Message \cup {Garbage}) /\ m \in Message \cup {Garbage}
      BY <1>5, <1>8, LayerFields
    <3> HIDE DEF i
    <3>2. Len(Append(i, m)) = Len(i) + 1 /\ Len(i) \in Nat
      BY <3>1, AppendProperties, LenProperties
    <3>3. Append(i, m) # i
      BY <3>2
    <3> QED
      BY <1>11, <3>3 DEF i
  <2>2. Decoded(g) = m
    BY <1>11 DEF Decoded, m
  <2>3. Stream(r)' = t /\ Received(r)' = Append(Received(r), m)
    BY <1>4, <1>11, <2>1, <2>2
  <2>4. Chained(t)
    BY <1>4, <1>7, <1>8, <1>11, ChainTaken
  <2>5. conn = 1 /\ 1 \notin broken => EndsAt(t, layer[w])
    <3>1. layer[w].currentWriteMessage # NoMessage =>
            layer[w].currentBytesLeft \in 1 .. layer[w].currentWriteMessage.size
      BY <1>5 DEF Cursor
    <3> QED
      BY <1>4, <1>5, <1>7, <1>8, <1>11, <3>1, EndStays
  <2>6. \A i \in DOMAIN Received(r)' : Received(r)'[i] # Garbage
    <3> DEFINE s == Received(r)
    <3>1. s \in Seq(Message \cup {Garbage}) /\ m # Garbage
      BY <1>2, <1>8, StreamTypes, MessageFacts DEF CInv
    <3>2. \A i \in DOMAIN s : s[i] # Garbage
      BY <1>7
    <3> HIDE DEF s
    <3>3. \A i \in DOMAIN Append(s, m) : Append(s, m)[i] # Garbage
      BY <1>8, <3>1, <3>2, AppendProperties, LenProperties
    <3> QED
      BY <2>3, <3>3 DEF s
  <2>7. conn' > 0 /\ layer'[r].status \notin Gone =>
          /\ Chained(Stream(r)') /\ Holds(layer'[r])
          /\ layer'[r].status # "Reading" => ~Reads(layer'[r])
          /\ conn' = 1 /\ 1 \notin broken' => EndsAt(Stream(r)', layer'[w])
    BY <1>1, <1>8, <1>9, <1>11, <2>3, <2>4, <2>5
  <2> QED
    BY <1>8, <2>3, <2>6, <2>7, AlignedNext
<1> QED
  BY <1>8, <1>10, <1>11

\* The client connects: the first time nothing was held, and after that the first
\* connection is over.
LEMMA ConnectAligned ==
  ASSUME CInv, NEW r, NEW w, Facing(r, w), Aligned(r, w), NEW size \in Sizes,
         NEW result \in {"up", "refused"}, Connect(size, result)
  PROVE  Aligned(r, w)' /\ Received(r)' = Received(r)
<1> DEFINE m == [from |-> Client, no |-> Len(sent[Client]) + 1, size |-> size]
           l == [layer[Client] EXCEPT !.status = "Connecting"]
           x == Enqueued(l, m)
<1>1. /\ conn < MaxConnects /\ Len(sent[Client]) < ClientSends
      /\ conn' = conn + 1
      /\ layer' = [layer EXCEPT ![Client] = x]
      /\ UNCHANGED <<broken, wire, taken, faults>>
  BY DEF Connect, Put
<1>2. m \in Message
  <2>1. Len(sent[Client]) < MaxSends(Client)
    BY <1>1 DEF MaxSends
  <2> QED
    BY <2>1, NextMessageFacts, Bounds DEF CInv
<1> HIDE DEF m
<1>3. /\ Client \in Ends /\ layer[Client] \in Layer /\ r \in Ends /\ w \in Ends /\ r # w
      /\ conn \in Nat /\ conn' \in Nat /\ conn' > 0
  <2>1. Client \in Ends /\ layer[Client] \in Layer
    BY Bounds DEF CInv, Types
  <2>2. r \in Ends /\ w \in Ends /\ r # w /\ conn \in Nat
    BY FacingFacts DEF CInv
  <2>3. conn' \in Nat /\ conn' > 0
    BY <1>1, <2>2
  <2> QED
    BY <2>1, <2>2, <2>3
<1>4. /\ l \in Layer /\ l.inQueue = layer[Client].inQueue
      /\ l.currentWriteMessage = layer[Client].currentWriteMessage
      /\ l.currentPointer = layer[Client].currentPointer
  <2>1. l = Restated(layer[Client], "Connecting") /\ "Connecting" \in Statuses
    BY DEF Restated, Statuses
  <2> QED
    BY <1>3, <2>1, RestatedFacts
<1> HIDE DEF l
<1>5. /\ x.inQueue = layer[Client].inQueue
      /\ x.currentWriteMessage = layer[Client].currentWriteMessage
      /\ x.currentPointer = layer[Client].currentPointer
  BY <1>2, <1>4, EnqueuedFacts
<1> HIDE DEF x
<1>6. layer'[Client] = x /\ \A f \in Ends : f # Client => layer'[f] = layer[f]
  BY <1>1, <1>3 DEF CInv, Types
<1>7. Received(r)' = Received(r)
  BY <1>1, <1>3, <1>5, <1>6 DEF Received
<1>8. \A i \in DOMAIN Received(r)' : Received(r)'[i] # Garbage
  BY <1>7 DEF Aligned
<1>9. CASE conn = 0
  <2>1. ASSUME NEW f \in {r, w}
        PROVE  /\ layer'[f].currentPointer = "null"
               /\ layer'[f].currentWriteMessage = NoMessage
    <3>1. f \in Ends /\ Blank(layer[f])
      <4>1. \A k \in Conns : k > conn
        BY <1>9, Bounds
      <4>2. f \in {Client, 1} /\ 1 \in Conns
        BY DEF Facing
      <4> QED
        BY <1>3, <1>9, <4>1, <4>2 DEF CInv, Unused
    <3>2. layer'[f].currentPointer = layer[f].currentPointer
          /\ layer'[f].currentWriteMessage = layer[f].currentWriteMessage
      BY <1>5, <1>6, <3>1
    <3> QED
      BY <3>1, <3>2 DEF Blank
  <2>2. Stream(r)' = <<>>
    <3>1. Held(r)' = <<>>
      BY <2>1 DEF Held, Reads
    <3>2. Arriving(r)' = <<>>
      <4>1. 1 \in Conns /\ 1 > conn /\ \A d \in Directions : wire[1][d] = <<>>
        BY <1>9 DEF CInv, Unused, Facing
      <4>2. ConnOf(r)' = 1 /\ InDir(r)' \in Directions
        BY <1>1, <1>9 DEF ConnOf, InDir, Facing, Directions
      <4>3. wire' = wire
        BY <1>1
      <4> QED
        BY <4>1, <4>2, <4>3 DEF Arriving, Incoming
    <3>3. <<>> \in Seq(Byte)
      BY EmptySeq
    <3>4. Stream(r)' = <<>> \o <<>>
      BY <3>1, <3>2 DEF Stream
    <3> QED
      BY <3>3, <3>4, ConcatEmptySeq
  <2>3. Chained(<<>>)
    <3>1. <<>> \in Seq(Byte)
      BY EmptySeq
    <3>2. DOMAIN <<>> = {}
      BY <3>1, LenProperties, EmptySeq
    <3> QED
      BY <3>2 DEF Chained
  <2>4. /\ Holds(layer'[r]) /\ ~Reads(layer'[r])
        /\ EndsAt(<<>>, layer'[w])
    BY <2>1 DEF Holds, Reads, EndsAt
  <2> QED
    BY <1>7, <1>8, <2>2, <2>3, <2>4, AlignedNext
<1>10. CASE conn # 0
  <2>1. r = 1 /\ w = Client /\ conn > 0 /\ conn' # 1
    <3>1. MaxConnects # 1
      BY <1>1, <1>3, <1>10
    <3>2. conn > 0 /\ conn' # 1
      BY <1>1, <1>3, <1>10
    <3> QED
      BY <3>1, <3>2 DEF Facing
  <2>2. layer'[r] = layer[r]
    BY <1>3, <1>6, <2>1
  <2>3. Stream(r)' = Stream(r)
    <3>1. Arriving(r)' = Arriving(r)
      BY <1>1, <1>3, <2>1, StillArriving
    <3>2. Held(r)' = Held(r)
      BY <2>2 DEF Held, Reads
    <3> QED
      BY <3>1, <3>2 DEF Stream
  <2>4. Status(r) \notin Gone =>
          /\ Chained(Stream(r)) /\ Holds(layer[r])
          /\ Status(r) # "Reading" => ~Reads(layer[r])
    BY <2>1 DEF Aligned
  <2> QED
    BY <1>7, <1>8, <2>1, <2>2, <2>3, <2>4, AlignedNext DEF Status
<1> QED
  BY <1>9, <1>10

\* Initially nothing is connected and nothing is received.
LEMMA InitAligned ==
  ASSUME NEW r \in Ends, NEW w, Init
  PROVE  Aligned(r, w) /\ Received(r) = <<>>
<1>1. conn = 0 /\ taken[r] = <<>> /\ layer[r].inQueue = <<>>
  <2>1. Blank(layer[r])
    <3>1. CInv
      BY InitCInv
    <3>2. \A k \in Conns : k > conn
      BY Bounds DEF Init
    <3> QED
      BY <3>1, <3>2, Bounds DEF CInv, Unused, Init
  <2> QED
    BY <2>1 DEF Init, Blank
<1>2. <<>> \in Seq(Message)
  BY EmptySeq
<1>3. Received(r) = <<>>
  <2>1. Received(r) = <<>> \o <<>>
    BY <1>1 DEF Received
  <2> QED
    BY <1>2, <2>1, ConcatEmptySeq
<1>4. DOMAIN <<>> = {}
  BY <1>2, LenProperties, EmptySeq
<1> QED
  BY <1>1, <1>3, <1>4 DEF Aligned

\* A step keeps the first connection as it is to be, and at most one message more
\* arrives.
LEMMA NextAligned ==
  ASSUME CInv, InOrderInv, NEW r, NEW w, Facing(r, w), Aligned(r, w), [Next]_vars
  PROVE  /\ Aligned(r, w)'
         /\ \/ Received(r)' = Received(r)
            \/ \E m \in Message : Received(r)' = Append(Received(r), m)
<1> DEFINE More == \/ Received(r)' = Received(r)
                   \/ \E m \in Message : Received(r)' = Append(Received(r), m)
<1>1. r \in Ends
  BY FacingFacts DEF CInv
<1>2. ASSUME NEW e \in Ends, NEW x, layer' = [layer EXCEPT ![e] = x],
             x.inQueue = layer[e].inQueue, taken' = taken
      PROVE  More
  <2>1. layer'[r].inQueue = layer[r].inQueue
    BY <1>1, <1>2 DEF CInv, Types
  <2> QED
    BY <1>2, <2>1 DEF Received
<1>3. ASSUME NEW e \in Ends, Restates(e) PROVE Aligned(r, w)' /\ More
  <2>1. PICK s \in Statuses :
          /\ layer' = [layer EXCEPT ![e] = Restated(layer[e], s)]
          /\ UNCHANGED <<conn, link, broken, wire, sent, taken>>
    BY <1>3, RestateStep
  <2>2. Restated(layer[e], s).inQueue = layer[e].inQueue
    BY RestatedFacts DEF CInv, Types
  <2>3. More
    BY <1>2, <2>1, <2>2
  <2> QED
    BY <1>3, <2>3, RestateAligned
<1>4. ASSUME NEW e \in Ends, NextMessage(e) PROVE Aligned(r, w)' /\ More
  BY <1>1, <1>4, NextMessageAligned, NextMessageKeepsOrder
<1>5. ASSUME NEW e \in Ends, Read(e) PROVE Aligned(r, w)' /\ More
  BY <1>5, ReadOfOthers, ReadAligned
<1>6. ASSUME NEW e \in Ends, ReadFails(e) PROVE Aligned(r, w)' /\ More
  <2>1. PICK x \in Layer :
          /\ layer' = [layer EXCEPT ![e] = x]
          /\ x.inQueue = layer[e].inQueue
          /\ UNCHANGED <<conn, link, broken, wire, sent, taken, faults>>
    BY <1>6, ReadFailsStep
  <2> QED
    BY <1>2, <1>6, <2>1, ReadFailsAligned
<1>7. ASSUME NEW e \in Ends, Write(e) PROVE Aligned(r, w)' /\ More
  <2>1. PICK n : layer' = [layer EXCEPT ![e] = Advanced(WriteStarted(layer[e]), n)]
                 /\ Advanced(WriteStarted(layer[e]), n).inQueue = layer[e].inQueue
    BY <1>7, WriteStep
  <2>2. taken' = taken
    BY <1>7 DEF Write
  <2> QED
    BY <1>2, <1>7, <2>1, <2>2, WriteAligned
<1>8. ASSUME NEW e \in Ends, WriteFails(e) PROVE Aligned(r, w)' /\ More
  <2>1. PICK x : /\ layer' = [layer EXCEPT ![e] = x]
                 /\ x.inQueue = layer[e].inQueue
                 /\ UNCHANGED <<conn, link, broken, wire, sent, taken, faults>>
    BY <1>8, WriteFailsStep
  <2> QED
    BY <1>2, <1>8, <2>1, WriteFailsAligned
<1>9. ASSUME NEW e \in Ends, NEW size \in Sizes, SendMessage(e, size)
      PROVE  Aligned(r, w)' /\ More
  <2> DEFINE m == [from |-> e, no |-> Len(sent[e]) + 1, size |-> size]
  <2>1. m \in Message
    BY <1>9, NextMessageFacts DEF CInv, SendMessage
  <2>2. layer' = [layer EXCEPT ![e] = Enqueued(layer[e], m)] /\ taken' = taken
    BY <1>9 DEF SendMessage, Put
  <2> HIDE DEF m
  <2>3. Enqueued(layer[e], m).inQueue = layer[e].inQueue
    BY <2>1, EnqueuedFacts DEF CInv, Types
  <2>4. More
    BY <1>2, <2>2, <2>3
  <2> QED
    BY <1>9, <2>4, SendMessageAligned
<1>10. ASSUME NEW size \in Sizes, NEW result \in {"up", "refused"}, Connect(size, result)
       PROVE  Aligned(r, w)' /\ More
  BY <1>10, ConnectAligned
<1>11. ASSUME NEW k \in Conns, Accept(k) PROVE Aligned(r, w)' /\ More
  <2>1. /\ k \in Ends /\ Status(k) = "None" /\ taken' = taken
        /\ layer' = [layer EXCEPT ![k] = FreshLayer]
    BY <1>11, Bounds DEF Accept, Put
  <2>2. FreshLayer.inQueue = layer[k].inQueue
    BY <2>1, FreshFacts DEF CInv, Unused, Blank
  <2> QED
    BY <1>2, <1>11, <2>1, <2>2, AcceptAligned
<1>12. ASSUME NEW k \in Conns, Break(k) PROVE Aligned(r, w)' /\ More
  BY <1>12, IdleAligned DEF Break, Received
<1>13. CASE UNCHANGED vars
  BY <1>13, IdleAligned DEF vars, Received
<1>14. ASSUME Next PROVE Aligned(r, w)' /\ More
  <2> HIDE DEF More
  <2> QED
    BY <1>3, <1>4, <1>5, <1>6, <1>7, <1>8, <1>9, <1>10, <1>11, <1>12, <1>14, Steps
<1> QED
  BY <1>13, <1>14

-----------------------------------------------------------------------------
(* The first connection implements the channels.                           *)

\* Step by step what end w sends grows by one new message.
LEMMA SentStep ==
  ASSUME CInv, InOrderInv, NEW w \in Ends, [Next]_vars
  PROVE  \/ sent'[w] = sent[w]
         \/ \E m \in Message : /\ \A i \in 1 .. Len(sent[w]) : sent[w][i] # m
                               /\ sent'[w] = Append(sent[w], m)
                               /\ \A f \in Ends : Received(f)' = Received(f)
<1>1. ASSUME NEW e \in Ends, NEW m \in Message, m.from = e, m.no = Len(sent[e]) + 1,
             NEW x, x.inQueue = layer[e].inQueue,
             layer' = [layer EXCEPT ![e] = x], taken' = taken,
             sent' = [sent EXCEPT ![e] = Append(@, m)]
      PROVE  \/ sent'[w] = sent[w]
             \/ /\ \A i \in 1 .. Len(sent[w]) : sent[w][i] # m
                /\ sent'[w] = Append(sent[w], m)
                /\ \A f \in Ends : Received(f)' = Received(f)
  <2>1. CASE w # e
    BY <1>1, <2>1 DEF CInv, Types
  <2>2. CASE w = e
    <3>1. sent'[w] = Append(sent[w], m)
      BY <1>1, <2>2 DEF CInv, Types
    <3>2. \A i \in 1 .. Len(sent[w]) : sent[w][i] # m
      <4>1. sent[w] \in Seq(Message) /\ Len(sent[w]) \in Nat /\ DOMAIN sent[w] = 1 .. Len(sent[w])
        BY LenProperties DEF CInv, Types
      <4>2. \A i \in 1 .. Len(sent[w]) : sent[w][i].no = i
        BY <4>1 DEF InOrderInv, Queued
      <4>3. m.no = Len(sent[w]) + 1
        BY <1>1, <2>2
      <4> QED
        BY <4>1, <4>2, <4>3
    <3>3. \A f \in Ends : Received(f)' = Received(f)
      <4>1. \A f \in Ends : layer'[f].inQueue = layer[f].inQueue
        BY <1>1 DEF CInv, Types
      <4> QED
        BY <1>1, <4>1 DEF Received
    <3> QED
      BY <3>1, <3>2, <3>3
  <2> QED
    BY <2>1, <2>2
<1>2. ASSUME NEW e \in Ends, NEW size \in Sizes, SendMessage(e, size)
      PROVE  \/ sent'[w] = sent[w]
             \/ \E m \in Message : /\ \A i \in 1 .. Len(sent[w]) : sent[w][i] # m
                                   /\ sent'[w] = Append(sent[w], m)
                                   /\ \A f \in Ends : Received(f)' = Received(f)
  <2> DEFINE m == [from |-> e, no |-> Len(sent[e]) + 1, size |-> size]
             x == Enqueued(layer[e], m)
  <2>1. m \in Message
    BY <1>2, NextMessageFacts DEF CInv, SendMessage
  <2>2. /\ layer' = [layer EXCEPT ![e] = x] /\ taken' = taken
        /\ sent' = [sent EXCEPT ![e] = Append(@, m)]
        /\ m.from = e /\ m.no = Len(sent[e]) + 1
    BY <1>2 DEF SendMessage, Put
  <2> HIDE DEF m
  <2>3. x.inQueue = layer[e].inQueue
    BY <2>1, EnqueuedFacts DEF CInv, Types
  <2> HIDE DEF x
  <2> QED
    BY <1>1, <2>1, <2>2, <2>3
<1>3. ASSUME NEW size \in Sizes, NEW result \in {"up", "refused"}, Connect(size, result)
      PROVE  \/ sent'[w] = sent[w]
             \/ \E m \in Message : /\ \A i \in 1 .. Len(sent[w]) : sent[w][i] # m
                                   /\ sent'[w] = Append(sent[w], m)
                                   /\ \A f \in Ends : Received(f)' = Received(f)
  <2> DEFINE m == [from |-> Client, no |-> Len(sent[Client]) + 1, size |-> size]
             l == [layer[Client] EXCEPT !.status = "Connecting"]
             x == Enqueued(l, m)
  <2>1. m \in Message
    <3>1. Len(sent[Client]) < MaxSends(Client)
      BY <1>3 DEF Connect, MaxSends
    <3> QED
      BY <3>1, NextMessageFacts, Bounds DEF CInv
  <2>2. /\ layer' = [layer EXCEPT ![Client] = x] /\ taken' = taken
        /\ sent' = [sent EXCEPT ![Client] = Append(@, m)]
        /\ m.from = Client /\ m.no = Len(sent[Client]) + 1
    BY <1>3 DEF Connect, Put
  <2> HIDE DEF m
  <2>3. l \in Layer /\ l.inQueue = layer[Client].inQueue /\ Client \in Ends
    <3>1. l = Restated(layer[Client], "Connecting") /\ "Connecting" \in Statuses
      BY DEF Restated, Statuses
    <3>2. Client \in Ends /\ layer[Client] \in Layer
      BY Bounds DEF CInv, Types
    <3> QED
      BY <3>1, <3>2, RestatedFacts
  <2> HIDE DEF l
  <2>4. x.inQueue = layer[Client].inQueue
    BY <2>1, <2>3, EnqueuedFacts
  <2> HIDE DEF x
  <2> QED
    BY <1>1, <2>1, <2>2, <2>3, <2>4
<1>4. ASSUME NEW e \in Ends, \/ Restates(e) \/ NextMessage(e) \/ Read(e) \/ ReadFails(e)
                             \/ Write(e) \/ WriteFails(e)
      PROVE  sent' = sent
  BY <1>4, RestateStep DEF NextMessage, Read, ReadFails, Write, WriteFails
<1>5. ASSUME NEW k \in Conns, Accept(k) \/ Break(k)
      PROVE  sent' = sent
  BY <1>5 DEF Accept, Break
<1>6. CASE UNCHANGED vars
  BY <1>6 DEF vars
<1> QED
  BY <1>2, <1>3, <1>4, <1>5, <1>6, Steps

\* A message that arrives over the first connection is one that was sent after all
\* those that had arrived.
LEMMA ArrivalFacts ==
  ASSUME Types', InOrderInv', NEW r, NEW w, Facing(r, w), Aligned(r, w)',
         NEW s \in Seq(Message \cup {Garbage}), NEW m \in Message,
         Received(r)' = Append(s, m), sent'[w] = sent[w]
  PROVE  /\ m.no \in DOMAIN sent[w] /\ sent[w][m.no] = m
         /\ \A j \in 1 .. Len(s) : \E k \in 1 .. m.no - 1 : s[j] = sent[w][k]
<1>0. PICK u : u = Received(r)' /\ u = Append(s, m)
  OBVIOUS
<1>1. /\ Len(s) \in Nat /\ Len(u) = Len(s) + 1
      /\ DOMAIN u = 1 .. Len(s) + 1 /\ u[Len(s) + 1] = m
      /\ \A j \in 1 .. Len(s) : u[j] = s[j] /\ s[j] \in Message \cup {Garbage}
  BY <1>0, AppendProperties, LenProperties, ElementOfSeq
<1>2. r \in Ends /\ w \in Ends
  BY Bounds DEF Facing
<1>3. \A j \in DOMAIN u : u[j] # Garbage
  BY <1>0 DEF Aligned
<1>4. ASSUME NEW j \in DOMAIN u
      PROVE  u[j] \in Message /\ u[j].from = w /\ u[j].no \in DOMAIN sent[w] /\ sent[w][u[j].no] = u[j]
  <2>1. PICK z : z = u[j]
    OBVIOUS
  <2>2. z \in Message
    BY <1>1, <1>3, <2>1
  <2>3. PICK b : b = [msg |-> z, pos |-> 1]
    OBVIOUS
  <2>4. b \in Arrived(r)'
    <3>1. z \in Elements(u) \ {Garbage}
      BY <1>3, <2>1 DEF Elements
    <3>2. b \in Rest(z, 1)
      BY <2>2, <2>3, RestFacts
    <3>3. Arrived(r)' = UNION {Rest(v, 1) : v \in Elements(u) \ {Garbage}}
      BY <1>0 DEF Arrived, Elements, Rest
    <3> QED
      BY <3>1, <3>2, <3>3
  <2>5. b \in Past(r)' /\ b.msg = z
    BY <2>4, <2>3 DEF Past
  <2>6. \E f \in Senders(r)' : IsSent(z, f)'
    BY <1>2, <2>5 DEF InOrderInv, Genuine
  <2>7. Senders(r)' \subseteq {w}
    <3>1. CASE r = 1 /\ w = Client
      BY <3>1, Bounds DEF Senders
    <3>2. CASE r = Client /\ w = 1 /\ MaxConnects = 1
      <4>1. conn' \in 0 .. 1
        BY <3>2 DEF Types
      <4> QED
        BY <3>2, <4>1 DEF Senders
    <3> QED
      BY <3>1, <3>2 DEF Facing
  <2> QED
    BY <2>1, <2>2, <2>6, <2>7 DEF IsSent
<1>5. Len(s) + 1 \in DOMAIN u
  BY <1>1
<1>6. m.no \in DOMAIN sent[w] /\ sent[w][m.no] = m /\ m.from = w
  BY <1>1, <1>4, <1>5
<1>7. ASSUME NEW j \in 1 .. Len(s)
      PROVE  \E k \in 1 .. m.no - 1 : s[j] = sent[w][k]
  <2> DEFINE z == u[j]
  <2>1. j \in DOMAIN u /\ j < Len(s) + 1 /\ z = s[j]
    BY <1>1
  <2>2. z \in Message /\ z.from = w /\ z.no \in DOMAIN sent[w] /\ sent[w][z.no] = z
    BY <1>4, <2>1
  <2>3. InOrder(z, m)
    BY <1>1, <1>2, <1>5, <2>1, <1>0 DEF InOrderInv, Ordered, Ascends
  <2> HIDE DEF z
  <2>4. z.no < m.no
    <3>1. z # Garbage /\ m # Garbage /\ z.from \in Nat
      BY <2>2, MessageFacts
    <3> QED
      BY <1>6, <2>2, <2>3, <3>1 DEF InOrder, Before
  <2>5. z.no \in 1 .. m.no - 1
    <3>1. z.no \in Nat /\ z.no >= 1 /\ m.no \in Nat
      BY <2>2, MessageFacts
    <3> QED
      BY <2>4, <3>1
  <2> QED
    BY <2>1, <2>2, <2>5
<1> QED
  BY <1>6, <1>7

\* Every step is one of the channel from w to r, or none.
LEMMA ChannelStep ==
  ASSUME CInv, InOrderInv, NEW r, NEW w, Facing(r, w), Aligned(r, w), [Next]_vars
  PROVE  \/ sent'[w] = sent[w] /\ Received(r)' = Received(r)
         \/ \E m \in Message : /\ \A i \in 1 .. Len(sent[w]) : sent[w][i] # m
                               /\ sent'[w] = Append(sent[w], m)
                               /\ Received(r)' = Received(r)
         \/ \E i \in 1 .. Len(sent[w]) :
              /\ \A j \in 1 .. Len(Received(r)) :
                   \E k \in 1 .. i - 1 : Received(r)[j] = sent[w][k]
              /\ Received(r)' = Append(Received(r), sent[w][i])
              /\ sent'[w] = sent[w]
<1>1. r \in Ends /\ w \in Ends
  BY FacingFacts DEF CInv
<1>2. Aligned(r, w)' /\ CInv' /\ InOrderInv'
  BY NextAligned, NextOrder DEF OInv
<1>3. PICK s \in Seq(Message \cup {Garbage}) : s = Received(r)
  BY <1>1, StreamTypes DEF CInv
<1>4. CASE Received(r)' = Received(r)
  BY <1>1, <1>4, SentStep
<1>5. ASSUME NEW m \in Message, Received(r)' = Append(Received(r), m)
      PROVE  \E i \in 1 .. Len(sent[w]) :
               /\ \A j \in 1 .. Len(Received(r)) :
                    \E k \in 1 .. i - 1 : Received(r)[j] = sent[w][k]
               /\ Received(r)' = Append(Received(r), sent[w][i])
               /\ sent'[w] = sent[w]
  <2>1. PICK u : u = Received(r)'
    OBVIOUS
  <2>2. u = Append(s, m) /\ u # s
    <3>1. u = Append(s, m)
      BY <1>3, <1>5, <2>1
    <3>2. Len(u) = Len(s) + 1 /\ Len(s) \in Nat
      BY <3>1, AppendProperties, LenProperties
    <3> QED
      BY <3>1, <3>2
  <2>3. sent'[w] = sent[w]
    BY <1>1, <1>3, <2>1, <2>2, SentStep
  <2>4. Types' /\ InOrderInv' /\ Aligned(r, w)' /\ Received(r)' = Append(s, m)
    BY <1>2, <2>1, <2>2 DEF CInv
  <2>5. /\ m.no \in DOMAIN sent[w] /\ sent[w][m.no] = m
        /\ \A j \in 1 .. Len(s) : \E k \in 1 .. m.no - 1 : s[j] = sent[w][k]
    BY ONLY Facing(r, w), s \in Seq(Message \cup {Garbage}), m \in Message,
       <2>3, <2>4, ArrivalFacts
  <2>6. DOMAIN sent[w] = 1 .. Len(sent[w])
    BY <1>1, LenProperties DEF CInv, Types
  <2> DEFINE i == m.no
  <2>7. i \in 1 .. Len(sent[w]) /\ sent[w][i] = m
    BY <2>5, <2>6
  <2>8. \A j \in 1 .. Len(Received(r)) : \E k \in 1 .. i - 1 : Received(r)[j] = sent[w][k]
    BY <1>3, <2>5
  <2> HIDE DEF i
  <2>9. Received(r)' = Append(Received(r), sent[w][i])
    BY <1>5, <2>7
  <2> QED
    BY <2>3, <2>7, <2>8, <2>9
<1> QED
  BY <1>4, <1>5, NextAligned

\* What the client writes reaches the server's layer of the first connection whole,
\* in order and once, or not at all (Read and Write of ipcmessagelayer.c), however
\* the stream is cut and whatever becomes of the connection, the client's later
\* ones included.
THEOREM UpIsAChannel ==
  ASSUME MaxConnects >= 1
  PROVE  Spec => Up!Spec
<1> DEFINE Inv == CInv /\ InOrderInv /\ Aligned(1, Client)
<1>1. Facing(1, Client) /\ 1 \in Ends
  BY Bounds DEF Facing, Conns
<1>2. Init => Inv /\ Up!Init
  <2> SUFFICES ASSUME Init PROVE Inv /\ Up!Init
    OBVIOUS
  <2>1. Aligned(1, Client) /\ Received(1) = <<>>
    BY <1>1, InitAligned
  <2>2. sent[Client] = <<>>
    BY Bounds DEF Init
  <2> QED
    BY <2>1, <2>2, InitOrder DEF OInv, Up!Init
<1>3. Inv /\ [Next]_vars => Inv' /\ [Up!Next]_Up!vars
  <2> SUFFICES ASSUME CInv, InOrderInv, Aligned(1, Client), [Next]_vars
               PROVE  Inv' /\ [Up!Next]_Up!vars
    OBVIOUS
  <2>1. Inv'
    BY <1>1, NextAligned, NextOrder DEF OInv
  <2>2. [Up!Next]_Up!vars
    BY <1>1, ChannelStep DEF Up!Next, Up!Send, Up!Receive, Up!vars
  <2> QED
    BY <2>1, <2>2
<1> HIDE DEF Inv
<1> QED
  BY <1>2, <1>3, PTL DEF Spec, Up!Spec

\* A client that connects once and the layer of its connection: both directions
\* are channels.
THEOREM ConnectionIsChannels ==
  ASSUME MaxConnects = 1
  PROVE  Spec => BothAreChannels
<1> DEFINE Inv == CInv /\ InOrderInv /\ Aligned(Client, 1)
<1>1. Facing(Client, 1) /\ Client \in Ends /\ 1 \in Ends
  BY Bounds DEF Facing, Conns
<1>2. Init => Inv /\ Down!Init
  <2> SUFFICES ASSUME Init PROVE Inv /\ Down!Init
    OBVIOUS
  <2>1. Aligned(Client, 1) /\ Received(Client) = <<>>
    BY <1>1, InitAligned
  <2>2. sent[1] = <<>>
    BY <1>1 DEF Init
  <2> QED
    BY <2>1, <2>2, InitOrder DEF OInv, Down!Init
<1>3. Inv /\ [Next]_vars => Inv' /\ [Down!Next]_Down!vars
  <2> SUFFICES ASSUME CInv, InOrderInv, Aligned(Client, 1), [Next]_vars
               PROVE  Inv' /\ [Down!Next]_Down!vars
    OBVIOUS
  <2>1. Inv'
    BY <1>1, NextAligned, NextOrder DEF OInv
  <2>2. [Down!Next]_Down!vars
    BY <1>1, ChannelStep DEF Down!Next, Down!Send, Down!Receive, Down!vars
  <2> QED
    BY <2>1, <2>2
<1> HIDE DEF Inv
<1>4. Spec => Down!Spec
  BY <1>2, <1>3, PTL DEF Spec, Down!Spec
<1>5. Spec => Up!Spec
  BY UpIsAChannel
<1> QED
  BY <1>4, <1>5 DEF BothAreChannels

=============================================================================

--------------------------- MODULE ConverterChain ---------------------------
(***************************************************************************)
(* The converters (converter/) and the loops of backup/aqbackup.c that     *)
(* drive them: StoreFile sends a file through FileIn and Zip (or Dummy) to *)
(* the server, RestoreFile sends what the server has through Unzip (or     *)
(* Dummy) to FileOut, and GetMD5 reads a file.  A digest is taken on the   *)
(* way, by a side branch of the second converter.                          *)
(*                                                                         *)
(* One step is one round of such a loop, or one piece of data taken from   *)
(* the end of the chain.                                                   *)
(*                                                                         *)
(* Data are cells.  A cell of plain data is one byte, which is its         *)
(* position in the file; a cell of compressed data is a run of bytes, and  *)
(* the empty cell ends a compressed stream.  zlib is external: it may keep *)
(* back what it likes until it is told to finish, and fills any part of    *)
(* the room it has.  A digest is all the bytes it was made of.             *)
(***************************************************************************)
EXTENDS Integers, Sequences, SequencesExt

CONSTANTS
  Worlds,      \* what a behaviour is about: [size, zip, fault, at]
  BufferSize,  \* converter -> the size of its output buffer or chunk
  InSize,      \* Zip and Unzip -> the size of their input buffers
  StoreBuffer, RestoreBuffer,  \* the buffers of StoreFile and RestoreFile
  MaxRun       \* bound on the bytes in a cell of compressed data

Kinds  == {"filein", "dummy", "zip", "unzip", "fileout", "md5"}
Faults == {"none", "read", "room", "cut", "changed", "answers", "disk", "open"}

ASSUME SizesAssumption ==
  /\ BufferSize \in [Kinds -> Nat \ {0}]
  /\ InSize \in [{"zip", "unzip"} -> Nat \ {0}]
  /\ {StoreBuffer, RestoreBuffer, MaxRun} \subseteq Nat \ {0}
  /\ \A w \in Worlds : /\ w.size \in Nat /\ w.zip \in BOOLEAN
                       /\ w.fault \in Faults /\ w.at \in Nat

VARIABLES
  world,   \* the file, whether it is compressed and what goes wrong; constant
  op,      \* "store", "restore", "check" or "done"
  phase,   \* where the loop is
  chain,   \* the converters: two nodes, and the side branch of the second
  ineof, outeof,  \* of RestoreFile and StoreFile
  file,    \* what the server stored
  sent,    \* how much of it RestoreFile has read
  version, \* the digest in the entry's version
  result   \* what StoreFile and RestoreFile returned, and GetMD5's digest

vars == <<world, op, phase, chain, ineof, outeof, file, sent, version, result>>

\* The content of the local file, as long as a fault leaves it.
Content   == [i \in 1..world.size |-> <<i>>]
At(fault) == IF world.fault = fault THEN world.at ELSE world.size + 1
Least(S)  == CHOOSE x \in S : \A y \in S : x <= y
First(s, n)  == SubSeq(s, 1, Least({n, Len(s)}))
Behind(s, n) == SubSeq(s, n + 1, Len(s))

-----------------------------------------------------------------------------
(* The converters.  A converter is a record of its buffers and flags;      *)
(* input, room and held are next_in, avail_out and the state of a zlib     *)
(* stream.  FileIn keeps in held what it has not read, FileOut in data     *)
(* what it wrote.                                                          *)

Converter(kind) ==
  [kind  |-> kind,
   data  |-> <<>>,
   next  |-> 0,       \* nextPosForGetData
   zpos  |-> 0,       \* zstream->next_out
   room  |-> BufferSize[kind],
   input |-> <<>>, held |-> <<>>,
   eof   |-> FALSE,   \* told that no more data come
   over  |-> FALSE,   \* CONVERTER.eof
   lost  |-> FALSE,   \* notAllDataTaken
   received |-> 0]    \* bytesReceived

ZeroedBuffer(kind) == [i \in 1..BufferSize[kind] |-> <<0>>]
FileInNew(cells) == [Converter("filein") EXCEPT !.held = cells]
DummyNew == Converter("dummy")
ZipNew == [Converter("zip") EXCEPT !.data = ZeroedBuffer("zip")]
UnzipNew == [Converter("unzip") EXCEPT !.data = ZeroedBuffer("unzip")]
FileOutNew == Converter("fileout")
Md5New == Converter("md5")

\* HasData: the data in the output buffer, in one piece.
Wrapped(n)      == n.next > n.zpos \/ (n.next = n.zpos /\ n.room = 0)
FileInHasData(n) == Len(n.data) - n.next
DummyHasData(n)  == Len(n.data) - n.next
ZipHasData(n)    == IF Wrapped(n) THEN BufferSize.zip - n.next ELSE n.zpos - n.next
UnzipHasData(n)  == IF n.next > n.zpos THEN BufferSize.unzip - n.next ELSE n.zpos - n.next
Md5HasData(n)    == IF n.eof THEN BufferSize.md5 - n.next ELSE 0

HasData(n) ==
  IF n.lost THEN 0
  ELSE CASE n.kind = "filein" -> FileInHasData(n)
         [] n.kind = "dummy"  -> DummyHasData(n)
         [] n.kind = "zip"    -> ZipHasData(n)
         [] n.kind = "unzip"  -> UnzipHasData(n)
         [] n.kind = "md5"    -> Md5HasData(n)
         [] n.kind = "fileout" -> 0

DummyNeedsData(n)   == IF n.next < Len(n.data) THEN 0 ELSE BufferSize.dummy
ZipNeedsData(n)     == IF n.input = <<>> THEN InSize.zip ELSE 0
UnzipNeedsData(n)   == IF n.input = <<>> THEN InSize.unzip ELSE 0
FileOutNeedsData(n) == BufferSize.fileout
Md5NeedsData(n)     == BufferSize.md5

NeedsData(n) ==
  IF n.eof THEN 0
  ELSE CASE n.kind = "filein"  -> 0
         [] n.kind = "dummy"   -> DummyNeedsData(n)
         [] n.kind = "zip"     -> ZipNeedsData(n)
         [] n.kind = "unzip"   -> UnzipNeedsData(n)
         [] n.kind = "fileout" -> FileOutNeedsData(n)
         [] n.kind = "md5"     -> Md5NeedsData(n)

\* SetData: the converter afterwards, and how much it took.
Set(n, taken) == [node |-> n, taken |-> taken]
DummySetData(n, cells) ==
  IF n.next < Len(n.data) THEN Set(n, 0)
  ELSE Set([n EXCEPT !.data = First(cells, BufferSize.dummy), !.next = 0],
           Least({Len(cells), BufferSize.dummy}))
ZipSetData(n, cells) ==
  IF n.input # <<>> THEN Set(n, 0)
  ELSE Set([n EXCEPT !.input = First(cells, InSize.zip)], Least({Len(cells), InSize.zip}))
UnzipSetData(n, cells) ==
  Set([n EXCEPT !.input = First(cells, InSize.unzip)], Least({Len(cells), InSize.unzip}))
Md5SetData(n, cells) == Set([n EXCEPT !.data = @ \o cells], Len(cells))

\* fwrite writes what there is room for; CONVERTER_RESULT_ERROR is no size.
Failed   == -1
Space(n) == At("disk") - Len(n.data)
FileOutSetData(n, cells) ==
  IF Space(n) < Len(cells) THEN Set([n EXCEPT !.data = @ \o First(cells, Space(n))], Failed)
  ELSE Set([n EXCEPT !.data = @ \o cells, !.received = @ + Len(cells)], Len(cells))

\* Mutant of EndOfData: a digest is not finished.
EndOfDataUnfinished(n) == IF n.kind = "md5" THEN n ELSE [n EXCEPT !.eof = TRUE]

\* Data of size 0 end the stream.
EndOfData(n) == [n EXCEPT !.eof = TRUE]

SetData(n, cells) ==
  IF n.eof \/ n.kind = "filein" THEN Set(n, 0)
  ELSE IF cells = <<>> THEN Set(EndOfData(n), 0)
  ELSE CASE n.kind = "dummy"   -> DummySetData(n, cells)
         [] n.kind = "zip"     -> ZipSetData(n, cells)
         [] n.kind = "unzip"   -> UnzipSetData(n, cells)
         [] n.kind = "fileout" -> FileOutSetData(n, cells)
         [] n.kind = "md5"     -> Md5SetData(n, cells)

\* Mutant of RingTaken: the read position stays at the end of the buffer.
RingTakenToEnd(n, size) ==
  LET next == IF n.next + size > BufferSize[n.kind] THEN 0 ELSE n.next + size
      zpos == IF n.zpos >= BufferSize[n.kind] THEN 0 ELSE n.zpos
  IN  [n EXCEPT !.next = next, !.zpos = zpos,
                !.room = IF zpos >= next THEN BufferSize[n.kind] - zpos ELSE next - zpos]

\* The ring buffer of Zip and Unzip after size bytes were taken.
RingTaken(n, size) ==
  LET next == IF n.next + size >= BufferSize[n.kind] THEN 0 ELSE n.next + size
      zpos == IF n.zpos >= BufferSize[n.kind] THEN 0 ELSE n.zpos
  IN  [n EXCEPT !.next = next, !.zpos = zpos,
                !.room = IF zpos >= next THEN BufferSize[n.kind] - zpos ELSE next - zpos]

\* GetData: the converter afterwards, and the data.
Get(n, data) == [node |-> n, data |-> data]
FileInGetData(n, size) ==   \* behind what was read there are old data
  LET k == Least({size, BufferSize.filein - n.next})
  IN  Get([n EXCEPT !.next = @ + k],
          [i \in 1..k |-> IF n.next + i <= Len(n.data) THEN n.data[n.next + i] ELSE <<0>>])
DummyGetData(n, size) ==
  LET k == Least({size, DummyHasData(n)})
  IN  Get([n EXCEPT !.next = @ + k], SubSeq(n.data, n.next + 1, n.next + k))
ZipGetData(n, size) ==
  LET k == Least({size, ZipHasData(n)})
  IN  Get(IF k > 0 THEN RingTaken(n, k) ELSE n, SubSeq(n.data, n.next + 1, n.next + k))
UnzipGetData(n, size) ==
  LET k == Least({size, UnzipHasData(n)})
  IN  Get(IF k > 0 THEN RingTaken(n, k) ELSE n, SubSeq(n.data, n.next + 1, n.next + k))
Md5GetData(n, size) == Get([n EXCEPT !.next = @ + Least({size, Md5HasData(n)})], n.data)

GetData(n, size) ==
  LET got == CASE n.lost \/ n.kind = "fileout" -> Get(n, <<>>)
               [] n.kind = "filein" /\ ~n.lost -> FileInGetData(n, size)
               [] n.kind = "dummy" /\ ~n.lost  -> DummyGetData(n, size)
               [] n.kind = "zip" /\ ~n.lost    -> ZipGetData(n, size)
               [] n.kind = "unzip" /\ ~n.lost  -> UnzipGetData(n, size)
               [] n.kind = "md5" /\ ~n.lost    -> Md5GetData(n, size)
  IN  Get([got.node EXCEPT !.received = @ + Len(got.data)], got.data)

-----------------------------------------------------------------------------
(* zlib, and the work of the converters: the sets of what a converter and  *)
(* its result may be after it worked.                                      *)

\* zlib appends cells to the output buffer.
Output(n, cells) ==
  [n EXCEPT !.data = First(@, n.zpos) \o cells \o Behind(@, n.zpos + Len(cells)),
            !.zpos = @ + Len(cells), !.room = @ - Len(cells)]

\* The ways to cut bytes into cells: the position of each cell's last byte.
AllCuts ==
  {cuts \in UNION {[1..m -> 1..m * MaxRun] : m \in 0..BufferSize.zip} :
     \A i \in DOMAIN cuts : cuts[i] - (IF i = 1 THEN 0 ELSE cuts[i - 1]) \in 1..MaxRun}
End(cuts)     == IF cuts = <<>> THEN 0 ELSE Last(cuts)
Cuts(n, room) == {cuts \in AllCuts : End(cuts) <= n /\ Len(cuts) <= room}
Cells(bytes, cuts) ==
  [i \in DOMAIN cuts |-> SubSeq(bytes, 1 + (IF i = 1 THEN 0 ELSE cuts[i - 1]), cuts[i])]

\* deflate without flushing: it takes all input, or fills the output.
Deflated(n) ==
  LET Bytes(k) == n.held \o FlattenSeq(First(n.input, k))
      Done(k, cuts) ==
        [node |-> [Output(n, Cells(Bytes(k), cuts)) EXCEPT !.held = Behind(Bytes(k), End(cuts)),
                                                           !.input = Behind(@, k)],
         rv   |-> "ok"]
  IN  UNION {{Done(k, cuts) : cuts \in {l \in Cuts(Len(Bytes(k)), n.room) :
                                          k = Len(n.input) \/ Len(l) = n.room}} :
             k \in 0..Len(n.input)}

\* deflate that finishes: all that was held and the end of the stream, or as
\* much of it as there is room for.
Finished(n) ==
  {[node |-> IF Len(cuts) < n.room
             THEN [Output(n, Cells(n.held, cuts) \o << <<>> >>) EXCEPT !.held = <<>>]
             ELSE [Output(n, Cells(n.held, cuts)) EXCEPT !.held = Behind(n.held, End(cuts))],
    rv   |-> IF Len(cuts) < n.room THEN "eof" ELSE "ok"] :
     cuts \in {l \in Cuts(Len(n.held), n.room) : End(l) = Len(n.held) \/ Len(l) = n.room}}

\* inflate goes on until it has no input or no room, or met the end of the
\* stream.  That it could do nothing, or not finish when it was told that no
\* more input comes, is an error.
Inflated(n) ==
  LET Bytes(k) == n.held \o FlattenSeq(First(n.input, k))
      Ends(k)  == k > 0 /\ n.input[k] = <<>>
      k     == Least({j \in 0..Len(n.input) : \/ Len(Bytes(j)) >= n.room
                                              \/ Ends(j) \/ j = Len(n.input)})
      bytes == Bytes(k)
      out   == First(bytes, n.room)
      node  == [Output(n, [i \in 1..Len(out) |-> <<out[i]>>])
                  EXCEPT !.held = Behind(bytes, n.room), !.input = Behind(@, k)]
  IN  [node |-> node,
       rv   |-> IF Ends(k) THEN "eof"
                ELSE IF n.eof \/ (k = 0 /\ out = <<>>) THEN "error" ELSE "ok"]

FileInWork(n) ==
  IF n.eof THEN [node |-> n, rv |-> "eof"]
  ELSE [node |-> IF n.next < Len(n.data) THEN n
                 ELSE IF n.held = <<>> THEN [n EXCEPT !.eof = TRUE]
                 ELSE [n EXCEPT !.data = First(n.held, BufferSize.filein), !.next = 0,
                                !.held = Behind(@, BufferSize.filein)],
        rv   |-> "ok"]

ZipWork(n) ==
  IF n.room = 0 THEN {[node |-> n, rv |-> "ok"]}
  ELSE IF n.eof /\ n.input = <<>> THEN Finished(n)
  ELSE IF n.input = <<>> THEN {[node |-> n, rv |-> "ok"]}
  ELSE Deflated(n)

UnzipWork(n) == {IF n.room = 0 THEN [node |-> n, rv |-> "ok"] ELSE Inflated(n)}

Work(n) ==
  CASE n.kind = "filein" -> {FileInWork(n)}
    [] n.kind = "zip"    -> ZipWork(n)
    [] n.kind = "unzip"  -> UnzipWork(n)
    [] n.kind \in {"dummy", "fileout", "md5"} ->
         {[node |-> n, rv |-> IF n.eof THEN "eof" ELSE "ok"]}

-----------------------------------------------------------------------------
(* The chain: two converters in a row.  The second has a side branch.      *)

GroupNeedsData(c, i) ==
  IF i = 2 THEN Least({NeedsData(c.nodes[2]), NeedsData(c.tee)}) ELSE NeedsData(c.nodes[i])

\* Hands cells to node i and its side branch.  A node that does not take all
\* of them is marked, and so are those behind it.
GroupSetData(c, i, cells) ==
  LET size == Len(cells)
      set  == SetData(c.nodes[i], cells)
      tee  == SetData(c.tee, cells)
      fits == size = 0 \/ GroupNeedsData(c, i) >= size
      gave == IF fits THEN set.taken ELSE 0
      given == IF fits THEN [c.nodes EXCEPT ![i] = set.node] ELSE c.nodes
  IN  [chain |-> [nodes |-> IF gave = size THEN given
                            ELSE [given EXCEPT ![i].lost = TRUE, ![2].lost = TRUE],
                  tee   |-> IF i = 2 /\ fits
                            THEN [tee.node EXCEPT !.lost = @ \/ tee.taken # size] ELSE c.tee],
       taken |-> gave, size |-> size]

\* Mutant of Worked: that a node met its end is forgotten.
WorkedOn(n) ==
  IF HasData(n) > 0 \/ n.over THEN {[node |-> n, rv |-> "ok"]} ELSE Work(n)

\* A node that has no data works, unless it met its end.
Worked(n) ==
  IF HasData(n) > 0 \/ n.over THEN {[node |-> n, rv |-> "ok"]}
  ELSE {[node |-> [w.node EXCEPT !.over = w.rv = "eof"], rv |-> w.rv] : w \in Work(n)}

\* Mutant of HandOver: what the successor does not want is dropped.
HandOverAll(c) ==
  {GroupSetData([c EXCEPT !.nodes[1] = got.node], 2, First(got.data, GroupNeedsData(c, 2))) :
     got \in {GetData(c.nodes[1], HasData(c.nodes[1]))}}

\* The first node hands the second as much as it has and the other needs.
HandOver(c) ==
  {GroupSetData([c EXCEPT !.nodes[1] = got.node], 2, got.data) :
     got \in {GetData(c.nodes[1], Least({GroupNeedsData(c, 2), HasData(c.nodes[1])}))}}

\* The turn of node i in ConverterGroup_Work, after its own work: on is TRUE
\* when the next one has its turn.  A side branch has nothing to do in its
\* turn: a digest works when it is given data.
Stop(c, rv) == [chain |-> c, rv |-> rv, on |-> FALSE]
GoOn(c)     == [chain |-> c, rv |-> "ok", on |-> TRUE]
Behaved(c, i, rv) ==
  LET n == c.nodes[i]
  IN  IF rv = "error" THEN {Stop(c, "error")}
      ELSE IF HasData(n) = 0 /\ ~n.over THEN {Stop(c, "ok")}
      ELSE IF HasData(n) = 0 /\ i = 2 THEN {Stop(c, "eof")}
      ELSE IF HasData(n) = 0 THEN {GoOn(GroupSetData(c, 2, <<>>).chain)}
      ELSE IF i = 2 \/ GroupNeedsData(c, 2) = 0 THEN {GoOn(c)}
      ELSE {IF set.taken = set.size THEN GoOn(set.chain) ELSE Stop(set.chain, "error") :
              set \in HandOver(c)}
Turn(c, i) == UNION {Behaved([c EXCEPT !.nodes[i] = w.node], i, w.rv) : w \in Worked(c.nodes[i])}

GroupWork(c) == UNION {IF t.on THEN Turn(t.chain, 2) ELSE {t} : t \in Turn(c, 1)}

-----------------------------------------------------------------------------
(* StoreFile, RestoreFile and GetMD5.                                      *)

NoVersion == << <<0, 0>> >>

\* The converters that ConverterGroup_Begin prepares.
StoreChain ==
  [nodes |-> <<FileInNew(First(Content, At("read"))), IF world.zip THEN ZipNew ELSE DummyNew>>,
   tee   |-> Md5New]
RestoreChain ==
  [nodes |-> <<IF world.zip THEN UnzipNew ELSE DummyNew, FileOutNew>>,
   tee   |-> Md5New]

Init ==
  /\ world \in Worlds
  /\ op = "store" /\ phase = "work"
  /\ chain = StoreChain
  /\ ineof = FALSE /\ outeof = FALSE
  /\ file = <<>> /\ sent = 0
  /\ version = NoVersion
  /\ result = [store |-> "none", restore |-> "none", check |-> NoVersion]

Return(rv) ==
  /\ op' = "done" /\ phase' = "done"
  /\ result' = [result EXCEPT ![op] = rv]
  /\ UNCHANGED <<chain, ineof, outeof, file, sent, version>>

\* The group works; an error ends the transfer.
StoreWork ==
  /\ op = "store" /\ phase = "work"
  /\ UNCHANGED world
  /\ \E w \in GroupWork(chain) :
       IF w.rv = "error" THEN Return("failed")
       ELSE /\ chain' = w.chain
            /\ outeof' = (w.rv = "eof")
            /\ phase' = "drain"
            /\ UNCHANGED <<op, ineof, file, sent, version, result>>

\* Takes from the last converter what it has and sends it with FileWrite.
StoreDrain ==
  /\ op = "store" /\ phase = "drain"
  /\ UNCHANGED world
  /\ LET has == HasData(chain.nodes[2])
         got == GetData(chain.nodes[2], Least({has, StoreBuffer}))
     IN  IF has = 0
         THEN /\ phase' = IF outeof THEN "sum" ELSE "work"
              /\ UNCHANGED <<op, chain, ineof, outeof, file, sent, version, result>>
         ELSE IF got.data = <<>> \/ Len(file) + Len(got.data) > At("room")
         THEN Return("failed")
         ELSE /\ chain' = [chain EXCEPT !.nodes[2] = got.node]
              /\ file' = file \o got.data
              /\ UNCHANGED <<op, phase, ineof, outeof, sent, version, result>>

\* What the server keeps may be damaged.
Damaged(cells) ==
  CASE world.fault = "cut" -> First(cells, world.at)
    [] world.fault = "changed" -> [i \in DOMAIN cells |-> IF i = world.at THEN <<0>>
                                                          ELSE cells[i]]
    [] world.fault \notin {"cut", "changed"} -> cells

\* The digest goes into the version, FileCloseOut, and later the file is
\* restored.
StoreEnd ==
  /\ op = "store" /\ phase = "sum"
  /\ version' = IF HasData(chain.tee) > 0 THEN chain.tee.data ELSE version
  /\ file' = Damaged(file)
  /\ op' = "restore"
  /\ result' = [result EXCEPT !.store = "ok", !.restore = IF world.fault = "open"
                                                         THEN "failed" ELSE @]
  /\ phase' = IF world.fault = "open" THEN "done" ELSE "feed"
  /\ chain' = RestoreChain /\ ineof' = FALSE /\ outeof' = FALSE /\ sent' = 0
  /\ UNCHANGED world

\* Reads from the server what the first converter needs.
RestoreFeed ==
  /\ op = "restore" /\ phase = "feed"
  /\ UNCHANGED world
  /\ LET need == GroupNeedsData(chain, 1)
         data == First(Behind(file, sent), Least({need, RestoreBuffer}))
         set  == GroupSetData(chain, 1, data)
     IN  IF ineof \/ need = 0
         THEN phase' = "work" /\ UNCHANGED <<op, chain, ineof, outeof, file, sent, version,
                                             result>>
         ELSE IF sent + Len(data) > At("answers") \/ set.taken = Failed THEN Return("failed")
         ELSE /\ ineof' = (data = <<>>)
              /\ sent' = sent + Len(data)
              /\ chain' = set.chain
              /\ phase' = "work"
              /\ UNCHANGED <<op, outeof, file, version, result>>

RestoreWork ==
  /\ op = "restore" /\ phase = "work"
  /\ UNCHANGED world
  /\ \E w \in GroupWork(chain) :
       IF w.rv = "error" THEN Return("failed")
       ELSE /\ chain' = w.chain
            /\ outeof' = (w.rv = "eof")
            /\ phase' = IF outeof' THEN "sum" ELSE "feed"
            /\ UNCHANGED <<op, ineof, file, sent, version, result>>

\* Mutant of Verified: only the size is compared.
VerifiedSize(c) == c.nodes[2].received = world.size

\* The size and the digest are compared with those of the version.
Verified(c) ==
  /\ c.nodes[2].received = world.size
  /\ HasData(c.tee) > 0 /\ c.tee.data = version

\* The end of RestoreFile; what it wrote is then read by GetMD5.
RestoreEnd ==
  /\ op = "restore" /\ phase = "sum"
  /\ UNCHANGED world
  /\ IF ~Verified(chain) THEN Return("failed")
     ELSE /\ result' = [result EXCEPT !.restore = "ok"]
          /\ op' = "check" /\ phase' = "work"
          /\ chain' = [chain EXCEPT !.tee = [Md5New EXCEPT !.held = chain.nodes[2].data]]
          /\ ineof' = FALSE /\ outeof' = FALSE
          /\ UNCHANGED <<file, sent, version>>

\* One round of GetMD5: it reads as much as the digest needs, and takes the
\* digest at the end.  (held is the rest of the file.)
CheckWork ==
  /\ op = "check" /\ phase = "work"
  /\ LET n    == chain.tee
         size == Least({NeedsData(n), RestoreBuffer})
         read == [SetData(n, First(n.held, size)).node EXCEPT !.held = Behind(n.held, size)]
         fed  == IF ~ineof /\ NeedsData(n) > 0 THEN read ELSE n
         got  == GetData(fed, HasData(fed))
     IN  /\ ineof' = (ineof \/ n.held = <<>>)
         /\ chain' = [chain EXCEPT !.tee = got.node]
         /\ IF fed.eof
            THEN /\ op' = "done" /\ phase' = "done"
                 /\ result' = [result EXCEPT !.check = fed.data]
            ELSE UNCHANGED <<op, phase, result>>
  /\ UNCHANGED <<world, outeof, file, sent, version>>

Next == StoreWork \/ StoreDrain \/ StoreEnd \/ RestoreFeed \/ RestoreWork \/ RestoreEnd
        \/ CheckWork
Spec == Init /\ [][Next]_vars /\ WF_vars(Next)

-----------------------------------------------------------------------------
(* Properties.                                                             *)

\* Types; a position in a ring buffer is inside of it, and the free room
\* never reaches over the end of the buffer or over data not taken.
RingOK(n) ==
  /\ n.next \in 0..BufferSize[n.kind] - 1
  /\ n.zpos + n.room \in {BufferSize[n.kind], n.next}
  /\ Len(n.input) <= InSize[n.kind]
TypeOK ==
  /\ world \in Worlds
  /\ op \in {"store", "restore", "check", "done"}
  /\ phase \in {"work", "drain", "sum", "feed", "done"}
  /\ \A i \in 1..2 :
       LET n == chain.nodes[i]
       IN  /\ n.kind \in {"zip", "unzip"} => RingOK(n)
           /\ n.kind \in {"filein", "dummy"} => /\ n.next <= Len(n.data)
                                                /\ Len(n.data) <= BufferSize[n.kind]
  /\ ineof \in BOOLEAN /\ outeof \in BOOLEAN
  /\ sent \in 0..Len(file)

\* The data in a ring buffer, from the read to the write position.
Ring(n) == IF Wrapped(n)
           THEN Behind(n.data, n.next) \o First(n.data, n.zpos)
           ELSE SubSeq(n.data, n.next + 1, n.zpos)

\* The bytes a converter has taken and not given on; what FileOut wrote.
InNode(n) ==
  FlattenSeq(CASE n.kind = "filein" -> Behind(n.data, n.next) \o n.held
               [] n.kind = "dummy"  -> Behind(n.data, n.next)
               [] n.kind \in {"zip", "unzip"} -> Ring(n) \o <<n.held>> \o n.input
               [] n.kind = "fileout" -> n.data)
InChain == InNode(chain.nodes[2]) \o InNode(chain.nodes[1])

\* At every moment of a transfer the bytes that arrived, those in the
\* converters and those still to be read are the file, in order: full
\* buffers, the ends of the ring buffers and converters that need less than
\* others give lose, repeat and reorder nothing, and the converters are empty
\* when the digest is taken.  And the side branch has digested what the
\* converter it hangs on was given: what a restore wrote to the file, what a
\* store compresses.
NothingIsLost ==
  /\ op = "store" => FlattenSeq(file) \o InChain = FlattenSeq(First(Content, At("read")))
  /\ op = "store" /\ phase = "sum" => InChain = <<>>
  /\ op = "restore" /\ phase # "done" =>
       InChain \o FlattenSeq(Behind(file, sent)) = FlattenSeq(file)
  /\ op = "store" =>
       FlattenSeq(chain.tee.data) = FlattenSeq(file) \o InNode(chain.nodes[2])
  /\ op = "restore" => chain.tee.data = chain.nodes[2].data

\* RestoreFile returns without an error only when it wrote the whole file as
\* it was, whatever happened to the data on the way; and the digest that
\* later jobs take of the file is that of the content.
RestoreIsWhole ==
  result.restore = "ok" =>
    /\ chain.nodes[2].data = Content
    /\ result.check \in {NoVersion, Content}

\* Where nothing goes wrong a file of any size is stored and restored: no
\* converter runs into an error of its own.
FaultlessSucceeds ==
  phase = "done" /\ world.fault = "none" =>
    result = [store |-> "ok", restore |-> "ok", check |-> Content]

\* Every transfer ends: the loops never wait for data that nobody gives, and
\* the end of the file reaches the last converter and the digest.
TransferEnds == <>(phase = "done")

=============================================================================

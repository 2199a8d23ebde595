-------------------------- MODULE BackupJobProofs ---------------------------
(***************************************************************************)
(* Proofs about BackupJob, for trees, repositories and settings of any     *)
(* size: types, errors that are told, a past that stays, a second store    *)
(* that is quiet, a restore that is exact.                                 *)
(*                                                                         *)
(* First the tree of directories, what a step may do to the local tree     *)
(* (Altered) and to the repository (NewVersion, OtherVersion), and the     *)
(* types.  Then one invariant after the other, with a Hold lemma each.     *)
(***************************************************************************)
EXTENDS BackupJob, NumberFacts, TLAPS

-----------------------------------------------------------------------------
(* The tree of directories.                                                *)

LEMMA Parents ==
  ASSUME NEW n \in Nodes
  PROVE  /\ Parent[n] \in Nodes \cup {Root}
         /\ Parent[n] # Root => Parent[n] \in Nodes /\ IsDir(Parent[n])
         /\ Root \notin Nodes
         /\ Kind[n] \in {"file", "dir", "link"}
BY TreeAssumption DEF IsDir

\* Above[n] is a set of directories, closed under Parent ...
LEMMA AboveClosed ==
  ASSUME NEW n \in Nodes
  PROVE  /\ Above[n] \subseteq Nodes
         /\ Parent[n] # Root => Parent[n] \in Above[n]
         /\ \A m \in Above[n] : Parent[m] # Root => Parent[m] \in Above[n]
<1>1. Parent \in [Nodes -> Nodes \cup {Root}]
  BY TreeAssumption
<1> QED
  BY <1>1 DEF Above

\* ... and the least one.
LEMMA AboveLeast ==
  ASSUME NEW n \in Nodes, NEW S \in SUBSET Nodes,
         \A m \in S \cup {n} : Parent[m] \in S \cup {Root}
  PROVE  Above[n] \subseteq S
BY DEF Above

LEMMA AboveDirs ==
  ASSUME NEW n \in Nodes
  PROVE  \A m \in Above[n] : IsDir(m)
<1> DEFINE S == {m \in Nodes : IsDir(m)}
<1>1. \A m \in S \cup {n} : Parent[m] \in S \cup {Root}
  BY Parents
<1>2. S \in SUBSET Nodes
  OBVIOUS
<1>3. Above[n] \subseteq S
  <2> HIDE DEF S
  <2> QED
    BY <1>1, <1>2, AboveLeast
<1> QED
  BY <1>3

LEMMA AboveNothing ==
  ASSUME NEW n \in Nodes, Parent[n] = Root
  PROVE  Above[n] = {}
<1> DEFINE S == {}
<1>1. S \in SUBSET Nodes /\ \A m \in S \cup {n} : Parent[m] \in S \cup {Root}
  OBVIOUS
<1> HIDE DEF S
<1>2. Above[n] \subseteq S
  BY <1>1, AboveLeast
<1> QED
  BY <1>2 DEF S

LEMMA AboveTransitive ==
  ASSUME NEW n \in Nodes, NEW m \in Above[n]
  PROVE  Above[m] \subseteq Above[n]
<1>1. m \in Nodes /\ Above[n] \in SUBSET Nodes
  BY AboveClosed
<1>2. \A k \in Above[n] \cup {m} : Parent[k] \in Above[n] \cup {Root}
  BY AboveClosed
<1> QED
  BY <1>1, <1>2, AboveLeast

LEMMA AboveStep ==
  ASSUME NEW n \in Nodes, Parent[n] # Root
  PROVE  Above[n] = {Parent[n]} \cup Above[Parent[n]]
<1>1. Parent[n] \in Nodes /\ Parent[n] \in Above[n]
  BY Parents, AboveClosed
<1> DEFINE S == {Parent[n]} \cup Above[Parent[n]]
<1>2. S \in SUBSET Nodes
  BY <1>1, AboveClosed
<1>3. \A m \in S \cup {n} : Parent[m] \in S \cup {Root}
  BY <1>1, AboveClosed
<1>4. Above[n] \subseteq S
  BY <1>2, <1>3, AboveLeast
<1>5. Above[Parent[n]] \subseteq Above[n]
  BY <1>1, AboveTransitive
<1> QED
  BY <1>1, <1>4, <1>5

\* No node is above itself.
LEMMA AboveOthers ==
  ASSUME NEW n \in Nodes
  PROVE  n \notin Above[n]
<1> SUFFICES ASSUME n \in Above[n]
             PROVE  FALSE
  OBVIOUS
<1> DEFINE S == {m \in Above[n] : n \in Above[m]}
<1>1. S \in SUBSET Nodes /\ S # {}
  BY AboveClosed
<1>2. ASSUME NEW m \in S
      PROVE  Parent[m] \in S
  <2>1. m \in Nodes /\ n \in Above[m]
    BY AboveClosed
  <2>2. Parent[m] # Root
    BY <2>1, AboveNothing
  <2>3. Above[m] = {Parent[m]} \cup Above[Parent[m]] /\ Parent[m] \in Above[n]
    BY <2>1, <2>2, AboveStep, AboveClosed
  <2>4. n \in Above[Parent[m]]
    BY <2>1, <2>3
  <2> QED
    BY <2>3, <2>4
<1> QED
  BY <1>1, <1>2, TreeAssumption

\* The next directory on the way from d down to n.
LEMMA Toward ==
  ASSUME NEW n \in Nodes, Parent[n] # Root,
         NEW d \in {Root} \cup Above[n], d # Parent[n]
  PROVE  \E c \in Above[n] : Parent[c] = d
<1>1. CASE d = Root
  <2>1. Above[n] \in SUBSET Nodes /\ Above[n] # {}
    BY AboveClosed
  <2>2. PICK c \in Above[n] : Parent[c] \notin Above[n]
    BY <2>1, TreeAssumption
  <2> QED
    BY <1>1, <2>2, AboveClosed
<1>2. CASE d \in Above[n] /\ d # Root
  <2> SUFFICES ASSUME \A c \in Above[n] : Parent[c] # d
               PROVE  FALSE
    BY <1>2
  <2> DEFINE S == Above[n] \ {d}
  <2>1. S \in SUBSET Nodes
    BY AboveClosed
  <2>2. \A m \in S \cup {n} : Parent[m] \in S \cup {Root}
    BY AboveClosed
  <2> QED
    BY <1>2, <2>1, <2>2, AboveLeast
<1> QED
  BY <1>1, <1>2

\* On the way up from what is missing there is something missing in a directory that
\* is there.
LEMMA FirstMissing ==
  ASSUME NEW n \in Nodes, NEW H, n \notin H
  PROVE  \E m \in {n} \cup Above[n] : m \notin H /\ Parent[m] \in H \cup {Root}
<1> DEFINE S == ({n} \cup Above[n]) \ H
<1>1. S \in SUBSET Nodes /\ S # {}
  BY AboveClosed
<1>2. PICK m \in S : Parent[m] \notin S
  BY <1>1, TreeAssumption
<1>3. m \in {n} \cup Above[n] /\ m \in Nodes
  BY AboveClosed
<1>4. Parent[m] \in Above[n] \cup {Root}
  BY <1>3, AboveClosed
<1> QED
  BY <1>2, <1>3, <1>4

-----------------------------------------------------------------------------
(* The invariants.                                                         *)

IsTree(T) == DOMAIN T \subseteq Nodes /\ T \in [DOMAIN T -> Node]
Transfer == [node: Nodes, entry: Version, item: Item]
Late == [node: Nodes, entry: Version]

Storing(n) == job.kind = "store" /\ sending.node = n

\* What has a type.
Flags ==
  /\ setting \in Settings
  /\ session \in {"closed", "half", "open"}
  /\ job \in [kind: {"none", "store", "restore", "diff"}, when: 0..MaxClock]
  /\ pc \in {"idle", "enter", "scan", "work", "final"}
  /\ bad \in BOOLEAN
  /\ result \in {"none", "ok", "error", "skipped", "crashed"}
  /\ clock \in 1..MaxClock /\ jobs \in 0..setting.budget.jobs
  /\ edits \in 0..setting.budget.edits /\ faults \in 0..setting.budget.faults

Trees ==
  trees = [home |-> home, away |-> trees.away] /\ IsTree(home) /\ IsTree(trees.away)

Repo ==
  /\ repo \in [Nodes -> Seq(Version)]
  /\ DOMAIN pending \subseteq Nodes /\ pending = [n \in DOMAIN pending |-> pending[n]]
  /\ \A n \in DOMAIN pending : pending[n] \in Bytes /\ repo[n] # <<>>
  /\ sending # NoFile /\ job.kind = "store" => repo[sending.node] # <<>>

Queues ==
  /\ dirs \in Seq(Nodes \cup {Root}) /\ here \in Nodes \cup {Root}
  /\ todo \subseteq Item
  /\ sending = NoFile \/ sending \in Transfer
  /\ later \in Seq(Late)

Marks ==
  /\ missing \subseteq Nodes /\ dirty \subseteq Nodes \cup {Root} /\ hidden \subseteq Nodes
  /\ broken \subseteq Nodes /\ failed \subseteq Nodes /\ untold \subseteq Nodes
  /\ asOf = [w \in 0..MaxClock |-> asOf[w]]
  /\ \A w \in 0..MaxClock : asOf[w].sure \subseteq Nodes

\* Outside of a directory nothing is under way.
Between == pc # "work" => todo = {} /\ sending = NoFile /\ pending = Empty

\* Each job has its own kinds of items, and what it fetches is there.
Ops ==
  \A i \in todo :
    /\ i.op \in IF job.kind = "restore" THEN {"fetch", "create", "modify"}
                                        ELSE {"set", "delete", "store"}
    /\ i.op = "fetch" => Seen(i.node, job.when) # {}

Types == Flags /\ Trees /\ Repo /\ Queues /\ Marks /\ Between /\ Ops

\* Which lists a job has.
Lists ==
  /\ pc # "idle" => result = "none" /\ job.kind # "none"
  /\ pc = "idle" \/ job.kind # "restore" => later = <<>>
  /\ job.kind # "store" => pending = Empty
  /\ job.kind = "diff" => sending = NoFile
  /\ job.kind = "store" => job.when = 0
  /\ \A i \in todo :
       /\ Parent[i.node] = here
       /\ i.op \in {"store", "fetch"} => IsFile(i.node)
       /\ i.op = "create" => ~IsFile(i.node)
       /\ i.node \notin DOMAIN pending
  /\ \A i, j \in todo : i.node = j.node => i = j
  /\ sending # NoFile => /\ sending.item \in todo
                         /\ sending.item.node = sending.node
                         /\ sending.item.op = IF job.kind = "restore" THEN "fetch" ELSE "store"

Errors ==
  ~setting.ignoreErrors =>
    /\ pc \in {"enter", "scan", "final"} => failed = {}
    /\ pc = "work" /\ ~bad => failed = {}
    /\ result = "ok" => failed = {}

\* Versions have the group of the owner, and so has the tree where nothing else has.
OwnLate == {x \in Late : x.entry.group = Owner}
Groups ==
  /\ \A n \in Nodes : \A k \in DOMAIN repo[n] : repo[n][k].group = Owner
  /\ job.kind = "restore" =>
       /\ \A i \in todo : i.entry.group = Owner
       /\ sending # NoFile => sending.entry.group = Owner
       /\ later \in Seq(OwnLate)
  /\ setting.group = Owner => \A n \in DOMAIN home : home[n].group = Owner

\* Nothing is later than now.
Bounds ==
  /\ \A n \in Nodes : \A k \in DOMAIN repo[n] : repo[n][k].btime <= clock
  /\ \A n \in DOMAIN home : home[n].ctime <= clock
  /\ \A i \in todo : i.op \in {"set", "store"} =>
       /\ i.entry.ctime <= clock
       /\ i.node \in DOMAIN home => i.entry.ctime <= home[i.node].ctime

\* The digest of the last version, once the directory is closed.
Digest(n) == IF n \in DOMAIN pending THEN pending[n] ELSE LastOf(n).digest
Stored(n) == /\ IsFile(n) /\ n \notin broken /\ ~Storing(n)
             /\ repo[n] # <<>> /\ LastOf(n).status = "used"

\* The last version of a file is whole ...
WholeAt(n) == Stored(n) => /\ Digest(n) = LastOf(n).bytes
                           /\ LastOf(n).zipped = LastOf(n).stream

\* ... and has what the file has if both are of the same time; ...
TimelyAt(n) ==
  (Stored(n) /\ n \notin hidden /\ n \in DOMAIN home /\ LastOf(n).ctime = home[n].ctime)
    => home[n].content = Digest(n)

\* ... and so has the entry that is to become the next version without a transfer.
Proper(n, e) ==
  /\ repo[n] # <<>> /\ LastOf(n).status = "used" /\ e.digest = LastOf(n).digest
  /\ (n \in DOMAIN home /\ n \notin hidden /\ e.ctime = home[n].ctime)
       => home[n].content = e.digest
Entered ==
  job.kind = "store" =>
    \A i \in todo : i.op = "set" /\ IsFile(i.node) => Proper(i.node, i.entry)

\* The version that is being transferred is the last one.
Sent == job.kind = "store" /\ sending # NoFile => LastOf(sending.node) = sending.entry

Data == Entered /\ Sent /\ \A n \in Nodes : WholeAt(n) /\ TimelyAt(n)

\* The past that is certain lies before what a store is writing.
Past ==
  (pc # "idle" /\ job.kind = "store") =>
    \A w \in 0..MaxClock : asOf[w].sure # {} =>
      /\ w # 0 /\ w <= clock
      /\ sending # NoFile => w <= LastOf(sending.node).btime
      /\ \A n \in DOMAIN pending : w <= LastOf(n).btime

\* Where a job goes.
Listing == {dirs[k] : k \in DOMAIN dirs}
Walks(d) == d = Root \/ (d \in Nodes /\ ({Root} \cup Above[d]) \cap setting.excludes = {})
Walk ==
  /\ \A d \in Listing : Walks(d)
  /\ pc \in {"scan", "work"} => Walks(here) /\ here \notin setting.excludes
  /\ Root \in Listing => dirs = <<Root>> /\ pc = "enter"
  /\ ~setting.recursive => /\ pc = "enter" => dirs = <<Root>>
                           /\ pc \in {"scan", "work"} => here = Root
  /\ pc = "final" /\ setting.recursive => dirs = <<>>

\* What a job looks at, as long as the directories above it are there.
Visited(n) == /\ n \notin setting.ignores /\ ({Root} \cup Above[n]) \cap setting.excludes = {}
              /\ setting.recursive \/ Parent[n] = Root
Reached(n) == Visited(n) /\ Parent[n] \in DOMAIN home \cup {Root}

\* v could be the version of what n is now.
Fits(n, v) ==
  /\ v.status = "used" /\ v.mode = home[n].mode
  /\ ~IsLink(n) => v.mtime = home[n].mtime /\ v.ctime = home[n].ctime
  /\ v.target = IF IsLink(n) THEN home[n].content ELSE Nothing
  /\ IsFile(n) => v.size = SizeOf(home[n].content)
Matched(n) ==
  IF n \in DOMAIN home THEN repo[n] # <<>> /\ Fits(n, LastOf(n))
                       ELSE repo[n] # <<>> => LastOf(n).status = "deleted"

\* A store that nothing disturbs works off what will fit, ...
Undisturbed == pc # "idle" /\ job.kind = "store" /\ dirty = {}
Suits(i) == IF i.node \in DOMAIN home THEN i.op \in {"set", "store"} /\ Fits(i.node, i.entry)
                                      ELSE i.op = "delete"
Suit == Undisturbed => /\ \A i \in todo : Suits(i)
                       /\ sending # NoFile => Matched(sending.node)

\* ... and leaves no node behind.
ToCome(n) == \/ \E d \in Listing : d \in {Root} \cup Above[n]
             \/ pc = "scan" /\ here \in {Root} \cup Above[n]
InWork(n) == \E i \in todo : i.node = n
Progress ==
  Undisturbed /\ failed = {} =>
    \A n \in Nodes : Reached(n) => ToCome(n) \/ InWork(n) \/ Matched(n)

\* What is settled stays so.
Quiet ==
  (settled /\ ~setting.force /\ setting.group = Owner) =>
    /\ \A n \in Nodes : Reached(n) => Matched(n)
    /\ job.kind # "restore"
    /\ job.when = 0 => todo = {}

-----------------------------------------------------------------------------
(* What the operations on a tree do.                                       *)

LEMMA NodeFields ==
  ASSUME NEW v \in Node
  PROVE  /\ v = [mode |-> v.mode, group |-> v.group, mtime |-> v.mtime,
                 ctime |-> v.ctime, content |-> v.content]
         /\ v.mode \in Modes /\ v.group \in {Owner, "staff"}
         /\ v.mtime \in 0..MaxClock /\ v.ctime \in 0..MaxClock /\ v.content \in Bytes
BY DEF Node

\* A tree that has the nodes D and is like T but for S.
Elsewhere(T, U, D, S) ==
  /\ IsTree(U) /\ DOMAIN U = D
  /\ \A x \in D \ S : x \in DOMAIN T /\ U[x] = T[x]

\* Two fields of a node, then all that a restore changes.
LEMMA NodeTimes ==
  ASSUME NEW r \in Node, NEW t \in 0..MaxClock, NEW c \in 0..MaxClock
  PROVE  /\ [[r EXCEPT !.mtime = t] EXCEPT !.ctime = c] \in Node
         /\ [[r EXCEPT !.mtime = t] EXCEPT !.ctime = c]
              = [mode |-> r.mode, group |-> r.group, mtime |-> t, ctime |-> c,
                 content |-> r.content]
<1>1. PICK q \in Node : q = [r EXCEPT !.mtime = t]
  BY DEF Node
<1>2. /\ q.mode = r.mode /\ q.group = r.group /\ q.mtime = t
      /\ q.ctime = r.ctime /\ q.content = r.content
  BY <1>1 DEF Node
<1>3. /\ [q EXCEPT !.ctime = c] \in Node
      /\ [q EXCEPT !.ctime = c] = [mode |-> q.mode, group |-> q.group, mtime |-> q.mtime,
                                   ctime |-> c, content |-> q.content]
  BY DEF Node
<1> QED
  BY <1>1, <1>2, <1>3

WithAttributes(r, g, m, t, c) ==
  [[[[r EXCEPT !.group = g] EXCEPT !.mode = m] EXCEPT !.mtime = t] EXCEPT !.ctime = c]

LEMMA NodeAttributes ==
  ASSUME NEW r \in Node, NEW g \in {Owner, "staff"}, NEW m \in Modes,
         NEW t \in 0..MaxClock, NEW c \in 0..MaxClock
  PROVE  WithAttributes(r, g, m, t, c)
           = [mode |-> m, group |-> g, mtime |-> t, ctime |-> c, content |-> r.content]
<1>1. PICK p \in Node : p = [r EXCEPT !.group = g]
  BY DEF Node
<1>2. p.group = g /\ p.content = r.content
  BY <1>1 DEF Node
<1>3. PICK q \in Node : q = [p EXCEPT !.mode = m]
  BY DEF Node
<1>4. q.mode = m /\ q.group = p.group /\ q.content = p.content
  BY <1>3 DEF Node
<1>5. [[q EXCEPT !.mtime = t] EXCEPT !.ctime = c]
        = [mode |-> q.mode, group |-> q.group, mtime |-> t, ctime |-> c,
           content |-> q.content]
  BY NodeTimes
<1> QED
  BY <1>1, <1>2, <1>3, <1>4, <1>5 DEF WithAttributes

LEMMA StampedIs ==
  ASSUME NEW T, IsTree(T), NEW n, clock' \in 0..MaxClock
  PROVE  /\ Elsewhere(T, Stamped(T, n), DOMAIN T, {n})
         /\ n \in DOMAIN T =>
              Stamped(T, n)[n] = [mode |-> T[n].mode, group |-> T[n].group,
                                  mtime |-> clock', ctime |-> clock',
                                  content |-> T[n].content]
<1>1. CASE n \notin DOMAIN T
  BY <1>1 DEF Stamped, Elsewhere
<1>2. CASE n \in DOMAIN T
  <2> DEFINE U == Stamped(T, n)
             v == [mode |-> T[n].mode, group |-> T[n].group, mtime |-> clock',
                   ctime |-> clock', content |-> T[n].content]
  <2>1. T[n] \in Node /\ T \in [DOMAIN T -> Node] /\ DOMAIN T \subseteq Nodes
    BY <1>2 DEF IsTree
  <2>2. v \in Node
    BY <2>1 DEF Node
  <2>3. [[T[n] EXCEPT !.mtime = clock'] EXCEPT !.ctime = clock'] = v
    <3>1. PICK r \in Node : r = T[n]
      BY <2>1
    <3>2. [[r EXCEPT !.mtime = clock'] EXCEPT !.ctime = clock']
            = [mode |-> r.mode, group |-> r.group, mtime |-> clock', ctime |-> clock',
               content |-> r.content]
      BY NodeTimes
    <3> QED
      BY <3>1, <3>2
  <2>4. U = [T EXCEPT ![n] = v]
    BY <1>2, <2>1, <2>3 DEF Stamped
  <2> QED
    BY <1>2, <2>1, <2>2, <2>4 DEF IsTree, Elsewhere
<1> QED
  BY <1>1, <1>2

LEMMA PutIs ==
  ASSUME NEW T, IsTree(T), NEW n \in Nodes, NEW v \in Node
  PROVE  Elsewhere(T, Put(T, n, v), DOMAIN T \cup {n}, {n}) /\ Put(T, n, v)[n] = v
BY DEF IsTree, Put, Elsewhere

LEMMA WithoutIs ==
  ASSUME NEW T, IsTree(T), NEW S
  PROVE  Elsewhere(T, Without(T, S), DOMAIN T \ S, {})
BY DEF IsTree, Without, Elsewhere

\* What is put into a tree stamps the directory above it.
LEMMA PlacedIs ==
  ASSUME NEW T, IsTree(T), NEW n \in Nodes, NEW v \in Node, clock' \in 0..MaxClock
  PROVE  /\ Elsewhere(T, Placed(T, n, v), DOMAIN T \cup {n}, {n, Parent[n]})
         /\ Placed(T, n, v)[n] = v
         /\ Parent[n] \in DOMAIN T =>
              Placed(T, n, v)[Parent[n]] =
                [mode |-> T[Parent[n]].mode, group |-> T[Parent[n]].group,
                 mtime |-> clock', ctime |-> clock', content |-> T[Parent[n]].content]
<1> DEFINE p == Parent[n]
<1>1. p # n
  BY Parents, AboveClosed, AboveOthers
<1>2. PICK U : U = Put(T, n, v)
  OBVIOUS
<1>3. Elsewhere(T, U, DOMAIN T \cup {n}, {n}) /\ U[n] = v
  BY <1>2, PutIs
<1>4. IsTree(U) /\ DOMAIN U = DOMAIN T \cup {n} /\ \A x \in DOMAIN T : x # n => U[x] = T[x]
  BY <1>3 DEF Elsewhere
<1>5. PICK W : W = Stamped(U, p)
  OBVIOUS
<1>6. /\ Elsewhere(U, W, DOMAIN U, {p})
      /\ p \in DOMAIN U => W[p] = [mode |-> U[p].mode, group |-> U[p].group,
                                   mtime |-> clock', ctime |-> clock',
                                   content |-> U[p].content]
  BY <1>4, <1>5, StampedIs
<1>7. Placed(T, n, v) = W
  BY <1>2, <1>5 DEF Placed
<1>8. Elsewhere(T, W, DOMAIN T \cup {n}, {n, p})
  BY <1>4, <1>6 DEF Elsewhere
<1>9. W[n] = v
  BY <1>1, <1>3, <1>4, <1>6 DEF Elsewhere
<1> QED
  BY <1>1, <1>4, <1>6, <1>7, <1>8, <1>9

LEMMA TakenIs ==
  ASSUME NEW T, IsTree(T), NEW n \in Nodes, clock' \in 0..MaxClock
  PROVE  /\ Elsewhere(T, Taken(T, n), DOMAIN T \ {n}, {Parent[n]})
         /\ Parent[n] \in DOMAIN T =>
              Taken(T, n)[Parent[n]] =
                [mode |-> T[Parent[n]].mode, group |-> T[Parent[n]].group,
                 mtime |-> clock', ctime |-> clock', content |-> T[Parent[n]].content]
<1> DEFINE p == Parent[n]
<1>1. p # n
  BY Parents, AboveClosed, AboveOthers
<1>2. PICK U : U = Without(T, {n})
  OBVIOUS
<1>3. Elsewhere(T, U, DOMAIN T \ {n}, {})
  BY <1>2, WithoutIs
<1>4. IsTree(U) /\ DOMAIN U = DOMAIN T \ {n} /\ \A x \in DOMAIN U : U[x] = T[x]
  BY <1>3 DEF Elsewhere
<1>5. PICK W : W = Stamped(U, p)
  OBVIOUS
<1>6. /\ Elsewhere(U, W, DOMAIN U, {p})
      /\ p \in DOMAIN U => W[p] = [mode |-> U[p].mode, group |-> U[p].group,
                                   mtime |-> clock', ctime |-> clock',
                                   content |-> U[p].content]
  BY <1>4, <1>5, StampedIs
<1>7. Taken(T, n) = W
  BY <1>2, <1>5 DEF Taken
<1>8. Elsewhere(T, W, DOMAIN T \ {n}, {p})
  BY <1>4, <1>6 DEF Elsewhere
<1> QED
  BY <1>1, <1>4, <1>6, <1>7, <1>8

LEMMA NewIs ==
  ASSUME NEW m \in Modes, NEW c \in Bytes, clock' \in 0..MaxClock
  PROVE  /\ New(m, c) \in Node
         /\ New(m, c) = [mode |-> m, group |-> Owner, mtime |-> clock',
                         ctime |-> clock', content |-> c]
BY DEF New, Node, Owner

LEMMA PathCreateIs ==
  ASSUME NEW T, IsTree(T), NEW n \in Nodes, clock' \in 0..MaxClock
  PROVE  /\ Elsewhere(T, PathCreate(T, n), DOMAIN T \cup Above[n], Above[n] \ DOMAIN T)
         /\ \A x \in Above[n] \ DOMAIN T : PathCreate(T, n)[x] = New(DefaultMode, Nothing)
<1>1. Above[n] \subseteq Nodes
  BY AboveClosed
<1>2. PICK v : v = New(DefaultMode, Nothing)
  OBVIOUS
<1>3. v \in Node
  BY <1>2, NewIs, TreeAssumption DEF Bytes
<1>4. PathCreate(T, n) =
        [x \in DOMAIN T \cup Above[n] |-> IF x \in DOMAIN T THEN T[x] ELSE v]
  BY <1>2 DEF PathCreate
<1> QED
  BY <1>1, <1>2, <1>3, <1>4 DEF IsTree, Elsewhere

LEMMA ModifyIs ==
  ASSUME NEW T, IsTree(T), NEW n \in DOMAIN T, NEW v \in Version,
         setting.keep \subseteq {"owner", "rights", "times"}, clock' \in 0..MaxClock
  PROVE  LET U == ModifyDirEnt(T, n, v) IN
         /\ Elsewhere(T, U, DOMAIN T, {n})
         /\ U[n].ctime = clock' /\ U[n].content = T[n].content
         /\ U[n].group \in {T[n].group, v.group}
         /\ setting.keep = {} => /\ U[n].group = v.group
                                 /\ ~IsLink(n) => U[n].mode = v.mode /\ U[n].mtime = v.mtime
<1> DEFINE g == IF "owner" \in setting.keep THEN T[n].group ELSE v.group
           m == IF IsLink(n) \/ "rights" \in setting.keep THEN T[n].mode ELSE v.mode
           t == IF IsLink(n) \/ "times" \in setting.keep THEN T[n].mtime ELSE v.mtime
           w == [mode |-> m, group |-> g, mtime |-> t, ctime |-> clock',
                 content |-> T[n].content]
<1>1. T[n] \in Node /\ T \in [DOMAIN T -> Node] /\ DOMAIN T \subseteq Nodes
  BY DEF IsTree
<1>2. g \in {Owner, "staff"} /\ m \in Modes /\ t \in 0..MaxClock
  BY <1>1 DEF Node, Version
<1>3. w \in Node
  <2> HIDE DEF g, m, t
  <2> QED
    BY <1>1, <1>2 DEF Node
<1>4. ModifyDirEnt(T, n, v) = [T EXCEPT ![n] = w]
  <2>1. ModifyDirEnt(T, n, v) =
          [T EXCEPT ![n].group = g, ![n].mode = m, ![n].mtime = t, ![n].ctime = clock']
    BY <1>1 DEF ModifyDirEnt, Node
  <2> HIDE DEF g, m, t
  <2>2. [T EXCEPT ![n].group = g, ![n].mode = m, ![n].mtime = t, ![n].ctime = clock']
          = [T EXCEPT ![n] = w]
    <3>1. PICK r \in Node : r = T[n]
      BY <1>1
    <3>2. WithAttributes(r, g, m, t, clock')
            = [mode |-> m, group |-> g, mtime |-> t, ctime |-> clock', content |-> r.content]
      BY ONLY <1>2, clock' \in 0..MaxClock, NodeAttributes
    <3>3. [[[[r EXCEPT !.group = g] EXCEPT !.mode = m] EXCEPT !.mtime = t] EXCEPT !.ctime = clock']
            = w
      BY ONLY <3>1, <3>2 DEF WithAttributes
    <3> HIDE DEF w
    <3> QED
      BY ONLY <1>1, <3>1, <3>3, n \in DOMAIN T
  <2> QED
    BY <2>1, <2>2
<1> DEFINE U == [T EXCEPT ![n] = w]
<1>5. Elsewhere(T, U, DOMAIN T, {n})
  <2> HIDE DEF w
  <2> QED
    BY <1>1, <1>3 DEF IsTree, Elsewhere
<1>6. U[n] = w
  <2> HIDE DEF w
  <2> QED
    BY <1>1
<1>7. w.group = g /\ w.mode = m /\ w.mtime = t /\ w.ctime = clock' /\ w.content = T[n].content
  OBVIOUS
<1>8. g \in {T[n].group, v.group} /\ (setting.keep = {} => g = v.group)
  OBVIOUS
<1>9. setting.keep = {} /\ ~IsLink(n) => m = v.mode /\ t = v.mtime
  OBVIOUS
<1> HIDE DEF U, w, g, m, t
<1> QED
  BY <1>4, <1>5, <1>6, <1>7, <1>8, <1>9 DEF U

-----------------------------------------------------------------------------
(* Versions and items.                                                     *)

LEMMA Sizes ==
  ASSUME NEW c
  PROVE  SizeOf(c) \in Nat
BY TreeAssumption DEF SizeOf

LEMMA DupIs ==
  ASSUME NEW v \in Version
  PROVE  /\ VersionDup(v) \in Version /\ VersionDup(v).group = Owner
         /\ VersionDup(v).status = v.status /\ VersionDup(v).btime = v.btime
         /\ VersionDup(v).mode = v.mode /\ VersionDup(v).mtime = v.mtime
         /\ VersionDup(v).ctime = v.ctime /\ VersionDup(v).size = v.size
         /\ VersionDup(v).target = v.target /\ VersionDup(v).digest = v.digest
         /\ VersionDup(v).bytes = v.bytes /\ VersionDup(v).stream = v.stream
         /\ VersionDup(v).zipped = v.zipped
BY DEF VersionDup, Version, Owner

\* What a version has of the entry it is made of.
OfEntry(v, e) ==
  /\ v.mode = e.mode /\ v.mtime = e.mtime /\ v.ctime = e.ctime /\ v.size = e.size
  /\ v.target = e.target /\ v.digest = e.digest

Opened(n, e) == VersionDup([e EXCEPT !.btime = clock, !.zipped = Zips(n, e)])

LEMMA OpenedIs ==
  ASSUME NEW n, NEW e \in Version, clock \in 0..MaxClock
  PROVE  /\ Opened(n, e) \in Version /\ OfEntry(Opened(n, e), e)
         /\ Opened(n, e).group = Owner /\ Opened(n, e).btime = clock
         /\ Opened(n, e).status = e.status
<1>1. Zips(n, e) \in BOOLEAN
  BY DEF Zips
<1>2. PICK v \in Version : v = [e EXCEPT !.btime = clock, !.zipped = Zips(n, e)]
  BY <1>1 DEF Version
<1>3. /\ v.btime = clock /\ v.status = e.status /\ OfEntry(v, e)
  BY <1>2 DEF Version, OfEntry
<1> QED
  BY <1>2, <1>3, DupIs DEF Opened, OfEntry

LEMMA SetVersionIs ==
  ASSUME NEW n \in Nodes, repo[n] \in Seq(Version), NEW e \in Version,
         NEW status \in {"used", "deleted"}, clock \in 0..MaxClock
  PROVE  LET v == SetVersion(n, e, status) IN
         /\ v \in Version /\ OfEntry(v, e)
         /\ v.group = Owner /\ v.btime = clock /\ v.status = status
         /\ repo[n] # <<>> => v.bytes = LastOf(n).bytes /\ v.stream = LastOf(n).stream
                              /\ v.zipped = LastOf(n).zipped
<1>1. PICK w \in Version : w = [e EXCEPT !.status = status, !.btime = clock]
  BY DEF Version
<1>2. w.btime = clock /\ w.status = status /\ OfEntry(w, e)
  BY <1>1 DEF Version, OfEntry
<1>3. PICK d \in Version : d = VersionDup(w)
  BY DupIs
<1>4. d.btime = clock /\ d.status = status /\ OfEntry(d, e) /\ d.group = Owner
  BY <1>2, <1>3, DupIs DEF OfEntry
<1>5. CASE repo[n] = <<>>
  BY <1>1, <1>3, <1>4, <1>5 DEF SetVersion
<1>6. CASE repo[n] # <<>>
  <2>1. PICK l \in Version : l = LastOf(n)
    BY <1>6 DEF LastOf
  <2>2. SetVersion(n, e, status) =
          [d EXCEPT !.bytes = l.bytes, !.stream = l.stream, !.zipped = l.zipped]
    BY <1>1, <1>3, <1>6, <2>1 DEF SetVersion
  <2>3. PICK v \in Version :
          v = [d EXCEPT !.bytes = l.bytes, !.stream = l.stream, !.zipped = l.zipped]
    BY <2>1 DEF Version
  <2>4. /\ v.bytes = l.bytes /\ v.stream = l.stream /\ v.zipped = l.zipped
        /\ v.group = d.group /\ v.btime = d.btime /\ v.status = d.status /\ OfEntry(v, d)
    BY <2>3 DEF Version, OfEntry
  <2> QED
    BY <1>4, <2>1, <2>2, <2>3, <2>4 DEF OfEntry
<1> QED
  BY <1>5, <1>6

LEMMA EntryIs ==
  ASSUME IsTree(home), NEW n \in DOMAIN home
  PROVE  /\ File2Entry(n) \in Version
         /\ File2Entry(n).status = "used" /\ File2Entry(n).digest = Nothing
         /\ File2Entry(n).mode = home[n].mode /\ File2Entry(n).group = home[n].group
         /\ File2Entry(n).mtime = home[n].mtime /\ File2Entry(n).ctime = home[n].ctime
         /\ File2Entry(n).size = SizeOf(home[n].content)
         /\ File2Entry(n).target = IF IsLink(n) THEN home[n].content ELSE Nothing
<1>1. PICK h \in Node : h = home[n]
  BY DEF IsTree
<1>2. /\ h.mode \in Modes /\ h.group \in {Owner, "staff"} /\ h.mtime \in 0..MaxClock
      /\ h.ctime \in 0..MaxClock /\ h.content \in Bytes
  BY NodeFields
<1>3. SizeOf(h.content) \in Nat /\ MaxClock \in Nat
  BY Sizes, TreeAssumption
<1>4. PICK t \in Bytes : t = IF IsLink(n) THEN h.content ELSE Nothing
  BY <1>2 DEF Bytes
<1>5. File2Entry(n) =
        [status |-> "used", btime |-> 0, mode |-> h.mode, group |-> h.group,
         mtime |-> h.mtime, ctime |-> h.ctime, size |-> SizeOf(h.content),
         target |-> t, digest |-> Nothing, bytes |-> Nothing, stream |-> FALSE,
         zipped |-> FALSE]
  BY <1>1, <1>4 DEF File2Entry
<1>6. Nothing \in Bytes
  BY DEF Bytes
<1> QED
  BY <1>1, <1>2, <1>3, <1>4, <1>5, <1>6 DEF Version

LEMMA ComparedIs ==
  ASSUME IsTree(home), NEW n \in DOMAIN home, NEW r, NEW mode
  PROVE  LET l == File2Entry(n)
             c == Compared(n, l, r, mode)
         IN  /\ c \in Version /\ c.status = "used"
             /\ c.mode = l.mode /\ c.group = l.group /\ c.mtime = l.mtime
             /\ c.ctime = l.ctime /\ c.size = l.size /\ c.target = l.target
             /\ IsFile(n) /\ Changed(n, l, r, mode) => c.digest = home[n].content
<1>1. PICK l \in Version : l = File2Entry(n)
  BY EntryIs
<1>2. PICK x \in Bytes : x = home[n].content
  BY NodeFields DEF IsTree
<1>3. PICK v \in Version : v = [l EXCEPT !.digest = x]
  BY DEF Version
<1>4. /\ v.status = l.status /\ v.mode = l.mode /\ v.group = l.group /\ v.mtime = l.mtime
      /\ v.ctime = l.ctime /\ v.size = l.size /\ v.target = l.target /\ v.digest = x
  BY <1>3 DEF Version
<1>5. l.status = "used"
  BY <1>1, EntryIs
<1>6. Compared(n, l, r, mode) = IF IsFile(n) /\ Changed(n, l, r, mode) THEN v ELSE l
  BY <1>2, <1>3 DEF Compared
<1> HIDE DEF Compared
<1> QED
  BY <1>1, <1>2, <1>4, <1>5, <1>6

\* The version of a date is the last one before it.
LEMMA VersionAtIs ==
  ASSUME NEW n \in Nodes, repo[n] \in Seq(Version), NEW when, Seen(n, when) # {}
  PROVE  \E k \in Seen(n, when) : /\ \A j \in Seen(n, when) : j <= k
                                  /\ k \in 1..Len(repo[n])
                                  /\ VersionAt(n, when) = repo[n][k]
                                  /\ VersionAt(n, when) \in Version
<1> DEFINE S == Seen(n, when)
<1>1. S \subseteq 1..Len(repo[n]) /\ Len(repo[n]) \in Nat
  BY DEF Seen
<1>2. PICK m \in S : \A j \in S : j <= m
  <2>1. S \in SUBSET (0..Len(repo[n]))
    BY <1>1
  <2> QED
    BY <1>1, <2>1, GreatestNatural
<1>3. PICK k \in S : k = CHOOSE i \in S : \A j \in S : j <= i
  BY <1>2
<1>4. \A j \in S : j <= k
  BY <1>2, <1>3
<1>5. VersionAt(n, when) = repo[n][k]
  BY <1>3 DEF VersionAt
<1> QED
  BY <1>1, <1>4, <1>5

LEMMA SeenAll ==
  ASSUME NEW n \in Nodes, repo[n] \in Seq(Version), NEW when,
         when = 0 \/ \A k \in DOMAIN repo[n] : repo[n][k].btime < when
  PROVE  /\ Seen(n, when) = 1..Len(repo[n])
         /\ Seen(n, when) # {} <=> repo[n] # <<>>
         /\ repo[n] # <<>> => VersionAt(n, when) = LastOf(n)
<1>1. Seen(n, when) = 1..Len(repo[n]) /\ Len(repo[n]) \in Nat
  BY DEF Seen
<1>2. Seen(n, when) # {} <=> repo[n] # <<>>
  BY <1>1
<1>3. ASSUME repo[n] # <<>>
      PROVE  VersionAt(n, when) = LastOf(n)
  <2>1. PICK k \in Seen(n, when) : /\ \A j \in Seen(n, when) : j <= k
                                   /\ VersionAt(n, when) = repo[n][k]
    BY <1>2, <1>3, VersionAtIs
  <2>2. Len(repo[n]) \in Seen(n, when) /\ k \in 1..Len(repo[n])
    BY <1>1, <1>2, <1>3
  <2>3. k = Len(repo[n])
    BY <1>1, <2>1, <2>2
  <2> QED
    BY <2>1, <2>3 DEF LastOf
<1> QED
  BY <1>1, <1>2, <1>3

\* What a scan lists for a node of a backup.
Known(n) == Seen(n, job.when) # {}
News(n) ==
  /\ n \in DOMAIN home
  /\ \/ ~Known(n) \/ setting.force
     \/ /\ Known(n) /\ ~setting.force
        /\ \/ Changed(n, File2Entry(n), VersionAt(n, job.when), "diff")
           \/ ContentChanged(n, File2Entry(n), VersionAt(n, job.when), "diff")
ForBackup(n, i) ==
  /\ i.node = n
  /\ \/ /\ ~Known(n) \/ setting.force
        /\ i = Work(IF IsFile(n) THEN "store" ELSE "set", n, File2Entry(n))
     \/ /\ Known(n) /\ ~setting.force
        /\ i = Work(IF ContentChanged(n, File2Entry(n), VersionAt(n, job.when), "diff")
                    THEN "store" ELSE "set", n,
                    Compared(n, File2Entry(n), VersionAt(n, job.when), "diff"))

LEMMA ModifiedIs ==
  ASSUME NEW dir
  PROVE  /\ \A i \in Modified(dir, job.when) :
              i.node \in In(dir) /\ News(i.node) /\ ForBackup(i.node, i)
         /\ \A n \in In(dir) : News(n) =>
              \E i \in Modified(dir, job.when) : ForBackup(n, i)
<1> DEFINE Old(n) == Work(IF ContentChanged(n, File2Entry(n), VersionAt(n, job.when), "diff")
                          THEN "store" ELSE "set", n,
                          Compared(n, File2Entry(n), VersionAt(n, job.when), "diff"))
           Fresh(n) == Work(IF IsFile(n) THEN "store" ELSE "set", n, File2Entry(n))
           Diff(n) == \/ Changed(n, File2Entry(n), VersionAt(n, job.when), "diff")
                      \/ ContentChanged(n, File2Entry(n), VersionAt(n, job.when), "diff")
           local == In(dir) \cap DOMAIN home
           known == Entries(dir, job.when)
<1>1. Modified(dir, job.when) =
        {Fresh(n) : n \in {m \in local : m \notin known \/ setting.force}}
        \cup {Old(n) : n \in {m \in local \cap known : ~setting.force /\ Diff(m)}}
  BY Zenon DEF Modified
<1>2. \A n \in In(dir) : n \in known <=> Known(n)
  BY DEF Entries, Known
<1>3. \A n : Fresh(n).node = n /\ Old(n).node = n
  BY DEF Work
<1>4. \A n : News(n) <=> n \in DOMAIN home /\ (~Known(n) \/ setting.force \/ (Known(n) /\ ~setting.force /\ Diff(n)))
  BY DEF News
<1>5. \A n, i : ForBackup(n, i) <=>
        i.node = n /\ (\/ (~Known(n) \/ setting.force) /\ i = Fresh(n)
                       \/ Known(n) /\ ~setting.force /\ i = Old(n))
  BY DEF ForBackup
<1> HIDE DEF Old, Fresh, Diff, known
<1> QED
  BY <1>1, <1>2, <1>3, <1>4, <1>5

LEMMA DeletedIs ==
  ASSUME NEW dir
  PROVE  /\ \A i \in Deleted(dir, job.when) :
              /\ i.node \in In(dir) \ DOMAIN home /\ Used(i.node, job.when)
              /\ i = Work("delete", i.node, VersionAt(i.node, job.when))
         /\ \A n \in In(dir) \ DOMAIN home : Used(n, job.when) =>
              Work("delete", n, VersionAt(n, job.when)) \in Deleted(dir, job.when)
BY DEF Deleted, Entries, Used, Work

\* And for one of a restore.
WholeFile(n) == \/ n \notin DOMAIN home \/ setting.force
                \/ ContentChanged(n, File2Entry(n), VersionAt(n, job.when), "newer")
ForRestore(n, i) ==
  i = IF WholeFile(n) THEN Work(IF IsFile(n) THEN "fetch" ELSE "create", n, VersionAt(n, job.when))
                      ELSE Work("modify", n, VersionAt(n, job.when))

LEMMA DifferingIs ==
  ASSUME NEW dir
  PROVE  /\ \A i \in Differing(dir, job.when) :
              i.node \in In(dir) /\ Used(i.node, job.when) /\ ForRestore(i.node, i)
         /\ \A n \in In(dir) : Used(n, job.when) /\ WholeFile(n) =>
              \E i \in Differing(dir, job.when) : i.node = n /\ ForRestore(n, i)
<1> DEFINE Fetch(n) == Work(IF IsFile(n) THEN "fetch" ELSE "create", n, VersionAt(n, job.when))
           Modi(n) == Work("modify", n, VersionAt(n, job.when))
           Some(n) == Changed(n, File2Entry(n), VersionAt(n, job.when), "newer")
           remote == {n \in Entries(dir, job.when) : Used(n, job.when)}
<1>1. Differing(dir, job.when) =
        {Fetch(n) : n \in {m \in remote : WholeFile(m)}}
        \cup {Modi(n) : n \in {m \in remote : ~WholeFile(m) /\ Some(m)}}
  BY Zenon DEF Differing, WholeFile
<1>2. remote = {n \in In(dir) : Used(n, job.when)}
  BY DEF Entries, Used
<1>3. \A n : Fetch(n).node = n /\ Modi(n).node = n
  BY DEF Work
<1>4. \A n, i : ForRestore(n, i) <=> i = IF WholeFile(n) THEN Fetch(n) ELSE Modi(n)
  BY DEF ForRestore
<1> HIDE DEF Fetch, Modi, Some, remote
<1> QED
  BY <1>1, <1>2, <1>3, <1>4

\* Whatever is listed is an item, one for each node.
ForNode(n, i) ==
  /\ i.node = n
  /\ IF job.kind = "restore" THEN Used(n, job.when) /\ ForRestore(n, i)
     ELSE IF n \in DOMAIN home THEN News(n) /\ ForBackup(n, i)
     ELSE Used(n, job.when) /\ i = Work("delete", n, VersionAt(n, job.when))

LEMMA ListedIs ==
  ASSUME NEW dir, NEW i \in Listed(dir)
  PROVE  i.node \in In(dir) \ setting.ignores /\ ForNode(i.node, i)
<1>1. i.node \notin setting.ignores
  BY DEF Listed
<1>2. CASE job.kind = "restore"
  <2>1. i \in Differing(dir, job.when)
    BY <1>2 DEF Listed
  <2> QED
    BY <1>1, <1>2, <2>1, DifferingIs DEF ForNode
<1>3. CASE job.kind # "restore"
  <2>1. i \in Modified(dir, job.when) \/ i \in Deleted(dir, job.when)
    BY <1>3 DEF Listed
  <2>2. ASSUME i \in Modified(dir, job.when)
        PROVE  i.node \in In(dir) /\ ForNode(i.node, i)
    <3>1. i.node \in In(dir) /\ News(i.node) /\ ForBackup(i.node, i)
      BY <2>2, ModifiedIs
    <3>2. i.node \in DOMAIN home
      BY <3>1 DEF News
    <3> QED
      BY <1>3, <3>1, <3>2 DEF ForNode
  <2>3. ASSUME i \in Deleted(dir, job.when)
        PROVE  i.node \in In(dir) /\ ForNode(i.node, i)
    BY <1>3, <2>3, DeletedIs DEF ForNode
  <2> QED
    BY <1>1, <2>1, <2>2, <2>3
<1> QED
  BY <1>2, <1>3

LEMMA OneItem ==
  ASSUME NEW n, NEW i, NEW j, ForNode(n, i), ForNode(n, j)
  PROVE  i = j
BY DEF ForNode, ForRestore, ForBackup

\* What can be said of every item, when the tree and the versions have their types.
LEMMA ItemIs ==
  ASSUME IsTree(home), repo \in [Nodes -> Seq(Version)],
         NEW n \in Nodes, NEW i, ForNode(n, i)
  PROVE  /\ i \in Item
         /\ i.op \in IF job.kind = "restore" THEN {"fetch", "create", "modify"}
                                              ELSE {"set", "delete", "store"}
         /\ i.op \in {"store", "fetch"} => IsFile(n)
         /\ i.op = "create" => ~IsFile(n)
<1>1. repo[n] \in Seq(Version)
  OBVIOUS
<1>2. ASSUME Seen(n, job.when) # {} PROVE VersionAt(n, job.when) \in Version
  BY <1>1, <1>2, VersionAtIs
<1>3. Used(n, job.when) => Seen(n, job.when) # {}
  BY DEF Used
<1>4. CASE job.kind = "restore"
  <2>1. PICK v \in Version : v = VersionAt(n, job.when)
    BY <1>2, <1>3, <1>4 DEF ForNode
  <2>2. i = IF WholeFile(n) THEN Work(IF IsFile(n) THEN "fetch" ELSE "create", n, v)
                            ELSE Work("modify", n, v)
    BY <1>4, <2>1 DEF ForNode, ForRestore
  <2> QED
    BY <1>4, <2>2 DEF Work, Item
<1>5. CASE job.kind # "restore" /\ n \notin DOMAIN home
  <2>1. PICK v \in Version : v = VersionAt(n, job.when)
    BY <1>2, <1>3, <1>5 DEF ForNode
  <2>2. i = Work("delete", n, v)
    BY <1>5, <2>1 DEF ForNode
  <2> QED
    BY <1>5, <2>2 DEF Work, Item
<1>6. CASE job.kind # "restore" /\ n \in DOMAIN home
  <2>1. ForBackup(n, i)
    BY <1>6 DEF ForNode
  <2>2. File2Entry(n) \in Version
    BY <1>6, EntryIs
  <2>3. Compared(n, File2Entry(n), VersionAt(n, job.when), "diff") \in Version
    BY <1>6, ComparedIs
  <2>4. ContentChanged(n, File2Entry(n), VersionAt(n, job.when), "diff") => IsFile(n)
    BY DEF ContentChanged
  <2>5. PICK e \in Version, op \in {"set", "store"} : i = Work(op, n, e) /\ (op = "store" => IsFile(n))
    <3>1. CASE ~Known(n) \/ setting.force
      BY <2>1, <2>2, <3>1 DEF ForBackup
    <3>2. CASE Known(n) /\ ~setting.force
      BY <2>1, <2>3, <2>4, <3>2 DEF ForBackup
    <3> QED
      BY <3>1, <3>2
  <2> QED
    BY <1>6, <2>5 DEF Work, Item
<1> QED
  BY <1>4, <1>5, <1>6


-----------------------------------------------------------------------------
(* What becomes of the versions of a node.                                 *)

\* One is added ...
Appended(s, t, v) ==
  /\ t \in Seq(Version) /\ Len(t) = Len(s) + 1 /\ t # <<>> /\ t[Len(t)] = v
  /\ \A k \in 1..Len(s) : t[k] = s[k]

\* ... or the last one becomes another.
Relast(s, t, v) ==
  /\ t \in Seq(Version) /\ Len(t) = Len(s) /\ t # <<>> /\ t[Len(t)] = v
  /\ \A k \in 1..Len(s) : k # Len(s) => t[k] = s[k]

LEMMA AppendedIs ==
  ASSUME NEW s \in Seq(Version), NEW v \in Version
  PROVE  Appended(s, Append(s, v), v)
<1>1. Len(s) \in Nat
  BY LenProperties
<1>2. /\ Append(s, v) \in Seq(Version) /\ Append(s, v) # <<>>
      /\ Len(Append(s, v)) = Len(s) + 1
      /\ \A k \in 1..Len(s) : Append(s, v)[k] = s[k]
      /\ Append(s, v)[Len(s) + 1] = v
  BY AppendProperties
<1> QED
  BY <1>2 DEF Appended

LEMMA RelastIs ==
  ASSUME NEW s \in Seq(Version), s # <<>>, NEW v \in Version
  PROVE  Relast(s, [s EXCEPT ![Len(s)] = v], v)
<1>1. Len(s) \in Nat \ {0} /\ Len(s) \in 1..Len(s)
  BY LenProperties, EmptySeq
<1>2. /\ [s EXCEPT ![Len(s)] = v] \in Seq(Version)
      /\ Len([s EXCEPT ![Len(s)] = v]) = Len(s)
      /\ \A k \in 1..Len(s) : [s EXCEPT ![Len(s)] = v][k] = IF k = Len(s) THEN v ELSE s[k]
  BY <1>1, ExceptSeq
<1> DEFINE t == [s EXCEPT ![Len(s)] = v]
<1> HIDE DEF t
<1>3. t # <<>>
  <2>1. Len(t) # 0
    BY <1>1, <1>2 DEF t
  <2> QED
    BY <2>1
<1>4. /\ t \in Seq(Version) /\ Len(t) = Len(s) /\ t[Len(s)] = v
      /\ \A k \in 1..Len(s) : k # Len(s) => t[k] = s[k]
  BY <1>1, <1>2 DEF t
<1>5. Relast(s, t, v)
  BY <1>3, <1>4 DEF Relast
<1> QED
  BY <1>5 DEF t

LEMMA AddedIs ==
  ASSUME repo \in [Nodes -> Seq(Version)], NEW n \in Nodes, NEW v \in Version
  PROVE  /\ WithVersion(n, v) \in [Nodes -> Seq(Version)]
         /\ \A m \in Nodes \ {n} : WithVersion(n, v)[m] = repo[m]
         /\ Appended(repo[n], WithVersion(n, v)[n], v)
<1>1. PICK t : t = Append(repo[n], v)
  OBVIOUS
<1>2. repo[n] \in Seq(Version)
  OBVIOUS
<1>3. Appended(repo[n], t, v)
  BY <1>1, <1>2, AppendedIs
<1>4. WithVersion(n, v) = [repo EXCEPT ![n] = t]
  BY <1>1 DEF WithVersion
<1>5. t \in Seq(Version)
  BY <1>3 DEF Appended
<1> QED
  BY <1>3, <1>4, <1>5

\* What a transfer changes of a version.
Fills(v, l, bytes, z) ==
  /\ v.bytes = bytes /\ v.stream = z
  /\ v.status = l.status /\ v.btime = l.btime /\ v.group = l.group /\ v.zipped = l.zipped
  /\ OfEntry(v, l)

LEMMA FilledIs ==
  ASSUME repo \in [Nodes -> Seq(Version)], NEW n \in Nodes, repo[n] # <<>>,
         NEW bytes \in Bytes, sending \in Transfer
  PROVE  /\ Filled(n, bytes) \in [Nodes -> Seq(Version)]
         /\ \A m \in Nodes \ {n} : Filled(n, bytes)[m] = repo[m]
         /\ \E v \in Version : /\ Relast(repo[n], Filled(n, bytes)[n], v)
                               /\ Fills(v, LastOf(n), bytes, sending.entry.zipped)
<1>1. PICK s \in Seq(Version) : s = repo[n] /\ s # <<>>
  OBVIOUS
<1>2. PICK j \in 1..Len(s) : j = Len(s)
  BY <1>1, LenProperties, EmptySeq
<1>3. PICK l \in Version : l = s[j]
  BY <1>2, ElementOfSeq
<1>4. PICK z \in BOOLEAN : z = sending.entry.zipped
  BY DEF Transfer, Version
<1>5. PICK w \in Version : w = [l EXCEPT !.bytes = bytes]
  BY DEF Version
<1>6. PICK v \in Version : v = [w EXCEPT !.stream = z]
  BY DEF Version
<1>7. Fills(v, l, bytes, z)
  BY <1>5, <1>6 DEF Version, OfEntry, Fills
<1>8. PICK q \in Seq(Version) : q = [s EXCEPT ![j] = w] /\ q[j] = w
  <2>1. [s EXCEPT ![j] = w] \in Seq(Version) /\ [s EXCEPT ![j] = w][j] = w
    BY ExceptSeq
  <2> QED
    BY <2>1
<1>9. PICK t : t = [s EXCEPT ![j] = v]
  OBVIOUS
<1>10. Relast(s, t, v)
  BY <1>1, <1>2, <1>9, RelastIs
<1>11. [s EXCEPT ![j] = v] = [q EXCEPT ![j] = v]
  BY <1>8
<1>12. PICK R \in [Nodes -> Seq(Version)] : R = [repo EXCEPT ![n] = q]
  OBVIOUS
<1>13. R = [repo EXCEPT ![n][j].bytes = bytes]
  BY <1>1, <1>3, <1>5, <1>8, <1>12
<1>14. R[n] = q
  BY <1>12
<1>15. [R EXCEPT ![n][j].stream = z] = [R EXCEPT ![n] = [q EXCEPT ![j] = v]]
  BY <1>6, <1>8, <1>14
<1>16. [R EXCEPT ![n] = t] = [repo EXCEPT ![n] = t]
  BY <1>12
<1>17. Filled(n, bytes) = [repo EXCEPT ![n][j].bytes = bytes, ![n][j].stream = z]
  BY <1>1, <1>2, <1>4 DEF Filled
<1>18. [repo EXCEPT ![n][j].bytes = bytes, ![n][j].stream = z] = [R EXCEPT ![n][j].stream = z]
  BY <1>13
<1>19. Filled(n, bytes) = [repo EXCEPT ![n] = t]
  BY <1>9, <1>11, <1>15, <1>16, <1>17, <1>18
<1>20. LastOf(n) = l
  BY <1>1, <1>2, <1>3 DEF LastOf
<1>21. t \in Seq(Version)
  BY <1>10 DEF Relast
<1> QED
  BY <1>1, <1>4, <1>7, <1>10, <1>19, <1>20, <1>21

\* What the close of a directory changes of it.
Digests(v, l, digest) ==
  /\ v.digest = digest
  /\ v.status = l.status /\ v.btime = l.btime /\ v.mode = l.mode /\ v.group = l.group
  /\ v.mtime = l.mtime /\ v.ctime = l.ctime /\ v.size = l.size /\ v.target = l.target
  /\ v.bytes = l.bytes /\ v.stream = l.stream /\ v.zipped = l.zipped

Redone(s, t, digest) ==
  \E v \in Version : Relast(s, t, v) /\ Digests(v, s[Len(s)], digest)

LEMMA RedoneIs ==
  ASSUME NEW s \in Seq(Version), s # <<>>, NEW b \in Bytes
  PROVE  Redone(s, [s EXCEPT ![Len(s)].digest = b], b)
<1>1. PICK j \in 1..Len(s) : j = Len(s)
  BY LenProperties, EmptySeq
<1>2. PICK l \in Version : l = s[j]
  BY ElementOfSeq
<1>3. PICK v \in Version : v = [l EXCEPT !.digest = b]
  BY DEF Version
<1>4. Digests(v, l, b)
  BY <1>3 DEF Version, Digests
<1>5. [s EXCEPT ![j].digest = b] = [s EXCEPT ![j] = v]
  BY <1>2, <1>3
<1>6. Relast(s, [s EXCEPT ![j] = v], v)
  BY <1>1, RelastIs
<1> QED
  BY <1>1, <1>2, <1>4, <1>5, <1>6 DEF Redone

LEMMA DigestedIs ==
  ASSUME repo \in [Nodes -> Seq(Version)], DOMAIN pending \subseteq Nodes,
         \A n \in DOMAIN pending : pending[n] \in Bytes /\ repo[n] # <<>>
  PROVE  /\ WithDigests \in [Nodes -> Seq(Version)]
         /\ \A n \in Nodes \ DOMAIN pending : WithDigests[n] = repo[n]
         /\ \A n \in DOMAIN pending : Redone(repo[n], WithDigests[n], pending[n])
<1>1. ASSUME NEW n \in DOMAIN pending
      PROVE  Redone(repo[n], WithDigests[n], pending[n]) /\ WithDigests[n] \in Seq(Version)
  <2>1. PICK s \in Seq(Version) : s = repo[n] /\ s # <<>>
    OBVIOUS
  <2>2. PICK b \in Bytes : b = pending[n]
    OBVIOUS
  <2>3. WithDigests[n] = [s EXCEPT ![Len(s)].digest = b]
    BY <2>1, <2>2 DEF WithDigests
  <2>4. Redone(s, [s EXCEPT ![Len(s)].digest = b], b)
    BY <2>1, RedoneIs
  <2>5. WithDigests[n] \in Seq(Version)
    BY <2>3, <2>4 DEF Redone, Relast
  <2> QED
    BY <2>1, <2>2, <2>3, <2>4, <2>5
<1>2. \A n \in Nodes \ DOMAIN pending : WithDigests[n] = repo[n]
  BY DEF WithDigests
<1>3. \A n \in Nodes : WithDigests[n] \in Seq(Version)
  BY <1>1, <1>2
<1>4. WithDigests = [n \in Nodes |-> WithDigests[n]]
  BY DEF WithDigests
<1>5. WithDigests \in [Nodes -> Seq(Version)]
  <2> HIDE DEF WithDigests
  <2> QED
    BY <1>3, <1>4
<1> QED
  BY <1>1, <1>2, <1>5

-----------------------------------------------------------------------------
(* What a step does to a tree.                                             *)

LEMMA SettingIs ==
  ASSUME setting \in Settings
  PROVE  /\ setting.names \subseteq Nodes /\ setting.ignores \subseteq Nodes
         /\ setting.excludes \subseteq Nodes \cup {Root}
         /\ setting.keep \subseteq {"owner", "rights", "times"}
         /\ setting.kinds \subseteq {"store", "restore", "diff"}
         /\ setting.group \in {Owner, "staff"} /\ setting.content \in Contents
         /\ setting.budget.jobs \in Nat /\ setting.budget.edits \in Nat
         /\ setting.budget.faults \in Nat
         /\ \A n \in setting.names : Above[n] \subseteq setting.names
<1>1. setting \in Setting /\ \A n \in setting.names : Above[n] \subseteq setting.names
  BY SettingsAssumption
<1>2. PICK s \in Setting : s = setting
  BY <1>1
<1>3. /\ s.names \subseteq Nodes /\ s.ignores \subseteq Nodes
      /\ s.excludes \subseteq Nodes \cup {Root}
      /\ s.keep \subseteq {"owner", "rights", "times"}
      /\ s.kinds \subseteq {"store", "restore", "diff"}
      /\ s.group \in {Owner, "staff"} /\ s.content \in Contents
      /\ s.budget \in [jobs: Nat, edits: Nat, faults: Nat]
  BY DEF Setting
<1> QED
  BY <1>1, <1>2, <1>3

\* The tree T becomes U: what is not in S stays or is a directory that was not there,
\* and what changes has the time of the step.  G are the groups it may get.
Altered(T, U, S, G) ==
  /\ IsTree(U) /\ DOMAIN T \ DOMAIN U \subseteq S
  /\ \A x \in DOMAIN U \cap DOMAIN T :
       \/ U[x] = T[x]
       \/ x \in S /\ U[x].ctime = clock' /\ U[x].group \in G \cup {T[x].group}
  /\ \A x \in DOMAIN U \ DOMAIN T :
       /\ x \in S \/ IsDir(x)
       /\ U[x].ctime = clock' /\ U[x].group \in G \cup {Owner}
  /\ \A x \in DOMAIN U \cap S : IsFile(x) => U[x].ctime = clock'

\* One change after another, when the first takes nothing away.
LEMMA AlteredTwice ==
  ASSUME NEW T, IsTree(T), NEW U, NEW W, NEW S1, NEW S2, NEW G1, NEW G2, NEW S, NEW G,
         Altered(T, U, S1, G1), Altered(U, W, S2, G2), DOMAIN T \subseteq DOMAIN U,
         S = S1 \cup S2, G = G1 \cup G2
  PROVE  Altered(T, W, S, G)
<1>1. IsTree(W) /\ DOMAIN T \ DOMAIN W \subseteq S
  BY DEF Altered
<1>2. ASSUME NEW x \in DOMAIN W \cap DOMAIN T
      PROVE  \/ W[x] = T[x]
             \/ x \in S /\ W[x].ctime = clock' /\ W[x].group \in G \cup {T[x].group}
  <2>1. x \in DOMAIN U
    OBVIOUS
  <2>2. \/ W[x] = U[x]
        \/ x \in S2 /\ W[x].ctime = clock' /\ W[x].group \in G2 \cup {U[x].group}
    BY <2>1 DEF Altered
  <2>3. \/ U[x] = T[x]
        \/ x \in S1 /\ U[x].ctime = clock' /\ U[x].group \in G1 \cup {T[x].group}
    BY <2>1 DEF Altered
  <2> QED
    BY <2>2, <2>3
<1>3. ASSUME NEW x \in DOMAIN W \ DOMAIN T
      PROVE  /\ x \in S \/ IsDir(x)
             /\ W[x].ctime = clock' /\ W[x].group \in G \cup {Owner}
  <2>1. CASE x \in DOMAIN U
    <3>1. \/ W[x] = U[x]
          \/ x \in S2 /\ W[x].ctime = clock' /\ W[x].group \in G2 \cup {U[x].group}
      BY <2>1 DEF Altered
    <3>2. /\ x \in S1 \/ IsDir(x)
          /\ U[x].ctime = clock' /\ U[x].group \in G1 \cup {Owner}
      BY <2>1 DEF Altered
    <3> QED
      BY <3>1, <3>2
  <2>2. CASE x \notin DOMAIN U
    BY <2>2 DEF Altered
  <2> QED
    BY <2>1, <2>2
<1>4. ASSUME NEW x \in DOMAIN W \cap S, IsFile(x)
      PROVE  W[x].ctime = clock'
  <2>1. CASE x \in S2
    BY <1>4, <2>1 DEF Altered
  <2>2. CASE x \notin DOMAIN U
    BY <2>2 DEF Altered
  <2>3. CASE x \in DOMAIN U /\ x \in S1
    <3>1. U[x].ctime = clock'
      BY <1>4, <2>3 DEF Altered
    <3>2. W[x] = U[x] \/ W[x].ctime = clock'
      BY <2>3 DEF Altered
    <3> QED
      BY <3>1, <3>2
  <2> QED
    BY <2>1, <2>2, <2>3
<1> QED
  BY <1>1, <1>2, <1>3, <1>4 DEF Altered

LEMMA AlteredByModify ==
  ASSUME NEW T, IsTree(T), NEW n \in DOMAIN T, NEW v \in Version,
         setting \in Settings, clock' \in 0..MaxClock
  PROVE  /\ Altered(T, ModifyDirEnt(T, n, v), {n}, {v.group})
         /\ DOMAIN ModifyDirEnt(T, n, v) = DOMAIN T
<1>1. setting.keep \subseteq {"owner", "rights", "times"}
  BY SettingIs
<1>2. PICK U : U = ModifyDirEnt(T, n, v)
  OBVIOUS
<1>3. /\ Elsewhere(T, U, DOMAIN T, {n})
      /\ U[n].ctime = clock' /\ U[n].group \in {T[n].group, v.group}
  BY <1>1, <1>2, ModifyIs
<1>4. Altered(T, U, {n}, {v.group}) /\ DOMAIN U = DOMAIN T
  BY <1>3 DEF Altered, Elsewhere
<1> QED
  BY <1>2, <1>4

LEMMA AlteredByPath ==
  ASSUME NEW T, IsTree(T), NEW n \in Nodes, clock' \in 0..MaxClock
  PROVE  /\ Altered(T, PathCreate(T, n), {}, {})
         /\ DOMAIN PathCreate(T, n) = DOMAIN T \cup Above[n]
<1>1. PICK U : U = PathCreate(T, n)
  OBVIOUS
<1>2. PICK v : v = New(DefaultMode, Nothing)
  OBVIOUS
<1>3. v.ctime = clock' /\ v.group = Owner
  BY <1>2 DEF New
<1>4. /\ Elsewhere(T, U, DOMAIN T \cup Above[n], Above[n] \ DOMAIN T)
      /\ \A x \in Above[n] \ DOMAIN T : U[x] = v
  BY <1>1, <1>2, PathCreateIs
<1>5. \A x \in Above[n] : IsDir(x)
  BY AboveDirs
<1>6. Altered(T, U, {}, {}) /\ DOMAIN U = DOMAIN T \cup Above[n]
  BY <1>3, <1>4, <1>5 DEF Altered, Elsewhere
<1> QED
  BY <1>1, <1>6

\* Above a node there is a directory.
LEMMA ParentIsOther ==
  ASSUME NEW n \in Nodes
  PROVE  Parent[n] # n /\ (Parent[n] \in Nodes => ~IsFile(Parent[n]))
<1>1. Parent[n] # Root => IsDir(Parent[n]) /\ Parent[n] \in Above[n]
  BY Parents, AboveClosed
<1> QED
  BY <1>1, TreeAssumption, AboveOthers DEF IsDir, IsFile

LEMMA AlteredByPlaced ==
  ASSUME NEW T, IsTree(T), NEW n \in Nodes, n \notin DOMAIN T, NEW v \in Node,
         v.ctime = clock', clock' \in 0..MaxClock
  PROVE  /\ Altered(T, Placed(T, n, v), {n, Parent[n]}, {v.group})
         /\ DOMAIN Placed(T, n, v) = DOMAIN T \cup {n}
         /\ Placed(T, n, v)[n] = v
<1>1. PICK p : p = Parent[n]
  OBVIOUS
<1>2. p # n /\ (p \in Nodes => ~IsFile(p))
  BY <1>1, ParentIsOther
<1>3. PICK U : U = Placed(T, n, v)
  OBVIOUS
<1>4. /\ Elsewhere(T, U, DOMAIN T \cup {n}, {n, p}) /\ U[n] = v
      /\ p \in DOMAIN T => U[p] = [mode |-> T[p].mode, group |-> T[p].group,
                                   mtime |-> clock', ctime |-> clock',
                                   content |-> T[p].content]
  BY <1>1, <1>3, PlacedIs
<1>5. p \in DOMAIN T => U[p].group = T[p].group /\ U[p].ctime = clock'
  BY <1>4
<1>6. /\ IsTree(U) /\ DOMAIN U = DOMAIN T \cup {n}
      /\ \A x \in DOMAIN T : x # p => U[x] = T[x]
  BY <1>4 DEF Elsewhere
<1>7. \A x \in DOMAIN U : x \in Nodes
  BY <1>6 DEF IsTree
<1>8. Altered(T, U, {n, p}, {v.group})
  BY <1>2, <1>4, <1>5, <1>6, <1>7 DEF Altered
<1> QED
  BY <1>1, <1>3, <1>4, <1>6, <1>8

LEMMA AlteredByTaken ==
  ASSUME NEW T, IsTree(T), NEW n \in Nodes, clock' \in 0..MaxClock
  PROVE  /\ Altered(T, Taken(T, n), {n, Parent[n]}, {})
         /\ DOMAIN Taken(T, n) = DOMAIN T \ {n}
<1>1. PICK p : p = Parent[n]
  OBVIOUS
<1>2. p # n /\ (p \in Nodes => ~IsFile(p))
  BY <1>1, ParentIsOther
<1>3. PICK U : U = Taken(T, n)
  OBVIOUS
<1>4. /\ Elsewhere(T, U, DOMAIN T \ {n}, {p})
      /\ p \in DOMAIN T => U[p] = [mode |-> T[p].mode, group |-> T[p].group,
                                   mtime |-> clock', ctime |-> clock',
                                   content |-> T[p].content]
  BY <1>1, <1>3, TakenIs
<1>5. p \in DOMAIN T => U[p].group = T[p].group /\ U[p].ctime = clock'
  BY <1>4
<1>6. /\ IsTree(U) /\ DOMAIN U = DOMAIN T \ {n}
      /\ \A x \in DOMAIN U : x # p => U[x] = T[x]
  BY <1>4 DEF Elsewhere
<1>7. \A x \in DOMAIN U : x \in Nodes
  BY <1>6 DEF IsTree
<1>8. Altered(T, U, {n, p}, {})
  BY <1>2, <1>5, <1>6, <1>7 DEF Altered
<1> QED
  BY <1>1, <1>3, <1>6, <1>8

\* A file is written.
Written(T, n, c) == [Stamped(T, n) EXCEPT ![n].content = c]

LEMMA WrittenIs ==
  ASSUME NEW T, IsTree(T), NEW n \in DOMAIN T, NEW c \in Bytes, clock' \in 0..MaxClock
  PROVE  /\ Elsewhere(T, Written(T, n, c), DOMAIN T, {n})
         /\ Written(T, n, c)[n] = [mode |-> T[n].mode, group |-> T[n].group,
                                   mtime |-> clock', ctime |-> clock', content |-> c]
<1>1. PICK U : U = Stamped(T, n)
  OBVIOUS
<1>2. PICK r : r = [mode |-> T[n].mode, group |-> T[n].group, mtime |-> clock',
                    ctime |-> clock', content |-> T[n].content]
  OBVIOUS
<1>3. Elsewhere(T, U, DOMAIN T, {n}) /\ U[n] = r
  BY <1>1, <1>2, StampedIs
<1>4. IsTree(U) /\ DOMAIN U = DOMAIN T /\ r \in Node
  BY <1>3 DEF Elsewhere, IsTree
<1>5. PICK w \in Node : w = [r EXCEPT !.content = c]
  BY <1>4 DEF Node
<1>6. w = [mode |-> T[n].mode, group |-> T[n].group, mtime |-> clock',
           ctime |-> clock', content |-> c]
  BY <1>2, <1>5
<1>7. Written(T, n, c) = [U EXCEPT ![n] = w]
  BY <1>1, <1>3, <1>4, <1>5 DEF Written, IsTree
<1>8. PICK W : W = [U EXCEPT ![n] = w]
  OBVIOUS
<1>9. Elsewhere(T, W, DOMAIN T, {n}) /\ W[n] = w
  BY <1>3, <1>4, <1>5, <1>8 DEF Elsewhere, IsTree
<1> QED
  BY <1>6, <1>7, <1>8, <1>9

LEMMA AlteredByWritten ==
  ASSUME NEW T, IsTree(T), NEW n \in DOMAIN T, NEW c \in Bytes, clock' \in 0..MaxClock,
         NEW p, p \in Nodes => ~IsFile(p)
  PROVE  /\ Altered(T, Written(T, n, c), {n}, {})
         /\ Altered(T, Written(T, n, c), {n, p}, {})
         /\ DOMAIN Written(T, n, c) = DOMAIN T
<1>1. PICK U : U = Written(T, n, c)
  OBVIOUS
<1>2. /\ Elsewhere(T, U, DOMAIN T, {n})
      /\ U[n] = [mode |-> T[n].mode, group |-> T[n].group,
                 mtime |-> clock', ctime |-> clock', content |-> c]
  BY <1>1, WrittenIs
<1>3. U[n].group = T[n].group /\ U[n].ctime = clock'
  BY <1>2
<1>4. \A x \in DOMAIN U : x \in Nodes
  BY <1>2 DEF IsTree, Elsewhere
<1>5. Altered(T, U, {n}, {}) /\ Altered(T, U, {n, p}, {}) /\ DOMAIN U = DOMAIN T
  BY <1>2, <1>3, <1>4 DEF Elsewhere, Altered
<1> QED
  BY <1>1, <1>5

LEMMA AlteredByChmod ==
  ASSUME NEW T, IsTree(T), NEW n \in DOMAIN T, NEW m \in Modes, clock' \in 0..MaxClock
  PROVE  LET U == [T EXCEPT ![n].mode = m, ![n].ctime = clock'] IN
         Altered(T, U, {n}, {}) /\ DOMAIN U = DOMAIN T
<1>1. PICK r \in Node : r = T[n]
  BY DEF IsTree
<1>2. PICK w \in Node : w = [[r EXCEPT !.mode = m] EXCEPT !.ctime = clock']
  BY DEF Node
<1>3. w.group = r.group /\ w.ctime = clock'
  BY <1>2 DEF Node
<1>4. [T EXCEPT ![n].mode = m, ![n].ctime = clock'] = [T EXCEPT ![n] = w]
  BY <1>1, <1>2 DEF IsTree
<1>5. PICK U : U = [T EXCEPT ![n] = w]
  OBVIOUS
<1>6. Elsewhere(T, U, DOMAIN T, {n}) /\ U[n] = w
  BY <1>5 DEF Elsewhere, IsTree
<1>7. Altered(T, U, {n}, {}) /\ DOMAIN U = DOMAIN T
  BY <1>1, <1>3, <1>6 DEF Elsewhere, Altered
<1> QED
  BY <1>4, <1>5, <1>7

LEMMA AlteredByCreate ==
  ASSUME NEW T, IsTree(T), NEW n \in Nodes, n \notin DOMAIN T, NEW v \in Version,
         setting \in Settings, clock' \in 0..MaxClock
  PROVE  /\ Altered(T, CreateDirEnt(T, n, v), {n, Parent[n]}, {Owner, v.group})
         /\ DOMAIN CreateDirEnt(T, n, v) = DOMAIN T \cup Above[n] \cup {n}
<1>1. PICK A : A = PathCreate(T, n)
  OBVIOUS
<1>2. Altered(T, A, {}, {}) /\ DOMAIN A = DOMAIN T \cup Above[n]
  BY <1>1, AlteredByPath
<1>3. IsTree(A) /\ n \notin DOMAIN A
  BY <1>2, AboveOthers DEF Altered
<1>4. PICK c \in Bytes : c = IF IsLink(n) THEN v.target ELSE Nothing
  BY DEF Version, Bytes
<1>5. PICK w : w = New(v.mode, c)
  OBVIOUS
<1>6. w \in Node /\ w.ctime = clock' /\ w.group = Owner
  <2>1. v.mode \in Modes
    BY DEF Version
  <2> QED
    BY <1>5, <2>1, NewIs
<1>7. PICK B : B = Placed(A, n, w)
  OBVIOUS
<1>8. /\ Altered(A, B, {n, Parent[n]}, {w.group}) /\ DOMAIN B = DOMAIN A \cup {n}
  BY <1>3, <1>6, <1>7, AlteredByPlaced
<1>9. Altered(T, B, {n, Parent[n]}, {Owner})
  <2>1. DOMAIN T \subseteq DOMAIN A /\ {w.group} = {Owner}
    BY <1>2, <1>6
  <2> QED
    BY <1>2, <1>8, <2>1, AlteredTwice
<1>10. IsTree(B) /\ n \in DOMAIN B
  BY <1>8 DEF Altered
<1>11. /\ Altered(B, ModifyDirEnt(B, n, v), {n}, {v.group})
       /\ DOMAIN ModifyDirEnt(B, n, v) = DOMAIN B
  BY <1>10, AlteredByModify
<1>12. Altered(T, ModifyDirEnt(B, n, v), {n, Parent[n]}, {Owner, v.group})
  <2>1. DOMAIN T \subseteq DOMAIN B
    BY <1>2, <1>8
  <2> QED
    BY <1>9, <1>11, <2>1, AlteredTwice
<1>13. CreateDirEnt(T, n, v) = ModifyDirEnt(B, n, v)
  BY <1>1, <1>4, <1>5, <1>7 DEF CreateDirEnt
<1> QED
  BY <1>2, <1>8, <1>11, <1>12, <1>13

-----------------------------------------------------------------------------
(* Types: what the steps have in common.                                   *)

LEMMA TypesGiveTypeOK ==
  ASSUME Types
  PROVE  TypeOK
<1>1. Flags /\ Trees /\ Repo /\ Queues /\ Marks
  BY DEF Types
<1>2. \A T \in {home, trees["away"]} :
        DOMAIN T \subseteq Nodes /\ \A n \in DOMAIN T : T[n] \in Node
  BY <1>1 DEF Trees, IsTree
<1>3. UNION {missing, dirty \ {Root}, hidden, broken, failed, untold} \subseteq Nodes
  BY <1>1 DEF Marks
<1> QED
  BY <1>1, <1>2, <1>3 DEF TypeOK, Flags, Repo, Queues

LEMMA Clock ==
  ASSUME Flags
  PROVE  /\ MaxClock \in Nat \ {0} /\ clock \in 1..MaxClock /\ clock \in 0..MaxClock
         /\ clock' = clock => clock' \in 0..MaxClock
         /\ Time => clock' \in 1..MaxClock /\ clock' \in 0..MaxClock /\ clock <= clock'
BY TreeAssumption DEF Flags, Time

LEMMA FaultsAreBounded ==
  ASSUME Flags, Fault \/ Fine
  PROVE  faults' \in 0..setting.budget.faults
<1>1. setting.budget.faults \in Nat /\ faults \in 0..setting.budget.faults
  BY SettingIs DEF Flags
<1> QED
  BY <1>1 DEF Fault, Fine

\* A step of a job that goes on keeps all flags but these.
LEMMA SteadyFlags ==
  ASSUME Flags, Steady, Fault \/ Fine, bad' \in BOOLEAN,
         pc' \in {"idle", "enter", "scan", "work", "final"}
  PROVE  Flags'
<1>1. faults' \in 0..setting.budget.faults
  BY FaultsAreBounded
<1> QED
  BY <1>1 DEF Flags, Steady

LEMMA SteadyMarks ==
  ASSUME Marks, Steady, hidden' \subseteq Nodes, broken' \subseteq Nodes,
         failed' \subseteq Nodes, untold' \subseteq Nodes
  PROVE  Marks'
BY DEF Marks, Steady

\* The call for i opens a file, or succeeds, or fails.
Called(i) ==
  /\ pc = "work" /\ Working /\ (Fault \/ Fine)
  /\ \/ UNCHANGED <<todo, bad, failed>>
     \/ Succeeds(i)
     \/ Fails(i)

LEMMA CalledLists ==
  ASSUME NEW i, Called(i)
  PROVE  /\ todo' \subseteq todo /\ failed \subseteq failed' /\ failed' \subseteq failed \cup {i.node}
         /\ bad' \in {bad, TRUE}
         /\ UNCHANGED <<setting, session, job, result, clock, jobs, edits, asOf, missing, dirty,
                        settled, pc, dirs, here, untold>>
BY DEF Called, Working, Steady, Succeeds, Fails

LEMMA CalledTypes ==
  ASSUME Types, NEW i \in Item, Called(i), Trees', Repo',
         sending' = NoFile \/ sending' \in Transfer,
         later' \in Seq(Late), hidden' \subseteq Nodes, broken' \subseteq Nodes,
         UNCHANGED repo \/ job.kind # "restore"
  PROVE  Types'
<1>1. i.node \in Nodes
  BY DEF Item
<1>2. Flags /\ Queues /\ Marks /\ pc = "work" /\ Steady /\ (Fault \/ Fine)
  BY DEF Types, Called, Working
<1>3. Flags'
  <2>1. bad' \in BOOLEAN /\ pc' \in {"idle", "enter", "scan", "work", "final"}
    BY <1>2, CalledLists DEF Flags
  <2> QED
    BY <1>2, <2>1, SteadyFlags
<1>4. Queues'
  BY <1>2, CalledLists DEF Queues
<1>5. Marks'
  <2>1. failed' \subseteq Nodes /\ untold' \subseteq Nodes
    BY <1>1, <1>2, CalledLists DEF Marks
  <2> QED
    BY <1>2, <2>1, SteadyMarks
<1>6. Between'
  BY <1>2, CalledLists DEF Between
<1>7. Ops'
  <2>1. UNCHANGED job /\ todo' \subseteq todo /\ Ops
    BY CalledLists DEF Types
  <2>2. CASE UNCHANGED repo
    BY <2>1, <2>2 DEF Ops, Seen
  <2>3. CASE job.kind # "restore"
    BY <2>1, <2>3 DEF Ops
  <2> QED
    BY <2>2, <2>3
<1> QED
  BY <1>3, <1>4, <1>5, <1>6, <1>7 DEF Types

\* Nothing is under way: how a job ends.
LEMMA EndTypes ==
  ASSUME Types, NEW res \in {"ok", "error", "skipped"}, EndJob(res), Fault \/ Fine,
         UNCHANGED <<trees, session, failed, untold>>, broken' \subseteq Nodes,
         repo' \in [Nodes -> Seq(Version)], pending' = Empty
  PROVE  Types'
<1>1. Flags /\ Trees /\ Repo /\ Queues /\ Marks
  BY DEF Types
<1>2. Flags'
  <2>1. faults' \in 0..setting.budget.faults
    BY <1>1, FaultsAreBounded
  <2> QED
    BY <1>1, <2>1 DEF Flags, EndJob
<1>3. Trees'
  BY <1>1 DEF Trees, home
<1>4. Repo'
  BY DEF Repo, Empty, EndJob
<1>5. Queues'
  BY <1>1 DEF Queues, EndJob
<1>6. Marks'
  <2>1. UNCHANGED <<missing, dirty, hidden, failed, untold>>
    BY DEF EndJob
  <2>2. CASE UNCHANGED asOf
    BY <1>1, <2>1, <2>2 DEF Marks
  <2>3. CASE asOf' = [w \in DOMAIN asOf |->
                        IF w = 0 \/ w > clock
                        THEN [tree |-> home,
                              sure |-> {n \in Nodes : Kept(n)} \ (hidden \cup broken)]
                        ELSE asOf[w]]
    BY <1>1, <2>1, <2>3 DEF Marks
  <2> QED
    BY <2>2, <2>3 DEF EndJob
<1>7. Between'
  BY DEF Between, EndJob
<1>8. Ops'
  BY DEF Ops, EndJob
<1> QED
  BY <1>2, <1>3, <1>4, <1>5, <1>6, <1>7, <1>8 DEF Types

\* The tree of the step's place becomes T, which S says is edited.
LEMMA LocalIs ==
  ASSUME Flags, Trees, NEW T, IsTree(T), NEW S, Local(T, S), hidden \subseteq Nodes,
         UNCHANGED setting
  PROVE  /\ Trees' /\ hidden' \subseteq Nodes
         /\ trees[Target]' = T
         /\ setting.elsewhere => home' = home /\ hidden' = hidden
         /\ ~setting.elsewhere => Target = "home" /\ home' = T /\ hidden' = Hidden(S)
<1>1. Target \in {"home", "away"} /\ Target' = Target
  BY DEF Target
<1>2. trees = [home |-> home, away |-> trees.away] /\ IsTree(home) /\ IsTree(trees.away)
  BY DEF Trees
<1>3. trees' = [trees EXCEPT ![Target] = T]
  BY DEF Local
<1>4. Hidden(S) \subseteq Nodes
  BY DEF Hidden
<1>5. hidden' = IF setting.elsewhere THEN hidden ELSE Hidden(S)
  BY DEF Local
<1>6. CASE setting.elsewhere
  <2>1. Target = "away"
    BY <1>6 DEF Target
  <2>2. trees' = [home |-> home, away |-> T]
    BY <1>2, <1>3, <2>1 DEF home
  <2>3. home' = home /\ trees'.away = T
    BY <2>2 DEF home
  <2> QED
    BY <1>1, <1>2, <1>5, <1>6, <2>1, <2>2, <2>3 DEF Trees
<1>7. CASE ~setting.elsewhere
  <2>1. Target = "home"
    BY <1>7 DEF Target
  <2>2. trees' = [home |-> T, away |-> trees.away]
    BY <1>2, <1>3, <2>1 DEF home
  <2>3. home' = T /\ trees'.away = trees.away
    BY <2>2 DEF home
  <2> QED
    BY <1>1, <1>2, <1>4, <1>5, <1>7, <2>1, <2>2, <2>3 DEF Trees
<1> QED
  BY <1>6, <1>7

-----------------------------------------------------------------------------
(* The calls of a store.                                                   *)

\* The node n gets one more version, or another last one.
Grows(n, v) ==
  /\ repo' \in [Nodes -> Seq(Version)]
  /\ \A m \in Nodes \ {n} : repo'[m] = repo[m]
  /\ Appended(repo[n], repo'[n], v)
Refills(n, v) ==
  /\ repo' \in [Nodes -> Seq(Version)]
  /\ \A m \in Nodes \ {n} : repo'[m] = repo[m]
  /\ Relast(repo[n], repo'[n], v)

\* i is an item whose turn it is.
Turn(i) == /\ i \in todo /\ i \in Item /\ i.node \in Nodes /\ i.entry \in Version
           /\ pc = "work" /\ sending = NoFile /\ job.kind # "diff"

LEMMA TurnIs ==
  ASSUME Types, NEW op, NEW i \in Due(op)
  PROVE  Turn(i) /\ i.op = op
<1>1. i \in todo /\ i \in Item
  BY DEF Due, Types, Queues
<1> QED
  BY <1>1 DEF Due, Turn, Item

SetEntryOn(i) ==
  /\ Turn(i) /\ i.op \in {"set", "delete"} /\ Called(i)
  /\ UNCHANGED <<trees, pending, sending, later, hidden, broken>>
  /\ \/ /\ Succeeds(i)
        /\ \E v \in Version :
             /\ Grows(i.node, v) /\ OfEntry(v, i.entry)
             /\ v.group = Owner /\ v.btime = clock
             /\ v.status = IF i.op = "set" THEN "used" ELSE "deleted"
             /\ repo[i.node] # <<>> => /\ v.bytes = LastOf(i.node).bytes
                                       /\ v.stream = LastOf(i.node).stream
                                       /\ v.zipped = LastOf(i.node).zipped
     \/ Fails(i) /\ UNCHANGED repo

LEMMA SetEntryDoes ==
  ASSUME Types, SetEntry
  PROVE  \E i \in Item : SetEntryOn(i)
<1>1. repo \in [Nodes -> Seq(Version)] /\ clock \in 0..MaxClock
  BY Clock DEF Types, Repo
<1>0. PICK op \in {"set", "delete"} : \E i \in Due(op) :
        \/ /\ repo' = WithVersion(i.node, SetVersion(i.node, i.entry,
                                            IF op = "set" THEN "used" ELSE "deleted"))
           /\ Succeeds(i) /\ Fine
        \/ Fails(i) /\ Fault /\ UNCHANGED repo
  BY DEF SetEntry
<1>2. PICK i \in Due(op) :
        \/ /\ repo' = WithVersion(i.node, SetVersion(i.node, i.entry,
                                            IF op = "set" THEN "used" ELSE "deleted"))
           /\ Succeeds(i) /\ Fine
        \/ Fails(i) /\ Fault /\ UNCHANGED repo
  BY <1>0
<1>3. Turn(i) /\ i.op = op
  BY <1>2, TurnIs
<1>4. Called(i) /\ UNCHANGED <<trees, pending, sending, later, hidden, broken>>
  BY <1>2, <1>3 DEF SetEntry, Called, Turn
<1>5. CASE /\ repo' = WithVersion(i.node, SetVersion(i.node, i.entry,
                                            IF op = "set" THEN "used" ELSE "deleted"))
           /\ Succeeds(i)
  <2>1. PICK n \in Nodes, e \in Version : n = i.node /\ e = i.entry
    BY <1>3 DEF Turn
  <2>2. PICK status \in {"used", "deleted"} : status = IF op = "set" THEN "used" ELSE "deleted"
    OBVIOUS
  <2>3. PICK v : v = SetVersion(n, e, status)
    OBVIOUS
  <2>4. /\ v \in Version /\ OfEntry(v, e)
        /\ v.group = Owner /\ v.btime = clock /\ v.status = status
        /\ repo[n] # <<>> => /\ v.bytes = LastOf(n).bytes /\ v.stream = LastOf(n).stream
                             /\ v.zipped = LastOf(n).zipped
    BY <1>1, <2>3, SetVersionIs
  <2>5. repo' = WithVersion(n, v)
    BY <1>5, <2>1, <2>2, <2>3
  <2>6. Grows(n, v)
    BY <1>1, <2>4, <2>5, AddedIs DEF Grows
  <2> QED
    BY <1>3, <1>4, <1>5, <2>1, <2>2, <2>4, <2>6 DEF SetEntryOn, Turn
<1>6. CASE Fails(i) /\ UNCHANGED repo
  BY <1>3, <1>4, <1>6 DEF SetEntryOn, Turn
<1> QED
  BY <1>2, <1>5, <1>6

StoreOpenOn(i) ==
  /\ Turn(i) /\ i.op = "store" /\ Called(i)
  /\ UNCHANGED <<trees, pending, later, hidden>>
  /\ \/ /\ i.node \in DOMAIN home
        /\ UNCHANGED <<todo, bad, failed>>
        /\ broken' = broken \ {i.node}
        /\ \E v \in Version :
             /\ Grows(i.node, v) /\ OfEntry(v, i.entry)
             /\ v.group = Owner /\ v.btime = clock /\ v.status = i.entry.status
             /\ sending' = [node |-> i.node, entry |-> v, item |-> i]
     \/ Fails(i) /\ UNCHANGED <<repo, sending, broken>>
     \/ /\ Fails(i)
        /\ broken' = broken \cup {i.node}
        /\ UNCHANGED sending
        /\ \E v \in Version :
             /\ Grows(i.node, v) /\ OfEntry(v, i.entry)
             /\ v.group = Owner /\ v.btime = clock /\ v.status = i.entry.status

LEMMA StoreOpenDoes ==
  ASSUME Types, StoreOpen
  PROVE  \E i \in Item : StoreOpenOn(i)
<1>1. repo \in [Nodes -> Seq(Version)] /\ clock \in 0..MaxClock
  BY Clock DEF Types, Repo
<1>2. PICK i \in Due("store") :
       \/ /\ i.node \in DOMAIN home
          /\ repo' = WithVersion(i.node, Opened(i.node, i.entry))
          /\ sending' = [node |-> i.node, entry |-> Opened(i.node, i.entry), item |-> i]
          /\ broken' = broken \ {i.node}
          /\ Fine
          /\ UNCHANGED <<todo, bad, failed>>
       \/ /\ i.node \notin DOMAIN home
          /\ Fails(i) /\ Fine
          /\ UNCHANGED <<repo, sending, broken>>
       \/ /\ i.node \in DOMAIN home
          /\ Fails(i) /\ Fault
          /\ \/ UNCHANGED <<repo, broken>>
             \/ /\ repo' = WithVersion(i.node, Opened(i.node, i.entry))
                /\ broken' = broken \cup {i.node}
          /\ UNCHANGED sending
  BY Zenon DEF StoreOpen, Opened
<1>3. Turn(i) /\ i.op = "store"
  BY <1>2, TurnIs
<1>4. Called(i) /\ UNCHANGED <<trees, pending, later, hidden>>
  BY <1>2, <1>3 DEF StoreOpen, Called, Turn
<1>5. PICK n \in Nodes, e \in Version : n = i.node /\ e = i.entry
  BY <1>3 DEF Turn
<1>6. PICK v : v = Opened(n, e)
  OBVIOUS
<1>7. /\ v \in Version /\ OfEntry(v, e)
      /\ v.group = Owner /\ v.btime = clock /\ v.status = e.status
  BY <1>1, <1>6, OpenedIs
<1>8. ASSUME repo' = WithVersion(n, v)
      PROVE  Grows(n, v)
  BY <1>1, <1>7, <1>8, AddedIs DEF Grows
<1>9. CASE /\ i.node \in DOMAIN home
           /\ repo' = WithVersion(i.node, Opened(i.node, i.entry))
           /\ sending' = [node |-> i.node, entry |-> Opened(i.node, i.entry), item |-> i]
           /\ broken' = broken \ {i.node}
           /\ UNCHANGED <<todo, bad, failed>>
  BY <1>3, <1>4, <1>5, <1>6, <1>7, <1>8, <1>9 DEF StoreOpenOn, Turn
<1>10. CASE Fails(i) /\ UNCHANGED <<repo, sending, broken>>
  BY <1>3, <1>4, <1>10 DEF StoreOpenOn, Turn
<1>11. CASE /\ Fails(i)
            /\ repo' = WithVersion(i.node, Opened(i.node, i.entry))
            /\ broken' = broken \cup {i.node}
            /\ UNCHANGED sending
  BY <1>3, <1>4, <1>5, <1>6, <1>7, <1>8, <1>11 DEF StoreOpenOn, Turn
<1> QED
  BY <1>2, <1>9, <1>10, <1>11

StoreTransferOn ==
  LET n == sending.node
      i == sending.item
  IN /\ job.kind = "store" /\ sending \in Transfer /\ pc = "work"
     /\ n \in Nodes /\ i \in Item /\ repo[n] # <<>>
     /\ Called(i) /\ sending' = NoFile
     /\ UNCHANGED <<trees, later, hidden>>
     /\ \/ /\ n \in DOMAIN home
           /\ \E v \in Version : /\ Refills(n, v)
                                 /\ Fills(v, LastOf(n), home[n].content, sending.entry.zipped)
           /\ pending' = Put(pending, n, home[n].content)
           /\ Succeeds(i) /\ UNCHANGED broken
        \/ /\ \/ UNCHANGED repo
              \/ \E v \in Version, bytes \in Bytes :
                   /\ Refills(n, v)
                   /\ Fills(v, LastOf(n), bytes, sending.entry.zipped)
           /\ broken' = broken \cup {n}
           /\ Fails(i) /\ UNCHANGED pending

LEMMA StoreTransferDoes ==
  ASSUME Types, StoreTransfer
  PROVE  StoreTransferOn
<1>1. repo \in [Nodes -> Seq(Version)] /\ clock \in 0..MaxClock /\ IsTree(home)
  BY Clock DEF Types, Repo, Trees
<1>2. /\ job.kind = "store" /\ sending # NoFile /\ sending' = NoFile
      /\ Working /\ UNCHANGED <<trees, later, hidden>>
  BY DEF StoreTransfer
<1>3. sending \in Transfer /\ pc = "work" /\ repo[sending.node] # <<>>
  BY <1>2 DEF Types, Queues, Repo, Between
<1>4. PICK n \in Nodes, i \in Item, z \in BOOLEAN :
        n = sending.node /\ i = sending.item /\ z = sending.entry.zipped
  BY <1>3 DEF Transfer, Version
<1>5. ASSUME NEW bytes \in Bytes, repo' = Filled(n, bytes)
      PROVE  \E v \in Version : Refills(n, v) /\ Fills(v, LastOf(n), bytes, z)
  BY <1>1, <1>3, <1>4, <1>5, FilledIs DEF Refills
<1>6. n \in DOMAIN home => home[n].content \in Bytes
  BY <1>1, NodeFields DEF IsTree
<1>7. \/ /\ n \in DOMAIN home
         /\ repo' = Filled(n, home[n].content)
         /\ pending' = Put(pending, n, home[n].content)
         /\ Succeeds(i) /\ Fine
         /\ UNCHANGED broken
      \/ /\ n \in DOMAIN home
         /\ \E bytes \in {Half, home[n].content} : repo' = Filled(n, bytes)
         /\ broken' = broken \cup {n}
         /\ Fails(i) /\ Fault
         /\ UNCHANGED pending
      \/ /\ n \notin DOMAIN home
         /\ broken' = broken \cup {n}
         /\ Fails(i) /\ Fine
         /\ UNCHANGED <<repo, pending>>
  BY <1>4 DEF StoreTransfer
<1>8. Called(i)
  BY <1>2, <1>3, <1>7 DEF Called
<1>9. CASE /\ n \in DOMAIN home
           /\ repo' = Filled(n, home[n].content)
           /\ pending' = Put(pending, n, home[n].content)
           /\ Succeeds(i)
           /\ UNCHANGED broken
  <2>1. \E v \in Version : Refills(n, v) /\ Fills(v, LastOf(n), home[n].content, z)
    BY <1>5, <1>6, <1>9
  <2> QED
    BY <1>2, <1>3, <1>4, <1>8, <1>9, <2>1 DEF StoreTransferOn
<1>10. CASE /\ n \in DOMAIN home
            /\ \E bytes \in {Half, home[n].content} : repo' = Filled(n, bytes)
            /\ broken' = broken \cup {n}
            /\ Fails(i)
            /\ UNCHANGED pending
  <2>1. PICK bytes \in Bytes : repo' = Filled(n, bytes)
    BY <1>6, <1>10 DEF Bytes
  <2>2. \E v \in Version : Refills(n, v) /\ Fills(v, LastOf(n), bytes, z)
    BY <1>5, <2>1
  <2>3. \E v \in Version, b \in Bytes : Refills(n, v) /\ Fills(v, LastOf(n), b, z)
    BY <2>2
  <2> QED
    BY <1>2, <1>3, <1>4, <1>8, <1>10, <2>3 DEF StoreTransferOn
<1>11. CASE /\ n \notin DOMAIN home
            /\ broken' = broken \cup {n}
            /\ Fails(i)
            /\ UNCHANGED <<repo, pending>>
  BY <1>2, <1>3, <1>4, <1>8, <1>11 DEF StoreTransferOn
<1> QED
  BY <1>7, <1>9, <1>10, <1>11

-----------------------------------------------------------------------------
(* The calls of a restore.                                                 *)

\* A tree that has the directories of all that it has.
Rooted(T) == \A n \in DOMAIN T : Above[n] \subseteq DOMAIN T

LEMMA RootedWith ==
  ASSUME NEW T, IsTree(T), Rooted(T), NEW U, NEW n \in Nodes,
         \/ DOMAIN U = DOMAIN T
         \/ DOMAIN U = DOMAIN T \cup Above[n]
         \/ DOMAIN U = DOMAIN T \cup Above[n] \cup {n}
  PROVE  Rooted(U)
<1>1. \A m \in DOMAIN T : Above[m] \subseteq DOMAIN T
  BY DEF Rooted
<1>2. \A m \in Above[n] : Above[m] \subseteq Above[n]
  BY AboveTransitive
<1> QED
  BY <1>1, <1>2 DEF Rooted

\* What a restore does to the tree in its place, and to the marks of it.
Restores(G) ==
  \/ UNCHANGED <<trees, hidden>>
  \/ \E T, S : /\ Altered(trees[Target], T, S, G)
               /\ Rooted(trees[Target]) => Rooted(T)
               /\ Local(T, S)

LEMMA RestoresIs ==
  ASSUME Flags, Trees, hidden \subseteq Nodes, UNCHANGED setting, NEW G, Restores(G)
  PROVE  /\ Trees' /\ hidden' \subseteq Nodes
         /\ \/ home' = home /\ hidden' = hidden
            \/ /\ Rooted(home) => Rooted(home')
               /\ \E S : Altered(home, home', S, G) /\ hidden' = Hidden(S)
<1>1. CASE UNCHANGED <<trees, hidden>>
  BY <1>1 DEF Trees, home
<1>2. CASE ~UNCHANGED <<trees, hidden>>
  <2>1. PICK T, S : /\ Altered(trees[Target], T, S, G)
                    /\ Rooted(trees[Target]) => Rooted(T)
                    /\ Local(T, S)
    BY <1>2 DEF Restores
  <2>2. IsTree(T)
    BY <2>1 DEF Altered
  <2>3. /\ Trees' /\ hidden' \subseteq Nodes
        /\ setting.elsewhere => home' = home /\ hidden' = hidden
        /\ ~setting.elsewhere => Target = "home" /\ home' = T /\ hidden' = Hidden(S)
    BY <2>1, <2>2, LocalIs
  <2>4. CASE setting.elsewhere
    BY <2>3, <2>4
  <2>5. CASE ~setting.elsewhere
    <3>1. trees[Target] = home
      BY <2>3, <2>5 DEF home
    <3> QED
      BY <2>1, <2>3, <2>5, <3>1
  <2> QED
    BY <2>4, <2>5
<1> QED
  BY <1>1, <1>2

LEMMA TargetIs ==
  ASSUME Flags, Trees
  PROVE  IsTree(trees[Target])
BY DEF Trees, Target, home

Defers(i) == later' = later \/ (IsDir(i.node) /\ later' = Deferred(i))

ModifyOn(i) ==
  /\ Turn(i) /\ i.op = "modify" /\ Called(i)
  /\ UNCHANGED <<repo, pending, sending, broken>>
  /\ Restores({Owner, i.entry.group}) /\ Defers(i)

LEMMA AlteredMore ==
  ASSUME NEW T, NEW U, NEW S, NEW G, NEW H, Altered(T, U, S, G), G \subseteq H
  PROVE  Altered(T, U, S, H)
BY DEF Altered

LEMMA ModifyDoes ==
  ASSUME Types, Modify
  PROVE  \E i \in Item : ModifyOn(i)
<1>1. PICK T : T = trees[Target]
  OBVIOUS
<1>2. PICK i \in Due("modify") :
       \/ /\ IsDir(i.node)
          /\ later' = Deferred(i)
          /\ Succeeds(i) /\ Fine
          /\ UNCHANGED <<trees, hidden>>
       \/ /\ ~IsDir(i.node) /\ i.node \in DOMAIN T
          /\ Local(ModifyDirEnt(T, i.node, i.entry), {i.node})
          /\ Succeeds(i) /\ Fine
          /\ UNCHANGED later
       \/ /\ ~IsDir(i.node)
          /\ Fails(i)
          /\ IF i.node \in DOMAIN T THEN Fault ELSE Fine
          /\ UNCHANGED <<trees, later, hidden>>
  BY <1>1, Zenon DEF Modify
<1>3. Turn(i) /\ i.op = "modify"
  BY TurnIs
<1>4. Called(i) /\ UNCHANGED <<repo, pending, sending, broken>>
  BY <1>2, <1>3 DEF Modify, Called, Turn
<1>5. CASE Local(ModifyDirEnt(T, i.node, i.entry), {i.node}) /\ UNCHANGED later /\ i.node \in DOMAIN T
  <2>1. PICK n \in Nodes, e \in Version : n = i.node /\ e = i.entry
    BY <1>3 DEF Turn
  <2>2. Flags /\ IsTree(T) /\ n \in Nodes /\ UNCHANGED clock
    BY <1>1, <1>3, <1>4, <2>1, TargetIs, CalledLists DEF Types, Turn
  <2>3. PICK U : U = ModifyDirEnt(T, n, e)
    OBVIOUS
  <2>4. Altered(T, U, {n}, {e.group}) /\ DOMAIN U = DOMAIN T
    <3>1. setting \in Settings /\ clock' \in 0..MaxClock
      BY <2>2, Clock DEF Flags
    <3> QED
      BY <1>5, <2>1, <2>2, <2>3, <3>1, AlteredByModify
  <2>5. Altered(T, U, {n}, {Owner, e.group})
    BY <2>4, AlteredMore
  <2>6. Rooted(T) => Rooted(U)
    BY <2>2, <2>4, RootedWith
  <2>7. Restores({Owner, i.entry.group})
    BY <1>1, <1>5, <2>1, <2>3, <2>5, <2>6 DEF Restores
  <2> QED
    BY <1>3, <1>4, <1>5, <2>7 DEF ModifyOn, Defers, Turn
<1>6. CASE UNCHANGED <<trees, hidden>> /\ Defers(i)
  BY <1>3, <1>4, <1>6 DEF ModifyOn, Restores, Turn
<1> QED
  BY <1>2, <1>5, <1>6 DEF Defers

CreateOn(i) ==
  /\ Turn(i) /\ i.op = "create" /\ Called(i)
  /\ UNCHANGED <<repo, pending, sending, broken>>
  /\ Restores({Owner, i.entry.group}) /\ Defers(i)

LEMMA CreateDoes ==
  ASSUME Types, Create
  PROVE  \E i \in Item : CreateOn(i)
<1>1. PICK T : T = trees[Target]
  OBVIOUS
<1>2. PICK i \in Due("create") :
       \/ /\ i.node \notin DOMAIN T
          /\ Local(CreateDirEnt(T, i.node, i.entry), {i.node, Parent[i.node]})
          /\ later' = IF IsDir(i.node) THEN Deferred(i) ELSE later
          /\ Succeeds(i) /\ Fine
       \/ /\ IF i.node \notin DOMAIN T THEN Fault ELSE Fine
          /\ Fails(i)
          /\ later' = IF IsDir(i.node) /\ setting.ignoreErrors THEN Deferred(i) ELSE later
          /\ UNCHANGED <<trees, hidden>>
  BY <1>1, Zenon DEF Create
<1>3. Turn(i) /\ i.op = "create"
  BY TurnIs
<1>4. Called(i) /\ UNCHANGED <<repo, pending, sending, broken>> /\ Defers(i)
  BY <1>2, <1>3 DEF Create, Called, Turn, Defers
<1>5. CASE /\ i.node \notin DOMAIN T
           /\ Local(CreateDirEnt(T, i.node, i.entry), {i.node, Parent[i.node]})
  <2>1. PICK n \in Nodes, e \in Version : n = i.node /\ e = i.entry
    BY <1>3 DEF Turn
  <2>2. Flags /\ IsTree(T) /\ UNCHANGED clock
    BY <1>1, <1>4, TargetIs, CalledLists DEF Types
  <2>3. PICK U : U = CreateDirEnt(T, n, e)
    OBVIOUS
  <2>4. /\ Altered(T, U, {n, Parent[n]}, {Owner, e.group})
        /\ DOMAIN U = DOMAIN T \cup Above[n] \cup {n}
    <3>1. setting \in Settings /\ clock' \in 0..MaxClock
      BY <2>2, Clock DEF Flags
    <3> QED
      BY <1>5, <2>1, <2>2, <2>3, <3>1, AlteredByCreate
  <2>5. Rooted(T) => Rooted(U)
    BY <2>2, <2>4, RootedWith
  <2>6. Restores({Owner, i.entry.group})
    BY <1>1, <1>5, <2>1, <2>3, <2>4, <2>5 DEF Restores
  <2> QED
    BY <1>3, <1>4, <2>6 DEF CreateOn, Turn
<1>6. CASE UNCHANGED <<trees, hidden>>
  BY <1>3, <1>4, <1>6 DEF CreateOn, Restores, Turn
<1> QED
  BY <1>2, <1>5, <1>6

FetchOpenOn(i) ==
  /\ Turn(i) /\ i.op = "fetch" /\ Called(i)
  /\ UNCHANGED <<repo, pending, later, broken>>
  /\ Restores({Owner})
  /\ Seen(i.node, job.when) # {}
  /\ \/ /\ UNCHANGED <<todo, bad, failed>>
        /\ sending' = [node |-> i.node, entry |-> VersionAt(i.node, job.when), item |-> i]
     \/ Fails(i) /\ UNCHANGED sending

LEMMA FetchOpenDoes ==
  ASSUME Types, FetchOpen
  PROVE  \E i \in Item : FetchOpenOn(i)
<1>1. PICK T : T = trees[Target]
  OBVIOUS
<1>2. PICK i \in Due("fetch") :
       LET n == i.node
           P == PathCreate(T, n)
           v == VersionAt(n, job.when)
       IN \/ /\ n \notin DOMAIN P \/ setting.overwrite
             /\ Local(IF n \in DOMAIN P
                      THEN [Stamped(P, n) EXCEPT ![n].content = Nothing]
                      ELSE Placed(P, n, New(DefaultMode, Nothing)), {n, Parent[n]})
             /\ sending' = [node |-> n, entry |-> v, item |-> i]
             /\ Fine
             /\ UNCHANGED <<todo, bad, failed>>
          \/ /\ IF n \in DOMAIN P /\ ~setting.overwrite THEN Fine ELSE Fault
             /\ Local(P, {})
             /\ Fails(i)
             /\ UNCHANGED sending
  BY <1>1, Zenon DEF FetchOpen
<1>3. Turn(i) /\ i.op = "fetch"
  BY TurnIs
<1>4. PICK n \in Nodes : n = i.node
  BY <1>3 DEF Turn
<1>4p. PICK p : p = Parent[n]
  OBVIOUS
<1>5. PICK P : P = PathCreate(T, n)
  OBVIOUS
<1>6. \/ /\ Local(IF n \in DOMAIN P THEN Written(P, n, Nothing)
                                    ELSE Placed(P, n, New(DefaultMode, Nothing)), {n, p})
         /\ sending' = [node |-> n, entry |-> VersionAt(n, job.when), item |-> i]
         /\ Fine
         /\ UNCHANGED <<todo, bad, failed>>
      \/ /\ Fine \/ Fault
         /\ Local(P, {})
         /\ Fails(i)
         /\ UNCHANGED sending
  BY <1>2, <1>4, <1>4p, <1>5, Zenon DEF Written
<1>7. Called(i) /\ UNCHANGED <<repo, pending, later, broken>>
  BY <1>3, <1>6 DEF FetchOpen, Called, Turn
<1>8. Flags /\ IsTree(T) /\ UNCHANGED clock /\ clock' \in 0..MaxClock
  BY <1>1, <1>7, TargetIs, CalledLists, Clock DEF Types
<1>9. Altered(T, P, {}, {}) /\ DOMAIN P = DOMAIN T \cup Above[n]
  BY <1>5, <1>8, AlteredByPath
<1>10. IsTree(P)
  BY <1>9 DEF Altered
<1>11. Seen(i.node, job.when) # {}
  BY <1>3 DEF Types, Ops, Turn
<1>12. ASSUME NEW U, NEW S, Local(U, S), Altered(P, U, S, {Owner}),
              DOMAIN U = DOMAIN P \/ DOMAIN U = DOMAIN P \cup {n}
       PROVE  Restores({Owner})
  <2>1. Altered(T, U, S, {Owner})
    <3>1. DOMAIN T \subseteq DOMAIN P
      BY <1>9
    <3> QED
      BY <1>8, <1>9, <1>12, <3>1, AlteredTwice
  <2>2. Rooted(T) => Rooted(U)
    <3>1. DOMAIN U = DOMAIN T \cup Above[n] \/ DOMAIN U = DOMAIN T \cup Above[n] \cup {n}
      BY <1>9, <1>12
    <3> QED
      BY <1>8, <3>1, RootedWith
  <2> QED
    BY <1>1, <1>12, <2>1, <2>2 DEF Restores
<1>13. Nothing \in Bytes /\ DefaultMode \in Modes
  BY TreeAssumption DEF Bytes
<1>14. CASE /\ Local(IF n \in DOMAIN P THEN Written(P, n, Nothing)
                                      ELSE Placed(P, n, New(DefaultMode, Nothing)), {n, p})
            /\ sending' = [node |-> n, entry |-> VersionAt(n, job.when), item |-> i]
            /\ UNCHANGED <<todo, bad, failed>>
  <2>1. ASSUME n \in DOMAIN P
        PROVE  Restores({Owner})
    <3>1. PICK U : U = Written(P, n, Nothing)
      OBVIOUS
    <3>2. p \in Nodes => ~IsFile(p)
      BY <1>4p, ParentIsOther
    <3>3. Altered(P, U, {n, p}, {}) /\ DOMAIN U = DOMAIN P
      BY <1>8, <1>10, <1>13, <2>1, <3>1, <3>2, AlteredByWritten
    <3>4. Altered(P, U, {n, p}, {Owner})
      BY <3>3, AlteredMore
    <3>5. Local(U, {n, p})
      BY <1>14, <2>1, <3>1
    <3> QED
      BY <1>12, <3>3, <3>4, <3>5
  <2>2. ASSUME n \notin DOMAIN P
        PROVE  Restores({Owner})
    <3>1. PICK w : w = New(DefaultMode, Nothing)
      OBVIOUS
    <3>2. w \in Node /\ w.ctime = clock' /\ w.group = Owner
      BY <1>8, <1>13, <3>1, NewIs
    <3>3. PICK U : U = Placed(P, n, w)
      OBVIOUS
    <3>4. Altered(P, U, {n, p}, {Owner}) /\ DOMAIN U = DOMAIN P \cup {n}
      BY <1>4p, <1>8, <1>10, <2>2, <3>2, <3>3, AlteredByPlaced
    <3>5. Local(U, {n, p})
      BY <1>14, <2>2, <3>1, <3>3
    <3> QED
      BY <1>12, <3>4, <3>5
  <2>3. Restores({Owner})
    BY <2>1, <2>2
  <2> QED
    BY <1>3, <1>4, <1>7, <1>11, <1>14, <2>3 DEF FetchOpenOn, Turn
<1>15. CASE Local(P, {}) /\ Fails(i) /\ UNCHANGED sending
  <2>1. Restores({Owner})
    <3>1. Altered(T, P, {}, {Owner})
      BY <1>9, AlteredMore
    <3>2. Rooted(T) => Rooted(P)
      BY <1>8, <1>9, RootedWith
    <3> QED
      BY <1>1, <1>15, <3>1, <3>2 DEF Restores
  <2> QED
    BY <1>3, <1>7, <1>11, <1>15, <2>1 DEF FetchOpenOn, Turn
<1> QED
  BY <1>6, <1>14, <1>15

FetchFillOn ==
  LET i == sending.item
  IN /\ job.kind = "restore" /\ sending \in Transfer /\ pc = "work"
     /\ i \in Item /\ Called(i) /\ sending' = NoFile
     /\ UNCHANGED <<repo, pending, later, broken>>
     /\ Restores({Owner, sending.entry.group})
     /\ Succeeds(i) \/ Fails(i)

LEMMA FetchFillDoes ==
  ASSUME Types, FetchFill
  PROVE  FetchFillOn
<1>1. PICK T : T = trees[Target]
  OBVIOUS
<1>2. /\ job.kind = "restore" /\ sending # NoFile /\ sending' = NoFile
      /\ Working /\ UNCHANGED <<repo, pending, later, broken>>
  BY DEF FetchFill
<1>3. sending \in Transfer /\ pc = "work"
  BY <1>2 DEF Types, Queues, Between
<1>4. PICK n \in Nodes, v \in Version, i \in Item :
        n = sending.node /\ v = sending.entry /\ i = sending.item
  BY <1>3 DEF Transfer
<1> DEFINE With(bytes) == IF n \in DOMAIN T
                          THEN [Stamped(T, n) EXCEPT ![n].content = bytes]
                          ELSE T
<1>5. \/ /\ n \in DOMAIN T
         /\ Local(ModifyDirEnt(With(Received(v)), n, v), {n})
         /\ Succeeds(i) /\ Fine
      \/ /\ Local(With(Received(v)), {n} \cap DOMAIN T)
         /\ Fails(i) /\ Fine
      \/ /\ Local(With(Half), {n} \cap DOMAIN T)
         /\ Fails(i) /\ Fault
  BY <1>1, <1>4, Zenon DEF FetchFill
<1>6. Called(i)
  BY <1>2, <1>3, <1>5 DEF Called
<1>7. Flags /\ IsTree(T) /\ UNCHANGED clock /\ clock' \in 0..MaxClock
  BY <1>1, <1>6, TargetIs, CalledLists, Clock DEF Types
<1>8. Received(v) \in Bytes /\ Half \in Bytes
  BY DEF Received, Version, Bytes
<1>9. ASSUME NEW b \in Bytes
      PROVE  /\ Altered(T, With(b), {n} \cap DOMAIN T, {})
             /\ DOMAIN With(b) = DOMAIN T
             /\ n \in DOMAIN T => With(b) = Written(T, n, b)
  <2>1. CASE n \in DOMAIN T
    <3>1. With(b) = Written(T, n, b)
      BY <2>1 DEF Written
    <3>2. Altered(T, Written(T, n, b), {n}, {}) /\ DOMAIN Written(T, n, b) = DOMAIN T
      <4>1. PICK q : q = Parent[n]
        OBVIOUS
      <4>2. q \in Nodes => ~IsFile(q)
        BY <4>1, ParentIsOther
      <4> QED
        BY <1>7, <2>1, <4>2, AlteredByWritten
    <3>3. {n} \cap DOMAIN T = {n}
      BY <2>1
    <3> HIDE DEF With
    <3> QED
      BY <2>1, <3>1, <3>2, <3>3
  <2>2. CASE n \notin DOMAIN T
    <3>1. Altered(T, T, {}, {})
      BY <1>7 DEF Altered
    <3>2. With(b) = T /\ {n} \cap DOMAIN T = {}
      BY <2>2
    <3> HIDE DEF With
    <3> QED
      BY <2>2, <3>1, <3>2
  <2> QED
    BY <2>1, <2>2
<1>10. PICK b \in Bytes : b = Received(v)
  BY <1>8
<1>11. \/ /\ n \in DOMAIN T
          /\ Local(ModifyDirEnt(Written(T, n, b), n, v), {n})
          /\ Succeeds(i)
       \/ \E c \in Bytes : Local(With(c), {n} \cap DOMAIN T) /\ Fails(i)
  <2>1. n \in DOMAIN T => With(Received(v)) = Written(T, n, b)
    BY <1>9, <1>10
  <2> HIDE DEF With
  <2> QED
    BY <1>5, <1>8, <2>1
<1> HIDE DEF With
<1>12. CASE \E c \in Bytes : Local(With(c), {n} \cap DOMAIN T) /\ Fails(i)
  <2>1. PICK c \in Bytes : Local(With(c), {n} \cap DOMAIN T) /\ Fails(i)
    BY <1>12
  <2>2. PICK U, S : U = With(c) /\ S = {n} \cap DOMAIN T
    OBVIOUS
  <2>3. Altered(T, U, S, {}) /\ DOMAIN U = DOMAIN T
    BY <1>9, <2>2
  <2>4. Altered(T, U, S, {Owner, v.group})
    BY <2>3, AlteredMore
  <2>5. Rooted(T) => Rooted(U)
    BY <1>7, <2>3, RootedWith
  <2>6. Restores({Owner, v.group})
    BY <1>1, <2>1, <2>2, <2>4, <2>5 DEF Restores
  <2> QED
    BY <1>2, <1>3, <1>4, <1>6, <2>1, <2>6 DEF FetchFillOn
<1>13. CASE /\ n \in DOMAIN T
            /\ Local(ModifyDirEnt(Written(T, n, b), n, v), {n})
            /\ Succeeds(i)
  <2>1. PICK W : W = Written(T, n, b)
    OBVIOUS
  <2>2. Altered(T, W, {n}, {}) /\ DOMAIN W = DOMAIN T
    BY <1>9, <1>13, <2>1
  <2>3. IsTree(W) /\ n \in DOMAIN W /\ setting \in Settings
    BY <1>7, <1>13, <2>2 DEF Altered, Flags
  <2>4. PICK U : U = ModifyDirEnt(W, n, v)
    OBVIOUS
  <2>5. Altered(W, U, {n}, {v.group}) /\ DOMAIN U = DOMAIN W
    BY <1>7, <2>3, <2>4, AlteredByModify
  <2>6. Altered(T, U, {n}, {v.group})
    BY <1>7, <2>2, <2>5, AlteredTwice
  <2>7. Altered(T, U, {n}, {Owner, v.group})
    BY <2>6, AlteredMore
  <2>8. Rooted(T) => Rooted(U)
    BY <1>7, <2>2, <2>5, RootedWith
  <2>9. Restores({Owner, v.group})
    BY <1>1, <1>13, <2>1, <2>4, <2>7, <2>8 DEF Restores
  <2> QED
    BY <1>2, <1>3, <1>4, <1>6, <1>13, <2>9 DEF FetchFillOn
<1> QED
  BY <1>11, <1>12, <1>13

-----------------------------------------------------------------------------
(* The other steps.                                                        *)

ModifyLaterOn ==
  /\ pc = "final" /\ later # <<>> /\ Head(later) \in Late
  /\ Steady /\ (Fault \/ Fine)
  /\ UNCHANGED <<repo, pending, pc, dirs, here, todo, sending, bad, broken, failed>>
  /\ Restores({Owner, Head(later).entry.group})
  /\ later' \in {Tail(later), <<>>} /\ later' \in Seq(Late)
  /\ untold' \subseteq Nodes

LEMMA ModifyLaterDoes ==
  ASSUME Types, ModifyLater
  PROVE  ModifyLaterOn
<1>1. PICK T, x : T = trees[Target] /\ x = Head(later)
  OBVIOUS
<1>2. /\ pc = "final" /\ later # <<>> /\ Steady
      /\ UNCHANGED <<repo, pending, pc, dirs, here, todo, sending, bad, broken, failed>>
  BY DEF ModifyLater
<1>3. \/ /\ x.node \in DOMAIN T
         /\ Local(ModifyDirEnt(T, x.node, x.entry), {x.node})
         /\ later' = Tail(later)
         /\ Fine
         /\ UNCHANGED untold
      \/ /\ Fault \/ Fine
         /\ untold' = untold \cup IF setting.ignoreErrors THEN {x.node}
                                  ELSE {later[i].node : i \in DOMAIN later}
         /\ later' = IF setting.ignoreErrors THEN Tail(later) ELSE <<>>
         /\ UNCHANGED <<trees, hidden>>
  BY <1>1, Zenon DEF ModifyLater
<1>4. later \in Seq(Late) /\ Flags /\ Trees /\ untold \subseteq Nodes
  BY DEF Types, Queues, Marks
<1>5. x \in Late /\ Tail(later) \in Seq(Late) /\ <<>> \in Seq(Late)
  BY <1>1, <1>2, <1>4, HeadTailProperties, EmptySeq
<1>6. PICK n \in Nodes, e \in Version : n = x.node /\ e = x.entry
  BY <1>5 DEF Late
<1>7. \A i \in DOMAIN later : later[i].node \in Nodes
  <2>1. \A i \in DOMAIN later : later[i] \in Late
    BY <1>4, LenProperties, ElementOfSeq
  <2> QED
    BY <2>1 DEF Late
<1>8. untold' \subseteq Nodes
  BY <1>3, <1>4, <1>6, <1>7
<1>9. later' \in {Tail(later), <<>>} /\ (Fault \/ Fine)
  BY <1>3
<1>10. Restores({Owner, e.group})
  <2>1. CASE UNCHANGED <<trees, hidden>>
    BY <2>1 DEF Restores
  <2>2. CASE n \in DOMAIN T /\ Local(ModifyDirEnt(T, n, e), {n})
    <3>1. IsTree(T) /\ setting \in Settings /\ clock' \in 0..MaxClock
      BY <1>1, <1>2, <1>4, TargetIs, Clock DEF Flags, Steady
    <3>2. PICK U : U = ModifyDirEnt(T, n, e)
      OBVIOUS
    <3>3. Altered(T, U, {n}, {e.group}) /\ DOMAIN U = DOMAIN T
      BY <2>2, <3>1, <3>2, AlteredByModify
    <3>4. Altered(T, U, {n}, {Owner, e.group})
      BY <3>3, AlteredMore
    <3>5. Rooted(T) => Rooted(U)
      BY <3>1, <3>3, RootedWith
    <3> QED
      BY <1>1, <2>2, <3>2, <3>4, <3>5 DEF Restores
  <2> QED
    BY <1>3, <1>6, <2>1, <2>2
<1> QED
  BY <1>1, <1>2, <1>5, <1>6, <1>8, <1>9, <1>10 DEF ModifyLaterOn

\* The owner of the tree changes it.
EditOn ==
  /\ UNCHANGED <<setting, repo, pending, session, job, pc, work, result, jobs, faults,
                 asOf, missing, broken, failed, untold>>
  /\ Time /\ edits' \in 0..setting.budget.edits /\ settled' = FALSE
  /\ Trees'
  /\ Rooted(home) => Rooted(home')
  /\ \E S : /\ S \subseteq Nodes \cup {Root} /\ S # {}
            /\ dirty' = dirty \cup S
            /\ Altered(home, home', S, {setting.group})
            /\ hidden' = Hidden(S)

LEMMA EditedIs ==
  ASSUME Flags, Trees, Time, NEW T, NEW S, Edited(T, S),
         S \subseteq Nodes \cup {Root}, S # {}, Altered(home, T, S, {setting.group}),
         Rooted(home) => Rooted(T)
  PROVE  EditOn
<1>1. trees' = [trees EXCEPT !["home"] = T] /\ IsTree(T)
  BY DEF Edited, Altered
<1>2. trees' = [home |-> T, away |-> trees.away]
  BY <1>1 DEF Trees, home
<1>3. home' = T /\ trees'.away = trees.away
  BY <1>2 DEF home
<1>4. Trees'
  BY <1>1, <1>2, <1>3 DEF Trees
<1>5. edits' \in 0..setting.budget.edits
  <2>1. setting.budget.edits \in Nat /\ edits \in 0..setting.budget.edits
    BY SettingIs DEF Flags
  <2> QED
    BY <2>1 DEF Edited
<1> QED
  BY <1>3, <1>4, <1>5 DEF Edited, EditOn

LEMMA EditDoes ==
  ASSUME Types, Edit
  PROVE  EditOn
<1>1. Flags /\ Trees /\ IsTree(home) /\ Time /\ clock' \in 0..MaxClock
  BY Clock DEF Types, Trees, Edit
<1>2. PICK n \in Nodes : \/ \E c \in Contents : UserCreates(n, c) \/ UserWrites(n, c)
                         \/ \E m \in Modes : UserChmods(n, m)
                         \/ UserRemoves(n)
  BY DEF Edit
<1>3. PICK p : p = Parent[n]
  OBVIOUS
<1>4. p \in Nodes \cup {Root} /\ (p \in Nodes => ~IsFile(p))
  BY <1>3, Parents, ParentIsOther
<1>5. ASSUME NEW c \in Contents, UserCreates(n, c)
      PROVE  EditOn
  <2>1. n \notin DOMAIN home /\ Above[n] \subseteq DOMAIN home
    BY <1>5 DEF UserCreates
  <2>2. PICK b \in Bytes : b = IF IsDir(n) THEN Nothing ELSE c
    BY DEF Bytes
  <2>3. PICK g \in {Owner, "staff"} : g = setting.group
    BY <1>1, SettingIs DEF Flags
  <2>4. PICK r \in Node : r = New(DefaultMode, b)
    BY <1>1, NewIs, TreeAssumption
  <2>5. r.ctime = clock'
    BY <2>4 DEF New
  <2>6. PICK w \in Node : w = [r EXCEPT !.group = g]
    BY DEF Node
  <2>7. w.group = g /\ w.ctime = clock'
    BY <2>5, <2>6 DEF Node
  <2>8. PICK T : T = Placed(home, n, w)
    OBVIOUS
  <2>9. Altered(home, T, {n, p}, {g}) /\ DOMAIN T = DOMAIN home \cup {n}
    BY <1>1, <1>3, <2>1, <2>7, <2>8, AlteredByPlaced
  <2>10. Edited(T, {n, p})
    BY <1>3, <1>5, <2>2, <2>3, <2>4, <2>6, <2>8 DEF UserCreates
  <2>11. Rooted(home) => Rooted(T)
    <3>1. DOMAIN T = DOMAIN home \cup Above[n] \cup {n}
      BY <2>1, <2>9
    <3> QED
      BY <1>1, <3>1, RootedWith
  <2> QED
    BY <1>1, <1>4, <2>3, <2>9, <2>10, <2>11, EditedIs
<1>6. ASSUME NEW c \in Contents, UserWrites(n, c)
      PROVE  EditOn
  <2>1. n \in DOMAIN home /\ c \in Bytes /\ Edited(Written(home, n, c), {n})
    BY <1>6 DEF UserWrites, Bytes, Written
  <2>2. PICK T : T = Written(home, n, c)
    OBVIOUS
  <2>3. Altered(home, T, {n}, {}) /\ DOMAIN T = DOMAIN home
    BY <1>1, <1>4, <2>1, <2>2, AlteredByWritten
  <2>4. Altered(home, T, {n}, {setting.group})
    BY <2>3, AlteredMore
  <2>5. Rooted(home) => Rooted(T)
    BY <1>1, <2>3, RootedWith
  <2> QED
    BY <1>1, <2>1, <2>2, <2>4, <2>5, EditedIs
<1>7. ASSUME NEW m \in Modes, UserChmods(n, m)
      PROVE  EditOn
  <2>1. PICK T : T = [home EXCEPT ![n].mode = m, ![n].ctime = clock']
    OBVIOUS
  <2>2. n \in DOMAIN home /\ Edited(T, {n})
    BY <1>7, <2>1 DEF UserChmods
  <2>3. Altered(home, T, {n}, {}) /\ DOMAIN T = DOMAIN home
    BY <1>1, <2>1, <2>2, AlteredByChmod
  <2>4. Altered(home, T, {n}, {setting.group})
    BY <2>3, AlteredMore
  <2>5. Rooted(home) => Rooted(T)
    BY <1>1, <2>3, RootedWith
  <2> QED
    BY <1>1, <2>2, <2>4, <2>5, EditedIs
<1>8. ASSUME UserRemoves(n)
      PROVE  EditOn
  <2>1. /\ n \in DOMAIN home /\ \A m \in DOMAIN home : n \notin Above[m]
        /\ Edited(Taken(home, n), {n, p})
    BY <1>3, <1>8 DEF UserRemoves
  <2>2. PICK T : T = Taken(home, n)
    OBVIOUS
  <2>3. Altered(home, T, {n, p}, {}) /\ DOMAIN T = DOMAIN home \ {n}
    BY <1>1, <1>3, <2>2, AlteredByTaken
  <2>4. Altered(home, T, {n, p}, {setting.group})
    BY <2>3, AlteredMore
  <2>5. Rooted(home) => Rooted(T)
    BY <2>1, <2>3 DEF Rooted
  <2> QED
    BY <1>1, <1>4, <2>1, <2>2, <2>4, <2>5, EditedIs
<1> QED
  BY <1>2, <1>5, <1>6, <1>7, <1>8

\* The directories in some order.
LEMMA OrderIs ==
  ASSUME NEW S \in SUBSET Nodes, NEW order \in SetToSeqs(S)
  PROVE  /\ order \in Seq(S)
         /\ \A d \in S : \E k \in 1..Len(order) : order[k] = d
<1>1. IsFiniteSet(S) /\ Cardinality(S) \in Nat
  BY TreeAssumption, FS_Subset, FS_CardinalityType
<1>2. PICK c \in Nat : c = Cardinality(S)
  BY <1>1
<1>3. order \in [1..c -> S] /\ \A i, j \in 1..c : i # j => order[i] # order[j]
  BY <1>2 DEF SetToSeqs
<1>4. order \in Seq(S) /\ Len(order) = c
  BY <1>3
<1>5. order \in Injection(1..c, S)
  BY <1>3 DEF Injection, IsInjective
<1>6. Cardinality(1..c) = c
  BY <1>2, FS_Interval
<1>7. order \in Surjection(1..c, S)
  BY <1>1, <1>2, <1>5, <1>6, FS_Injection
<1> QED
  BY <1>4, <1>7 DEF Surjection

LEMMA SubDirsAre ==
  ASSUME NEW d
  PROVE  SubDirs(d) \subseteq {n \in Nodes : Parent[n] = d /\ IsDir(n)}
BY DEF SubDirs, In

LEMMA ScannedIs ==
  ASSUME dirs \in Seq(Nodes \cup {Root}), NEW S \in SUBSET Nodes, NEW order \in SetToSeqs(S)
  PROVE  /\ Scanned(order) \in Seq(Nodes \cup {Root})
         /\ \A k \in DOMAIN Scanned(order) :
              Scanned(order)[k] \in S \/ \E j \in DOMAIN dirs : Scanned(order)[k] = dirs[j]
         /\ \A d \in S : \E k \in DOMAIN Scanned(order) : Scanned(order)[k] = d
         /\ \A j \in DOMAIN dirs : \E k \in DOMAIN Scanned(order) : Scanned(order)[k] = dirs[j]
<1> DEFINE X == Nodes \cup {Root}
<1>1. order \in Seq(S) /\ \A d \in S : \E k \in 1..Len(order) : order[k] = d
  BY OrderIs
<1>2. order \in Seq(X) /\ dirs \in Seq(X)
  BY <1>1
<1>3. \A k \in 1..Len(order) : order[k] \in S
  BY <1>1, ElementOfSeq
<1> HIDE DEF X
<1>4. PICK a \in Nat, b \in Nat : a = Len(order) /\ b = Len(dirs)
  BY <1>2, LenProperties
<1>5. DOMAIN order = 1..a /\ DOMAIN dirs = 1..b
  BY <1>2, <1>4, LenProperties
<1>6. CASE setting.deepFirst
  <2>1. PICK t : t = order \o dirs
    OBVIOUS
  <2>2. /\ t \in Seq(X) /\ Len(t) = a + b
        /\ \A i \in 1..(a + b) : t[i] = IF i <= a THEN order[i] ELSE dirs[i - a]
    BY <1>2, <1>4, <2>1, ConcatProperties
  <2>3. DOMAIN t = 1..(a + b)
    BY <2>2, LenProperties
  <2>4. \A i \in 1..(a + b) : i <= a \/ i - a \in 1..b
    OBVIOUS
  <2>5. \A k \in 1..a : k \in 1..(a + b) /\ k <= a
    OBVIOUS
  <2>6. \A j \in 1..b : j + a \in 1..(a + b) /\ ~(j + a <= a) /\ (j + a) - a = j
    OBVIOUS
  <2>7. \A k \in DOMAIN t : t[k] \in S \/ \E j \in DOMAIN dirs : t[k] = dirs[j]
    <3> SUFFICES ASSUME NEW k \in 1..(a + b)
                 PROVE  t[k] \in S \/ \E j \in DOMAIN dirs : t[k] = dirs[j]
      BY <2>3
    <3>1. CASE k <= a
      <4>1. k \in 1..a
        BY <3>1
      <4> QED
        BY <1>3, <1>4, <2>2, <3>1, <4>1
    <3>2. CASE ~(k <= a)
      <4>1. t[k] = dirs[k - a] /\ k - a \in 1..b
        BY <2>2, <2>4, <3>2
      <4> QED
        BY <1>5, <4>1
    <3> QED
      BY <3>1, <3>2
  <2>8. \A d \in S : \E k \in DOMAIN t : t[k] = d
    BY <1>1, <1>4, <2>2, <2>3, <2>5
  <2>9. \A j \in DOMAIN dirs : \E k \in DOMAIN t : t[k] = dirs[j]
    BY <1>5, <2>2, <2>3, <2>6
  <2>10. Scanned(order) = t
    BY <1>6, <2>1 DEF Scanned
  <2> QED
    BY <2>2, <2>7, <2>8, <2>9, <2>10 DEF X
<1>7. CASE ~setting.deepFirst
  <2>1. PICK t : t = dirs \o order
    OBVIOUS
  <2>2. /\ t \in Seq(X) /\ Len(t) = b + a
        /\ \A i \in 1..(b + a) : t[i] = IF i <= b THEN dirs[i] ELSE order[i - b]
    BY <1>2, <1>4, <2>1, ConcatProperties
  <2>3. DOMAIN t = 1..(b + a)
    BY <2>2, LenProperties
  <2>4. \A i \in 1..(b + a) : (i <= b /\ i \in 1..b) \/ (~(i <= b) /\ i - b \in 1..a)
    OBVIOUS
  <2>5. \A k \in 1..b : k \in 1..(b + a) /\ k <= b
    OBVIOUS
  <2>6. \A j \in 1..a : j + b \in 1..(b + a) /\ ~(j + b <= b) /\ (j + b) - b = j
    OBVIOUS
  <2>7. \A k \in DOMAIN t : t[k] \in S \/ \E j \in DOMAIN dirs : t[k] = dirs[j]
    <3> SUFFICES ASSUME NEW k \in 1..(b + a)
                 PROVE  t[k] \in S \/ \E j \in DOMAIN dirs : t[k] = dirs[j]
      BY <2>3
    <3>1. CASE k <= b /\ k \in 1..b
      BY <1>5, <2>2, <3>1
    <3>2. CASE ~(k <= b) /\ k - b \in 1..a
      <4>1. t[k] = order[k - b]
        BY <2>2, <3>2
      <4> QED
        BY <1>3, <1>4, <3>2, <4>1
    <3> QED
      BY <2>4, <3>1, <3>2
  <2>8. \A d \in S : \E k \in DOMAIN t : t[k] = d
    <3> SUFFICES ASSUME NEW d \in S
                 PROVE  \E k \in DOMAIN t : t[k] = d
      OBVIOUS
    <3>1. PICK j \in 1..a : order[j] = d
      BY <1>1, <1>4
    <3>2. t[j + b] = d /\ j + b \in DOMAIN t
      BY <2>2, <2>3, <2>6, <3>1
    <3> QED
      BY <3>2
  <2>9. \A j \in DOMAIN dirs : \E k \in DOMAIN t : t[k] = dirs[j]
    BY <1>5, <2>2, <2>3, <2>5
  <2>10. Scanned(order) = t
    BY <1>7, <2>1 DEF Scanned
  <2> QED
    BY <2>2, <2>7, <2>8, <2>9, <2>10 DEF X
<1> QED
  BY <1>6, <1>7

-----------------------------------------------------------------------------
(* Types are kept.                                                         *)

LEMMA InitTypes ==
  ASSUME Init
  PROVE  Types
<1>1. setting \in Settings
  BY DEF Init
<1>2. PICK c : c = setting.content
  OBVIOUS
<1>3. /\ setting.names \subseteq Nodes /\ c \in Contents
      /\ setting.group \in {Owner, "staff"}
      /\ setting.budget.jobs \in Nat /\ setting.budget.edits \in Nat
      /\ setting.budget.faults \in Nat
  BY <1>1, <1>2, SettingIs
<1>4. MaxClock \in Nat \ {0} /\ DefaultMode \in Modes
  BY TreeAssumption
<1>5. Flags
  <2>1. job \in [kind: {"none", "store", "restore", "diff"}, when: 0..MaxClock]
    BY <1>4 DEF Init
  <2>2. /\ clock \in 1..MaxClock /\ jobs \in 0..setting.budget.jobs
        /\ edits \in 0..setting.budget.edits /\ faults \in 0..setting.budget.faults
    BY <1>3, <1>4 DEF Init
  <2>3. /\ session \in {"closed", "half", "open"} /\ bad \in BOOLEAN
        /\ pc \in {"idle", "enter", "scan", "work", "final"}
        /\ result \in {"none", "ok", "error", "skipped", "crashed"}
    BY DEF Init
  <2> QED
    BY <1>1, <2>1, <2>2, <2>3 DEF Flags
<1>6. Trees
  <2> DEFINE node(n) == [mode |-> DefaultMode, group |-> setting.group, mtime |-> 0, ctime |-> 0,
                         content |-> IF IsDir(n) THEN Nothing ELSE c]
             T == [n \in setting.names |-> node(n)]
  <2>1. \A n \in setting.names : node(n) \in Node
    BY <1>3, <1>4 DEF Node, Bytes
  <2>2. trees = [home |-> T, away |-> Empty]
    BY <1>2, Zenon DEF Init
  <2> HIDE DEF node
  <2>3. IsTree(T)
    BY <1>3, <2>1 DEF IsTree
  <2>4. IsTree(Empty)
    BY DEF IsTree, Empty
  <2> HIDE DEF T
  <2> QED
    BY <2>2, <2>3, <2>4 DEF Trees, home
<1>7. Repo
  <2>1. repo \in [Nodes -> Seq(Version)]
    BY EmptySeq DEF Init
  <2> QED
    BY <2>1 DEF Init, Repo, Empty
<1>8. Queues
  BY EmptySeq DEF Init, Queues
<1>9. Marks
  BY DEF Init, Marks, NoTree
<1>10. Between /\ Ops
  BY DEF Init, Between, Ops
<1> QED
  BY <1>5, <1>6, <1>7, <1>8, <1>9, <1>10 DEF Types

\* The steps that only change the session.
Rests ==
  /\ UNCHANGED <<setting, trees, repo, pending, job, pc, dirs, here, todo, sending, later, bad,
                 result, clock, jobs, edits>>
  /\ UNCHANGED <<asOf, missing, dirty, hidden, broken, failed, untold, settled>>

LEMMA RestsTypes ==
  ASSUME Types, Rests, session' \in {"closed", "half", "open"}, Fault \/ Fine
  PROVE  Types'
<1>1. Flags /\ Trees /\ Repo /\ Queues /\ Marks /\ Between /\ Ops
  BY DEF Types
<1>2. Flags'
  <2>1. faults' \in 0..setting.budget.faults
    BY <1>1, FaultsAreBounded
  <2> QED
    BY <1>1, <2>1 DEF Flags, Rests
<1>3. Trees'
  BY <1>1 DEF Trees, home, Rests
<1>4. Repo' /\ Queues' /\ Between'
  BY <1>1 DEF Repo, Queues, Between, Rests
<1>5. Marks'
  BY <1>1 DEF Marks, Rests
<1>6. Ops'
  BY <1>1 DEF Ops, Rests, Seen
<1> QED
  BY <1>2, <1>3, <1>4, <1>5, <1>6 DEF Types

LEMMA StartJobTypes ==
  ASSUME Types, NEW kind \in setting.kinds, NEW when \in 0..MaxClock, StartJob(kind, when)
  PROVE  Types'
<1>1. Flags /\ Trees /\ Repo /\ Queues /\ Marks /\ Between /\ pc = "idle"
  BY DEF Types, StartJob
<1>2. todo = {} /\ sending = NoFile /\ pending = Empty
  BY <1>1 DEF Between
<1>3. Flags'
  <2>1. kind \in {"store", "restore", "diff"} /\ setting.budget.jobs \in Nat
    BY <1>1, SettingIs DEF Flags
  <2>2. clock' \in 1..MaxClock
    BY <1>1, Clock DEF StartJob
  <2>3. jobs' \in 0..setting.budget.jobs
    BY <1>1, <2>1 DEF StartJob, Flags
  <2> QED
    BY <1>1, <2>1, <2>2, <2>3 DEF Flags, StartJob
<1>4. Trees'
  BY <1>1 DEF Trees, home, StartJob
<1>5. Repo'
  BY <1>1, <1>2 DEF Repo, StartJob
<1>6. Queues'
  <2>1. <<Root>> \in Seq(Nodes \cup {Root})
    OBVIOUS
  <2> QED
    BY <1>1, <2>1 DEF Queues, StartJob
<1>7. Marks'
  <2>1. DOMAIN asOf = 0..MaxClock
    BY <1>1 DEF Marks
  <2>2. PICK z : z = clock'
    OBVIOUS
  <2>3. asOf' = asOf \/ asOf' = [w \in 0..MaxClock |-> IF w = 0 \/ w > z THEN NoTree ELSE asOf[w]]
    BY <2>1, <2>2 DEF StartJob
  <2>4. NoTree.sure = {}
    BY DEF NoTree
  <2>5. /\ asOf' = [w \in 0..MaxClock |-> asOf'[w]]
        /\ \A w \in 0..MaxClock : asOf'[w].sure \subseteq Nodes
    BY <1>1, <2>3, <2>4 DEF Marks
  <2> QED
    BY <1>1, <2>5 DEF Marks, StartJob
<1>8. Between' /\ Ops'
  BY <1>1, <1>2 DEF Between, Ops, StartJob
<1> QED
  BY <1>3, <1>4, <1>5, <1>6, <1>7, <1>8 DEF Types

LEMMA EnterDirTypes ==
  ASSUME Types, EnterDir
  PROVE  Types'
<1>1. Flags /\ Trees /\ Repo /\ Queues /\ Marks /\ Between /\ Ops /\ pc = "enter"
  BY DEF Types, EnterDir
<1>2. todo = {} /\ sending = NoFile /\ pending = Empty
  BY <1>1 DEF Between
<1>3. CASE \E res \in {"ok", "error", "skipped"} :
             /\ EndJob(res) /\ (Fault \/ Fine)
             /\ UNCHANGED <<trees, repo, pending, session, broken, failed, untold>>
  <2>1. broken \subseteq Nodes /\ repo \in [Nodes -> Seq(Version)]
    BY <1>1 DEF Marks, Repo
  <2> QED
    BY <1>2, <1>3, <2>1, EndTypes
<1>4. CASE /\ pc' \in {"enter", "scan", "final"} /\ Steady /\ (Fault \/ Fine)
           /\ dirs' = dirs \/ (dirs # <<>> /\ dirs' = Tail(dirs))
           /\ here' = here \/ (dirs # <<>> /\ here' = Head(dirs))
           /\ UNCHANGED <<trees, repo, pending, todo, sending, later, bad, hidden, broken, failed,
                          untold>>
  <2>1. Flags'
    BY <1>1, <1>4, SteadyFlags DEF Flags
  <2>2. Trees' /\ Repo'
    BY <1>1, <1>4 DEF Trees, home, Repo, Steady
  <2>3. Queues'
    <3>1. /\ dirs \in Seq(Nodes \cup {Root}) /\ here \in Nodes \cup {Root}
          /\ todo' \subseteq Item /\ (sending' = NoFile \/ sending' \in Transfer)
          /\ later' \in Seq(Late)
      BY <1>1, <1>4 DEF Queues
    <3>2. dirs # <<>> => Head(dirs) \in Nodes \cup {Root} /\ Tail(dirs) \in Seq(Nodes \cup {Root})
      BY <3>1, HeadTailProperties
    <3>3. dirs' \in Seq(Nodes \cup {Root}) /\ here' \in Nodes \cup {Root}
      BY <1>4, <3>1, <3>2
    <3> QED
      BY <3>1, <3>3 DEF Queues
  <2>4. Marks'
    BY <1>1, <1>4, SteadyMarks DEF Marks
  <2>5. Between' /\ Ops'
    BY <1>2, <1>4 DEF Between, Ops
  <2> QED
    BY <2>1, <2>2, <2>3, <2>4, <2>5 DEF Types
<1> QED
  BY <1>3, <1>4 DEF EnterDir, Remaining, work

LEMMA ListedAreItems ==
  ASSUME Types, NEW d, NEW i \in Listed(d)
  PROVE  /\ i \in Item /\ i.node \in Nodes /\ Parent[i.node] = d /\ i.node \notin setting.ignores
         /\ ForNode(i.node, i)
         /\ i.op \in IF job.kind = "restore" THEN {"fetch", "create", "modify"}
                                             ELSE {"set", "delete", "store"}
         /\ i.op = "fetch" => Seen(i.node, job.when) # {}
         /\ i.op \in {"store", "fetch"} => IsFile(i.node)
         /\ i.op = "create" => ~IsFile(i.node)
<1>1. i.node \in In(d) \ setting.ignores /\ ForNode(i.node, i)
  BY ListedIs
<1>2. PICK n \in Nodes : n = i.node /\ Parent[n] = d
  BY <1>1 DEF In
<1>3. IsTree(home) /\ repo \in [Nodes -> Seq(Version)]
  BY DEF Types, Trees, Repo
<1>4. /\ i \in Item
      /\ i.op \in IF job.kind = "restore" THEN {"fetch", "create", "modify"}
                                          ELSE {"set", "delete", "store"}
      /\ i.op \in {"store", "fetch"} => IsFile(n)
      /\ i.op = "create" => ~IsFile(n)
  BY <1>1, <1>2, <1>3, ItemIs
<1>5. i.op = "fetch" => Seen(n, job.when) # {}
  BY <1>1, <1>2, <1>4 DEF ForNode, Used
<1> QED
  BY <1>1, <1>2, <1>4, <1>5

LEMMA ScanDirTypes ==
  ASSUME Types, ScanDir
  PROVE  Types'
<1>1. Flags /\ Trees /\ Repo /\ Queues /\ Marks /\ Between /\ pc = "scan"
  BY DEF Types, ScanDir
<1>2. todo = {} /\ sending = NoFile /\ pending = Empty
  BY <1>1 DEF Between
<1>3. /\ pc' = "work" /\ Steady
      /\ UNCHANGED <<trees, repo, pending, here, sending, later, hidden, broken>>
  BY DEF ScanDir
<1>4. todo' \subseteq Listed(here) /\ bad' \in BOOLEAN /\ (Fault \/ Fine)
  BY DEF ScanDir
<1>5. \A i \in Listed(here) : i \in Item /\ i.node \in Nodes
  BY ListedAreItems
<1>6. failed' \subseteq Nodes /\ untold' \subseteq Nodes
  <2>1. failed \subseteq Nodes /\ untold \subseteq Nodes /\ here \in Nodes \cup {Root}
    BY <1>1 DEF Marks, Queues
  <2> QED
    BY <1>5, <2>1 DEF ScanDir
<1>7. dirs' \in Seq(Nodes \cup {Root})
  <2>1. CASE UNCHANGED dirs
    BY <1>1, <2>1 DEF Queues
  <2>2. CASE ~UNCHANGED dirs
    <3>1. PICK order \in SetToSeqs(SubDirs(here)) : dirs' = Scanned(order)
      BY <2>2 DEF ScanDir
    <3>2. PICK S \in SUBSET Nodes : S = SubDirs(here)
      BY SubDirsAre
    <3> QED
      BY <1>1, <3>1, <3>2, ScannedIs DEF Queues
  <2> QED
    BY <2>1, <2>2
<1>8. Flags'
  BY <1>1, <1>3, <1>4, SteadyFlags
<1>9. Trees' /\ Repo'
  BY <1>1, <1>3 DEF Trees, home, Repo, Steady
<1>10. Queues'
  BY <1>1, <1>3, <1>4, <1>5, <1>7 DEF Queues
<1>11. Marks'
  BY <1>1, <1>3, <1>6, SteadyMarks DEF Marks
<1>12. Between'
  BY <1>3 DEF Between
<1>13. Ops'
  <2>1. UNCHANGED <<job, repo>>
    BY <1>3 DEF Steady
  <2> QED
    BY <1>4, <2>1, ListedAreItems DEF Ops, Seen
<1> QED
  BY <1>8, <1>9, <1>10, <1>11, <1>12, <1>13 DEF Types

LEMMA ShowDiffsTypes ==
  ASSUME Types, ShowDiffs
  PROVE  Types'
<1>1. Flags /\ Trees /\ Repo /\ Queues /\ Marks /\ pc = "work"
  BY DEF Types, ShowDiffs
<1>2. /\ todo' = {} /\ Steady /\ Fine /\ UNCHANGED <<pc, dirs, here, untold>>
      /\ UNCHANGED <<trees, repo, pending, sending, later, bad, hidden, broken, failed>>
  BY DEF ShowDiffs, Working
<1>3. Flags'
  BY <1>1, <1>2, SteadyFlags DEF Flags
<1>4. Trees' /\ Repo' /\ Queues'
  BY <1>1, <1>2 DEF Trees, home, Repo, Queues, Steady
<1>5. Marks'
  BY <1>1, <1>2, SteadyMarks DEF Marks
<1>6. Between' /\ Ops'
  BY <1>1, <1>2 DEF Between, Ops
<1> QED
  BY <1>3, <1>4, <1>5, <1>6 DEF Types

LEMMA NotRestore ==
  ASSUME Types, NEW i, Turn(i), i.op \in {"set", "delete", "store"}
  PROVE  job.kind # "restore"
BY DEF Types, Ops, Turn

LEMMA SetEntryTypes ==
  ASSUME Types, NEW i \in Item, SetEntryOn(i)
  PROVE  Types'
<1>1. /\ Trees /\ Repo /\ Queues /\ Marks /\ Turn(i) /\ Called(i) /\ i.node \in Nodes
      /\ UNCHANGED <<trees, pending, sending, later, hidden, broken>>
  BY DEF Types, SetEntryOn, Turn
<1>2. job.kind # "restore"
  BY NotRestore DEF SetEntryOn
<1>3. Trees'
  BY <1>1 DEF Trees, home
<1>4. Repo'
  <2>1. sending' = NoFile
    BY <1>1 DEF Turn
  <2>2. CASE UNCHANGED repo
    BY <1>1, <2>1, <2>2 DEF Repo
  <2>3. CASE \E v \in Version : Grows(i.node, v)
    <3>1. /\ repo' \in [Nodes -> Seq(Version)]
          /\ \A m \in Nodes \ {i.node} : repo'[m] = repo[m]
          /\ repo'[i.node] # <<>>
      BY <2>3 DEF Grows, Appended
    <3>2. \A n \in DOMAIN pending : pending[n] \in Bytes /\ repo'[n] # <<>>
      BY <1>1, <3>1 DEF Repo
    <3> QED
      BY <1>1, <2>1, <3>1, <3>2 DEF Repo
  <2> QED
    BY <2>2, <2>3 DEF SetEntryOn
<1>5. /\ sending' = NoFile \/ sending' \in Transfer
      /\ later' \in Seq(Late) /\ hidden' \subseteq Nodes /\ broken' \subseteq Nodes
  BY <1>1 DEF Queues, Marks
<1> QED
  BY <1>1, <1>2, <1>3, <1>4, <1>5, CalledTypes

LEMMA StoreOpenTypes ==
  ASSUME Types, NEW i \in Item, StoreOpenOn(i)
  PROVE  Types'
<1>1. /\ Trees /\ Repo /\ Queues /\ Marks /\ Turn(i) /\ Called(i) /\ i.node \in Nodes
      /\ UNCHANGED <<trees, pending, later, hidden>>
  BY DEF Types, StoreOpenOn, Turn
<1>2. job.kind # "restore"
  BY NotRestore DEF StoreOpenOn
<1>3. Trees'
  BY <1>1 DEF Trees, home
<1>4. sending' = NoFile \/ (sending' \in Transfer /\ sending'.node = i.node /\ repo'[i.node] # <<>>)
  <2>1. CASE UNCHANGED sending
    BY <1>1, <2>1 DEF Turn
  <2>2. CASE \E v \in Version : /\ sending' = [node |-> i.node, entry |-> v, item |-> i]
                                /\ Grows(i.node, v)
    BY <1>1, <2>2 DEF Transfer, Grows, Appended
  <2> QED
    BY <2>1, <2>2 DEF StoreOpenOn
<1>5. Repo'
  <2>1. CASE UNCHANGED repo
    BY <1>1, <1>4, <2>1 DEF Repo
  <2>2. CASE \E v \in Version : Grows(i.node, v)
    <3>1. /\ repo' \in [Nodes -> Seq(Version)]
          /\ \A m \in Nodes \ {i.node} : repo'[m] = repo[m]
          /\ repo'[i.node] # <<>>
      BY <2>2 DEF Grows, Appended
    <3>2. \A n \in DOMAIN pending : pending[n] \in Bytes /\ repo'[n] # <<>>
      BY <1>1, <3>1 DEF Repo
    <3> QED
      BY <1>1, <1>4, <3>1, <3>2 DEF Repo
  <2> QED
    BY <2>1, <2>2 DEF StoreOpenOn
<1>6. later' \in Seq(Late) /\ hidden' \subseteq Nodes /\ broken' \subseteq Nodes
  BY <1>1 DEF Queues, Marks, StoreOpenOn
<1> QED
  BY <1>1, <1>2, <1>3, <1>4, <1>5, <1>6, CalledTypes

LEMMA StoreTransferTypes ==
  ASSUME Types, StoreTransferOn
  PROVE  Types'
<1>1. PICK n \in Nodes, i \in Item : n = sending.node /\ i = sending.item
  BY DEF StoreTransferOn
<1>2. /\ Trees /\ Repo /\ Queues /\ Marks /\ Called(i) /\ job.kind = "store" /\ repo[n] # <<>>
      /\ UNCHANGED <<trees, later, hidden>> /\ sending' = NoFile
  BY <1>1 DEF Types, StoreTransferOn
<1>3. Trees' /\ IsTree(home)
  BY <1>2 DEF Trees, home
<1>4. /\ repo' \in [Nodes -> Seq(Version)]
      /\ \A m \in Nodes : repo[m] # <<>> => repo'[m] # <<>>
  <2>1. CASE UNCHANGED repo
    BY <1>2, <2>1 DEF Repo
  <2>2. CASE \E v \in Version : Refills(n, v)
    BY <2>2 DEF Refills, Relast
  <2> QED
    BY <1>1, <2>1, <2>2 DEF StoreTransferOn
<1>5. /\ DOMAIN pending' \subseteq Nodes /\ pending' = [m \in DOMAIN pending' |-> pending'[m]]
      /\ \A m \in DOMAIN pending' : pending'[m] \in Bytes /\ repo[m] # <<>>
  <2>1. CASE UNCHANGED pending
    BY <1>2, <2>1 DEF Repo
  <2>2. CASE n \in DOMAIN home /\ pending' = Put(pending, n, home[n].content)
    <3>1. PICK b \in Bytes : b = home[n].content
      BY <1>3, <2>2, NodeFields DEF IsTree
    <3>2. /\ pending = [m \in DOMAIN pending |-> pending[m]] /\ DOMAIN pending \subseteq Nodes
          /\ \A m \in DOMAIN pending : pending[m] \in Bytes /\ repo[m] # <<>>
      BY <1>2 DEF Repo
    <3>3. PICK Q : Q = Put(pending, n, b)
      OBVIOUS
    <3>4. /\ DOMAIN Q = DOMAIN pending \cup {n} /\ Q = [m \in DOMAIN Q |-> Q[m]]
          /\ Q[n] = b /\ \A m \in DOMAIN pending : m # n => Q[m] = pending[m]
      BY <3>2, <3>3 DEF Put
    <3>5. pending' = Q
      BY <2>2, <3>1, <3>3
    <3> QED
      BY <1>2, <3>2, <3>4, <3>5
  <2> QED
    BY <1>1, <2>1, <2>2 DEF StoreTransferOn
<1>6. Repo'
  BY <1>2, <1>4, <1>5 DEF Repo
<1>7. later' \in Seq(Late) /\ hidden' \subseteq Nodes /\ broken' \subseteq Nodes
  BY <1>1, <1>2 DEF Queues, Marks, StoreTransferOn
<1> QED
  BY <1>2, <1>3, <1>6, <1>7, CalledTypes

\* A call of a restore, and what it is for.
RestoreCall(i, g) ==
  /\ i \in Item /\ Called(i) /\ UNCHANGED <<repo, pending, broken>>
  /\ Restores({Owner, g})

LEMMA RestoreCallTypes ==
  ASSUME Types, NEW i, NEW g, RestoreCall(i, g), later' \in Seq(Late),
         sending' = NoFile \/ (sending' \in Transfer /\ job.kind # "store")
  PROVE  Types'
<1>1. Flags /\ Trees /\ Repo /\ Marks /\ UNCHANGED <<setting, job>> /\ hidden \subseteq Nodes
  BY CalledLists DEF Types, Marks, RestoreCall
<1>2. Trees' /\ hidden' \subseteq Nodes
  BY <1>1, RestoresIs DEF RestoreCall
<1>3. Repo'
  BY <1>1 DEF Repo, RestoreCall
<1>4. broken' \subseteq Nodes
  BY <1>1 DEF Marks, RestoreCall
<1> QED
  BY <1>2, <1>3, <1>4, CalledTypes DEF RestoreCall

LEMMA DefersIs ==
  ASSUME Types, NEW i, Turn(i), Defers(i)
  PROVE  later' \in Seq(Late)
<1>1. later \in Seq(Late) /\ i.node \in Nodes /\ i.entry \in Version
  BY DEF Types, Queues, Turn
<1>2. PICK x \in Late : x = [node |-> i.node, entry |-> i.entry]
  BY <1>1 DEF Late
<1>3. <<x>> \in Seq(Late)
  OBVIOUS
<1>4. <<x>> \o later \in Seq(Late)
  BY <1>1, <1>3, ConcatProperties
<1> QED
  BY <1>1, <1>2, <1>4 DEF Defers, Deferred

LEMMA ModifyCall ==
  ASSUME Types, NEW i \in Item, ModifyOn(i)
  PROVE  RestoreCall(i, i.entry.group) /\ Types'
<1>1. RestoreCall(i, i.entry.group) /\ later' \in Seq(Late) /\ sending' = NoFile
  BY DefersIs DEF ModifyOn, RestoreCall, Turn
<1> QED
  BY <1>1, RestoreCallTypes

LEMMA CreateCall ==
  ASSUME Types, NEW i \in Item, CreateOn(i)
  PROVE  RestoreCall(i, i.entry.group) /\ Types'
<1>1. RestoreCall(i, i.entry.group) /\ later' \in Seq(Late) /\ sending' = NoFile
  BY DefersIs DEF CreateOn, RestoreCall, Turn
<1> QED
  BY <1>1, RestoreCallTypes

LEMMA FetchOpenCall ==
  ASSUME Types, NEW i \in Item, FetchOpenOn(i)
  PROVE  RestoreCall(i, Owner) /\ Types'
<1>1. RestoreCall(i, Owner)
  BY DEF FetchOpenOn, RestoreCall
<1>2. later' \in Seq(Late) /\ job.kind # "store"
  <2>1. later \in Seq(Late) /\ Ops
    BY DEF Types, Queues
  <2>2. i \in todo /\ i.op = "fetch" /\ UNCHANGED later
    BY DEF FetchOpenOn, Turn
  <2> QED
    BY <2>1, <2>2 DEF Ops
<1>3. sending' = NoFile \/ sending' \in Transfer
  <2>1. CASE UNCHANGED sending
    BY <2>1 DEF FetchOpenOn, Turn
  <2>2. CASE sending' = [node |-> i.node, entry |-> VersionAt(i.node, job.when), item |-> i]
    <3>1. PICK n \in Nodes : n = i.node
      BY DEF Item
    <3>2. repo[n] \in Seq(Version) /\ Seen(n, job.when) # {}
      BY <3>1 DEF Types, Repo, FetchOpenOn
    <3>3. PICK v \in Version : v = VersionAt(n, job.when)
      BY <3>2, VersionAtIs
    <3> QED
      BY <2>2, <3>1, <3>3 DEF Transfer
  <2> QED
    BY <2>1, <2>2 DEF FetchOpenOn
<1> QED
  BY <1>1, <1>2, <1>3, RestoreCallTypes

LEMMA FetchFillCall ==
  ASSUME Types, FetchFillOn
  PROVE  RestoreCall(sending.item, sending.entry.group) /\ Types'
<1>1. RestoreCall(sending.item, sending.entry.group) /\ sending' = NoFile
  BY DEF FetchFillOn, RestoreCall
<1>2. later' \in Seq(Late)
  BY DEF FetchFillOn, Types, Queues
<1> QED
  BY <1>1, <1>2, RestoreCallTypes

LEMMA ModifyLaterTypes ==
  ASSUME Types, ModifyLaterOn
  PROVE  Types'
<1>1. /\ Flags /\ Trees /\ Repo /\ Queues /\ Marks /\ Between /\ pc = "final" /\ Steady
      /\ (Fault \/ Fine)
      /\ UNCHANGED <<repo, pending, pc, dirs, here, todo, sending, bad, broken, failed>>
      /\ later' \in Seq(Late) /\ untold' \subseteq Nodes /\ hidden \subseteq Nodes
  BY DEF Types, Marks, ModifyLaterOn
<1>2. Flags'
  BY <1>1, SteadyFlags DEF Flags
<1>3. PICK G : Restores(G)
  BY DEF ModifyLaterOn
<1>4. Trees' /\ hidden' \subseteq Nodes
  BY <1>1, <1>3, RestoresIs DEF Steady
<1>5. Repo' /\ Queues' /\ Between'
  BY <1>1 DEF Repo, Queues, Between, Steady
<1>6. Marks'
  BY <1>1, <1>4, SteadyMarks DEF Marks
<1>7. Ops'
  BY <1>1 DEF Ops, Between
<1> QED
  BY <1>2, <1>4, <1>5, <1>6, <1>7 DEF Types

LEMMA LeaveDirTypes ==
  ASSUME Types, LeaveDir
  PROVE  Types'
<1>1. /\ Flags /\ Trees /\ Repo /\ Queues /\ Marks /\ todo = {} /\ sending = NoFile
      /\ pending' = Empty /\ UNCHANGED <<trees, failed, untold>>
  BY DEF Types, LeaveDir
<1>2. repo' = repo \/ repo' = WithDigests
  BY DEF LeaveDir
<1>3. repo' \in [Nodes -> Seq(Version)]
  BY <1>1, <1>2, DigestedIs DEF Repo
<1>4. broken' \subseteq Nodes /\ (Fault \/ Fine)
  BY <1>1 DEF LeaveDir, Marks, Repo
<1>5. CASE EndJob("error") /\ UNCHANGED session
  BY <1>1, <1>3, <1>4, <1>5, EndTypes
<1>6. CASE /\ pc' = IF setting.recursive THEN "enter" ELSE "final"
           /\ bad' = FALSE /\ Steady
           /\ UNCHANGED <<dirs, here, todo, sending, later, hidden>>
  <2>1. Flags'
    BY <1>1, <1>4, <1>6, SteadyFlags
  <2>2. Trees' /\ Queues'
    BY <1>1, <1>6 DEF Trees, home, Queues
  <2>3. Repo'
    BY <1>1, <1>3, <1>6 DEF Repo, Empty
  <2>4. Marks'
    BY <1>1, <1>4, <1>6, SteadyMarks DEF Marks
  <2>5. Between' /\ Ops'
    BY <1>1, <1>6 DEF Between, Ops
  <2> QED
    BY <2>1, <2>2, <2>3, <2>4, <2>5 DEF Types
<1> QED
  BY <1>5, <1>6 DEF LeaveDir

LEMMA FinishTypes ==
  ASSUME Types, Finish
  PROVE  Types'
<1>1. pending' = Empty /\ repo' \in [Nodes -> Seq(Version)] /\ broken' \subseteq Nodes
  BY DEF Types, Finish, Between, Repo, Marks
<1> QED
  BY <1>1, EndTypes DEF Finish

LEMMA CrashTypes ==
  ASSUME Types, Crash
  PROVE  Types'
<1>1. Flags /\ Trees /\ Repo /\ Queues /\ Marks
  BY DEF Types
<1>2. /\ session' = "closed" /\ pending' = Empty /\ pc' = "idle" /\ result' = "crashed"
      /\ dirs' = <<>> /\ here' = Root /\ todo' = {} /\ sending' = NoFile /\ later' = <<>>
      /\ bad' = FALSE /\ Fault
      /\ UNCHANGED <<setting, trees, repo, job, clock, jobs, edits, asOf, missing, dirty,
                     hidden, failed, untold>>
  BY DEF Crash
<1>3. broken' \subseteq Nodes
  <2>1. sending # NoFile => sending.node \in Nodes
    BY <1>1 DEF Queues, Transfer
  <2> QED
    BY <1>1, <2>1 DEF Crash, Marks, Repo
<1>4. Flags'
  <2>1. faults' \in 0..setting.budget.faults
    BY <1>1, <1>2, FaultsAreBounded
  <2> QED
    BY <1>1, <1>2, <2>1 DEF Flags
<1>5. Trees' /\ Queues'
  BY <1>1, <1>2, EmptySeq DEF Trees, home, Queues
<1>6. Repo' /\ Between' /\ Ops'
  BY <1>1, <1>2 DEF Repo, Between, Ops, Empty
<1>7. Marks'
  BY <1>1, <1>2, <1>3 DEF Marks
<1> QED
  BY <1>4, <1>5, <1>6, <1>7 DEF Types

LEMMA EditTypes ==
  ASSUME Types, EditOn
  PROVE  Types'
<1>1. Flags /\ Trees /\ Repo /\ Queues /\ Marks /\ Between /\ Ops
  BY DEF Types
<1>2. /\ UNCHANGED <<setting, repo, pending, session, job, pc, dirs, here, todo, sending, later,
                     bad, result, jobs, faults, asOf, missing, broken, failed, untold>>
      /\ Time /\ edits' \in 0..setting.budget.edits /\ Trees'
  BY DEF EditOn, work
<1>3. Flags'
  <2>1. clock' \in 1..MaxClock
    BY <1>1, <1>2, Clock
  <2> QED
    BY <1>1, <1>2, <2>1 DEF Flags
<1>4. Repo' /\ Queues' /\ Between' /\ Ops'
  BY <1>1, <1>2 DEF Repo, Queues, Between, Ops, Seen
<1>5. Marks'
  <2>1. PICK S : /\ S \subseteq Nodes \cup {Root}
                 /\ dirty' = dirty \cup S
                 /\ hidden' = Hidden(S)
    BY DEF EditOn
  <2>2. dirty' \subseteq Nodes \cup {Root} /\ hidden' \subseteq Nodes
    BY <1>1, <2>1 DEF Marks, Hidden
  <2> QED
    BY <1>1, <1>2, <2>2 DEF Marks
<1> QED
  BY <1>2, <1>3, <1>4, <1>5 DEF Types

\* What a step may be.
Steps ==
  \/ Rests
  \/ \E kind \in setting.kinds, when \in 0..MaxClock : StartJob(kind, when)
  \/ EnterDir \/ ScanDir \/ ShowDiffs
  \/ \E i \in Item : \/ SetEntryOn(i) \/ StoreOpenOn(i)
                     \/ ModifyOn(i) \/ CreateOn(i) \/ FetchOpenOn(i)
  \/ StoreTransferOn \/ FetchFillOn \/ ModifyLaterOn
  \/ LeaveDir \/ Finish \/ Crash \/ EditOn

LEMMA NextIsSteps ==
  ASSUME Types, [Next]_vars
  PROVE  Steps /\ Types'
<1>1. CASE UNCHANGED vars \/ Open \/ Close \/ Abandon
  <2>1. Rests
    BY <1>1 DEF vars, work, counts, history, Open, Close, Abandon, Rests
  <2>2. session' \in {"closed", "half", "open"}
    BY <1>1 DEF vars, Open, Close, Abandon, Types, Flags
  <2>3. Fault \/ Fine
    BY <1>1 DEF vars, counts, Open, Close, Abandon, Fine
  <2> QED
    BY <2>1, <2>2, <2>3, RestsTypes DEF Steps
<1>2. CASE \E kind \in setting.kinds, when \in 0..MaxClock : StartJob(kind, when)
  BY <1>2, StartJobTypes DEF Steps
<1>3. CASE EnterDir
  BY <1>3, EnterDirTypes DEF Steps
<1>4. CASE ScanDir
  BY <1>4, ScanDirTypes DEF Steps
<1>5. CASE ShowDiffs
  BY <1>5, ShowDiffsTypes DEF Steps
<1>6. CASE SetEntry
  BY <1>6, SetEntryDoes, SetEntryTypes DEF Steps
<1>7. CASE StoreOpen
  BY <1>7, StoreOpenDoes, StoreOpenTypes DEF Steps
<1>8. CASE StoreTransfer
  BY <1>8, StoreTransferDoes, StoreTransferTypes DEF Steps
<1>9. CASE Modify
  BY <1>9, ModifyDoes, ModifyCall DEF Steps
<1>10. CASE Create
  BY <1>10, CreateDoes, CreateCall DEF Steps
<1>11. CASE FetchOpen
  BY <1>11, FetchOpenDoes, FetchOpenCall DEF Steps
<1>12. CASE FetchFill
  BY <1>12, FetchFillDoes, FetchFillCall DEF Steps
<1>13. CASE LeaveDir
  BY <1>13, LeaveDirTypes DEF Steps
<1>14. CASE ModifyLater
  BY <1>14, ModifyLaterDoes, ModifyLaterTypes DEF Steps
<1>15. CASE Finish
  BY <1>15, FinishTypes DEF Steps
<1>16. CASE Crash
  BY <1>16, CrashTypes DEF Steps
<1>17. CASE Edit
  BY <1>17, EditDoes, EditTypes DEF Steps
<1> QED
  BY <1>1, <1>2, <1>3, <1>4, <1>5, <1>6, <1>7, <1>8, <1>9, <1>10, <1>11, <1>12, <1>13, <1>14,
     <1>15, <1>16, <1>17 DEF Next, JobStep

\* Every variable has its type, in every state of every behaviour.
LEMMA TypesHold == Spec => []Types
<1>1. Init => Types
  BY InitTypes
<1>2. Types /\ [Next]_vars => Types'
  BY NextIsSteps
<1> QED
  BY <1>1, <1>2, PTL DEF Spec

\* The type invariant of the run: jobs, edits and faults of any number, on any tree.
THEOREM TypeCorrect == Spec => []TypeOK
<1>1. Types => TypeOK
  BY TypesGiveTypeOK
<1> QED
  BY <1>1, TypesHold, PTL

-----------------------------------------------------------------------------
(* The lists of a job.                                                     *)

LEMMA InitLists ==
  ASSUME Init
  PROVE  Lists
BY DEF Init, Lists, Empty

\* Nothing is listed.
LEMMA ListsOfNothing ==
  ASSUME todo' = {}, sending' = NoFile, pending' = Empty,
         pc' # "idle" => result' = "none" /\ job'.kind # "none",
         later' = <<>> \/ (pc' # "idle" /\ job'.kind = "restore"),
         job'.kind = "store" => job'.when = 0
  PROVE  Lists'
BY DEF Lists

LEMMA EndJobLists ==
  ASSUME Lists, NEW res, EndJob(res), pending' = Empty
  PROVE  Lists'
<1>1. /\ todo' = {} /\ sending' = NoFile /\ pc' = "idle" /\ later' = <<>> /\ UNCHANGED job
  BY DEF EndJob
<1>2. job.kind = "store" => job.when = 0
  BY DEF Lists
<1> QED
  BY <1>1, <1>2, ListsOfNothing

LEMMA CalledKeepsLists ==
  ASSUME Types, Lists, NEW i \in Item, Called(i),
         later' = later \/ job.kind = "restore",
         \/ UNCHANGED pending
         \/ /\ job.kind = "store" /\ i \in todo /\ Succeeds(i)
            /\ DOMAIN pending' = DOMAIN pending \cup {i.node},
         \/ sending' = NoFile
         \/ /\ i \in todo /\ job.kind # "diff" /\ UNCHANGED todo
            /\ sending'.item = i /\ sending'.node = i.node
            /\ i.op = IF job.kind = "restore" THEN "fetch" ELSE "store"
  PROVE  Lists'
<1>1. /\ todo' \subseteq todo /\ UNCHANGED <<pc, job, result, here>> /\ pc = "work"
  BY CalledLists DEF Called
<1>2. /\ result = "none" /\ job.kind # "none"
      /\ job.kind # "restore" => later = <<>>
      /\ job.kind # "store" => pending = Empty
      /\ job.kind = "store" => job.when = 0
      /\ \A j \in todo :
           /\ Parent[j.node] = here
           /\ j.op \in {"store", "fetch"} => IsFile(j.node)
           /\ j.op = "create" => ~IsFile(j.node)
           /\ j.node \notin DOMAIN pending
      /\ \A j, k \in todo : j.node = k.node => j = k
  BY <1>1 DEF Lists
<1>3. \A j \in todo' : j.node \notin DOMAIN pending'
  <2>1. CASE UNCHANGED pending
    BY <1>1, <1>2, <2>1
  <2>2. CASE /\ i \in todo /\ Succeeds(i)
             /\ DOMAIN pending' = DOMAIN pending \cup {i.node}
    BY <1>2, <2>2 DEF Succeeds
  <2> QED
    BY <2>1, <2>2
<1>4. job.kind # "store" => pending' = Empty
  BY <1>2
<1>5. sending' # NoFile => /\ sending'.item \in todo' /\ sending'.item.node = sending'.node
                           /\ sending'.item.op = IF job.kind = "restore" THEN "fetch" ELSE "store"
                           /\ job.kind # "diff"
  OBVIOUS
<1> QED
  BY <1>1, <1>2, <1>3, <1>4, <1>5 DEF Lists

LEMMA TransferIs ==
  ASSUME sending \in Transfer
  PROVE  /\ sending # NoFile /\ sending.node \in Nodes /\ sending.entry \in Version
         /\ sending.item \in Item
BY TreeAssumption DEF Transfer, NoFile

LEMMA ListsKept ==
  ASSUME Types, Types', Lists, Steps
  PROVE  Lists'
<1>1. CASE Rests
  BY <1>1 DEF Rests, Lists
<1>2. CASE \E kind \in setting.kinds, when \in 0..MaxClock : StartJob(kind, when)
  <2>1. PICK kind \in setting.kinds, when \in 0..MaxClock : StartJob(kind, when)
    BY <1>2
  <2>2. kind # "none"
    BY SettingIs DEF Types, Flags
  <2>3. pc = "idle" /\ todo = {} /\ sending = NoFile /\ pending = Empty /\ later = <<>>
    BY <2>1 DEF StartJob, Types, Between, Lists
  <2>4. /\ UNCHANGED <<todo, sending, pending, later>> /\ pc' = "enter" /\ result' = "none"
        /\ job' = [kind |-> kind, when |-> when] /\ (kind = "store" => when = 0)
    BY <2>1 DEF StartJob
  <2> QED
    BY <2>2, <2>3, <2>4, ListsOfNothing
<1>3. CASE EnterDir
  <2>1. pc = "enter" /\ todo = {} /\ sending = NoFile /\ pending = Empty
    BY <1>3 DEF EnterDir, Types, Between
  <2>2. CASE \E res : EndJob(res) /\ UNCHANGED pending
    BY <2>1, <2>2, EndJobLists
  <2>3. CASE /\ Steady /\ pc' # "idle" /\ UNCHANGED <<todo, sending, pending, later>>
    <3>1. UNCHANGED <<job, result>>
      BY <2>3 DEF Steady
    <3>2. /\ result = "none" /\ job.kind # "none" /\ (job.kind = "store" => job.when = 0)
          /\ later = <<>> \/ job.kind = "restore"
      BY <2>1 DEF Lists
    <3> QED
      BY <2>1, <2>3, <3>1, <3>2, ListsOfNothing
  <2> QED
    BY <1>3, <2>2, <2>3 DEF EnterDir, work
<1>4. CASE ScanDir
  <2>1. pc = "scan" /\ todo = {} /\ sending = NoFile /\ pending = Empty
    BY <1>4 DEF ScanDir, Types, Between
  <2>2. /\ pc' = "work" /\ todo' \subseteq Listed(here)
        /\ UNCHANGED <<job, result, pending, here, sending, later>>
    BY <1>4 DEF ScanDir, Steady
  <2>3. \A i \in todo' :
          /\ Parent[i.node] = here'
          /\ i.op \in {"store", "fetch"} => IsFile(i.node)
          /\ i.op = "create" => ~IsFile(i.node)
          /\ i.node \notin DOMAIN pending'
    BY <2>1, <2>2, ListedAreItems DEF Empty
  <2>4. \A i, j \in todo' : i.node = j.node => i = j
    BY <2>2, ListedIs, OneItem
  <2>5. /\ result = "none" /\ job.kind # "none" /\ (job.kind = "store" => job.when = 0)
        /\ job.kind # "restore" => later = <<>>
    BY <2>1 DEF Lists
  <2> QED
    BY <2>1, <2>2, <2>3, <2>4, <2>5 DEF Lists
<1>5. CASE ShowDiffs
  <2>1. /\ pc = "work" /\ job.kind = "diff" /\ todo' = {}
        /\ UNCHANGED <<job, result, pending, pc, sending, later>>
    BY <1>5 DEF ShowDiffs, Working, Steady
  <2> QED
    BY <2>1 DEF Lists
<1>6. CASE \E i \in Item : SetEntryOn(i)
  <2>1. PICK i \in Item : SetEntryOn(i)
    BY <1>6
  <2>2. Called(i) /\ UNCHANGED <<pending, sending, later>> /\ sending = NoFile
    BY <2>1 DEF SetEntryOn, Turn
  <2> QED
    BY <2>2, CalledKeepsLists
<1>7. CASE \E i \in Item : StoreOpenOn(i)
  <2>1. PICK i \in Item : StoreOpenOn(i)
    BY <1>7
  <2>2. /\ Called(i) /\ UNCHANGED <<pending, later>> /\ i \in todo /\ job.kind # "diff"
        /\ i.op = "store" /\ job.kind # "restore"
    BY <2>1, NotRestore DEF StoreOpenOn, Turn
  <2>3. \/ sending' = NoFile
        \/ UNCHANGED todo /\ sending'.item = i /\ sending'.node = i.node
    BY <2>1 DEF StoreOpenOn, Turn
  <2> QED
    BY <2>2, <2>3, CalledKeepsLists
<1>8. CASE StoreTransferOn
  <2>1. PICK i \in Item : i = sending.item /\ i.node = sending.node /\ i \in todo
    BY <1>8, TransferIs DEF StoreTransferOn, Lists
  <2>2. /\ Called(i) /\ UNCHANGED later /\ sending' = NoFile /\ job.kind = "store"
        /\ \/ UNCHANGED pending
           \/ Succeeds(i) /\ \E b : pending' = Put(pending, i.node, b)
    BY <1>8, <2>1 DEF StoreTransferOn
  <2>3. \/ UNCHANGED pending
        \/ Succeeds(i) /\ DOMAIN pending' = DOMAIN pending \cup {i.node}
    BY <2>2 DEF Put
  <2> QED
    BY <2>1, <2>2, <2>3, CalledKeepsLists
<1>9. CASE \E i \in Item : ModifyOn(i) \/ CreateOn(i)
  <2>1. PICK i \in Item : ModifyOn(i) \/ CreateOn(i)
    BY <1>9
  <2>2. /\ Called(i) /\ UNCHANGED <<pending, sending>> /\ sending = NoFile
        /\ i \in todo /\ i.op \in {"modify", "create"}
    BY <2>1 DEF ModifyOn, CreateOn, Turn
  <2>3. job.kind = "restore"
    BY <2>2 DEF Types, Ops
  <2> QED
    BY <2>2, <2>3, CalledKeepsLists
<1>10. CASE \E i \in Item : FetchOpenOn(i)
  <2>1. PICK i \in Item : FetchOpenOn(i)
    BY <1>10
  <2>2. Called(i) /\ UNCHANGED <<pending, later>> /\ i \in todo /\ i.op = "fetch"
    BY <2>1 DEF FetchOpenOn, Turn
  <2>3. job.kind = "restore"
    BY <2>2 DEF Types, Ops
  <2>4. \/ sending' = NoFile
        \/ UNCHANGED todo /\ sending'.item = i /\ sending'.node = i.node
    BY <2>1 DEF FetchOpenOn, Turn
  <2> QED
    BY <2>2, <2>3, <2>4, CalledKeepsLists
<1>11. CASE FetchFillOn
  <2>1. PICK i \in Item : Called(i) /\ UNCHANGED <<pending, later>> /\ sending' = NoFile
    BY <1>11 DEF FetchFillOn
  <2> QED
    BY <2>1, CalledKeepsLists
<1>12. CASE ModifyLaterOn
  <2>1. /\ pc = "final" /\ UNCHANGED <<job, result, pc, pending, todo, sending>> /\ later # <<>>
    BY <1>12 DEF ModifyLaterOn, Steady
  <2>2. todo = {} /\ sending = NoFile /\ pending = Empty
    BY <2>1 DEF Types, Between
  <2>3. /\ result = "none" /\ job.kind # "none" /\ (job.kind = "store" => job.when = 0)
        /\ job.kind = "restore"
    BY <2>1 DEF Lists
  <2> QED
    BY <2>1, <2>2, <2>3, ListsOfNothing
<1>13. CASE LeaveDir
  <2>1. pc = "work" /\ todo = {} /\ sending = NoFile /\ pending' = Empty
    BY <1>13 DEF LeaveDir
  <2>2. CASE EndJob("error")
    BY <2>1, <2>2, EndJobLists
  <2>3. CASE /\ pc' = IF setting.recursive THEN "enter" ELSE "final"
             /\ Steady /\ UNCHANGED <<todo, sending, later>>
    <3>1. UNCHANGED <<job, result>> /\ pc' # "idle"
      BY <2>3 DEF Steady
    <3>2. /\ result = "none" /\ job.kind # "none" /\ (job.kind = "store" => job.when = 0)
          /\ later = <<>> \/ job.kind = "restore"
      BY <2>1 DEF Lists
    <3> QED
      BY <2>1, <2>3, <3>1, <3>2, ListsOfNothing
  <2> QED
    BY <1>13, <2>2, <2>3 DEF LeaveDir
<1>14. CASE Finish
  <2>1. pending' = Empty /\ EndJob("ok")
    BY <1>14 DEF Finish, Types, Between
  <2> QED
    BY <2>1, EndJobLists
<1>15. CASE Crash
  <2>1. /\ todo' = {} /\ sending' = NoFile /\ pending' = Empty /\ pc' = "idle" /\ later' = <<>>
        /\ UNCHANGED job
    BY <1>15 DEF Crash
  <2>2. job.kind = "store" => job.when = 0
    BY DEF Lists
  <2> QED
    BY <2>1, <2>2, ListsOfNothing
<1>16. CASE EditOn
  BY <1>16 DEF EditOn, Lists, work
<1> QED
  BY <1>1, <1>2, <1>3, <1>4, <1>5, <1>6, <1>7, <1>8, <1>9, <1>10, <1>11, <1>12, <1>13, <1>14,
     <1>15, <1>16 DEF Steps

\* The lists of a job, in every state.
LEMMA ListsHold == Spec => [](Types /\ Lists)
<1>1. Init => Types /\ Lists
  BY InitTypes, InitLists
<1>2. (Types /\ Lists) /\ [Next]_vars => (Types /\ Lists)'
  BY NextIsSteps, ListsKept
<1> QED
  BY <1>1, <1>2, PTL DEF Spec

-----------------------------------------------------------------------------
(* What failed is told.                                                    *)

LEMMA ErrorsKept ==
  ASSUME Types, Lists, Errors, Steps
  PROVE  Errors'
<1> SUFFICES ASSUME ~setting'.ignoreErrors
             PROVE  /\ pc' \in {"enter", "scan", "final"} => failed' = {}
                    /\ pc' = "work" /\ ~bad' => failed' = {}
                    /\ result' = "ok" => failed' = {}
  BY DEF Errors
<1>0. UNCHANGED setting => /\ pc \in {"enter", "scan", "final"} => failed = {}
                           /\ pc = "work" /\ ~bad => failed = {}
                           /\ result = "ok" => failed = {}
  BY DEF Errors
<1>1. pc # "idle" => result = "none"
  BY DEF Lists
<1>2. CASE Rests
  BY <1>0, <1>2 DEF Rests
<1>3. CASE \E kind \in setting.kinds, when \in 0..MaxClock : StartJob(kind, when)
  BY <1>3 DEF StartJob
<1>4. CASE EnterDir
  <2>1. pc = "enter" /\ UNCHANGED <<failed, setting>>
    BY <1>4 DEF EnterDir, EndJob, Steady
  <2> QED
    BY <1>0, <2>1
<1>5. CASE ScanDir
  <2>1. pc = "scan" /\ UNCHANGED <<setting, result>> /\ pc' = "work"
    BY <1>5 DEF ScanDir, Steady
  <2>2. bad' \/ UNCHANGED failed
    BY <1>5, <2>1 DEF ScanDir
  <2> QED
    BY <1>0, <1>1, <2>1, <2>2
<1>6. CASE ShowDiffs
  BY <1>0, <1>6 DEF ShowDiffs, Working, Steady
<1>7. ASSUME NEW i, Called(i)
      PROVE  /\ pc' \in {"enter", "scan", "final"} => failed' = {}
             /\ pc' = "work" /\ ~bad' => failed' = {}
             /\ result' = "ok" => failed' = {}
  <2>1. pc = "work" /\ UNCHANGED <<setting, result, pc>>
    BY <1>7, CalledLists DEF Called
  <2>2. bad' \/ UNCHANGED <<bad, failed>>
    BY <1>7, <2>1 DEF Called, Succeeds, Fails
  <2> QED
    BY <1>0, <1>1, <2>1, <2>2
<1>8. CASE \E i : Called(i)
  BY <1>7, <1>8
<1>9. CASE ModifyLaterOn
  BY <1>0, <1>9 DEF ModifyLaterOn, Steady
<1>10. CASE LeaveDir
  <2>1. pc = "work" /\ UNCHANGED <<setting, failed>>
    BY <1>10 DEF LeaveDir, EndJob, Steady
  <2>2. \/ result' = "error" /\ pc' = "idle"
        \/ ~bad /\ result' = result
    BY <1>10, <2>1 DEF LeaveDir, EndJob, Steady
  <2> QED
    BY <1>0, <1>1, <2>1, <2>2
<1>11. CASE Finish
  <2>1. pc = "final" /\ UNCHANGED <<setting, failed>>
    BY <1>11 DEF Finish, EndJob
  <2> QED
    BY <1>0, <2>1
<1>12. CASE Crash
  BY <1>12 DEF Crash
<1>13. CASE EditOn
  BY <1>0, <1>13 DEF EditOn, work
<1>14. Rests \/ (\E kind \in setting.kinds, when \in 0..MaxClock : StartJob(kind, when))
       \/ EnterDir \/ ScanDir \/ ShowDiffs \/ (\E i : Called(i)) \/ ModifyLaterOn
       \/ LeaveDir \/ Finish \/ Crash \/ EditOn
  BY DEF Steps, SetEntryOn, StoreOpenOn, ModifyOn, CreateOn, FetchOpenOn, StoreTransferOn,
         FetchFillOn
<1> QED
  BY <1>2, <1>3, <1>4, <1>5, <1>6, <1>8, <1>9, <1>10, <1>11, <1>12, <1>13, <1>14

\* Without IGNORE_ERRORS no job returns 0 after a call or a scan has failed on a node, in
\* whatever order errors, edits and crashes come.
THEOREM ErrorsToldCorrect == Spec => []ErrorsAreTold
<1>1. Init => Errors
  BY DEF Init, Errors
<1>2. (Types /\ Lists) /\ Errors /\ [Next]_vars => Errors'
  BY NextIsSteps, ErrorsKept
<1>3. Errors => ErrorsAreTold
  BY DEF Errors, ErrorsAreTold
<1> QED
  BY <1>1, <1>2, <1>3, ListsHold, PTL DEF Spec

-----------------------------------------------------------------------------
(* What the steps do to the tree at home, to the versions and to time.     *)

LEMMA StepClock ==
  ASSUME Types, Steps
  PROVE  /\ clock \in Nat /\ clock' \in Nat /\ clock <= clock'
         /\ clock \in 1..MaxClock /\ clock' \in 0..MaxClock
         /\ UNCHANGED setting
<1>1. Flags
  BY DEF Types
<1>2. clock \in 1..MaxClock /\ MaxClock \in Nat
  BY <1>1, Clock
<1>3. UNCHANGED setting /\ (UNCHANGED clock \/ Time)
  <2>1. CASE \E i : Called(i)
    BY <2>1, CalledLists
  <2>2. CASE Rests \/ (\E kind \in setting.kinds, when \in 0..MaxClock : StartJob(kind, when))
    BY <2>2 DEF Rests, StartJob
  <2>3. CASE EnterDir \/ ScanDir \/ ShowDiffs \/ ModifyLaterOn \/ LeaveDir \/ Finish
    BY <2>3 DEF EnterDir, EndJob, Steady, ScanDir, ShowDiffs, Working, ModifyLaterOn, LeaveDir,
         Finish
  <2>4. CASE Crash \/ EditOn
    BY <2>4 DEF Crash, EditOn
  <2> QED
    BY <2>1, <2>2, <2>3, <2>4 DEF Steps, SetEntryOn, StoreOpenOn, StoreTransferOn, ModifyOn,
         CreateOn, FetchOpenOn, FetchFillOn
<1>4. clock <= clock' /\ clock' \in 1..MaxClock
  BY <1>1, <1>2, <1>3, Clock
<1> QED
  BY <1>2, <1>3, <1>4

\* The groups that a step may give to a node.
Given ==
  {Owner, setting.group}
  \cup (IF job.kind = "restore"
        THEN {i.entry.group : i \in todo} \cup {later[k].entry.group : k \in DOMAIN later}
             \cup (IF sending = NoFile THEN {} ELSE {sending.entry.group})
        ELSE {})

HomeAltered ==
  /\ Rooted(home) => Rooted(home')
  /\ UNCHANGED <<setting, repo, pending, broken, job, pc, asOf, settled>> \/ EditOn
  /\ job.kind = "restore" \/ EditOn
  /\ \E S : Altered(home, home', S, Given) /\ hidden' = Hidden(S)

LEMMA RestoresHome ==
  ASSUME Types, UNCHANGED <<setting, repo, pending, broken, job, pc, asOf, settled>>,
         job.kind = "restore", NEW G, G \subseteq Given, Restores(G)
  PROVE  UNCHANGED <<home, hidden>> \/ HomeAltered
<1>1. Flags /\ Trees /\ hidden \subseteq Nodes
  BY DEF Types, Marks
<1>2. \/ home' = home /\ hidden' = hidden
      \/ /\ Rooted(home) => Rooted(home')
         /\ \E S : Altered(home, home', S, G) /\ hidden' = Hidden(S)
  BY <1>1, RestoresIs
<1> QED
  BY <1>2, AlteredMore DEF HomeAltered

LEMMA StepHome ==
  ASSUME Types, Lists, Steps
  PROVE  UNCHANGED <<home, hidden>> \/ HomeAltered
<1>1. CASE UNCHANGED <<trees, hidden>>
  BY <1>1 DEF home
<1>2. CASE \E i \in Item : ModifyOn(i) \/ CreateOn(i)
  <2>1. PICK i \in Item : ModifyOn(i) \/ CreateOn(i)
    BY <1>2
  <2>2. /\ Called(i) /\ UNCHANGED <<repo, pending, broken>> /\ Restores({Owner, i.entry.group})
        /\ i \in todo /\ i.op \in {"modify", "create"}
    BY <2>1 DEF ModifyOn, CreateOn, Turn
  <2>3. job.kind = "restore"
    BY <2>2 DEF Types, Ops
  <2>4. {Owner, i.entry.group} \subseteq Given
    BY <2>2, <2>3 DEF Given
  <2>5. UNCHANGED <<setting, repo, pending, broken, job, pc, asOf, settled>>
    BY <2>2, CalledLists
  <2> QED
    BY <2>2, <2>3, <2>4, <2>5, RestoresHome
<1>3. CASE \E i \in Item : FetchOpenOn(i)
  <2>1. PICK i \in Item : FetchOpenOn(i)
    BY <1>3
  <2>2. /\ Called(i) /\ UNCHANGED <<repo, pending, broken>> /\ Restores({Owner})
        /\ i \in todo /\ i.op = "fetch"
    BY <2>1 DEF FetchOpenOn, Turn
  <2>3. job.kind = "restore" /\ {Owner} \subseteq Given
    BY <2>2 DEF Types, Ops, Given
  <2>4. UNCHANGED <<setting, repo, pending, broken, job, pc, asOf, settled>>
    BY <2>2, CalledLists
  <2> QED
    BY <2>2, <2>3, <2>4, RestoresHome
<1>4. CASE FetchFillOn
  <2>1. PICK i : /\ Called(i) /\ UNCHANGED <<repo, pending, broken>> /\ job.kind = "restore"
                 /\ Restores({Owner, sending.entry.group}) /\ sending # NoFile
    BY <1>4, TransferIs DEF FetchFillOn
  <2>2. {Owner, sending.entry.group} \subseteq Given
    BY <2>1 DEF Given
  <2>3. UNCHANGED <<setting, repo, pending, broken, job, pc, asOf, settled>>
    BY <2>1, CalledLists
  <2> QED
    BY <2>1, <2>2, <2>3, RestoresHome
<1>5. CASE ModifyLaterOn
  <2>1. /\ pc = "final" /\ later # <<>> /\ later \in Seq(Late)
        /\ Restores({Owner, Head(later).entry.group})
        /\ UNCHANGED <<setting, repo, pending, broken, job, pc, asOf, settled>>
    BY <1>5 DEF ModifyLaterOn, Steady, Types, Queues
  <2>2. job.kind = "restore"
    BY <2>1 DEF Lists
  <2>3. 1 \in DOMAIN later /\ Head(later) = later[1]
    BY <2>1, LenProperties, EmptySeq
  <2>4. {Owner, Head(later).entry.group} \subseteq Given
    BY <2>2, <2>3 DEF Given
  <2> QED
    BY <2>1, <2>2, <2>4, RestoresHome
<1>6. CASE EditOn
  <2>1. PICK S : Altered(home, home', S, {setting.group}) /\ hidden' = Hidden(S)
    BY <1>6 DEF EditOn
  <2>2. Altered(home, home', S, Given)
    BY <2>1, AlteredMore DEF Given
  <2>3. Rooted(home) => Rooted(home')
    BY <1>6 DEF EditOn
  <2> QED
    BY <1>6, <2>1, <2>2, <2>3 DEF HomeAltered
<1>7. CASE \/ \E i \in Item : SetEntryOn(i) \/ StoreOpenOn(i)
           \/ StoreTransferOn
  BY <1>1, <1>7 DEF SetEntryOn, StoreOpenOn, StoreTransferOn
<1>8. CASE \/ Rests \/ (\E kind \in setting.kinds, when \in 0..MaxClock : StartJob(kind, when))
           \/ EnterDir \/ ScanDir \/ ShowDiffs \/ LeaveDir \/ Finish \/ Crash
  BY <1>1, <1>8 DEF Rests, StartJob, EnterDir, EndJob, ScanDir, ShowDiffs, LeaveDir, Finish, Crash
<1> QED
  BY <1>2, <1>3, <1>4, <1>5, <1>6, <1>7, <1>8 DEF Steps

\* A version that is as the one before but for its digest and data.
Like(v, l) ==
  /\ v.status = l.status /\ v.btime = l.btime /\ v.mode = l.mode /\ v.group = l.group
  /\ v.mtime = l.mtime /\ v.ctime = l.ctime /\ v.size = l.size /\ v.target = l.target
  /\ v.zipped = l.zipped

NewVersion(n) ==
  \E v \in Version : Appended(repo[n], repo'[n], v) /\ v.group = Owner /\ v.btime = clock
OtherVersion(n) ==
  \E v \in Version : Relast(repo[n], repo'[n], v) /\ Like(v, LastOf(n))

LEMMA StepRepo ==
  ASSUME Types, Lists, Steps, NEW n \in Nodes
  PROVE  \/ repo'[n] = repo[n]
         \/ /\ job.kind = "store" /\ pc = "work" /\ UNCHANGED <<home, hidden, clock, job>>
            /\ \/ /\ NewVersion(n)
                  /\ \E i \in Item : i.node = n /\ (SetEntryOn(i) \/ StoreOpenOn(i))
               \/ /\ OtherVersion(n) /\ repo[n] # <<>>
                  /\ sending.node = n \/ n \in DOMAIN pending
<1>1. CASE UNCHANGED repo
  BY <1>1
<1>2. CASE \E i \in Item : SetEntryOn(i) \/ StoreOpenOn(i)
  <2>1. PICK i \in Item : SetEntryOn(i) \/ StoreOpenOn(i)
    BY <1>2
  <2>2. /\ Turn(i) /\ i.op \in {"set", "delete", "store"} /\ Called(i)
        /\ UNCHANGED <<trees, hidden>>
    BY <2>1 DEF SetEntryOn, StoreOpenOn
  <2>3. job.kind = "store" /\ pc = "work" /\ UNCHANGED <<home, hidden, clock, job>>
    BY <2>2, NotRestore, CalledLists DEF Turn, Types, Flags, home, Lists
  <2>4. \/ UNCHANGED repo
        \/ \E v \in Version : Grows(i.node, v) /\ v.group = Owner /\ v.btime = clock
    BY <2>1 DEF SetEntryOn, StoreOpenOn
  <2>5. repo'[n] = repo[n] \/ (NewVersion(n) /\ i.node = n)
    BY <2>4 DEF Grows, NewVersion
  <2> QED
    BY <2>1, <2>3, <2>5
<1>3. CASE StoreTransferOn
  <2>1. PICK m \in Nodes : m = sending.node
    BY <1>3 DEF StoreTransferOn
  <2>2. /\ job.kind = "store" /\ pc = "work" /\ UNCHANGED <<home, hidden, clock, job>>
        /\ repo[m] # <<>>
    BY <1>3, <2>1, CalledLists DEF StoreTransferOn, home
  <2>3. \/ UNCHANGED repo
        \/ \E v \in Version : /\ Refills(m, v)
                              /\ \E b, z : Fills(v, LastOf(m), b, z)
    BY <1>3, <2>1 DEF StoreTransferOn
  <2>4. \/ UNCHANGED repo
        \/ \E v \in Version : Refills(m, v) /\ Like(v, LastOf(m))
    BY <2>3 DEF Fills, Like, OfEntry
  <2>5. repo'[n] = repo[n] \/ (n = m /\ OtherVersion(n))
    BY <2>4 DEF Refills, OtherVersion
  <2> QED
    BY <2>1, <2>2, <2>5
<1>4. CASE LeaveDir
  <2>1. /\ pc = "work" /\ UNCHANGED <<home, hidden, clock, job>>
        /\ repo' = repo \/ repo' = WithDigests
    BY <1>4 DEF LeaveDir, EndJob, Steady, home
  <2>2. Repo
    BY DEF Types
  <2>3. CASE repo' = WithDigests /\ n \in DOMAIN pending
    <3>1. job.kind = "store"
      BY <2>3 DEF Lists, Empty
    <3>2. Redone(repo[n], WithDigests[n], pending[n]) /\ repo[n] # <<>>
      BY <2>2, <2>3, DigestedIs DEF Repo
    <3>3. \E v \in Version : Relast(repo[n], WithDigests[n], v) /\ Like(v, LastOf(n))
      BY <3>2 DEF Redone, Digests, Like, LastOf
    <3>4. OtherVersion(n)
      BY <2>3, <3>3 DEF OtherVersion
    <3> QED
      BY <2>1, <2>3, <3>1, <3>2, <3>4
  <2>4. CASE repo' = WithDigests /\ n \notin DOMAIN pending
    BY <2>4 DEF WithDigests
  <2> QED
    BY <2>1, <2>3, <2>4
<1>5. CASE \/ \E i \in Item : ModifyOn(i) \/ CreateOn(i) \/ FetchOpenOn(i)
           \/ FetchFillOn \/ ModifyLaterOn
  BY <1>1, <1>5 DEF ModifyOn, CreateOn, FetchOpenOn, FetchFillOn, ModifyLaterOn
<1>6. CASE \/ Rests \/ (\E kind \in setting.kinds, when \in 0..MaxClock : StartJob(kind, when))
           \/ EnterDir \/ ScanDir \/ ShowDiffs \/ Finish \/ Crash \/ EditOn
  BY <1>1, <1>6 DEF Rests, StartJob, EnterDir, ScanDir, ShowDiffs, Finish, Crash, EditOn
<1> QED
  BY <1>2, <1>3, <1>4, <1>5, <1>6 DEF Steps

-----------------------------------------------------------------------------
(* The tree at home has the directories of all that it has.                *)

LEMMA InitRooted ==
  ASSUME Init
  PROVE  Rooted(home)
<1>1. setting \in Settings /\ DOMAIN home = setting.names
  BY DEF Init, home
<1>2. \A n \in setting.names : Above[n] \subseteq setting.names
  BY <1>1, SettingIs
<1> QED
  BY <1>1, <1>2 DEF Rooted

LEMMA RootedHolds == Spec => [](Types /\ Lists /\ Rooted(home))
<1>1. Init => Rooted(home)
  BY InitRooted
<1>2. (Types /\ Lists) /\ Rooted(home) /\ [Next]_vars => Rooted(home)'
  <2> SUFFICES ASSUME Types, Lists, Rooted(home), [Next]_vars
               PROVE  Rooted(home')
    OBVIOUS
  <2>1. UNCHANGED <<home, hidden>> \/ HomeAltered
    BY NextIsSteps, StepHome
  <2> QED
    BY <2>1 DEF HomeAltered
<1> QED
  BY <1>1, <1>2, ListsHold, PTL DEF Spec

-----------------------------------------------------------------------------
(* What the steps do to the lists of a job.                                *)

LEMMA StepTodo ==
  ASSUME Types, Lists, Steps
  PROVE  \/ ScanDir
         \/ todo' = {}
         \/ todo' \subseteq todo /\ UNCHANGED <<job, here>> /\ pc = "work" /\ pc' = "work"
<1>1. CASE \E i : Called(i)
  BY <1>1, CalledLists DEF Called
<1>2. CASE Rests
  BY <1>2 DEF Rests, Types, Between
<1>3. CASE \E kind \in setting.kinds, when \in 0..MaxClock : StartJob(kind, when)
  BY <1>3 DEF StartJob, Types, Between
<1>4. CASE EnterDir
  BY <1>4 DEF EnterDir, EndJob, work, Types, Between
<1>5. CASE ModifyLaterOn
  BY <1>5 DEF ModifyLaterOn, Types, Between
<1>6. CASE ShowDiffs \/ Crash
  BY <1>6 DEF ShowDiffs, Crash
<1>7. CASE LeaveDir
  BY <1>7 DEF LeaveDir, EndJob
<1>8. CASE Finish
  BY <1>8 DEF Finish, EndJob
<1>9. CASE EditOn
  BY <1>9 DEF EditOn, work, Types, Between
<1> QED
  BY <1>1, <1>2, <1>3, <1>4, <1>5, <1>6, <1>7, <1>8, <1>9 DEF Steps, SetEntryOn, StoreOpenOn,
     ModifyOn, CreateOn, FetchOpenOn, StoreTransferOn, FetchFillOn

-----------------------------------------------------------------------------
(* Versions get the group of the owner, and nobody gets another from them. *)

LEMMA GroupOfVersion ==
  ASSUME Types, Groups, NEW n \in Nodes, NEW when, Seen(n, when) # {}
  PROVE  VersionAt(n, when).group = Owner
<1>1. repo[n] \in Seq(Version)
  BY DEF Types, Repo
<1>2. PICK k \in Seen(n, when) : k \in 1..Len(repo[n]) /\ VersionAt(n, when) = repo[n][k]
  BY <1>1, VersionAtIs
<1>3. k \in DOMAIN repo[n]
  BY <1>2 DEF Seen
<1> QED
  BY <1>2, <1>3 DEF Groups

LEMMA GroupsDeferred ==
  ASSUME Types, Groups, job.kind = "restore", NEW i, Turn(i), Defers(i)
  PROVE  later' \in Seq(OwnLate)
<1>1. later \in Seq(OwnLate) /\ i.node \in Nodes /\ i.entry \in Version /\ i.entry.group = Owner
  BY DEF Groups, Turn
<1>2. PICK x \in OwnLate : x = [node |-> i.node, entry |-> i.entry]
  BY <1>1 DEF Late, OwnLate
<1>3. <<x>> \in Seq(OwnLate)
  OBVIOUS
<1>4. <<x>> \o later \in Seq(OwnLate)
  BY <1>1, <1>3, ConcatProperties
<1> QED
  BY <1>1, <1>2, <1>4 DEF Defers, Deferred

\* What a restore has to give.
Gives == /\ \A i \in todo : i.entry.group = Owner
         /\ sending # NoFile => sending.entry.group = Owner
         /\ later \in Seq(OwnLate)

LEMMA GivesKept ==
  ASSUME Types, Types', Lists, Groups, Steps, job'.kind = "restore"
  PROVE  Gives'
<1>0. job.kind = "restore" => Gives
  BY DEF Groups, Gives
<1>1. <<>> \in Seq(OwnLate)
  BY EmptySeq
<1>2. ASSUME todo' = {}, sending' = NoFile, later' = <<>>
      PROVE  Gives'
  BY <1>1, <1>2 DEF Gives
<1>3. CASE Rests
  BY <1>0, <1>3 DEF Rests, Gives
<1>4. CASE \E kind \in setting.kinds, when \in 0..MaxClock : StartJob(kind, when)
  <2>1. todo' = {} /\ sending' = NoFile /\ later' = <<>>
    BY <1>4 DEF StartJob, Types, Between, Lists
  <2> QED
    BY <1>2, <2>1
<1>5. CASE EnterDir
  <2>1. \/ todo' = {} /\ sending' = NoFile /\ later' = <<>>
        \/ UNCHANGED <<todo, sending, later, job>>
    BY <1>5 DEF EnterDir, EndJob, Steady, work
  <2> QED
    BY <1>0, <1>2, <2>1 DEF Gives
<1>6. CASE ScanDir
  <2>1. UNCHANGED <<job, sending, later>> /\ todo' \subseteq Listed(here)
    BY <1>6 DEF ScanDir, Steady
  <2>2. \A i \in todo' : i.entry.group = Owner
    <3> SUFFICES ASSUME NEW i \in todo'
                 PROVE  i.entry.group = Owner
      OBVIOUS
    <3>1. i.node \in Nodes /\ ForNode(i.node, i)
      BY <2>1, ListedAreItems
    <3>2. PICK n \in Nodes : n = i.node
      BY <3>1
    <3>3. Used(n, job.when) /\ i.entry = VersionAt(n, job.when)
      BY <2>1, <3>1, <3>2 DEF ForNode, ForRestore, Work
    <3> QED
      BY <3>2, <3>3, GroupOfVersion DEF Used
  <2> QED
    BY <1>0, <2>1, <2>2 DEF Gives
<1>7. CASE ShowDiffs
  BY <1>7 DEF ShowDiffs, Working, Steady
<1>8. CASE \/ \E i \in Item : SetEntryOn(i) \/ StoreOpenOn(i)
           \/ StoreTransferOn
  <2>1. CASE \E i \in Item : SetEntryOn(i) \/ StoreOpenOn(i)
    <3>1. PICK i \in Item : SetEntryOn(i) \/ StoreOpenOn(i)
      BY <2>1
    <3>2. Turn(i) /\ i.op \in {"set", "delete", "store"} /\ Called(i)
      BY <3>1 DEF SetEntryOn, StoreOpenOn
    <3> QED
      BY <3>2, NotRestore, CalledLists
  <2>2. CASE StoreTransferOn
    <3>1. PICK i : Called(i) /\ job.kind = "store"
      BY <2>2 DEF StoreTransferOn
    <3> QED
      BY <3>1, CalledLists
  <2> QED
    BY <1>8, <2>1, <2>2
<1>9. CASE \E i \in Item : ModifyOn(i) \/ CreateOn(i)
  <2>1. PICK i \in Item : ModifyOn(i) \/ CreateOn(i)
    BY <1>9
  <2>2. Called(i) /\ UNCHANGED sending /\ Turn(i) /\ Defers(i)
    BY <2>1 DEF ModifyOn, CreateOn
  <2>3. todo' \subseteq todo /\ UNCHANGED job
    BY <2>2, CalledLists
  <2>4. later' \in Seq(OwnLate)
    BY <2>2, <2>3, GroupsDeferred
  <2> QED
    BY <1>0, <2>2, <2>3, <2>4 DEF Gives
<1>10. CASE \E i \in Item : FetchOpenOn(i)
  <2>1. PICK i \in Item : FetchOpenOn(i)
    BY <1>10
  <2>2. /\ Called(i) /\ UNCHANGED later /\ Seen(i.node, job.when) # {} /\ Turn(i)
        /\ \/ sending' = [node |-> i.node, entry |-> VersionAt(i.node, job.when), item |-> i]
           \/ UNCHANGED sending
    BY <2>1 DEF FetchOpenOn
  <2>3. todo' \subseteq todo /\ UNCHANGED job
    BY <2>2, CalledLists
  <2>4. PICK n \in Nodes : n = i.node
    BY <2>2 DEF Turn
  <2>5. VersionAt(n, job.when).group = Owner
    BY <2>2, <2>4, GroupOfVersion
  <2>6. sending'.entry.group = Owner \/ UNCHANGED sending
    BY <2>2, <2>4, <2>5
  <2> QED
    BY <1>0, <2>2, <2>3, <2>6 DEF Gives
<1>11. CASE FetchFillOn
  <2>1. PICK i : Called(i) /\ UNCHANGED later /\ sending' = NoFile
    BY <1>11 DEF FetchFillOn
  <2>2. todo' \subseteq todo /\ UNCHANGED job
    BY <2>1, CalledLists
  <2> QED
    BY <1>0, <2>1, <2>2 DEF Gives
<1>12. CASE ModifyLaterOn
  <2>1. /\ UNCHANGED <<todo, sending, job>> /\ later # <<>>
        /\ later' \in {Tail(later), <<>>}
    BY <1>12 DEF ModifyLaterOn, Steady
  <2>2. later \in Seq(OwnLate)
    BY <1>0, <2>1 DEF Gives
  <2>3. later' \in Seq(OwnLate)
    BY <1>1, <2>1, <2>2, HeadTailProperties
  <2> QED
    BY <1>0, <2>1, <2>3 DEF Gives
<1>13. CASE LeaveDir
  <2>1. \/ todo' = {} /\ sending' = NoFile /\ later' = <<>>
        \/ UNCHANGED <<todo, sending, later, job>>
    BY <1>13 DEF LeaveDir, EndJob, Steady
  <2> QED
    BY <1>0, <1>2, <2>1 DEF Gives
<1>14. CASE Finish \/ Crash
  BY <1>2, <1>14 DEF Finish, EndJob, Crash
<1>15. CASE EditOn
  BY <1>0, <1>15 DEF EditOn, work, Gives
<1> QED
  BY <1>3, <1>4, <1>5, <1>6, <1>7, <1>8, <1>9, <1>10, <1>11, <1>12, <1>13, <1>14, <1>15 DEF Steps

LEMMA VersionGroupsKept ==
  ASSUME Types, Types', Lists, Groups, Steps, NEW n \in Nodes
  PROVE  \A k \in DOMAIN repo'[n] : repo'[n][k].group = Owner
<1>1. /\ repo[n] \in Seq(Version) /\ repo'[n] \in Seq(Version)
      /\ \A k \in DOMAIN repo[n] : repo[n][k].group = Owner
  BY DEF Types, Repo, Groups
<1>2. PICK a \in Nat, b \in Nat :
        a = Len(repo[n]) /\ DOMAIN repo[n] = 1..a /\ b = Len(repo'[n]) /\ DOMAIN repo'[n] = 1..b
  BY <1>1, LenProperties
<1>3. CASE repo'[n] = repo[n]
  BY <1>1, <1>3
<1>4. CASE NewVersion(n)
  <2>1. PICK v : Appended(repo[n], repo'[n], v) /\ v.group = Owner
    BY <1>4 DEF NewVersion
  <2>2. b = a + 1 /\ repo'[n][b] = v /\ \A k \in 1..a : repo'[n][k] = repo[n][k]
    BY <1>2, <2>1 DEF Appended
  <2>3. \A k \in 1..b : k = b \/ k \in 1..a
    BY <2>2
  <2> QED
    BY <1>1, <1>2, <2>1, <2>2, <2>3
<1>5. CASE OtherVersion(n) /\ repo[n] # <<>>
  <2>1. PICK v : Relast(repo[n], repo'[n], v) /\ v.group = LastOf(n).group
    BY <1>5 DEF OtherVersion, Like
  <2>2. b = a /\ repo'[n][b] = v /\ \A k \in 1..a : k # a => repo'[n][k] = repo[n][k]
    BY <1>2, <2>1 DEF Relast
  <2>3. a \in 1..a
    BY <1>1, <1>2, <1>5, EmptySeq
  <2>4. v.group = Owner
    BY <1>1, <1>2, <2>1, <2>3 DEF LastOf
  <2> QED
    BY <1>1, <1>2, <2>2, <2>4
<1> QED
  BY <1>3, <1>4, <1>5, StepRepo

LEMMA HomeGroupsKept ==
  ASSUME Types, Lists, Groups, Steps, setting'.group = Owner
  PROVE  \A n \in DOMAIN home' : home'[n].group = Owner
<1>1. UNCHANGED setting
  BY StepClock
<1>2. \A n \in DOMAIN home : home[n].group = Owner
  BY <1>1 DEF Groups
<1>3. Given \subseteq {Owner}
  <2>1. CASE job.kind = "restore"
    <3>1. /\ \A i \in todo : i.entry.group = Owner
          /\ sending # NoFile => sending.entry.group = Owner
          /\ later \in Seq(OwnLate)
      BY <2>1 DEF Groups
    <3>2. \A k \in DOMAIN later : later[k] \in OwnLate
      BY <3>1, LenProperties, ElementOfSeq
    <3>3. \A k \in DOMAIN later : later[k].entry.group = Owner
      BY <3>2 DEF OwnLate
    <3> QED
      BY <1>1, <2>1, <3>1, <3>3 DEF Given
  <2>2. CASE job.kind # "restore"
    BY <1>1, <2>2 DEF Given
  <2> QED
    BY <2>1, <2>2
<1>4. CASE UNCHANGED home
  BY <1>2, <1>4
<1>5. CASE HomeAltered
  <2>1. PICK S : Altered(home, home', S, Given)
    BY <1>5 DEF HomeAltered
  <2>2. Altered(home, home', S, {Owner})
    BY <1>3, <2>1, AlteredMore
  <2> QED
    BY <1>2, <2>2 DEF Altered
<1> QED
  BY <1>4, <1>5, StepHome

LEMMA GroupsHold == Spec => [](Types /\ Lists /\ Groups)
<1>1. Init => Groups
  <2> SUFFICES ASSUME Init
               PROVE  Groups
    OBVIOUS
  <2>1. /\ repo = [n \in Nodes |-> <<>>] /\ job.kind = "none"
    BY DEF Init
  <2>2. \A n \in DOMAIN home : home[n].group = setting.group
    BY DEF Init, home
  <2>3. DOMAIN <<>> = {}
    OBVIOUS
  <2> QED
    BY <2>1, <2>2, <2>3 DEF Groups
<1>2. (Types /\ Lists) /\ Groups /\ [Next]_vars => Groups'
  <2> SUFFICES ASSUME Types, Lists, Groups, [Next]_vars
               PROVE  Groups'
    OBVIOUS
  <2>1. Steps /\ Types'
    BY NextIsSteps
  <2>2. job'.kind = "restore" => Gives'
    BY <2>1, GivesKept
  <2>3. \A n \in Nodes : \A k \in DOMAIN repo'[n] : repo'[n][k].group = Owner
    BY <2>1, VersionGroupsKept
  <2>4. setting'.group = Owner => \A n \in DOMAIN home' : home'[n].group = Owner
    BY <2>1, HomeGroupsKept
  <2> QED
    BY <2>2, <2>3, <2>4 DEF Groups, Gives
<1> QED
  BY <1>1, <1>2, ListsHold, PTL DEF Spec

-----------------------------------------------------------------------------
(* Nothing is later than now.                                              *)

LEMMA VersionTimesKept ==
  ASSUME Types, Types', Lists, Bounds, Steps, NEW n \in Nodes
  PROVE  \A k \in DOMAIN repo'[n] : repo'[n][k].btime <= clock'
<1>0. clock \in Nat /\ clock' \in Nat /\ clock <= clock'
  BY StepClock
<1>1. /\ repo[n] \in Seq(Version) /\ repo'[n] \in Seq(Version)
      /\ \A k \in DOMAIN repo[n] : repo[n][k].btime <= clock
  BY DEF Types, Repo, Bounds
<1>2. PICK a \in Nat, b \in Nat :
        a = Len(repo[n]) /\ DOMAIN repo[n] = 1..a /\ b = Len(repo'[n]) /\ DOMAIN repo'[n] = 1..b
  BY <1>1, LenProperties
<1>3. \A k \in 1..b : repo'[n][k].btime \in Nat
  <2>1. \A k \in 1..b : repo'[n][k] \in Version
    BY <1>1, <1>2, ElementOfSeq
  <2>2. \A v \in Version : v.btime \in Nat
    BY TreeAssumption DEF Version
  <2> QED
    BY <2>1, <2>2
<1>4. CASE repo'[n] = repo[n]
  BY <1>0, <1>1, <1>2, <1>3, <1>4
<1>5. CASE NewVersion(n)
  <2>1. PICK v : Appended(repo[n], repo'[n], v) /\ v.btime = clock
    BY <1>5 DEF NewVersion
  <2>2. b = a + 1 /\ repo'[n][b] = v /\ \A k \in 1..a : repo'[n][k] = repo[n][k]
    BY <1>2, <2>1 DEF Appended
  <2>3. \A k \in 1..b : k = b \/ k \in 1..a
    BY <2>2
  <2>4. \A k \in 1..b : repo'[n][k].btime <= clock
    <3> SUFFICES ASSUME NEW k \in 1..b
                 PROVE  repo'[n][k].btime <= clock
      OBVIOUS
    <3>1. CASE k = b
      BY <1>0, <2>1, <2>2, <3>1
    <3>2. CASE k \in 1..a
      BY <1>1, <1>2, <2>2, <3>2
    <3> QED
      BY <2>3, <3>1, <3>2
  <2> QED
    BY <1>0, <1>2, <1>3, <2>4
<1>6. CASE OtherVersion(n) /\ repo[n] # <<>>
  <2>1. PICK v : Relast(repo[n], repo'[n], v) /\ v.btime = LastOf(n).btime
    BY <1>6 DEF OtherVersion, Like
  <2>2. b = a /\ repo'[n][b] = v /\ \A k \in 1..a : k # a => repo'[n][k] = repo[n][k]
    BY <1>2, <2>1 DEF Relast
  <2>3. a \in 1..a
    BY <1>1, <1>2, <1>6, EmptySeq
  <2>4. \A k \in 1..b : repo'[n][k].btime <= clock
    BY <1>1, <1>2, <2>1, <2>2, <2>3 DEF LastOf
  <2> QED
    BY <1>0, <1>2, <1>3, <2>4
<1> QED
  BY <1>4, <1>5, <1>6, StepRepo

\* What is listed for a store is as it was scanned, or older than what is there now.
Older == \A i \in todo : i.op \in {"set", "store"} =>
           /\ i.entry.ctime <= clock
           /\ i.node \in DOMAIN home => i.entry.ctime <= home[i.node].ctime

LEMMA CtimeOf ==
  ASSUME NEW T, IsTree(T), NEW n \in DOMAIN T
  PROVE  T[n].ctime \in Nat /\ n \in Nodes
<1>1. T[n] \in Node /\ n \in Nodes
  BY DEF IsTree
<1> QED
  BY <1>1, NodeFields

LEMMA TimesKept ==
  ASSUME Types, Types', Lists, Bounds, Steps
  PROVE  \A n \in DOMAIN home' : home'[n].ctime <= clock'
<1>1. clock \in Nat /\ clock' \in Nat /\ clock <= clock' /\ IsTree(home) /\ IsTree(home')
  BY StepClock DEF Types, Trees
<1>2. \A n \in DOMAIN home : home[n].ctime <= clock /\ home[n].ctime \in Nat
  BY <1>1, CtimeOf DEF Bounds
<1>3. CASE UNCHANGED home
  BY <1>1, <1>2, <1>3
<1>4. CASE HomeAltered
  <2>1. \A n \in DOMAIN home' : home'[n].ctime = clock' \/ (n \in DOMAIN home /\ home'[n] = home[n])
    BY <1>4 DEF HomeAltered, Altered
  <2> QED
    BY <1>1, <1>2, <2>1
<1> QED
  BY <1>3, <1>4, StepHome

LEMMA OlderKept ==
  ASSUME Types, Types', Lists, Bounds, Steps
  PROVE  Older'
<1>1. clock \in Nat /\ clock' \in Nat /\ clock <= clock' /\ IsTree(home) /\ IsTree(home')
  BY StepClock DEF Types, Trees
<1>2. /\ \A n \in DOMAIN home : home[n].ctime <= clock /\ home[n].ctime \in Nat
      /\ Older
  BY <1>1, CtimeOf DEF Bounds, Older
<1>3. \A i \in todo : i.entry.ctime \in Nat
  BY DEF Types, Queues, Item, Version
<1>4. CASE todo' = {}
  BY <1>4 DEF Older
<1>5. CASE todo' \subseteq todo
  <2> SUFFICES ASSUME NEW i \in todo', i.op \in {"set", "store"}
               PROVE  /\ i.entry.ctime <= clock'
                      /\ i.node \in DOMAIN home' => i.entry.ctime <= home'[i.node].ctime
    BY DEF Older
  <2>1. PICK c \in Nat : c = i.entry.ctime
    BY <1>3, <1>5
  <2>n. PICK n : n = i.node
    OBVIOUS
  <2>2. c <= clock /\ (n \in DOMAIN home => c <= home[n].ctime)
    BY <1>2, <1>5, <2>1, <2>n DEF Older
  <2>3. c <= clock'
    BY <1>1, <2>2
  <2>4. ASSUME n \in DOMAIN home'
        PROVE  c <= home'[n].ctime
    <3>1. CASE UNCHANGED home
      BY <2>2, <2>4, <3>1
    <3>2. CASE HomeAltered
      <4>1. home'[n].ctime = clock' \/ (n \in DOMAIN home /\ home'[n] = home[n])
        BY <2>4, <3>2 DEF HomeAltered, Altered
      <4> QED
        BY <2>2, <2>3, <4>1
    <3> QED
      BY <3>1, <3>2, StepHome
  <2> QED
    BY <2>1, <2>n, <2>3, <2>4
<1>6. CASE ScanDir
  <2>1. UNCHANGED <<home, clock, job>> /\ todo' \subseteq Listed(here)
    BY <1>6 DEF ScanDir, Steady, home
  <2> SUFFICES ASSUME NEW i \in todo', i.op \in {"set", "store"}
               PROVE  /\ i.entry.ctime <= clock
                      /\ i.node \in DOMAIN home => i.entry.ctime <= home[i.node].ctime
    BY <2>1 DEF Older
  <2>2. i.node \in Nodes /\ ForNode(i.node, i)
        /\ i.op \in IF job.kind = "restore" THEN {"fetch", "create", "modify"}
                                            ELSE {"set", "delete", "store"}
    BY <2>1, ListedAreItems
  <2>3. PICK n \in Nodes : n = i.node
    BY <2>2
  <2>e. PICK e : e = i.entry
    OBVIOUS
  <2>4. job.kind # "restore"
    BY <2>2
  <2>5. n \in DOMAIN home /\ ForBackup(n, i)
    BY <2>2, <2>3, <2>4 DEF ForNode, Work
  <2>6. e.ctime = home[n].ctime
    <3>1. \/ e = File2Entry(n)
          \/ e = Compared(n, File2Entry(n), VersionAt(n, job.when), "diff")
      BY <2>3, <2>e, <2>5 DEF ForBackup, Work
    <3> QED
      BY <1>1, <2>5, <3>1, EntryIs, ComparedIs
  <2>7. home[n].ctime <= clock /\ home[n].ctime \in Nat
    BY <1>2, <2>5
  <2> QED
    BY <2>3, <2>e, <2>6, <2>7
<1> QED
  BY <1>4, <1>5, <1>6, StepTodo

LEMMA BoundsHold == Spec => [](Types /\ Lists /\ Bounds)
<1>1. Init => Bounds
  <2> SUFFICES ASSUME Init
               PROVE  Bounds
    OBVIOUS
  <2>1. /\ repo = [n \in Nodes |-> <<>>] /\ todo = {} /\ clock = 1
    BY DEF Init
  <2>2. \A n \in DOMAIN home : home[n].ctime = 0
    BY DEF Init, home
  <2>3. DOMAIN <<>> = {}
    OBVIOUS
  <2> QED
    BY <2>1, <2>2, <2>3 DEF Bounds
<1>2. (Types /\ Lists) /\ Bounds /\ [Next]_vars => Bounds'
  <2> SUFFICES ASSUME Types, Lists, Bounds, [Next]_vars
               PROVE  Bounds'
    OBVIOUS
  <2>1. Steps /\ Types'
    BY NextIsSteps
  <2>2. Older' /\ \A n \in DOMAIN home' : home'[n].ctime <= clock'
    BY <2>1, OlderKept, TimesKept
  <2>3. \A n \in Nodes : \A k \in DOMAIN repo'[n] : repo'[n][k].btime <= clock'
    BY <2>1, VersionTimesKept
  <2> QED
    BY <2>2, <2>3 DEF Bounds, Older
<1> QED
  BY <1>1, <1>2, ListsHold, PTL DEF Spec

-----------------------------------------------------------------------------
(* What the last version has.                                              *)

\* It is the same, ...
Keeps(n) ==
  Stored(n)' =>
    /\ Stored(n) /\ Digest(n)' = Digest(n) /\ repo'[n] # <<>>
    /\ LastOf(n)'.bytes = LastOf(n).bytes /\ LastOf(n)'.stream = LastOf(n).stream
    /\ LastOf(n)'.zipped = LastOf(n).zipped /\ LastOf(n)'.ctime = LastOf(n).ctime
    /\ UNCHANGED <<home, hidden>> \/ UNCHANGED repo

\* ... it has come with the file, ...
Transferred(n) ==
  Stored(n)' =>
    /\ UNCHANGED <<home, hidden>>
    /\ Digest(n)' = LastOf(n)'.bytes /\ LastOf(n)'.zipped = LastOf(n)'.stream
    /\ n \in DOMAIN home /\ Digest(n)' = home[n].content

\* ... or it took over the data of the one before.
TakesOver(n) ==
  Stored(n)' =>
    /\ Stored(n) /\ UNCHANGED <<home, hidden>> /\ job.kind = "store"
    /\ LastOf(n)'.bytes = LastOf(n).bytes /\ LastOf(n)'.stream = LastOf(n).stream
    /\ LastOf(n)'.zipped = LastOf(n).zipped /\ Digest(n) = LastOf(n).digest
    /\ \E i \in todo : /\ i.op = "set" /\ i.node = n /\ Digest(n)' = i.entry.digest
                       /\ LastOf(n)'.ctime = i.entry.ctime

LEMMA UntouchedKeeps ==
  ASSUME UNCHANGED <<repo, pending, broken>>, NEW n, Storing(n) => Storing(n)'
  PROVE  Keeps(n)
<1>1. ~Storing(n)' => ~Storing(n)
  OBVIOUS
<1> HIDE DEF Storing
<1> QED
  BY <1>1 DEF Keeps, Stored, Digest, LastOf

LEMMA StoringIs ==
  ASSUME NEW n \in Nodes, Storing(n)
  PROVE  sending # NoFile /\ job.kind = "store"
BY TreeAssumption DEF Storing, NoFile

\* For a node other than the one that a call is for.
LEMMA OthersKeep ==
  ASSUME NEW n \in Nodes, repo'[n] = repo[n],
         n \in DOMAIN pending' <=> n \in DOMAIN pending,
         n \in DOMAIN pending => pending'[n] = pending[n],
         n \in broken => n \in broken', ~Storing(n),
         UNCHANGED <<home, hidden>> \/ UNCHANGED repo
  PROVE  Keeps(n)
BY DEF Keeps, Stored, Digest, LastOf

LEMMA SetEntryData ==
  ASSUME Types, Lists, Entered, NEW i \in Item, SetEntryOn(i), NEW n \in Nodes
  PROVE  Keeps(n) \/ TakesOver(n)
<1>1. /\ Turn(i) /\ i.op \in {"set", "delete"} /\ UNCHANGED <<home, hidden, pending, sending, broken, job>>
      /\ sending = NoFile /\ Called(i) /\ i \in todo
  BY CalledLists DEF SetEntryOn, Turn, home
<1>2. ~Storing(n) /\ ~Storing(n)'
  BY <1>1, TreeAssumption DEF Storing, NoFile
<1>3. CASE UNCHANGED repo
  BY <1>1, <1>2, <1>3, UntouchedKeeps
<1>4. CASE n # i.node /\ repo'[n] = repo[n]
  BY <1>1, <1>2, <1>4, OthersKeep
<1>5. CASE n = i.node /\ ~UNCHANGED repo
  <2>1. PICK v \in Version :
           /\ Grows(n, v) /\ OfEntry(v, i.entry)
           /\ v.status = IF i.op = "set" THEN "used" ELSE "deleted"
           /\ repo[n] # <<>> => /\ v.bytes = LastOf(n).bytes
                                /\ v.stream = LastOf(n).stream
                                /\ v.zipped = LastOf(n).zipped
    BY <1>5 DEF SetEntryOn
  <2>2. LastOf(n)' = v
    BY <2>1 DEF Grows, Appended, LastOf
  <2>3. n \notin DOMAIN pending
    BY <1>1, <1>5 DEF Lists
  <2>4. CASE i.op = "delete"
    BY <2>1, <2>2, <2>4 DEF Keeps, Stored
  <2>5. CASE i.op = "set"
    <3> SUFFICES ASSUME Stored(n)'
                 PROVE  TakesOver(n)
      BY DEF TakesOver
    <3>1. job.kind = "store"
      <4>1. job.kind # "restore" /\ job.kind # "diff" /\ pc = "work"
        BY <1>1, NotRestore DEF Turn
      <4> QED
        BY <4>1 DEF Types, Flags, Lists
    <3>2. IsFile(n) /\ n \notin broken
      BY <1>1 DEF Stored
    <3>3. repo[n] # <<>> /\ LastOf(n).status = "used"
      BY <1>1, <1>5, <2>5, <3>1, <3>2 DEF Entered, Proper
    <3>4. Stored(n)
      BY <1>2, <3>2, <3>3 DEF Stored
    <3>5. Digest(n) = LastOf(n).digest /\ Digest(n)' = i.entry.digest
      BY <1>1, <2>1, <2>2, <2>3 DEF Digest, OfEntry
    <3>6. LastOf(n)'.ctime = i.entry.ctime
      BY <2>1, <2>2 DEF OfEntry
    <3>7. \E j \in todo : /\ j.op = "set" /\ j.node = n /\ Digest(n)' = j.entry.digest
                          /\ LastOf(n)'.ctime = j.entry.ctime
      BY <1>1, <1>5, <2>5, <3>5, <3>6
    <3>8. /\ LastOf(n)'.bytes = LastOf(n).bytes /\ LastOf(n)'.stream = LastOf(n).stream
          /\ LastOf(n)'.zipped = LastOf(n).zipped
      BY <2>1, <2>2, <3>3
    <3> QED
      BY <1>1, <3>1, <3>4, <3>5, <3>7, <3>8, Zenon DEF TakesOver
  <2> QED
    BY <1>1, <2>4, <2>5
<1> QED
  BY <1>3, <1>4, <1>5 DEF SetEntryOn, Grows

LEMMA StoreOpenData ==
  ASSUME Types, Lists, NEW i \in Item, StoreOpenOn(i), NEW n \in Nodes
  PROVE  Keeps(n)
<1>1. /\ UNCHANGED <<home, hidden, pending, job>> /\ sending = NoFile
  BY CalledLists DEF StoreOpenOn, Turn, home
<1>2. ~Storing(n)
  BY <1>1, TreeAssumption DEF Storing, NoFile
<1>3. CASE UNCHANGED <<repo, broken>>
  BY <1>1, <1>2, <1>3, UntouchedKeeps
<1>4. CASE ~UNCHANGED <<repo, broken>>
  <2>1. PICK v \in Version :
           /\ Grows(i.node, v)
           /\ \/ /\ broken' = broken \ {i.node} /\ sending'.node = i.node /\ sending' # NoFile
              \/ broken' = broken \cup {i.node} /\ UNCHANGED sending
    BY <1>4 DEF StoreOpenOn, NoFile
  <2>2. CASE n # i.node
    <3>1. repo'[n] = repo[n] /\ (n \in broken => n \in broken')
      BY <2>1, <2>2 DEF Grows
    <3> QED
      BY <1>1, <1>2, <3>1, OthersKeep
  <2>3. CASE n = i.node
    <3>1. job.kind = "store"
      <4>1. /\ Turn(i) /\ i.op = "store"
        BY DEF StoreOpenOn
      <4>2. job.kind # "restore" /\ job.kind # "diff" /\ pc = "work"
        BY <4>1, NotRestore DEF Turn
      <4> QED
        BY <4>2 DEF Types, Flags, Lists
    <3>2. Storing(n)' \/ n \in broken'
      BY <1>1, <2>1, <2>3, <3>1 DEF Storing
    <3> QED
      BY <3>2 DEF Keeps, Stored
  <2> QED
    BY <2>2, <2>3
<1> QED
  BY <1>3, <1>4

LEMMA StoreTransferData ==
  ASSUME Types, Lists, Sent, StoreTransferOn, NEW n \in Nodes
  PROVE  Keeps(n) \/ Transferred(n)
<1>1. /\ UNCHANGED <<home, hidden, job>> /\ sending # NoFile /\ job.kind = "store"
      /\ sending' = NoFile /\ sending.node \in Nodes
  BY CalledLists, TransferIs DEF StoreTransferOn, home
<1>2. CASE n # sending.node
  <2>1. repo'[n] = repo[n]
    BY <1>2 DEF StoreTransferOn, Refills
  <2>2. /\ n \in DOMAIN pending' <=> n \in DOMAIN pending
        /\ n \in DOMAIN pending => pending'[n] = pending[n]
    BY <1>2 DEF StoreTransferOn, Put
  <2>3. n \in broken => n \in broken'
    BY <1>2 DEF StoreTransferOn
  <2>4. ~Storing(n)
    BY <1>2 DEF Storing
  <2> QED
    BY <1>1, <2>1, <2>2, <2>3, <2>4, OthersKeep
<1>3. CASE n = sending.node
  <2>1. CASE n \in broken'
    BY <2>1 DEF Keeps, Stored
  <2>2. CASE n \notin broken'
    <3>1. PICK v \in Version :
            /\ n \in DOMAIN home
            /\ Refills(n, v) /\ Fills(v, LastOf(n), home[n].content, sending.entry.zipped)
            /\ pending' = Put(pending, n, home[n].content)
      BY <1>3, <2>2 DEF StoreTransferOn
    <3>2. LastOf(n)' = v
      BY <3>1 DEF Refills, Relast, LastOf
    <3>3. v.bytes = home[n].content /\ v.stream = sending.entry.zipped /\ v.zipped = LastOf(n).zipped
      BY <3>1 DEF Fills
    <3>4. LastOf(n).zipped = sending.entry.zipped
      BY <1>1, <1>3 DEF Sent
    <3>5. Digest(n)' = home[n].content
      BY <3>1 DEF Digest, Put
    <3> QED
      BY <1>1, <3>1, <3>2, <3>3, <3>4, <3>5 DEF Transferred
  <2> QED
    BY <2>1, <2>2
<1> QED
  BY <1>2, <1>3

LEMMA LeaveDirData ==
  ASSUME Types, Lists, LeaveDir, NEW n \in Nodes
  PROVE  Keeps(n)
<1>1. /\ sending = NoFile /\ UNCHANGED <<home, hidden>> /\ pending' = Empty
      /\ \/ repo' = WithDigests /\ UNCHANGED broken
         \/ UNCHANGED repo /\ broken' = broken \cup DOMAIN pending
  BY DEF LeaveDir, EndJob, Steady, home
<1>2. ~Storing(n)
  BY <1>1, TreeAssumption DEF Storing, NoFile
<1>3. n \notin DOMAIN pending'
  BY <1>1 DEF Empty
<1>4. CASE n \notin DOMAIN pending
  <2>1. repo'[n] = repo[n]
    BY <1>1, <1>4 DEF WithDigests
  <2>2. n \in broken => n \in broken'
    BY <1>1
  <2> QED
    BY <1>1, <1>2, <1>3, <1>4, <2>1, <2>2, OthersKeep
<1>5. CASE n \in DOMAIN pending /\ UNCHANGED repo /\ broken' = broken \cup DOMAIN pending
  BY <1>5 DEF Keeps, Stored
<1>6. CASE n \in DOMAIN pending /\ repo' = WithDigests /\ UNCHANGED broken
  <2>1. Repo
    BY DEF Types
  <2>2. Redone(repo[n], WithDigests[n], pending[n]) /\ repo[n] # <<>>
    BY <1>6, <2>1, DigestedIs DEF Repo
  <2>3. PICK v \in Version : Relast(repo[n], WithDigests[n], v) /\ Digests(v, LastOf(n), pending[n])
    BY <2>2 DEF Redone, LastOf
  <2>4. LastOf(n)' = v
    BY <1>6, <2>3 DEF Relast, LastOf
  <2>5. Digest(n)' = pending[n] /\ Digest(n) = pending[n]
    BY <1>3, <1>6, <2>3, <2>4 DEF Digest, Digests
  <2>6. repo'[n] # <<>>
    BY <1>6, <2>3 DEF Relast
  <2>7. Stored(n)' => Stored(n)
    BY <1>2, <1>6, <2>2, <2>3, <2>4 DEF Stored, Digests
  <2> QED
    BY <1>1, <2>3, <2>4, <2>5, <2>6, <2>7 DEF Keeps, Digests
<1> QED
  BY <1>1, <1>4, <1>5, <1>6

LEMMA StepData ==
  ASSUME Types, Lists, Entered, Sent, Steps, NEW n \in Nodes
  PROVE  Keeps(n) \/ Transferred(n) \/ TakesOver(n)
<1>1. CASE UNCHANGED <<repo, pending, broken, sending, job>>
  <2>1. Storing(n) => Storing(n)'
    BY <1>1 DEF Storing
  <2> QED
    BY <1>1, <2>1, UntouchedKeeps
<1>2. CASE UNCHANGED <<repo, pending, broken>> /\ (sending = NoFile \/ job.kind # "store")
  <2>1. ~Storing(n)
    BY <1>2, StoringIs
  <2> QED
    BY <1>2, <2>1, UntouchedKeeps
<1>3. CASE Rests \/ EditOn
  BY <1>1, <1>3 DEF Rests, EditOn, work
<1>4. CASE \E kind \in setting.kinds, when \in 0..MaxClock : StartJob(kind, when)
  BY <1>2, <1>4 DEF StartJob, Types, Between
<1>5. CASE EnterDir \/ ScanDir \/ Finish \/ ModifyLaterOn
  <2>1. sending = NoFile
    BY <1>5 DEF EnterDir, ScanDir, Finish, ModifyLaterOn, Types, Between
  <2>2. UNCHANGED <<repo, pending, broken>>
    BY <1>5 DEF EnterDir, ScanDir, Finish, ModifyLaterOn
  <2> QED
    BY <1>2, <2>1, <2>2
<1>6. CASE ShowDiffs
  BY <1>1, <1>6 DEF ShowDiffs, Working, Steady
<1>7. CASE \E i \in Item : SetEntryOn(i)
  BY <1>7, SetEntryData
<1>8. CASE \E i \in Item : StoreOpenOn(i)
  BY <1>8, StoreOpenData
<1>9. CASE StoreTransferOn
  BY <1>9, StoreTransferData
<1>10. CASE \E i \in Item : ModifyOn(i) \/ CreateOn(i) \/ FetchOpenOn(i)
  <2>1. PICK i \in Item : ModifyOn(i) \/ CreateOn(i) \/ FetchOpenOn(i)
    BY <1>10
  <2>2. UNCHANGED <<repo, pending, broken>> /\ sending = NoFile
    BY <2>1 DEF ModifyOn, CreateOn, FetchOpenOn, Turn
  <2> QED
    BY <1>2, <2>2
<1>11. CASE FetchFillOn
  <2>1. UNCHANGED <<repo, pending, broken>> /\ job.kind = "restore"
    BY <1>11 DEF FetchFillOn
  <2> QED
    BY <1>2, <2>1
<1>12. CASE LeaveDir
  BY <1>12, LeaveDirData
<1>13. CASE Crash
  <2>1. /\ UNCHANGED <<repo, home, hidden, job>> /\ pending' = Empty /\ sending' = NoFile
        /\ broken' = broken \cup DOMAIN pending \cup
               (IF job.kind = "store" /\ sending # NoFile THEN {sending.node} ELSE {})
    BY <1>13 DEF Crash, home
  <2>2. CASE n \in broken'
    BY <2>2 DEF Keeps, Stored
  <2>3. CASE n \notin broken'
    <3>1. n \notin DOMAIN pending /\ n \notin broken /\ n \notin DOMAIN pending'
      BY <2>1, <2>3 DEF Empty
    <3>2. ~Storing(n)
      BY <2>1, <2>3, StoringIs DEF Storing
    <3> QED
      BY <2>1, <3>1, <3>2, OthersKeep
  <2> QED
    BY <2>2, <2>3
<1> QED
  BY <1>3, <1>4, <1>5, <1>6, <1>7, <1>8, <1>9, <1>10, <1>11, <1>12, <1>13 DEF Steps

LEMMA SentKept ==
  ASSUME Types, Types', Lists, Sent, Steps
  PROVE  Sent'
<1>1. CASE sending' = NoFile \/ job'.kind # "store"
  BY <1>1 DEF Sent
<1>2. CASE UNCHANGED <<repo, sending, job>>
  BY <1>2 DEF Sent, LastOf
<1>3. CASE Rests \/ EditOn \/ ShowDiffs \/ ScanDir \/ ModifyLaterOn
  BY <1>2, <1>3 DEF Rests, EditOn, work, ShowDiffs, Working, Steady, ScanDir, ModifyLaterOn
<1>4. CASE (\E kind \in setting.kinds, when \in 0..MaxClock : StartJob(kind, when)) \/ EnterDir
  <2>1. sending = NoFile
    BY <1>4 DEF StartJob, EnterDir, Types, Between
  <2>2. sending' \in {sending, NoFile}
    BY <1>4 DEF StartJob, EnterDir, EndJob, work
  <2> QED
    BY <1>1, <2>1, <2>2
<1>5. CASE Finish \/ Crash
  BY <1>1, <1>5 DEF Finish, EndJob, Crash
<1>6. CASE LeaveDir
  BY <1>1, <1>6 DEF LeaveDir, EndJob
<1>7. CASE \E i \in Item : SetEntryOn(i)
  BY <1>1, <1>7 DEF SetEntryOn, Turn
<1>8. CASE StoreTransferOn \/ FetchFillOn
  BY <1>1, <1>8 DEF StoreTransferOn, FetchFillOn
<1>9. CASE \E i \in Item : ModifyOn(i) \/ CreateOn(i)
  BY <1>1, <1>9 DEF ModifyOn, CreateOn, Turn
<1>10. CASE \E i \in Item : FetchOpenOn(i)
  <2>1. PICK i : Called(i) /\ i \in todo /\ i.op = "fetch"
    BY <1>10 DEF FetchOpenOn, Turn
  <2>2. job'.kind = "restore"
    BY <2>1, CalledLists DEF Types, Ops
  <2> QED
    BY <1>1, <2>2
<1>11. CASE \E i \in Item : StoreOpenOn(i)
  <2>1. PICK i \in Item : StoreOpenOn(i)
    BY <1>11
  <2>2. CASE UNCHANGED sending
    BY <1>1, <2>1, <2>2 DEF StoreOpenOn, Turn
  <2>3. CASE ~UNCHANGED sending
    <3>1. PICK v \in Version : /\ Grows(i.node, v)
                               /\ sending' = [node |-> i.node, entry |-> v, item |-> i]
      BY <2>1, <2>3 DEF StoreOpenOn
    <3>2. LastOf(i.node)' = v /\ sending'.node = i.node /\ sending'.entry = v
      BY <3>1 DEF Grows, Appended, LastOf
    <3> QED
      BY <3>2 DEF Sent, LastOf
  <2> QED
    BY <2>2, <2>3
<1> QED
  BY <1>3, <1>4, <1>5, <1>6, <1>7, <1>8, <1>9, <1>10, <1>11 DEF Steps

\* An entry that is still listed to be set is for a node that no call has been for.
LEMMA SetsUntouched ==
  ASSUME Types, Lists, Steps, NEW i \in todo, i \in todo', i.op = "set"
  PROVE  repo'[i.node] = repo[i.node]
<1>1. CASE UNCHANGED repo
  BY <1>1
<1>2. CASE \E j \in Item : SetEntryOn(j)
  <2>1. PICK j \in Item : SetEntryOn(j)
    BY <1>2
  <2>2. CASE i # j
    <3>1. i.node # j.node /\ i.node \in Nodes
      BY <2>1, <2>2 DEF Lists, SetEntryOn, Turn, Types, Queues, Item
    <3> QED
      BY <2>1, <3>1 DEF SetEntryOn, Grows
  <2>3. CASE i = j
    <3>1. ~Succeeds(j)
      BY <2>3 DEF Succeeds
    <3> QED
      BY <2>1, <3>1 DEF SetEntryOn
  <2> QED
    BY <2>2, <2>3
<1>3. CASE \E j \in Item : StoreOpenOn(j)
  <2>1. PICK j \in Item : StoreOpenOn(j)
    BY <1>3
  <2>2. i # j /\ j \in todo
    BY <2>1 DEF StoreOpenOn, Turn
  <2>3. i.node # j.node /\ i.node \in Nodes
    BY <2>2 DEF Lists, Types, Queues, Item
  <2> QED
    BY <2>1, <2>3 DEF StoreOpenOn, Grows
<1>4. CASE StoreTransferOn
  <2>1. /\ sending # NoFile /\ job.kind = "store"
    BY <1>4, TransferIs DEF StoreTransferOn
  <2>2. PICK j \in todo : j.node = sending.node /\ j.op = "store"
    BY <2>1 DEF Lists
  <2>3. i.node # sending.node /\ i.node \in Nodes
    BY <2>2 DEF Lists, Types, Queues, Item
  <2> QED
    BY <1>4, <2>3 DEF StoreTransferOn, Refills
<1>5. CASE LeaveDir
  BY <1>5 DEF LeaveDir
<1>6. CASE \/ \E j \in Item : ModifyOn(j) \/ CreateOn(j) \/ FetchOpenOn(j)
           \/ FetchFillOn \/ ModifyLaterOn
  BY <1>1, <1>6 DEF ModifyOn, CreateOn, FetchOpenOn, FetchFillOn, ModifyLaterOn
<1>7. CASE \/ Rests \/ (\E kind \in setting.kinds, when \in 0..MaxClock : StartJob(kind, when))
           \/ EnterDir \/ ScanDir \/ ShowDiffs \/ Finish \/ Crash \/ EditOn
  BY <1>1, <1>7 DEF Rests, StartJob, EnterDir, ScanDir, ShowDiffs, Finish, Crash, EditOn
<1> QED
  BY <1>2, <1>3, <1>4, <1>5, <1>6, <1>7 DEF Steps

\* A change of the tree hides the file, or is one of a time of its own.
LEMMA ProperKept ==
  ASSUME Types, Bounds, Steps, NEW i \in todo, i.op = "set", IsFile(i.node), pc = "work",
         Proper(i.node, i.entry), repo'[i.node] = repo[i.node],
         UNCHANGED <<home, hidden>> \/ HomeAltered
  PROVE  Proper(i.node, i.entry)'
<1>1. PICK n \in Nodes : n = i.node
  BY DEF Types, Queues, Item
<1>2. PICK e \in Version : e = i.entry
  BY DEF Types, Queues, Item
<1>3. Proper(n, e) /\ repo'[n] = repo[n] /\ IsFile(n)
  BY <1>1, <1>2
<1>4. CASE UNCHANGED <<home, hidden>>
  <2>1. Proper(n, e)'
    BY <1>3, <1>4 DEF Proper, LastOf
  <2> QED
    BY <1>1, <1>2, <2>1
<1>5. CASE HomeAltered
  <2>1. PICK S : Altered(home, home', S, Given) /\ hidden' = Hidden(S)
    BY <1>5 DEF HomeAltered
  <2>2. clock \in Nat /\ clock' \in Nat /\ clock <= clock' /\ IsTree(home)
    BY StepClock DEF Types, Trees
  <2>3. PICK c \in Nat : c = e.ctime
    BY <1>2 DEF Version
  <2>4. c <= clock /\ (n \in DOMAIN home => c <= home[n].ctime /\ home[n].ctime <= clock)
    BY <1>1, <1>2, <2>3 DEF Bounds
  <2>5. n \in DOMAIN home => home[n].ctime \in Nat
    BY <2>2, CtimeOf
  <2> SUFFICES ASSUME n \in DOMAIN home', n \notin hidden', e.ctime = home'[n].ctime
               PROVE  home'[n].content = e.digest
    BY <1>1, <1>2, <1>3 DEF Proper, LastOf
  <2>6. CASE n \in S
    <3>1. home'[n].ctime = clock'
      BY <1>3, <2>1, <2>6 DEF Altered
    <3>2. c = clock'
      BY <2>3, <3>1
    <3>3. n \in DOMAIN home => home[n].ctime = clock'
      BY <2>2, <2>4, <2>5, <3>2
    <3>4. SameSecond(n)
      BY <3>3 DEF SameSecond
    <3> QED
      BY <2>1, <2>6, <3>4 DEF Hidden
  <2>7. CASE n \notin S
    <3>1. ~IsDir(n)
      BY <1>3 DEF IsFile, IsDir
    <3>2. n \in DOMAIN home /\ home'[n] = home[n]
      BY <2>1, <2>7, <3>1 DEF Altered
    <3>3. n \notin hidden
      BY <2>1, <2>7 DEF Hidden
    <3> QED
      BY <1>3, <3>2, <3>3 DEF Proper
  <2> QED
    BY <2>6, <2>7
<1> QED
  BY <1>4, <1>5

\* What a scan for a store lists to be set.
LEMMA ScannedIsProper ==
  ASSUME Types, Lists, job.kind = "store", NEW i \in Listed(here), i.op = "set", IsFile(i.node)
  PROVE  Proper(i.node, i.entry)
<1>1. i.node \in Nodes /\ ForNode(i.node, i)
  BY ListedAreItems
<1>2. PICK n \in Nodes : n = i.node
  BY <1>1
<1>3. PICK e : e = i.entry
  OBVIOUS
<1>4. IsTree(home) /\ repo[n] \in Seq(Version) /\ job.when = 0
  BY DEF Types, Trees, Repo, Lists
<1>5. n \in DOMAIN home /\ News(n) /\ ForBackup(n, i)
  BY <1>1, <1>2 DEF ForNode, Work
<1>6. PICK l, r : l = File2Entry(n) /\ r = VersionAt(n, job.when)
  OBVIOUS
<1>7. /\ Known(n) /\ ~setting.force
      /\ ~ContentChanged(n, l, r, "diff")
      /\ e = Compared(n, l, r, "diff")
  BY <1>2, <1>3, <1>5, <1>6 DEF ForBackup, Work
<1>8. Changed(n, l, r, "diff")
  BY <1>5, <1>6, <1>7 DEF News
<1>9. repo[n] # <<>> /\ r = LastOf(n)
  BY <1>4, <1>6, <1>7, SeenAll DEF Known
<1>10. r.status # "deleted" /\ home[n].content = r.digest
  BY <1>2, <1>7, <1>8 DEF ContentChanged
<1>11. e.digest = home[n].content
  BY <1>2, <1>4, <1>5, <1>6, <1>7, <1>8, ComparedIs
<1>12. r \in Version
  BY <1>4, <1>6, <1>7, VersionAtIs DEF Known
<1>13. r.status = "used"
  BY <1>10, <1>12 DEF Version
<1> QED
  BY <1>2, <1>3, <1>9, <1>10, <1>11, <1>13 DEF Proper

LEMMA EnteredKept ==
  ASSUME Types, Types', Lists, Bounds, Entered, Steps
  PROVE  Entered'
<1>1. CASE todo' = {}
  BY <1>1 DEF Entered
<1>2. CASE ScanDir
  <2>1. UNCHANGED <<job, home, repo, hidden>> /\ todo' \subseteq Listed(here)
    BY <1>2 DEF ScanDir, Steady, home
  <2> SUFFICES ASSUME job.kind = "store", NEW i \in todo', i.op = "set", IsFile(i.node)
               PROVE  Proper(i.node, i.entry)'
    BY <2>1 DEF Entered
  <2>2. Proper(i.node, i.entry)
    BY <2>1, ScannedIsProper
  <2> QED
    BY <2>1, <2>2 DEF Proper, LastOf
<1>3. CASE todo' \subseteq todo /\ UNCHANGED job /\ pc = "work"
  <2> SUFFICES ASSUME job.kind = "store", NEW i \in todo', i.op = "set", IsFile(i.node)
               PROVE  Proper(i.node, i.entry)'
    BY <1>3 DEF Entered
  <2>1. i \in todo /\ Proper(i.node, i.entry)
    BY <1>3 DEF Entered
  <2>2. repo'[i.node] = repo[i.node]
    BY <2>1, SetsUntouched
  <2>3. UNCHANGED <<home, hidden>> \/ HomeAltered
    BY StepHome
  <2> QED
    BY <1>3, <2>1, <2>2, <2>3, ProperKept
<1> QED
  BY <1>1, <1>2, <1>3, StepTodo

LEMMA WholeKept ==
  ASSUME Types, Lists, Data, Steps, NEW n \in Nodes
  PROVE  WholeAt(n)'
<1>1. /\ WholeAt(n) /\ TimelyAt(n) /\ Entered /\ Sent
  BY DEF Data
<1> SUFFICES ASSUME Stored(n)'
             PROVE  Digest(n)' = LastOf(n)'.bytes /\ LastOf(n)'.zipped = LastOf(n)'.stream
  BY DEF WholeAt
<1>2. CASE Keeps(n)
  BY <1>1, <1>2 DEF Keeps, WholeAt
<1>3. CASE Transferred(n)
  BY <1>3 DEF Transferred
<1>4. CASE TakesOver(n)
  <2>1. PICK i \in todo : i.op = "set" /\ i.node = n /\ Digest(n)' = i.entry.digest
    BY <1>4 DEF TakesOver
  <2>2. Stored(n) /\ job.kind = "store" /\ Digest(n) = LastOf(n).digest
    BY <1>4 DEF TakesOver
  <2>3. i.entry.digest = LastOf(n).digest
    BY <1>1, <2>1, <2>2 DEF Entered, Proper, Stored
  <2>4. Digest(n)' = LastOf(n).bytes /\ LastOf(n).zipped = LastOf(n).stream
    BY <1>1, <2>1, <2>2, <2>3 DEF WholeAt
  <2> QED
    BY <1>4, <2>4 DEF TakesOver
<1> QED
  BY <1>1, <1>2, <1>3, <1>4, StepData

LEMMA TimelyKept ==
  ASSUME Types, Lists, Data, Steps, NEW n \in Nodes
  PROVE  TimelyAt(n)'
<1>1. /\ WholeAt(n) /\ TimelyAt(n) /\ Entered /\ Sent
  BY DEF Data
<1>2. UNCHANGED <<home, hidden>> \/ HomeAltered
  BY StepHome
<1> SUFFICES ASSUME Stored(n)', n \notin hidden', n \in DOMAIN home',
                    LastOf(n)'.ctime = home'[n].ctime
             PROVE  home'[n].content = Digest(n)'
  BY DEF TimelyAt
<1>3. CASE Transferred(n)
  BY <1>3 DEF Transferred
<1>4. CASE TakesOver(n)
  <2>1. PICK i \in todo : /\ i.op = "set" /\ i.node = n /\ Digest(n)' = i.entry.digest
                          /\ LastOf(n)'.ctime = i.entry.ctime
    BY <1>4 DEF TakesOver
  <2>2. Stored(n) /\ job.kind = "store" /\ UNCHANGED <<home, hidden>>
    BY <1>4 DEF TakesOver
  <2>3. Proper(n, i.entry)
    BY <1>1, <2>1, <2>2 DEF Entered, Stored
  <2> QED
    BY <2>1, <2>2, <2>3 DEF Proper
<1>5. CASE Keeps(n) /\ UNCHANGED <<home, hidden>>
  BY <1>1, <1>5 DEF Keeps, TimelyAt
<1>6. CASE Keeps(n) /\ HomeAltered
  <2>1. /\ Stored(n) /\ Digest(n)' = Digest(n) /\ LastOf(n)'.ctime = LastOf(n).ctime
    BY <1>6 DEF Keeps
  <2>2. PICK S : Altered(home, home', S, Given) /\ hidden' = Hidden(S)
    BY <1>6 DEF HomeAltered
  <2>3. IsFile(n) /\ ~IsDir(n) /\ repo[n] # <<>>
    BY <2>1 DEF Stored, IsFile, IsDir
  <2>4. CASE n \in S
    <3>1. home'[n].ctime = clock'
      BY <2>2, <2>3, <2>4 DEF Altered
    <3>2. SameSecond(n)
      BY <2>1, <2>3, <3>1 DEF SameSecond
    <3> QED
      BY <2>2, <2>4, <3>2 DEF Hidden
  <2>5. CASE n \notin S
    <3>1. n \in DOMAIN home /\ home'[n] = home[n]
      BY <2>2, <2>3, <2>5 DEF Altered
    <3>2. n \notin hidden
      BY <2>2, <2>5 DEF Hidden
    <3> QED
      BY <1>1, <2>1, <3>1, <3>2 DEF TimelyAt
  <2> QED
    BY <2>4, <2>5
<1> QED
  BY <1>1, <1>2, <1>3, <1>4, <1>5, <1>6, StepData

LEMMA DataHold == Spec => [](Types /\ Lists /\ Data)
<1>1. Init => Data
  <2> SUFFICES ASSUME Init
               PROVE  Data
    OBVIOUS
  <2>1. repo = [n \in Nodes |-> <<>>] /\ todo = {} /\ sending = NoFile
    BY DEF Init
  <2> QED
    BY <2>1 DEF Data, Entered, Sent, WholeAt, TimelyAt, Stored
<1>2. (Types /\ Lists) /\ Bounds /\ Data /\ [Next]_vars => Data'
  <2> SUFFICES ASSUME Types, Lists, Bounds, Data, [Next]_vars
               PROVE  Data'
    OBVIOUS
  <2>1. Steps /\ Types' /\ Entered /\ Sent
    BY NextIsSteps DEF Data
  <2>2. Entered' /\ Sent'
    BY <2>1, EnteredKept, SentKept
  <2>3. \A n \in Nodes : WholeAt(n)' /\ TimelyAt(n)'
    BY <2>1, WholeKept, TimelyKept
  <2> QED
    BY <2>2, <2>3 DEF Data
<1> QED
  BY <1>1, <1>2, BoundsHold, PTL DEF Spec

-----------------------------------------------------------------------------
(* Where a job goes.                                                       *)

LEMMA ListingIs ==
  ASSUME dirs \in Seq(Nodes \cup {Root}), dirs # <<>>,
         dirs' = Tail(dirs)
  PROVE  /\ Head(dirs) \in Listing /\ Head(dirs) \in Nodes \cup {Root}
         /\ Listing' \subseteq Listing
         /\ Listing \subseteq {Head(dirs)} \cup Listing'
         /\ dirs = <<Root>> => Listing' = {} /\ Head(dirs) = Root
<1> DEFINE X == Nodes \cup {Root}
<1>1. dirs \in Seq(X)
  OBVIOUS
<1> HIDE DEF X
<1>2. PICK b \in Nat : b = Len(dirs) /\ DOMAIN dirs = 1..b
  BY <1>1, LenProperties
<1>3. /\ Head(dirs) = dirs[1] /\ Head(dirs) \in X
      /\ Tail(dirs) \in Seq(X) /\ Len(Tail(dirs)) = b - 1
      /\ \A i \in 1..Len(Tail(dirs)) : Tail(dirs)[i] = dirs[i + 1]
  BY <1>1, <1>2, HeadTailProperties, LenProperties
<1>4. b # 0
  BY <1>1, <1>2, EmptySeq
<1>5. DOMAIN Tail(dirs) = 1..(b - 1)
  BY <1>3, LenProperties
<1>6. \A i \in 1..(b - 1) : i + 1 \in 1..b
  BY <1>2
<1>7. \A k \in 1..b : k = 1 \/ (k - 1 \in 1..(b - 1) /\ (k - 1) + 1 = k)
  BY <1>2
<1>8. 1 \in 1..b
  BY <1>2, <1>4
<1>9. Head(dirs) \in Listing
  BY <1>2, <1>3, <1>8 DEF Listing
<1>10. Listing' \subseteq Listing
  BY <1>2, <1>3, <1>5, <1>6 DEF Listing
<1>11. Listing \subseteq {Head(dirs)} \cup Listing'
  <2> SUFFICES ASSUME NEW k \in 1..b, k # 1
               PROVE  dirs[k] \in Listing'
    BY <1>2, <1>3 DEF Listing
  <2>1. PICK j \in 1..(b - 1) : j + 1 = k
    BY <1>7
  <2>2. Tail(dirs)[j] = dirs[k]
    BY <1>3, <2>1
  <2> QED
    BY <1>5, <2>2 DEF Listing
<1>12. dirs = <<Root>> => Listing' = {} /\ Head(dirs) = Root
  BY DEF Listing
<1> QED
  BY <1>3, <1>9, <1>10, <1>11, <1>12 DEF X

\* What becomes of the list of directories.
Ends      == dirs' = <<>> /\ pc' = "idle"
Starts    == dirs' = <<Root>> /\ pc' = "enter"
Finds     == pc = "enter" /\ dirs = <<>> /\ dirs' = <<>> /\ pc' = "final"
Passes    == /\ pc = "enter" /\ dirs # <<>> /\ Head(dirs) \in setting.excludes
             /\ dirs' = Tail(dirs) /\ pc' = IF setting.recursive THEN "enter" ELSE "final"
Goes      == /\ pc = "enter" /\ dirs # <<>> /\ Head(dirs) \notin setting.excludes
             /\ dirs' = Tail(dirs) /\ here' = Head(dirs) /\ pc' = "scan"
Leaves    == /\ pc = "work" /\ UNCHANGED <<dirs, here>>
             /\ pc' = IF setting.recursive THEN "enter" ELSE "final"

LEMMA StepDirs ==
  ASSUME Types, Steps
  PROVE  \/ UNCHANGED <<dirs, here, pc>>
         \/ Ends
         \/ Starts /\ \E kind \in setting.kinds, when \in 0..MaxClock : StartJob(kind, when)
         \/ EnterDir /\ (Finds \/ Passes \/ Goes)
         \/ ScanDir
         \/ LeaveDir /\ Leaves
<1>1. CASE \E i : Called(i)
  BY <1>1, CalledLists
<1>2. CASE Rests \/ ShowDiffs \/ ModifyLaterOn \/ EditOn
  BY <1>2 DEF Rests, ShowDiffs, Working, ModifyLaterOn, EditOn, work
<1>3. CASE \E kind \in setting.kinds, when \in 0..MaxClock : StartJob(kind, when)
  BY <1>3 DEF StartJob, Starts
<1>4. CASE EnterDir
  <2>1. Ends \/ Finds \/ Passes \/ Goes
    BY <1>4 DEF EnterDir, EndJob, work, Remaining, Ends, Finds, Passes, Goes
  <2> QED
    BY <1>4, <2>1
<1>5. CASE LeaveDir
  <2>1. Ends \/ Leaves
    BY <1>5 DEF LeaveDir, EndJob, Ends, Leaves
  <2> QED
    BY <1>5, <2>1
<1>6. CASE Finish \/ Crash
  BY <1>6 DEF Finish, EndJob, Crash, Ends
<1> QED
  BY <1>1, <1>2, <1>3, <1>4, <1>5, <1>6 DEF Steps, SetEntryOn, StoreOpenOn,
     ModifyOn, CreateOn, FetchOpenOn, StoreTransferOn, FetchFillOn

LEMMA ScanDirs ==
  ASSUME Types, ScanDir
  PROVE  /\ pc = "scan" /\ pc' = "work" /\ UNCHANGED here
         /\ Listing \subseteq Listing' /\ Listing' \subseteq Listing \cup SubDirs(here)
         /\ (\E order \in SetToSeqs(SubDirs(here)) : dirs' = Scanned(order))
              => SubDirs(here) \subseteq Listing'
<1>1. pc = "scan" /\ pc' = "work" /\ UNCHANGED here
  BY DEF ScanDir
<1>2. ASSUME NEW order \in SetToSeqs(SubDirs(here)), dirs' = Scanned(order)
      PROVE  /\ Listing \subseteq Listing' /\ Listing' \subseteq Listing \cup SubDirs(here)
             /\ SubDirs(here) \subseteq Listing'
  <2>1. PICK S \in SUBSET Nodes : S = SubDirs(here)
    BY SubDirsAre
  <2>2. dirs \in Seq(Nodes \cup {Root})
    BY DEF Types, Queues
  <2>3. /\ \A k \in DOMAIN dirs' : dirs'[k] \in S \/ \E j \in DOMAIN dirs : dirs'[k] = dirs[j]
        /\ \A d \in S : \E k \in DOMAIN dirs' : dirs'[k] = d
        /\ \A j \in DOMAIN dirs : \E k \in DOMAIN dirs' : dirs'[k] = dirs[j]
    BY <1>2, <2>1, <2>2, ScannedIs
  <2> QED
    BY <2>1, <2>3 DEF Listing
<1>3. CASE \E order \in SetToSeqs(SubDirs(here)) : dirs' = Scanned(order)
  BY <1>1, <1>2, <1>3
<1>4. CASE /\ ~\E order \in SetToSeqs(SubDirs(here)) : dirs' = Scanned(order)
           /\ UNCHANGED dirs
  BY <1>1, <1>4 DEF Listing
<1> QED
  BY <1>3, <1>4 DEF ScanDir

\* A directory below one that is walked is walked too.
LEMMA WalksOn ==
  ASSUME NEW d, Walks(d), d \notin setting.excludes, NEW c \in Nodes, Parent[c] = d
  PROVE  Walks(c)
<1>1. CASE d = Root
  <2>1. Above[c] = {}
    BY <1>1, AboveNothing
  <2> QED
    BY <1>1, <2>1 DEF Walks
<1>2. CASE d # Root
  <2>1. Above[c] = {d} \cup Above[d]
    BY <1>2, AboveStep
  <2> QED
    BY <1>2, <2>1 DEF Walks
<1> QED
  BY <1>1, <1>2

LEMMA WalkKept ==
  ASSUME Types, Types', Walk, Steps
  PROVE  Walk'
<1>1. UNCHANGED setting /\ dirs \in Seq(Nodes \cup {Root})
  BY StepClock DEF Types, Queues
<1>2. \A d : Walks(d)' <=> Walks(d)
  BY <1>1 DEF Walks
<1>3. /\ \A d \in Listing : Walks(d)
      /\ pc \in {"scan", "work"} => Walks(here) /\ here \notin setting.excludes
      /\ Root \in Listing => dirs = <<Root>> /\ pc = "enter"
      /\ ~setting.recursive => /\ pc = "enter" => dirs = <<Root>>
                               /\ pc \in {"scan", "work"} => here = Root
      /\ pc = "final" /\ setting.recursive => dirs = <<>>
  BY DEF Walk
<1> HIDE DEF Walks
<1>4. CASE UNCHANGED <<dirs, here, pc>>
  BY <1>1, <1>2, <1>3, <1>4 DEF Walk, Listing
<1>5. CASE Ends
  <2>1. Listing' = {}
    BY <1>5 DEF Ends, Listing
  <2> QED
    BY <1>5, <2>1 DEF Ends, Walk
<1>6. CASE Starts
  <2>1. Listing' = {Root} /\ Walks(Root)
    BY <1>6 DEF Starts, Listing, Walks
  <2> QED
    BY <1>2, <1>6, <2>1 DEF Starts, Walk
<1>7. CASE Finds
  <2>1. Listing' = {}
    BY <1>7 DEF Finds, Listing
  <2> QED
    BY <1>7, <2>1 DEF Finds, Walk
<1>8. CASE Passes \/ Goes
  <2>1. /\ Head(dirs) \in Listing /\ Listing' \subseteq Listing
        /\ dirs = <<Root>> => Listing' = {} /\ Head(dirs) = Root
    BY <1>1, <1>8, ListingIs DEF Passes, Goes
  <2>2. \A d \in Listing' : Walks(d)'
    BY <1>2, <1>3, <2>1
  <2>3. Root \notin Listing'
    BY <1>3, <2>1
  <2>4. CASE Passes
    BY <1>1, <2>2, <2>3, <2>4 DEF Passes, Walk
  <2>5. CASE Goes
    <3>1. Walks(here)' /\ here' \notin setting'.excludes
      BY <1>1, <1>2, <1>3, <2>1, <2>5 DEF Goes, Walks
    <3>2. ~setting.recursive => here' = Root
      BY <1>3, <2>1, <2>5 DEF Goes
    <3> QED
      BY <1>1, <2>2, <2>3, <2>5, <3>1, <3>2 DEF Goes, Walk
  <2> QED
    BY <1>8, <2>4, <2>5
<1>9. CASE ScanDir
  <2>1. /\ pc = "scan" /\ pc' = "work" /\ UNCHANGED here
        /\ Listing' \subseteq Listing \cup SubDirs(here)
    BY <1>9, ScanDirs
  <2>2. \A d \in SubDirs(here) : d \in Nodes /\ Parent[d] = here
    BY SubDirsAre
  <2>3. \A d \in SubDirs(here) : Walks(d)
    BY <1>3, <2>1, <2>2, WalksOn
  <2>4. Root \notin Listing'
    BY <1>3, <2>1, <2>2, TreeAssumption
  <2>5. Walks(here)' /\ here' \notin setting'.excludes
    BY <1>1, <1>3, <2>1 DEF Walks
  <2> QED
    BY <1>1, <1>2, <1>3, <2>1, <2>3, <2>4, <2>5 DEF Walk
<1>10. CASE Leaves
  <2>1. Listing' = Listing /\ Root \notin Listing
    BY <1>3, <1>10 DEF Leaves, Listing
  <2> QED
    BY <1>1, <1>2, <1>3, <1>10, <2>1 DEF Leaves, Walk
<1> QED
  BY <1>4, <1>5, <1>6, <1>7, <1>8, <1>9, <1>10, StepDirs

LEMMA WalkHolds == Spec => [](Types /\ Lists /\ Walk)
<1>1. Init => Walk
  BY DEF Init, Walk, Listing
<1>2. (Types /\ Lists) /\ Walk /\ [Next]_vars => Walk'
  BY NextIsSteps, WalkKept
<1> QED
  BY <1>1, <1>2, ListsHold, PTL DEF Spec

-----------------------------------------------------------------------------
(* A store that nothing disturbs works off what will fit.                  *)

LEMMA StepJob ==
  ASSUME Types, Steps
  PROVE  \/ \E kind \in setting.kinds, when \in 0..MaxClock : StartJob(kind, when)
         \/ EditOn
         \/ /\ UNCHANGED <<job, dirty>> /\ failed \subseteq failed'
            /\ pc' # "idle" => pc # "idle"
<1>1. CASE \E i : Called(i)
  <2>1. PICK i : Called(i)
    BY <1>1
  <2>2. pc = "work"
    BY <2>1 DEF Called
  <2> QED
    BY <2>1, <2>2, CalledLists
<1>2. CASE Rests
  BY <1>2 DEF Rests
<1>3. CASE EnterDir
  BY <1>3 DEF EnterDir, EndJob, Steady
<1>4. CASE ScanDir
  <2>1. failed \subseteq failed' /\ pc = "scan" /\ Steady
    BY <1>4 DEF ScanDir
  <2> QED
    BY <2>1 DEF Steady
<1>5. CASE ShowDiffs \/ ModifyLaterOn
  BY <1>5 DEF ShowDiffs, Working, Steady, ModifyLaterOn
<1>6. CASE LeaveDir
  BY <1>6 DEF LeaveDir, EndJob, Steady
<1>7. CASE Finish \/ Crash
  BY <1>7 DEF Finish, EndJob, Crash
<1> QED
  BY <1>1, <1>2, <1>3, <1>4, <1>5, <1>6, <1>7 DEF Steps, SetEntryOn, StoreOpenOn,
     ModifyOn, CreateOn, FetchOpenOn, StoreTransferOn, FetchFillOn

LEMMA StillUndisturbed ==
  ASSUME Types, Lists, Steps, Undisturbed',
         ~\E kind \in setting.kinds, when \in 0..MaxClock : StartJob(kind, when)
  PROVE  Undisturbed /\ UNCHANGED <<home, hidden, job, setting>> /\ failed \subseteq failed'
<1>1. ~EditOn
  BY DEF EditOn, Undisturbed
<1>2. /\ UNCHANGED <<job, dirty>> /\ failed \subseteq failed'
      /\ pc' # "idle" => pc # "idle"
  BY <1>1, StepJob
<1>3. Undisturbed /\ job.kind = "store"
  BY <1>2 DEF Undisturbed
<1>4. UNCHANGED <<home, hidden>>
  BY <1>1, <1>3, StepHome DEF HomeAltered
<1> QED
  BY <1>2, <1>3, <1>4, StepClock

\* The call for i writes the version v.
Writes(i, v) ==
  /\ Grows(i.node, v) /\ OfEntry(v, i.entry)
  /\ v.status = IF i.op = "set" THEN "used"
                ELSE IF i.op = "delete" THEN "deleted" ELSE i.entry.status

LEMMA WritesOn ==
  ASSUME NEW i, SetEntryOn(i) \/ StoreOpenOn(i)
  PROVE  UNCHANGED repo \/ \E v \in Version : Writes(i, v)
<1>1. CASE SetEntryOn(i)
  BY <1>1 DEF SetEntryOn, Writes
<1>2. CASE StoreOpenOn(i)
  BY <1>2 DEF StoreOpenOn, Writes
<1> QED
  BY <1>1, <1>2

LEMMA WrittenMatches ==
  ASSUME NEW i, NEW v, Writes(i, v), Suits(i), UNCHANGED home
  PROVE  Matched(i.node)'
<1>1. /\ repo'[i.node] # <<>> /\ LastOf(i.node)' = v
  BY DEF Writes, Grows, Appended, LastOf
<1>2. CASE i.node \in DOMAIN home
  <2>1. Fits(i.node, v)
    BY <1>2 DEF Suits, Fits, Writes, OfEntry
  <2>2. Fits(i.node, LastOf(i.node))'
    BY <1>1, <2>1 DEF Fits
  <2> QED
    BY <1>1, <1>2, <2>2 DEF Matched
<1>3. CASE i.node \notin DOMAIN home
  <2>1. v.status = "deleted"
    BY <1>3 DEF Suits, Writes
  <2> QED
    BY <1>1, <1>3, <2>1 DEF Matched
<1> QED
  BY <1>2, <1>3

LEMMA MatchedKept ==
  ASSUME Types, Lists, Steps, UNCHANGED home, \A i \in todo : Suits(i),
         NEW n \in Nodes, Matched(n)
  PROVE  Matched(n)'
<1>1. CASE repo'[n] = repo[n]
  BY <1>1 DEF Matched, LastOf, Fits
<1>2. CASE OtherVersion(n) /\ repo[n] # <<>>
  <2>1. PICK v \in Version : Relast(repo[n], repo'[n], v) /\ Like(v, LastOf(n))
    BY <1>2 DEF OtherVersion
  <2>2. repo'[n] # <<>> /\ LastOf(n)' = v
    BY <2>1 DEF Relast, LastOf
  <2>3. CASE n \in DOMAIN home
    <3>1. Fits(n, LastOf(n))
      BY <2>3 DEF Matched
    <3>2. Fits(n, v)
      BY <2>1, <3>1 DEF Fits, Like
    <3>3. Fits(n, LastOf(n))'
      BY <2>2, <3>2 DEF Fits
    <3> QED
      BY <2>2, <2>3, <3>3 DEF Matched
  <2>4. CASE n \notin DOMAIN home
    BY <1>2, <2>1, <2>2, <2>4 DEF Matched, Like
  <2> QED
    BY <2>3, <2>4
<1>3. CASE \E i \in Item : i.node = n /\ (SetEntryOn(i) \/ StoreOpenOn(i))
  <2>1. PICK i \in Item : i.node = n /\ (SetEntryOn(i) \/ StoreOpenOn(i))
    BY <1>3
  <2>2. i \in todo
    BY <2>1 DEF SetEntryOn, StoreOpenOn, Turn
  <2>3. CASE UNCHANGED repo
    BY <1>1, <2>3
  <2>4. CASE \E v \in Version : Writes(i, v)
    BY <2>1, <2>2, <2>4, WrittenMatches
  <2> QED
    BY <2>1, <2>3, <2>4, WritesOn
<1> QED
  BY <1>1, <1>2, <1>3, StepRepo

\* What a scan finds in a directory.
LEMMA MatchedIs ==
  ASSUME Types, job.when = 0, NEW n \in Nodes
  PROVE  /\ n \in DOMAIN home /\ ~News(n) => Matched(n)
         /\ n \notin DOMAIN home /\ ~Used(n, 0) => Matched(n)
         /\ n \notin DOMAIN home /\ Matched(n) => ~Used(n, 0)
<1>1. repo[n] \in Seq(Version) /\ IsTree(home)
  BY DEF Types, Repo, Trees
<1>2. /\ Seen(n, 0) # {} <=> repo[n] # <<>>
      /\ repo[n] # <<>> => VersionAt(n, 0) = LastOf(n)
  BY <1>1, SeenAll
<1>3. repo[n] # <<>> => LastOf(n) \in Version
  BY <1>1, LenProperties, ElementOfSeq, EmptySeq DEF LastOf
<1>4. repo[n] # <<>> => LastOf(n).status \in {"used", "deleted"}
  BY <1>3 DEF Version
<1>5. ASSUME n \in DOMAIN home, ~News(n)
      PROVE  Matched(n)
  <2>1. /\ repo[n] # <<>>
        /\ ~Changed(n, File2Entry(n), LastOf(n), "diff")
        /\ ~ContentChanged(n, File2Entry(n), LastOf(n), "diff")
    BY <1>2, <1>5 DEF News, Known
  <2>2. LastOf(n).status = "used"
    BY <1>4, <2>1 DEF Changed, ContentChanged
  <2>3. PICK l \in Version : l = File2Entry(n)
    BY <1>1, <1>5, EntryIs
  <2>4. /\ l.mode = home[n].mode /\ l.mtime = home[n].mtime /\ l.ctime = home[n].ctime
        /\ l.size = SizeOf(home[n].content)
        /\ l.target = IF IsLink(n) THEN home[n].content ELSE Nothing
    BY <1>1, <1>5, <2>3, EntryIs
  <2>5. /\ ~IsLink(n) => l.mtime = LastOf(n).mtime /\ l.ctime = LastOf(n).ctime
        /\ l.mode = LastOf(n).mode /\ l.target = LastOf(n).target
        /\ IsFile(n) => l.size = LastOf(n).size
    BY <2>1, <2>3 DEF Changed, ContentChanged, TimesDiffer
  <2>6. Fits(n, LastOf(n))
    BY <2>2, <2>4, <2>5 DEF Fits
  <2> QED
    BY <1>5, <2>1, <2>6 DEF Matched
<1>6. Used(n, 0) <=> repo[n] # <<>> /\ LastOf(n).status = "used"
  BY <1>2 DEF Used
<1> QED
  BY <1>4, <1>5, <1>6 DEF Matched

LEMMA ScannedSuits ==
  ASSUME Types, job.kind = "store", NEW i \in Listed(here)
  PROVE  Suits(i)
<1>1. IsTree(home)
  BY DEF Types, Trees
<1>2. PICK n \in Nodes : n = i.node /\ ForNode(n, i)
  BY ListedAreItems
<1>3. CASE n \in DOMAIN home
  <2>1. ForBackup(n, i)
    BY <1>2, <1>3 DEF ForNode
  <2>2. PICK l \in Version : l = File2Entry(n)
    BY <1>1, <1>3, EntryIs
  <2>3. Fits(n, l)
    BY <1>1, <1>3, <2>2, EntryIs DEF Fits
  <2>4. PICK r : r = VersionAt(n, job.when)
    OBVIOUS
  <2>5. PICK c : c = Compared(n, l, r, "diff")
    OBVIOUS
  <2>6. /\ c.status = "used"
        /\ c.mode = l.mode /\ c.mtime = l.mtime
        /\ c.ctime = l.ctime /\ c.size = l.size /\ c.target = l.target
    BY <1>1, <1>3, <2>2, <2>5, ComparedIs
  <2>7. Fits(n, c)
    BY <2>3, <2>6 DEF Fits
  <2>8. /\ i.op \in {"set", "store"}
        /\ i.entry = l \/ i.entry = c
    BY <2>1, <2>2, <2>4, <2>5 DEF ForBackup, Work
  <2> QED
    BY <1>2, <1>3, <2>3, <2>7, <2>8 DEF Suits
<1>4. CASE n \notin DOMAIN home
  BY <1>2, <1>4 DEF ForNode, Suits, Work
<1> QED
  BY <1>3, <1>4

LEMMA StepSending ==
  ASSUME Types, Lists, Steps, job.kind = "store"
  PROVE  \/ sending' \in {sending, NoFile}
         \/ \E i \in todo, v \in Version : sending'.node = i.node /\ Writes(i, v)
<1>1. CASE Rests \/ EditOn \/ ShowDiffs \/ ScanDir \/ ModifyLaterOn
  BY <1>1 DEF Rests, EditOn, work, ShowDiffs, ScanDir, ModifyLaterOn
<1>2. CASE (\E kind \in setting.kinds, when \in 0..MaxClock : StartJob(kind, when)) \/ EnterDir
  BY <1>2 DEF StartJob, EnterDir, EndJob, work
<1>3. CASE Finish \/ Crash \/ LeaveDir
  BY <1>3 DEF Finish, EndJob, Crash, LeaveDir
<1>4. CASE StoreTransferOn \/ FetchFillOn
  BY <1>4 DEF StoreTransferOn, FetchFillOn
<1>5. CASE \E i \in Item : SetEntryOn(i) \/ ModifyOn(i) \/ CreateOn(i)
  BY <1>5 DEF SetEntryOn, ModifyOn, CreateOn
<1>6. CASE \E i \in Item : FetchOpenOn(i)
  <2>1. PICK i : i \in todo /\ i.op = "fetch"
    BY <1>6 DEF FetchOpenOn, Turn
  <2> QED
    BY <2>1 DEF Types, Ops
<1>7. CASE \E i \in Item : StoreOpenOn(i)
  <2>1. PICK i \in Item : StoreOpenOn(i)
    BY <1>7
  <2>2. i \in todo
    BY <2>1 DEF StoreOpenOn, Turn
  <2>3. \/ UNCHANGED sending
        \/ \E v \in Version : Writes(i, v) /\ sending'.node = i.node
    BY <2>1 DEF StoreOpenOn, Writes
  <2> QED
    BY <2>2, <2>3
<1> QED
  BY <1>1, <1>2, <1>3, <1>4, <1>5, <1>6, <1>7 DEF Steps

LEMMA SuitKept ==
  ASSUME Types, Types', Lists, Lists', Suit, Steps
  PROVE  Suit'
<1> SUFFICES ASSUME Undisturbed'
             PROVE  /\ \A i \in todo' : Suits(i)'
                    /\ sending' # NoFile => Matched(sending.node)'
  BY DEF Suit
<1>1. CASE \E kind \in setting.kinds, when \in 0..MaxClock : StartJob(kind, when)
  <2>1. pc' = "enter"
    BY <1>1 DEF StartJob
  <2> QED
    BY <2>1 DEF Types, Between
<1>2. CASE ~\E kind \in setting.kinds, when \in 0..MaxClock : StartJob(kind, when)
  <2>1. Undisturbed /\ UNCHANGED <<home, job>> /\ job.kind = "store"
    BY <1>2, StillUndisturbed DEF Undisturbed
  <2>2. /\ \A i \in todo : Suits(i)
        /\ sending # NoFile => Matched(sending.node)
    BY <2>1 DEF Suit
  <2>3. \A i : Suits(i)' <=> Suits(i)
    BY <2>1 DEF Suits, Fits
  <2>4. \A i \in todo' : Suits(i)'
    <3>1. CASE ScanDir
      <4>1. todo' \subseteq Listed(here)
        BY <3>1 DEF ScanDir
      <4>2. \A i \in Listed(here) : Suits(i)
        BY <2>1, ScannedSuits
      <4> QED
        BY <2>3, <4>1, <4>2
    <3>2. CASE todo' \subseteq todo
      BY <2>2, <2>3, <3>2
    <3> QED
      BY <3>1, <3>2, StepTodo
  <2>5. sending' # NoFile => Matched(sending.node)'
    <3> SUFFICES ASSUME sending' # NoFile
                 PROVE  Matched(sending.node)'
      OBVIOUS
    <3>1. CASE sending' = sending
      <4>1. PICK n \in Nodes : n = sending.node
        BY <3>1, TransferIs DEF Types, Queues
      <4>2. Matched(n)'
        BY <2>1, <2>2, <3>1, <4>1, MatchedKept
      <4> QED
        BY <3>1, <4>1, <4>2
    <3>2. CASE \E i \in todo, v \in Version : sending'.node = i.node /\ Writes(i, v)
      <4>1. PICK i \in todo, v \in Version : sending'.node = i.node /\ Writes(i, v)
        BY <3>2
      <4>2. PICK n : n = i.node
        OBVIOUS
      <4>3. Matched(i.node)'
        BY <2>1, <2>2, <4>1, WrittenMatches
      <4> QED
        BY <4>1, <4>3
    <3> QED
      BY <2>1, <3>1, <3>2, StepSending
  <2> QED
    BY <2>4, <2>5
<1> QED
  BY <1>1, <1>2

LEMMA SuitHolds == Spec => [](Types /\ Lists /\ Suit)
<1>1. Init => Suit
  BY DEF Init, Suit, Undisturbed
<1>2. (Types /\ Lists) /\ Suit /\ [Next]_vars /\ (Types /\ Lists)' => Suit'
  BY NextIsSteps, SuitKept
<1> QED
  BY <1>1, <1>2, ListsHold, PTL DEF Spec

-----------------------------------------------------------------------------
(* A store that nothing disturbs leaves no node behind.                    *)

\* An item stays until its version is written, or something fails.
LEMMA WorkKept ==
  ASSUME Types, Lists, Steps, UNCHANGED home, job.kind = "store",
         \A i \in todo : Suits(i), sending # NoFile => Matched(sending.node),
         NEW i \in todo, pc' # "idle", failed' = {}
  PROVE  i \in todo' \/ Matched(i.node)'
<1>1. CASE Rests \/ EditOn
  BY <1>1 DEF Rests, EditOn, work
<1>2. CASE \/ \E kind \in setting.kinds, when \in 0..MaxClock : StartJob(kind, when)
           \/ EnterDir \/ ScanDir \/ ModifyLaterOn \/ Finish
  BY <1>2 DEF StartJob, EnterDir, ScanDir, ModifyLaterOn, Finish, Types, Between
<1>3. CASE ShowDiffs \/ LeaveDir \/ Crash
  BY <1>3 DEF ShowDiffs, LeaveDir, Crash
<1>4. CASE \E j \in Item : SetEntryOn(j) \/ StoreOpenOn(j)
  <2>1. PICK j \in Item : SetEntryOn(j) \/ StoreOpenOn(j)
    BY <1>4
  <2>2. CASE i = j
    <3>1. CASE SetEntryOn(j)
      <4>1. \E v \in Version : Writes(j, v)
        BY <3>1 DEF SetEntryOn, Writes, Fails
      <4> QED
        BY <2>2, <4>1, WrittenMatches
    <3>2. CASE StoreOpenOn(j)
      BY <3>2 DEF StoreOpenOn, Fails
    <3> QED
      BY <2>1, <3>1, <3>2
  <2>3. CASE i # j
    BY <2>1, <2>3 DEF SetEntryOn, StoreOpenOn, Fails, Succeeds
  <2> QED
    BY <2>2, <2>3
<1>5. CASE StoreTransferOn
  <2>1. /\ Succeeds(sending.item) /\ sending # NoFile /\ sending.node \in Nodes
    BY <1>5, TransferIs DEF StoreTransferOn, Fails
  <2>2. sending.item.node = sending.node
    BY <2>1 DEF Lists
  <2>3. CASE i = sending.item
    <3>1. PICK n \in Nodes : n = sending.node
      BY <2>1
    <3>2. Matched(n)'
      BY <2>1, <3>1, MatchedKept
    <3> QED
      BY <2>2, <2>3, <3>1, <3>2
  <2>4. CASE i # sending.item
    BY <2>1, <2>4 DEF Succeeds
  <2> QED
    BY <2>3, <2>4
<1>6. CASE FetchFillOn
  BY <1>6 DEF FetchFillOn
<1>7. CASE \E j \in Item : ModifyOn(j) \/ CreateOn(j) \/ FetchOpenOn(j)
  <2>1. PICK j \in Item : j \in todo /\ j.op \in {"modify", "create", "fetch"}
    BY <1>7 DEF ModifyOn, CreateOn, FetchOpenOn, Turn
  <2> QED
    BY <2>1 DEF Types, Ops
<1> QED
  BY <1>1, <1>2, <1>3, <1>4, <1>5, <1>6, <1>7 DEF Steps

\* What a scan of a backup lists.
LEMMA ListedAll ==
  ASSUME job.kind # "restore", NEW n \in Nodes, n \notin setting.ignores,
         \/ n \in DOMAIN home /\ News(n)
         \/ n \notin DOMAIN home /\ Used(n, job.when)
  PROVE  \E i \in Listed(Parent[n]) : i.node = n
<1>1. n \in In(Parent[n])
  BY DEF In
<1>2. CASE n \in DOMAIN home /\ News(n)
  <2>1. PICK i \in Modified(Parent[n], job.when) : ForBackup(n, i)
    BY <1>1, <1>2, ModifiedIs
  <2> QED
    BY <2>1 DEF ForBackup, Listed
<1>3. CASE n \notin DOMAIN home /\ Used(n, job.when)
  <2>1. PICK i \in Deleted(Parent[n], job.when) : i = Work("delete", n, VersionAt(n, job.when))
    BY <1>1, <1>3, DeletedIs
  <2>2. i.node = n
    BY <2>1 DEF Work
  <2> QED
    BY <2>1, <2>2 DEF Listed
<1> QED
  BY <1>2, <1>3

\* A scan on the way to n finds n or the next directory on this way.
LEMMA ScanFinds ==
  ASSUME Types, Lists, Rooted(home), ScanDir, job.kind = "store", failed' = {}, UNCHANGED home,
         NEW n \in Nodes, here \in {Root} \cup Above[n], Reached(n)
  PROVE  ToCome(n)' \/ InWork(n)' \/ Matched(n)'
<1>1. job.when = 0 /\ UNCHANGED repo
  BY DEF Lists, ScanDir
<1>2. /\ todo' = Listed(here)
      /\ \E order \in SetToSeqs(SubDirs(here)) : dirs' = Scanned(order)
  BY DEF ScanDir
<1>3. SubDirs(here) \subseteq Listing'
  BY <1>2, ScanDirs
<1>4. n \notin setting.ignores /\ Parent[n] \in DOMAIN home \cup {Root}
  BY DEF Reached, Visited
<1>5. CASE Parent[n] = here
  <2>1. CASE \/ n \in DOMAIN home /\ News(n)
             \/ n \notin DOMAIN home /\ Used(n, job.when)
    <3>1. \E i \in Listed(here) : i.node = n
      BY <1>4, <1>5, <2>1, ListedAll
    <3> QED
      BY <1>2, <3>1 DEF InWork
  <2>2. CASE Matched(n)
    BY <1>1, <2>2 DEF Matched, LastOf, Fits
  <2> QED
    BY <1>1, <2>1, <2>2, MatchedIs
<1>6. CASE Parent[n] # here
  <2>1. Parent[n] # Root
    BY <1>6, AboveNothing
  <2>2. PICK c \in Above[n] : Parent[c] = here
    BY <1>6, <2>1, Toward
  <2>3. Above[n] = {Parent[n]} \cup Above[Parent[n]] /\ Parent[n] \in DOMAIN home
    BY <1>4, <2>1, AboveStep
  <2>4. c \in DOMAIN home
    BY <2>2, <2>3 DEF Rooted
  <2>5. c \in Nodes /\ IsDir(c)
    BY <2>2, AboveClosed, AboveDirs
  <2>6. c \in SubDirs(here)
    BY <2>2, <2>4, <2>5 DEF SubDirs, In
  <2>7. c \in Listing'
    BY <1>3, <2>6
  <2> QED
    BY <2>2, <2>7 DEF ToCome
<1> QED
  BY <1>5, <1>6

LEMMA ToComeKept ==
  ASSUME Types, Lists, Rooted(home), Steps, UNCHANGED home, job.kind = "store",
         pc' # "idle", failed' = {}, NEW n \in Nodes, Reached(n), ToCome(n)
  PROVE  ToCome(n)' \/ InWork(n)' \/ Matched(n)'
<1> DEFINE way == {Root} \cup Above[n]
<1>1. \A d \in way : d \notin setting.excludes
  BY DEF Reached, Visited
<1>2. ToCome(n) <=> (\E d \in Listing : d \in way) \/ (pc = "scan" /\ here \in way)
  BY DEF ToCome
<1>3. ToCome(n)' <=> (\E d \in Listing' : d \in way) \/ (pc' = "scan" /\ here' \in way)
  BY DEF ToCome
<1> HIDE DEF way
<1>4. CASE UNCHANGED <<dirs, here, pc>>
  BY <1>2, <1>3, <1>4 DEF Listing
<1>5. CASE Ends
  BY <1>5 DEF Ends
<1>6. CASE Starts
  <2>1. Root \in Listing' /\ Root \in way
    BY <1>6 DEF Starts, Listing, way
  <2> QED
    BY <1>3, <2>1
<1>7. CASE Finds
  <2>1. Listing = {} /\ pc # "scan"
    BY <1>7 DEF Finds, Listing
  <2> QED
    BY <1>2, <2>1
<1>8. CASE Passes \/ Goes
  <2>1. dirs \in Seq(Nodes \cup {Root})
    BY DEF Types, Queues
  <2>2. Listing \subseteq {Head(dirs)} \cup Listing'
    BY <1>8, <2>1, ListingIs DEF Passes, Goes
  <2>3. PICK d \in Listing : d \in way
    BY <1>2, <1>8 DEF Passes, Goes
  <2>4. CASE d \in Listing'
    BY <1>3, <2>3, <2>4
  <2>5. CASE d = Head(dirs)
    BY <1>1, <1>3, <1>8, <2>3, <2>5 DEF Passes, Goes
  <2> QED
    BY <2>2, <2>4, <2>5
<1>9. CASE ScanDir
  <2>1. CASE \E d \in Listing : d \in way
    BY <1>3, <1>9, <2>1, ScanDirs
  <2>2. CASE here \in way
    BY <1>9, <2>2, ScanFinds DEF way
  <2> QED
    BY <1>2, <2>1, <2>2
<1>10. CASE Leaves
  BY <1>2, <1>3, <1>10 DEF Leaves, Listing
<1> QED
  BY <1>4, <1>5, <1>6, <1>7, <1>8, <1>9, <1>10, StepDirs

LEMMA ProgressKept ==
  ASSUME Types, Types', Lists, Rooted(home), Suit, Progress, Steps
  PROVE  Progress'
<1> SUFFICES ASSUME Undisturbed', failed' = {}, NEW n \in Nodes, Reached(n)'
             PROVE  ToCome(n)' \/ InWork(n)' \/ Matched(n)'
  BY DEF Progress
<1>1. CASE \E kind \in setting.kinds, when \in 0..MaxClock : StartJob(kind, when)
  <2>1. Root \in Listing'
    BY <1>1 DEF StartJob, Listing
  <2> QED
    BY <2>1 DEF ToCome
<1>2. CASE ~\E kind \in setting.kinds, when \in 0..MaxClock : StartJob(kind, when)
  <2>1. /\ Undisturbed /\ UNCHANGED <<home, job, setting>> /\ failed = {}
        /\ job.kind = "store" /\ pc' # "idle"
    BY <1>2, StillUndisturbed DEF Undisturbed
  <2>2. /\ \A i \in todo : Suits(i)
        /\ sending # NoFile => Matched(sending.node)
    BY <2>1 DEF Suit
  <2>3. Reached(n)
    BY <2>1 DEF Reached, Visited
  <2>4. CASE Matched(n)
    BY <2>1, <2>2, <2>4, MatchedKept
  <2>5. CASE InWork(n)
    <3>1. PICK i \in todo : i.node = n
      BY <2>5 DEF InWork
    <3>2. i \in todo' \/ Matched(i.node)'
      BY <2>1, <2>2, WorkKept
    <3> QED
      BY <3>1, <3>2 DEF InWork
  <2>6. CASE ToCome(n)
    BY <2>1, <2>3, <2>6, ToComeKept
  <2> QED
    BY <2>1, <2>3, <2>4, <2>5, <2>6 DEF Progress
<1> QED
  BY <1>1, <1>2

LEMMA ProgressHolds == Spec => [](Types /\ Lists /\ Suit /\ Walk /\ Rooted(home) /\ Progress)
<1>1. Init => Progress
  BY DEF Init, Progress, Undisturbed
<1>2. (Types /\ Lists /\ Rooted(home)) /\ Suit /\ Progress /\ [Next]_vars /\ Types' => Progress'
  BY NextIsSteps, ProgressKept
<1> QED
  BY <1>1, <1>2, SuitHolds, WalkHolds, RootedHolds, PTL DEF Spec

-----------------------------------------------------------------------------
(* The past.                                                               *)

LEMMA StepAsOf ==
  ASSUME Types, Steps
  PROVE  \/ UNCHANGED asOf
         \/ \E kind \in setting.kinds, when \in 0..MaxClock :
              StartJob(kind, when) /\ kind = "store"
         \/ Finish /\ Complete
<1>1. CASE \E i : Called(i)
  BY <1>1, CalledLists
<1>2. CASE Rests \/ EditOn \/ Crash
  BY <1>2 DEF Rests, EditOn, Crash
<1>3. CASE EnterDir \/ LeaveDir
  BY <1>3 DEF EnterDir, LeaveDir, EndJob, Steady
<1>4. CASE ScanDir \/ ShowDiffs \/ ModifyLaterOn
  BY <1>4 DEF ScanDir, ShowDiffs, Working, ModifyLaterOn, Steady
<1>5. CASE Finish
  BY <1>5 DEF Finish, EndJob
<1>6. CASE \E kind \in setting.kinds, when \in 0..MaxClock : StartJob(kind, when)
  BY <1>6 DEF StartJob
<1> QED
  BY <1>1, <1>2, <1>3, <1>4, <1>5, <1>6 DEF Steps, SetEntryOn, StoreOpenOn,
     ModifyOn, CreateOn, FetchOpenOn, StoreTransferOn, FetchFillOn

LEMMA StepPending ==
  ASSUME Types, Steps
  PROVE  \A n \in DOMAIN pending' : n \in DOMAIN pending \/ (sending # NoFile /\ n = sending.node)
<1>1. CASE UNCHANGED pending \/ pending' = Empty
  BY <1>1 DEF Empty
<1>2. CASE StoreTransferOn
  <2>1. sending # NoFile
    BY <1>2, TransferIs DEF StoreTransferOn
  <2> QED
    BY <1>2, <2>1 DEF StoreTransferOn, Put
<1>3. CASE Rests \/ EditOn \/ Crash \/ LeaveDir
  BY <1>1, <1>3 DEF Rests, EditOn, Crash, LeaveDir
<1>4. CASE (\E kind \in setting.kinds, when \in 0..MaxClock : StartJob(kind, when)) \/ EnterDir
  BY <1>1, <1>4 DEF StartJob, EnterDir
<1>5. CASE ScanDir \/ ShowDiffs \/ ModifyLaterOn \/ Finish
  BY <1>1, <1>5 DEF ScanDir, ShowDiffs, ModifyLaterOn, Finish
<1>6. CASE \/ FetchFillOn
           \/ \E i \in Item : \/ SetEntryOn(i) \/ StoreOpenOn(i)
                              \/ ModifyOn(i) \/ CreateOn(i) \/ FetchOpenOn(i)
  BY <1>1, <1>6 DEF SetEntryOn, StoreOpenOn, ModifyOn, CreateOn, FetchOpenOn, FetchFillOn
<1> QED
  BY <1>2, <1>3, <1>4, <1>5, <1>6 DEF Steps

\* What a store writes is of now.
LEMMA WrittenLate ==
  ASSUME Types, Lists, Past, Steps, NEW w \in 0..MaxClock, asOf[w].sure # {},
         NEW n \in Nodes, repo'[n] # repo[n]
  PROVE  /\ w # 0 /\ w <= LastOf(n)'.btime
         /\ \/ NewVersion(n)
            \/ OtherVersion(n) /\ repo[n] # <<>> /\ w <= LastOf(n).btime
<1>1. /\ job.kind = "store" /\ pc = "work"
      /\ \/ NewVersion(n)
         \/ OtherVersion(n) /\ repo[n] # <<>> /\ (sending.node = n \/ n \in DOMAIN pending)
  BY StepRepo
<1>2. /\ w # 0 /\ w <= clock
      /\ sending # NoFile => w <= LastOf(sending.node).btime
      /\ \A m \in DOMAIN pending : w <= LastOf(m).btime
  BY <1>1 DEF Past
<1>3. CASE NewVersion(n)
  <2>1. LastOf(n)'.btime = clock
    BY <1>3 DEF NewVersion, Appended, LastOf
  <2> QED
    BY <1>2, <1>3, <2>1
<1>4. CASE OtherVersion(n) /\ repo[n] # <<>> /\ (sending.node = n \/ n \in DOMAIN pending)
  <2>1. sending.node = n => sending # NoFile
    BY TreeAssumption DEF NoFile
  <2>2. w <= LastOf(n).btime
    BY <1>2, <1>4, <2>1
  <2>3. LastOf(n)'.btime = LastOf(n).btime
    BY <1>4 DEF OtherVersion, Relast, Like, LastOf
  <2> QED
    BY <1>2, <1>4, <2>2, <2>3
<1> QED
  BY <1>1, <1>3, <1>4

LEMMA PastKept ==
  ASSUME Types, Types', Lists, Past, Steps
  PROVE  Past'
<1> SUFFICES ASSUME pc' # "idle", job'.kind = "store", NEW w \in 0..MaxClock, asOf'[w].sure # {}
             PROVE  /\ w # 0 /\ w <= clock'
                    /\ sending' # NoFile => w <= LastOf(sending.node)'.btime
                    /\ \A n \in DOMAIN pending' : w <= LastOf(n)'.btime
  BY DEF Past
<1>1. CASE \E kind \in setting.kinds, when \in 0..MaxClock : StartJob(kind, when)
  <2>1. PICK kind \in setting.kinds, when \in 0..MaxClock : StartJob(kind, when)
    BY <1>1
  <2>2. pc' = "enter" /\ kind = "store"
    BY <2>1 DEF StartJob
  <2>3. sending' = NoFile /\ pending' = Empty
    BY <2>2 DEF Types, Between
  <2>4. clock' \in Nat
    BY StepClock
  <2>5. w # 0 /\ ~(w > clock')
    <3>1. asOf' = [x \in DOMAIN asOf |-> IF x = 0 \/ x > clock' THEN NoTree ELSE asOf[x]]
      BY <2>1, <2>2 DEF StartJob
    <3>2. w \in DOMAIN asOf
      BY DEF Types, Marks
    <3>3. NoTree.sure = {}
      BY DEF NoTree
    <3> QED
      BY <3>1, <3>2, <3>3
  <2>6. w <= clock'
    <3>1. MaxClock \in Nat
      BY TreeAssumption
    <3> QED
      BY <2>4, <2>5, <3>1
  <2> QED
    BY <2>3, <2>5, <2>6 DEF Empty
<1>2. CASE ~\E kind \in setting.kinds, when \in 0..MaxClock : StartJob(kind, when)
  <2>1. UNCHANGED job /\ pc # "idle"
    BY <1>2, StepJob DEF EditOn
  <2>2. UNCHANGED asOf
    <3>1. Finish => pc' = "idle"
      BY DEF Finish, EndJob
    <3> QED
      BY <1>2, <3>1, StepAsOf
  <2>3. job.kind = "store" /\ asOf[w].sure # {}
    BY <2>1, <2>2
  <2>4. /\ w # 0 /\ w <= clock
        /\ sending # NoFile => w <= LastOf(sending.node).btime
        /\ \A n \in DOMAIN pending : w <= LastOf(n).btime
    BY <2>1, <2>3 DEF Past
  <2>5. w <= clock'
    <3>1. clock \in Nat /\ clock' \in Nat /\ clock <= clock' /\ MaxClock \in Nat
      BY StepClock, TreeAssumption
    <3> QED
      BY <2>4, <3>1
  <2>6. \A n \in Nodes : w <= LastOf(n).btime => w <= LastOf(n)'.btime
    <3> SUFFICES ASSUME NEW n \in Nodes, w <= LastOf(n).btime
                 PROVE  w <= LastOf(n)'.btime
      OBVIOUS
    <3>1. CASE repo'[n] = repo[n]
      BY <3>1 DEF LastOf
    <3> QED
      BY <2>3, <3>1, WrittenLate
  <2>7. ASSUME sending' # NoFile
        PROVE  w <= LastOf(sending.node)'.btime
    <3>1. PICK n \in Nodes : n = sending'.node
      BY <2>7, TransferIs DEF Types, Queues, Transfer
    <3>2. CASE sending' = sending
      BY <2>4, <2>6, <2>7, <3>1, <3>2
    <3>3. CASE \E i \in todo, v \in Version : sending'.node = i.node /\ Writes(i, v)
      <4>1. PICK v \in Version : Grows(n, v)
        BY <3>1, <3>3 DEF Writes
      <4>2. repo'[n] # repo[n]
        <5>1. Len(repo'[n]) = Len(repo[n]) + 1 /\ Len(repo[n]) \in Nat
          BY <4>1, LenProperties DEF Grows, Appended, Types, Repo
        <5> QED
          BY <5>1
      <4>3. w <= LastOf(n)'.btime
        BY <2>3, <4>2, WrittenLate
      <4> QED
        BY <3>1, <4>3
    <3> QED
      BY <2>3, <2>7, <3>2, <3>3, StepSending
  <2>8. \A n \in DOMAIN pending' : w <= LastOf(n)'.btime
    <3> SUFFICES ASSUME NEW n \in DOMAIN pending'
                 PROVE  w <= LastOf(n)'.btime
      OBVIOUS
    <3>1. n \in Nodes
      BY DEF Types, Repo
    <3> QED
      BY <2>4, <2>6, <3>1, StepPending
  <2> QED
    BY <2>4, <2>5, <2>7, <2>8
<1> QED
  BY <1>1, <1>2

LEMMA PastHolds == Spec => [](Types /\ Lists /\ Past)
<1>1. Init => Past
  BY DEF Init, Past
<1>2. (Types /\ Lists) /\ Past /\ [Next]_vars /\ Types' => Past'
  BY NextIsSteps, PastKept
<1> QED
  BY <1>1, <1>2, ListsHold, PTL DEF Spec

\* What was seen of a certain past stays what it was.
LEMMA SeenKept ==
  ASSUME Types, Types', Lists, Past, Steps, NEW w \in 0..MaxClock, asOf[w].sure # {},
         NEW n \in Nodes
  PROVE  /\ Seen(n, w)' = Seen(n, w)
         /\ \A k \in Seen(n, w) : repo'[n][k] = repo[n][k]
<1>1. CASE repo'[n] = repo[n]
  BY <1>1 DEF Seen
<1>2. CASE repo'[n] # repo[n]
  <2>1. /\ w # 0 /\ w <= LastOf(n)'.btime
        /\ \/ NewVersion(n)
           \/ OtherVersion(n) /\ repo[n] # <<>> /\ w <= LastOf(n).btime
    BY <1>2, WrittenLate
  <2>2. PICK s \in Seq(Version), t \in Seq(Version) : s = repo[n] /\ t = repo'[n]
    BY DEF Types, Repo
  <2>3. PICK a \in Nat : a = Len(s) /\ DOMAIN s = 1..a
    BY LenProperties
  <2>4. PICK b \in Nat : b = Len(t) /\ DOMAIN t = 1..b
    BY LenProperties
  <2>5. Seen(n, w) = {i \in 1..a : s[i].btime < w} /\ Seen(n, w)' = {i \in 1..b : t[i].btime < w}
    BY <2>1, <2>2, <2>3, <2>4 DEF Seen
  <2>6. /\ \A k \in 1..a : s[k] \in Version
        /\ \A k \in 1..b : t[k] \in Version
    BY <2>3, <2>4, ElementOfSeq
  <2>7. t[b].btime >= w
    BY <2>1, <2>2, <2>4 DEF LastOf
  <2>8. MaxClock \in Nat
    BY TreeAssumption
  <2>11. \A v \in Version : v.btime \in Nat
    <3>1. 0..MaxClock \subseteq Nat
      OBVIOUS
    <3> QED
      BY <3>1 DEF Version
  <2>9. CASE NewVersion(n)
    <3>1. b = a + 1 /\ \A k \in 1..a : t[k] = s[k]
      BY <2>2, <2>3, <2>4, <2>9 DEF NewVersion, Appended
    <3>2. t[b] \in Version /\ t[b].btime \in Nat
      <4>1. b \in 1..b
        BY <3>1
      <4> QED
        BY <2>6, <2>11, <4>1
    <3>3. ~(t[b].btime < w)
      BY <2>7, <2>8, <3>2
    <3>4. \A k \in 1..b : k # b => k \in 1..a
      BY <3>1
    <3>5. \A k \in 1..a : k \in 1..b
      BY <3>1
    <3> QED
      BY <2>2, <2>5, <3>1, <3>3, <3>4, <3>5
  <2>10. CASE OtherVersion(n) /\ repo[n] # <<>> /\ w <= LastOf(n).btime
    <3>1. b = a /\ \A k \in 1..a : k # a => t[k] = s[k]
      BY <2>2, <2>3, <2>4, <2>10 DEF OtherVersion, Relast
    <3>2. a # 0
      BY <2>2, <2>3, <2>10, EmptySeq
    <3>3. a \in 1..a
      BY <3>2
    <3>7. t[a] \in Version /\ s[a] \in Version
      BY <2>6, <2>8, <3>1, <3>3
    <3>4. t[a].btime \in Nat /\ s[a].btime \in Nat
      BY <2>11, <3>7
    <3>5. s[a].btime >= w
      BY <2>2, <2>3, <2>10 DEF LastOf
    <3>6. ~(t[a].btime < w) /\ ~(s[a].btime < w)
      BY <2>7, <2>8, <3>1, <3>4, <3>5
    <3> QED
      BY <2>2, <2>5, <3>1, <3>6
  <2> QED
    BY <2>1, <2>9, <2>10
<1> QED
  BY <1>1, <1>2

LEMMA UsedKept ==
  ASSUME Types, Types', Lists, Past, Steps, NEW w \in 0..MaxClock, asOf[w].sure # {},
         NEW n \in Nodes
  PROVE  /\ Used(n, w)' <=> Used(n, w)
         /\ Used(n, w) => VersionAt(n, w)' = VersionAt(n, w)
<1>1. PICK S : S = Seen(n, w) /\ S = Seen(n, w)'
  BY SeenKept
<1>2. \A k \in S : repo'[n][k] = repo[n][k]
  BY <1>1, SeenKept
<1>3. ASSUME S # {}
      PROVE  VersionAt(n, w)' = VersionAt(n, w)
  <2>1. repo[n] \in Seq(Version)
    BY DEF Types, Repo
  <2>2. \E k \in S : \A j \in S : j <= k
    BY <1>1, <1>3, <2>1, VersionAtIs
  <2>3. PICK k : k = CHOOSE i \in S : \A j \in S : j <= i
    OBVIOUS
  <2>4. k \in S
    BY <2>2, <2>3
  <2>5. VersionAt(n, w) = repo[n][k] /\ VersionAt(n, w)' = repo'[n][k]
    BY <1>1, <2>3 DEF VersionAt
  <2> QED
    BY <1>2, <2>4, <2>5
<1> QED
  BY <1>1, <1>3 DEF Used

\* What the repository has of n at the date w is what the tree T had.
Recalls(n, w, T) ==
  /\ PresentAt(n, w) <=> n \in DOMAIN T
  /\ PresentAt(n, w) => Alike(n, T[n], VersionAt(n, w))

LEMMA RecallsKept ==
  ASSUME Types, Types', Lists, Past, Steps, NEW w \in 0..MaxClock, NEW n \in asOf[w].sure,
         NEW T, Recalls(n, w, T)
  PROVE  Recalls(n, w, T)'
<1>1. n \in Nodes /\ UNCHANGED setting
  BY StepClock DEF Types, Marks
<1>2. {n} \cup Above[n] \subseteq Nodes
  BY <1>1, AboveClosed
<1>3. \A m \in {n} \cup Above[n] : Used(m, w)' <=> Used(m, w)
  BY <1>2, UsedKept
<1>4. PresentAt(n, w)' <=> PresentAt(n, w)
  BY <1>3 DEF PresentAt
<1>5. PresentAt(n, w) => VersionAt(n, w)' = VersionAt(n, w)
  BY <1>1, UsedKept DEF PresentAt
<1>6. ASSUME NEW x, NEW v
      PROVE  Alike(n, x, v)' <=> Alike(n, x, v)
  BY <1>1 DEF Alike
<1>7. ASSUME PresentAt(n, w)
      PROVE  Alike(n, T[n], VersionAt(n, w))'
  <2>1. PICK v : v = VersionAt(n, w) /\ v = VersionAt(n, w)'
    BY <1>5, <1>7
  <2>2. Alike(n, T[n], v)
    BY <1>7, <2>1 DEF Recalls
  <2>3. Alike(n, T[n], v)'
    BY <1>6, <2>2
  <2> QED
    BY <1>1, <2>1, <2>2 DEF Alike
<1> QED
  BY <1>4, <1>7 DEF Recalls

-----------------------------------------------------------------------------
(* What a complete store leaves in the repository.                         *)

LEMMA AllMatched ==
  ASSUME Types, Walk, Progress, pc = "final", job.kind = "store", dirty = {}, failed = {},
         NEW n \in Nodes, Reached(n)
  PROVE  Matched(n)
<1>1. todo = {} /\ Undisturbed
  BY DEF Types, Between, Undisturbed
<1>2. ~InWork(n)
  BY <1>1 DEF InWork
<1>3. ~ToCome(n)
  <2> SUFFICES ASSUME NEW d \in Listing, d \in {Root} \cup Above[n]
               PROVE  FALSE
    BY DEF ToCome
  <2>1. ~setting.recursive
    BY DEF Walk, Listing
  <2>2. Parent[n] = Root
    BY <2>1 DEF Reached, Visited
  <2>3. Root \in Listing
    BY <2>2, AboveNothing
  <2> QED
    BY <2>3 DEF Walk
<1> QED
  BY <1>1, <1>2, <1>3 DEF Progress

LEMMA KeptIsVisited ==
  ASSUME NEW n \in Nodes, Kept(n), NEW m \in {n} \cup Above[n]
  PROVE  Visited(m) /\ m \in Nodes
<1>1. m \in Nodes /\ Above[m] \subseteq Above[n]
  BY AboveClosed, AboveTransitive
<1>2. m \notin setting.ignores
  BY DEF Kept
<1>3. ({Root} \cup Above[m]) \cap setting.excludes = {}
  BY <1>1 DEF Kept
<1>4. setting.recursive \/ Parent[m] = Root
  <2>1. CASE Parent[n] = Root
    BY <2>1, AboveNothing
  <2> QED
    BY <2>1 DEF Kept
<1> QED
  BY <1>1, <1>2, <1>3, <1>4 DEF Visited

LEMMA StoreRecalls ==
  ASSUME Types, Rooted(home), Groups, Bounds, Data, \A m \in Nodes : Reached(m) => Matched(m),
         pending = Empty, sending = NoFile,
         NEW n \in Nodes, Kept(n), n \notin hidden \cup broken,
         NEW w \in 0..MaxClock, w = 0 \/ w > clock
  PROVE  Recalls(n, w, home)
<1>1. repo \in [Nodes -> Seq(Version)] /\ IsTree(home)
  BY DEF Types, Repo, Trees
<1>2. ASSUME NEW m \in Nodes
      PROVE  /\ Seen(m, w) # {} <=> repo[m] # <<>>
             /\ repo[m] # <<>> => VersionAt(m, w) = LastOf(m)
  <2>1. repo[m] \in Seq(Version)
    BY <1>1
  <2>2. w = 0 \/ \A k \in DOMAIN repo[m] : repo[m][k].btime < w
    <3> SUFFICES ASSUME w > clock, NEW k \in DOMAIN repo[m]
                 PROVE  repo[m][k].btime < w
      OBVIOUS
    <3>1. repo[m][k] \in Version
      BY <2>1, LenProperties, ElementOfSeq
    <3>2. repo[m][k].btime \in 0..MaxClock /\ repo[m][k].btime <= clock
      BY <3>1 DEF Bounds, Version
    <3>3. clock \in Nat /\ MaxClock \in Nat
      BY TreeAssumption DEF Types, Flags
    <3> QED
      BY <3>2, <3>3
  <2> QED
    BY <2>1, <2>2, SeenAll
<1>3. ASSUME NEW m \in Nodes
      PROVE  Used(m, w) <=> repo[m] # <<>> /\ LastOf(m).status = "used"
  BY <1>2 DEF Used
<1>4. ASSUME n \in DOMAIN home, NEW m \in {n} \cup Above[n]
      PROVE  m \in Nodes /\ Matched(m) /\ m \in DOMAIN home
  <2>1. Visited(m) /\ m \in Nodes
    BY KeptIsVisited
  <2>2. {n} \cup Above[n] \subseteq DOMAIN home
    BY <1>4 DEF Rooted
  <2>3. Parent[m] \in Above[n] \cup {Root}
    BY AboveClosed
  <2> QED
    BY <2>1, <2>2, <2>3 DEF Reached
<1>5. ASSUME n \in DOMAIN home
      PROVE  PresentAt(n, w)
  <2> SUFFICES ASSUME NEW m \in {n} \cup Above[n]
               PROVE  Used(m, w)
    BY DEF PresentAt
  <2>1. m \in Nodes /\ Matched(m) /\ m \in DOMAIN home
    BY <1>4, <1>5
  <2> QED
    BY <1>3, <2>1 DEF Matched, Fits
<1>6. ASSUME n \notin DOMAIN home
      PROVE  ~PresentAt(n, w)
  <2>1. PICK m \in {n} \cup Above[n] : m \notin DOMAIN home /\ Parent[m] \in DOMAIN home \cup {Root}
    BY <1>6, FirstMissing
  <2>2. Visited(m) /\ m \in Nodes
    BY KeptIsVisited
  <2>3. Matched(m)
    BY <2>1, <2>2 DEF Reached
  <2>4. ~Used(m, w)
    BY <1>3, <2>1, <2>2, <2>3 DEF Matched
  <2> QED
    BY <2>4 DEF PresentAt
<1>7. ASSUME n \in DOMAIN home
      PROVE  Alike(n, home[n], VersionAt(n, w))
  <2>1. Matched(n)
    BY <1>4, <1>7
  <2>2. repo[n] # <<>> /\ Fits(n, LastOf(n))
    BY <1>7, <2>1 DEF Matched
  <2>3. PICK v : v = LastOf(n) /\ v = VersionAt(n, w)
    BY <1>2, <2>2
  <2>4. /\ v.status = "used" /\ v.mode = home[n].mode
        /\ ~IsLink(n) => v.mtime = home[n].mtime /\ v.ctime = home[n].ctime
        /\ v.target = IF IsLink(n) THEN home[n].content ELSE Nothing
        /\ IsFile(n) => v.size = SizeOf(home[n].content)
    BY <2>2, <2>3 DEF Fits
  <2>5. setting.group = Owner => home[n].group = v.group
    <3>1. Len(repo[n]) \in DOMAIN repo[n]
      BY <1>1, <2>2, LenProperties, EmptySeq
    <3>2. v.group = Owner
      BY <2>3, <3>1 DEF Groups, LastOf
    <3> QED
      BY <1>7, <3>2 DEF Groups
  <2>6. ASSUME IsFile(n)
        PROVE  /\ home[n].content = v.digest /\ home[n].content = v.bytes
               /\ v.zipped = v.stream
    <3>1. Stored(n)
      BY <2>2, <2>3, <2>4, <2>6, TreeAssumption DEF Stored, Storing, NoFile
    <3>2. Digest(n) = v.digest
      BY <2>3 DEF Digest, Empty
    <3>3. v.digest = v.bytes /\ v.zipped = v.stream
      BY <2>3, <3>1, <3>2 DEF Data, WholeAt
    <3>4. v.ctime = home[n].ctime
      BY <2>4, <2>6 DEF IsFile, IsLink
    <3>5. home[n].content = v.digest
      BY <1>7, <2>3, <3>1, <3>2, <3>4 DEF Data, TimelyAt
    <3> QED
      BY <3>3, <3>5
  <2>7. Alike(n, home[n], v)
    BY <2>4, <2>5, <2>6 DEF Alike
  <2> QED
    BY <2>3, <2>7
<1> QED
  BY <1>5, <1>6, <1>7 DEF Recalls

Remembers == \A w \in 0..MaxClock : \A n \in asOf[w].sure : Recalls(n, w, asOf[w].tree)

LEMMA RemembersIs ==
  ASSUME Types, Remembers
  PROVE  RepositoryKeepsThePast
<1>1. DOMAIN asOf = 0..MaxClock
  BY DEF Types, Marks
<1>2. ASSUME NEW w \in 0..MaxClock, NEW n \in asOf[w].sure
      PROVE  /\ PresentAt(n, w) <=> n \in DOMAIN asOf[w].tree
             /\ PresentAt(n, w) => Alike(n, asOf[w].tree[n], VersionAt(n, w))
  <2>1. Recalls(n, w, asOf[w].tree)
    BY DEF Remembers
  <2> QED
    BY <2>1 DEF Recalls
<1> QED
  BY <1>1, <1>2 DEF RepositoryKeepsThePast

LEMMA FinishRecalls ==
  ASSUME Types, Rooted(home), Groups, Bounds, Data, Walk, Progress, Finish, Complete,
         NEW w \in 0..MaxClock, w = 0 \/ w > clock, NEW n \in asOf'[w].sure
  PROVE  Recalls(n, w, asOf[w].tree)'
<1>1. pc = "final" /\ pending = Empty /\ sending = NoFile
  BY DEF Finish, Types, Between
<1>2. job.kind = "store" /\ dirty = {} /\ failed = {}
  BY DEF Complete
<1>3. \A m \in Nodes : Reached(m) => Matched(m)
  BY <1>1, <1>2, AllMatched
<1>4. /\ asOf' = [x \in DOMAIN asOf |->
                    IF x = 0 \/ x > clock
                    THEN [tree |-> home,
                          sure |-> {m \in Nodes : Kept(m)} \ (hidden \cup broken)]
                    ELSE asOf[x]]
      /\ UNCHANGED <<trees, repo, setting>>
  BY DEF Finish, EndJob
<1>5. w \in DOMAIN asOf
  BY DEF Types, Marks
<1>6. PICK e : /\ e = [tree |-> home, sure |-> {m \in Nodes : Kept(m)} \ (hidden \cup broken)]
               /\ asOf'[w] = e
  BY <1>4, <1>5
<1>7. asOf'[w].tree = home /\ n \in Nodes /\ Kept(n) /\ n \notin hidden \cup broken
  BY <1>6
<1>8. Recalls(n, w, home)
  BY <1>1, <1>3, <1>7, StoreRecalls
<1>9. home' = home
  BY <1>4 DEF home
<1>10. PICK T : T = home /\ T = asOf'[w].tree
  BY <1>7
<1>11. PresentAt(n, w)' <=> PresentAt(n, w)
  BY <1>4 DEF PresentAt, Used, Seen, VersionAt
<1>12. VersionAt(n, w)' = VersionAt(n, w)
  BY <1>4 DEF VersionAt, Seen
<1>13. /\ PresentAt(n, w) <=> n \in DOMAIN T
       /\ PresentAt(n, w) => Alike(n, T[n], VersionAt(n, w))
  BY <1>8, <1>10 DEF Recalls
<1>14. PICK v : v = VersionAt(n, w) /\ v = VersionAt(n, w)'
  BY <1>12
<1>15. Alike(n, T[n], v) => Alike(n, T[n], v)'
  BY <1>4 DEF Alike
<1>16. PresentAt(n, w)' => Alike(n, T[n], v)'
  BY <1>11, <1>13, <1>14, <1>15
<1>17. PresentAt(n, w)' => Alike(n, asOf[w].tree[n], VersionAt(n, w))'
  BY <1>4, <1>10, <1>14, <1>16 DEF Alike
<1>18. PresentAt(n, w)' <=> n \in DOMAIN asOf'[w].tree
  BY <1>10, <1>11, <1>13
<1> QED
  BY <1>17, <1>18 DEF Recalls

LEMMA RemembersKept ==
  ASSUME Types, Types', Lists, Rooted(home), Groups, Bounds, Data, Walk, Progress, Past,
         Remembers, Steps
  PROVE  Remembers'
<1> SUFFICES ASSUME NEW w \in 0..MaxClock, NEW n \in asOf'[w].sure
             PROVE  Recalls(n, w, asOf[w].tree)'
  BY DEF Remembers
<1>1. w \in DOMAIN asOf
  BY DEF Types, Marks
<1>2. CASE asOf'[w] = asOf[w]
  <2>1. PICK T : T = asOf[w].tree /\ T = asOf'[w].tree
    BY <1>2
  <2>2. n \in asOf[w].sure /\ asOf[w].sure # {}
    BY <1>2
  <2>3. Recalls(n, w, T)
    BY <2>1, <2>2 DEF Remembers
  <2>4. Recalls(n, w, T)'
    BY <2>2, <2>3, RecallsKept
  <2> QED
    BY <2>1, <2>4 DEF Recalls
<1>3. CASE Finish /\ Complete /\ (w = 0 \/ w > clock)
  BY <1>3, FinishRecalls
<1>4. CASE Finish /\ Complete /\ ~(w = 0 \/ w > clock)
  <2>1. asOf' = [x \in DOMAIN asOf |->
                    IF x = 0 \/ x > clock
                    THEN [tree |-> home,
                          sure |-> {m \in Nodes : Kept(m)} \ (hidden \cup broken)]
                    ELSE asOf[x]]
    BY <1>4 DEF Finish, EndJob
  <2> QED
    BY <1>1, <1>2, <1>4, <2>1
<1>5. CASE \E kind \in setting.kinds, when \in 0..MaxClock :
             StartJob(kind, when) /\ kind = "store"
  <2>1. asOf' = [x \in DOMAIN asOf |-> IF x = 0 \/ x > clock' THEN NoTree ELSE asOf[x]]
    BY <1>5 DEF StartJob
  <2>2. NoTree.sure = {}
    BY DEF NoTree
  <2>3. asOf'[w] = NoTree \/ asOf'[w] = asOf[w]
    BY <1>1, <2>1
  <2> QED
    BY <1>2, <2>2, <2>3
<1> QED
  BY <1>2, <1>3, <1>4, <1>5, StepAsOf

\* Once a store is complete, the repository has the tree that AQBackup_HandleDir saw for
\* every later date up to the next store, and no later job, edit, failure or crash
\* changes what it has of the past.
THEOREM RepositoryKeepsThePastCorrect == Spec => []RepositoryKeepsThePast
<1>1. Init => Remembers
  BY DEF Init, Remembers, NoTree
<1>2. /\ (Types /\ Lists) /\ Rooted(home) /\ Groups /\ Bounds /\ Data /\ Walk /\ Progress /\ Past
      /\ Remembers /\ [Next]_vars /\ Types'
      => Remembers'
  BY NextIsSteps, RemembersKept
<1>3. Types /\ Remembers => RepositoryKeepsThePast
  BY RemembersIs
<1> QED
  BY <1>1, <1>2, <1>3, RootedHolds, GroupsHold, BoundsHold, DataHold, ProgressHolds, PastHolds,
     PTL DEF Spec

-----------------------------------------------------------------------------
(* What is settled stays so.                                               *)

LEMMA StepSettled ==
  ASSUME Types, Steps, settled'
  PROVE  /\ settled \/ (Finish /\ Complete)
         /\ ~EditOn
         /\ \/ UNCHANGED job
            \/ job'.kind # "restore"
<1>0. ~EditOn
  BY DEF EditOn
<1>1. CASE \E i : Called(i)
  BY <1>0, <1>1, CalledLists
<1>2. CASE Rests \/ Crash
  BY <1>0, <1>2 DEF Rests, Crash
<1>3. CASE EnterDir \/ LeaveDir
  BY <1>0, <1>3 DEF EnterDir, LeaveDir, EndJob, Steady
<1>4. CASE ScanDir \/ ShowDiffs \/ ModifyLaterOn
  BY <1>0, <1>4 DEF ScanDir, ShowDiffs, Working, ModifyLaterOn, Steady
<1>5. CASE Finish
  BY <1>0, <1>5 DEF Finish, EndJob
<1>6. CASE \E kind \in setting.kinds, when \in 0..MaxClock : StartJob(kind, when)
  <2>1. PICK kind \in setting.kinds, when \in 0..MaxClock : StartJob(kind, when)
    BY <1>6
  <2>2. job' = [kind |-> kind, when |-> when] /\ settled' = (settled /\ kind # "restore")
    BY <2>1 DEF StartJob
  <2>3. settled /\ kind # "restore"
    BY <2>2, Zenon
  <2>4. job'.kind # "restore"
    BY <2>2, <2>3
  <2> QED
    BY <1>0, <2>3, <2>4
<1> QED
  BY <1>0, <1>1, <1>2, <1>3, <1>4, <1>5, <1>6 DEF Steps, SetEntryOn, StoreOpenOn,
     ModifyOn, CreateOn, FetchOpenOn, StoreTransferOn, FetchFillOn

\* Nothing is listed for a node whose last version fits.
LEMMA MatchedIsNoNews ==
  ASSUME Types, Groups, job.when = 0, ~setting.force, setting.group = Owner,
         NEW n \in Nodes, n \in DOMAIN home, Matched(n)
  PROVE  ~News(n)
<1>1. repo[n] \in Seq(Version) /\ IsTree(home)
  BY DEF Types, Repo, Trees
<1>2. repo[n] # <<>> /\ Fits(n, LastOf(n))
  BY DEF Matched
<1>3. PICK v : v = LastOf(n) /\ v = VersionAt(n, job.when)
  BY <1>1, <1>2, SeenAll
<1>4. Known(n)
  BY <1>1, <1>2, SeenAll DEF Known
<1>5. PICK l \in Version : l = File2Entry(n)
  BY <1>1, EntryIs
<1>6. /\ l.mode = home[n].mode /\ l.mtime = home[n].mtime /\ l.ctime = home[n].ctime
      /\ l.size = SizeOf(home[n].content) /\ l.group = home[n].group
      /\ l.target = IF IsLink(n) THEN home[n].content ELSE Nothing
  BY <1>1, <1>5, EntryIs
<1>7. /\ v.status = "used" /\ v.mode = l.mode
      /\ ~IsLink(n) => v.mtime = l.mtime /\ v.ctime = l.ctime
      /\ v.target = l.target
      /\ IsFile(n) => v.size = l.size
  BY <1>2, <1>3, <1>6 DEF Fits
<1>8. v.group = l.group
  <2>1. Len(repo[n]) \in DOMAIN repo[n]
    BY <1>1, <1>2, LenProperties, EmptySeq
  <2>2. v.group = Owner
    BY <1>3, <2>1 DEF Groups, LastOf
  <2>3. home[n].group = Owner
    BY DEF Groups
  <2> QED
    BY <1>6, <2>2, <2>3
<1>9. ~Changed(n, l, v, "diff")
  BY <1>7, <1>8 DEF Changed, TimesDiffer
<1>10. ~ContentChanged(n, l, v, "diff")
  BY <1>7, <1>9 DEF ContentChanged
<1> QED
  BY <1>3, <1>4, <1>5, <1>9, <1>10 DEF News

LEMMA ScannedIsReached ==
  ASSUME Walk, pc = "scan", here \in DOMAIN home \cup {Root},
         NEW n \in Nodes, Parent[n] = here, n \notin setting.ignores
  PROVE  Reached(n)
<1>1. Walks(here) /\ here \notin setting.excludes /\ (~setting.recursive => here = Root)
  BY DEF Walk
<1>2. ({Root} \cup Above[n]) \cap setting.excludes = {}
  <2>1. CASE here = Root
    <3>1. Above[n] = {}
      BY <2>1, AboveNothing
    <3> QED
      BY <1>1, <2>1, <3>1
  <2>2. CASE here # Root
    <3>1. Above[n] = {here} \cup Above[here]
      BY <2>2, AboveStep
    <3> QED
      BY <1>1, <2>2, <3>1 DEF Walks
  <2> QED
    BY <2>1, <2>2
<1> QED
  BY <1>1, <1>2 DEF Reached, Visited

LEMMA QuietScan ==
  ASSUME Types, Groups, Walk, ScanDir, job.kind # "restore", job.when = 0,
         ~setting.force, setting.group = Owner, \A n \in Nodes : Reached(n) => Matched(n)
  PROVE  todo' = {}
<1> SUFFICES ASSUME NEW i \in todo'
             PROVE  FALSE
  OBVIOUS
<1>1. i \in Listed(here) /\ here \in DOMAIN home \cup {Root} /\ pc = "scan"
  BY DEF ScanDir
<1>2. PICK n \in Nodes : n = i.node
  BY <1>1, ListedAreItems
<1>3. Parent[n] = here /\ n \notin setting.ignores /\ ForNode(n, i)
  BY <1>1, <1>2, ListedAreItems
<1>4. Matched(n)
  BY <1>1, <1>3, ScannedIsReached
<1>5. CASE n \in DOMAIN home
  BY <1>3, <1>4, <1>5, MatchedIsNoNews DEF ForNode
<1>6. CASE n \notin DOMAIN home
  BY <1>3, <1>4, <1>6, MatchedIs DEF ForNode
<1> QED
  BY <1>5, <1>6

LEMMA QuietKept ==
  ASSUME Types, Types', Lists, Groups, Walk, Progress, Quiet, Steps
  PROVE  Quiet'
<1>1. UNCHANGED setting
  BY StepClock
<1> SUFFICES ASSUME settled', ~setting.force, setting.group = Owner
             PROVE  /\ \A n \in Nodes : Reached(n)' => Matched(n)'
                    /\ job'.kind # "restore"
                    /\ job'.when = 0 => todo' = {}
  BY <1>1 DEF Quiet
<1>2. CASE Finish /\ Complete
  <2>1. /\ pc = "final" /\ job.kind = "store" /\ dirty = {} /\ failed = {}
        /\ UNCHANGED <<trees, repo, job>> /\ todo' = {}
    BY <1>2 DEF Finish, EndJob, Complete
  <2>2. \A n \in Nodes : Reached(n) => Matched(n)
    BY <2>1, AllMatched
  <2>3. home' = home
    BY <2>1 DEF home
  <2>4. \A n \in Nodes : (Reached(n)' <=> Reached(n)) /\ (Matched(n)' <=> Matched(n))
    BY <1>1, <2>1, <2>3 DEF Reached, Visited, Matched, LastOf, Fits
  <2> QED
    BY <2>1, <2>2, <2>4
<1>3. CASE settled
  <2>1. /\ \A n \in Nodes : Reached(n) => Matched(n)
        /\ job.kind # "restore"
        /\ job.when = 0 => todo = {}
    BY <1>3 DEF Quiet
  <2>2. ~EditOn /\ (UNCHANGED job \/ job'.kind # "restore")
    BY StepSettled
  <2>3. home' = home
    BY <2>1, <2>2, StepHome DEF HomeAltered
  <2>4. ASSUME NEW n \in Nodes, Reached(n)'
        PROVE  Matched(n)'
    <3>1. Reached(n)
      BY <1>1, <2>3, <2>4 DEF Reached, Visited
    <3>2. Matched(n)
      BY <2>1, <3>1
    <3>3. CASE todo = {}
      BY <2>3, <3>2, <3>3, MatchedKept
    <3>4. CASE todo # {}
      <4>1. job.kind # "store"
        BY <2>1, <3>4 DEF Lists
      <4>2. repo'[n] = repo[n]
        BY <4>1, StepRepo
      <4> QED
        BY <2>3, <3>2, <4>2 DEF Matched, LastOf, Fits
    <3> QED
      BY <3>3, <3>4
  <2>5. job'.kind # "restore"
    BY <2>1, <2>2
  <2>6. ASSUME job'.when = 0
        PROVE  todo' = {}
    <3>1. CASE ScanDir
      <4>1. UNCHANGED job
        BY <3>1 DEF ScanDir, Steady
      <4> QED
        BY <2>1, <2>6, <3>1, <4>1, QuietScan
    <3>2. CASE todo' \subseteq todo /\ UNCHANGED job
      BY <2>1, <2>6, <3>2
    <3> QED
      BY <3>1, <3>2, StepTodo
  <2> QED
    BY <2>4, <2>5, <2>6
<1> QED
  BY <1>2, <1>3, StepSettled

\* After a complete store of a tree nobody has touched since, AQBackup_HandleDir finds
\* nothing to store and no difference to show, if every group has the name of the owner.
THEOREM UnchangedIsQuietCorrect == Spec => []UnchangedIsQuiet
<1>1. Init => Quiet
  BY DEF Init, Quiet
<1>2. /\ (Types /\ Lists) /\ Groups /\ Walk /\ Progress /\ Quiet /\ [Next]_vars /\ Types'
      => Quiet'
  BY NextIsSteps, QuietKept
<1>3. Quiet => UnchangedIsQuiet
  BY DEF Quiet, UnchangedIsQuiet
<1> QED
  BY <1>1, <1>2, <1>3, GroupsHold, ProgressHolds, PTL DEF Spec

-----------------------------------------------------------------------------
(* A restore that nothing disturbs brings everything back: the invariants. *)

Restoring == pc # "idle" /\ job.kind = "restore"
Alone == Restoring /\ dirty = {}

\* No directory that is to come is above another one, or above the one at hand.
Over(d) == {Root} \cup (IF d = Root THEN {} ELSE {d} \cup Above[d])
Abreast ==
  /\ \A j, k \in DOMAIN dirs : j # k => dirs[j] \notin Over(dirs[k])
  /\ pc = "scan" => \A d \in Listing : d \notin Over(here) /\ here \notin Over(d)
  /\ pc = "work" => \A d \in Listing : d \notin Over(here)

\* The directories of a restore are those of its date, ...
OfDate(d) == d = Root \/ PresentAt(d, job.when)
Dated == Restoring => /\ \A d \in Listing : OfDate(d)
                      /\ pc \in {"scan", "work"} => OfDate(here)

\* ... and so is whatever it works with.
AsOf(x) == Used(x.node, job.when) /\ x.entry = VersionAt(x.node, job.when)
DatedLate == {x \in Late : AsOf(x) /\ IsDir(x.node)}
Handed ==
  Restoring => /\ \A i \in todo : AsOf(i)
               /\ sending # NoFile => AsOf(sending)
               /\ later \in Seq(DatedLate)

\* What was not there comes only if it is of the date, and not before its turn.
place == trees[Target]
There == DOMAIN place
Came ==
  Alone => \A n \in missing : /\ n \in There => PresentAt(n, job.when)
                              /\ n \in DOMAIN home => ~setting.elsewhere /\ ~ToCome(n)

\* Nodes that have to be there in the end, and how.
Missed(n) == n \in missing \/ (setting.force /\ IsFile(n))
Brought == Alone => \A i \in todo : Missed(i.node) => i.op # "modify"
Wanted(n) ==
  /\ Kept(n) /\ PresentAt(n, job.when) /\ Missed(n)
  /\ ({n} \cup Above[n]) \cap (failed \cup untold) = {}
BackIn(n, T) ==
  n \in DOMAIN T /\ (setting.keep = {} => Alike(n, T[n], VersionAt(n, job.when)))
Back(n) == BackIn(n, place)

\* Every one of them is to come, or in work, or waits for its rights, or is back.
Waits(n) == \E k \in DOMAIN later : later[k].node = n
Ended == pc = "work" /\ bad /\ ~setting.ignoreErrors
Underway(n) == ToCome(n) \/ InWork(n) \/ Waits(n) \/ (Back(n) /\ (IsDir(n) => pc = "final"))
Returning == Alone /\ ~Ended => \A n \in Nodes : Wanted(n) => Underway(n)

-----------------------------------------------------------------------------
(* The directories to come are apart from each other.                      *)

LEMMA OverIs ==
  ASSUME NEW c \in Nodes
  PROVE  /\ Over(c) = {c} \cup Over(Parent[c])
         /\ c \notin Over(Parent[c])
         /\ \A e \in Nodes \cup {Root} : c \in Over(e) => Parent[c] \in Over(e)
<1>1. PICK d \in Nodes \cup {Root} : d = Parent[c]
  BY Parents
<1>2. c # Root /\ Root \notin Nodes /\ Over(Root) = {Root} /\ Over(c) = {Root, c} \cup Above[c]
  BY Parents DEF Over
<1>3. Above[c] = IF d = Root THEN {} ELSE {d} \cup Above[d]
  BY <1>1, AboveNothing, AboveStep
<1>4. Over(c) = {c} \cup Over(d)
  BY <1>2, <1>3 DEF Over
<1>5. c \notin Over(d)
  BY <1>2, <1>3, AboveOthers DEF Over
<1>6. ASSUME NEW e \in Nodes \cup {Root}, c \in Over(e)
      PROVE  d \in Over(e)
  <2>1. e # Root /\ e \in Nodes
    BY <1>2, <1>6
  <2>2. c \in {e} \cup Above[e] /\ Over(e) = {Root, e} \cup Above[e]
    BY <1>2, <1>6, <2>1 DEF Over
  <2>3. d = Root \/ d \in Above[e]
    BY <1>1, <2>1, <2>2, AboveClosed
  <2> QED
    BY <2>2, <2>3
<1> QED
  BY <1>1, <1>4, <1>5, <1>6

\* Two places of s, which u and v make up.
TwoOf(u, v, s, j, k) ==
  \/ \E a, b \in DOMAIN u : a # b /\ s[j] = u[a] /\ s[k] = u[b]
  \/ \E a, b \in DOMAIN v : a # b /\ s[j] = v[a] /\ s[k] = v[b]
  \/ \E a \in DOMAIN u, b \in DOMAIN v : s[j] = u[a] /\ s[k] = v[b]
  \/ \E a \in DOMAIN v, b \in DOMAIN u : s[j] = v[a] /\ s[k] = u[b]

LEMMA ConcatApart ==
  ASSUME NEW X, NEW u \in Seq(X), NEW v \in Seq(X), NEW s, s = u \o v,
         NEW j \in DOMAIN s, NEW k \in DOMAIN s, j # k
  PROVE  TwoOf(u, v, s, j, k)
<1>1. PICK m \in Nat, n \in Nat : m = Len(u) /\ n = Len(v)
  BY LenProperties
<1>2. DOMAIN u = 1..m /\ DOMAIN v = 1..n
  BY <1>1, LenProperties
<1>3. /\ s \in Seq(X) /\ Len(s) = m + n
      /\ \A i \in 1..(m + n) : s[i] = IF i <= m THEN u[i] ELSE v[i - m]
  BY <1>1, ConcatProperties
<1>4. DOMAIN s = 1..(m + n)
  BY <1>3, LenProperties
<1>5. ASSUME NEW i \in 1..(m + n)
      PROVE  \/ i \in 1..m /\ s[i] = u[i]
             \/ i - m \in 1..n /\ s[i] = v[i - m]
  <2>1. CASE i <= m
    BY <1>3, <2>1
  <2>2. CASE ~(i <= m)
    BY <1>3, <2>2
  <2> QED
    BY <2>1, <2>2
<1>6. j \in 1..(m + n) /\ k \in 1..(m + n)
  BY <1>4
<1>7. j - m # k - m
  BY <1>6
<1>8. PICK p, q : p = j - m /\ q = k - m
  OBVIOUS
<1>9. /\ p # q
      /\ \/ j \in DOMAIN u /\ s[j] = u[j]
         \/ p \in DOMAIN v /\ s[j] = v[p]
      /\ \/ k \in DOMAIN u /\ s[k] = u[k]
         \/ q \in DOMAIN v /\ s[k] = v[q]
  BY <1>2, <1>5, <1>6, <1>7, <1>8
<1> QED
  BY ONLY <1>9, j # k DEF TwoOf

\* Two places of the new list: two new ones, two old ones, or one of each.
LEMMA ScannedApart ==
  ASSUME dirs \in Seq(Nodes \cup {Root}), NEW S \in SUBSET Nodes, NEW order \in SetToSeqs(S),
         NEW j \in DOMAIN Scanned(order), NEW k \in DOMAIN Scanned(order), j # k
  PROVE  LET t == Scanned(order) IN
         \/ t[j] \in S /\ t[k] \in S /\ t[j] # t[k]
         \/ \E a, b \in DOMAIN dirs : a # b /\ t[j] = dirs[a] /\ t[k] = dirs[b]
         \/ t[j] \in S /\ t[k] \in Listing
         \/ t[j] \in Listing /\ t[k] \in S
<1>1. IsFiniteSet(S) /\ Cardinality(S) \in Nat
  BY TreeAssumption, FS_Subset, FS_CardinalityType
<1>2. PICK c \in Nat : c = Cardinality(S)
  BY <1>1
<1>3. order \in [1..c -> S] /\ \A x, y \in 1..c : x # y => order[x] # order[y]
  BY <1>2 DEF SetToSeqs
<1>4. DOMAIN order = 1..c
  BY <1>3
<1>5. \A x, y \in DOMAIN order : order[x] \in S /\ (x # y => order[x] # order[y])
  BY <1>3, <1>4
<1>6. \A x \in DOMAIN dirs : dirs[x] \in Listing
  BY DEF Listing
<1> DEFINE X == Nodes \cup {Root}
<1>7. order \in Seq(X) /\ dirs \in Seq(X)
  BY <1>3
<1> HIDE DEF X
<1>8. CASE setting.deepFirst
  <2>1. PICK t : t = order \o dirs
    OBVIOUS
  <2>2. Scanned(order) = t /\ j \in DOMAIN t /\ k \in DOMAIN t
    BY <1>8, <2>1 DEF Scanned
  <2>3. TwoOf(order, dirs, t, j, k)
    BY <1>7, <2>1, <2>2, ConcatApart
  <2> QED
    BY <1>5, <1>6, <2>2, <2>3 DEF TwoOf
<1>9. CASE ~setting.deepFirst
  <2>1. PICK t : t = dirs \o order
    OBVIOUS
  <2>2. Scanned(order) = t /\ j \in DOMAIN t /\ k \in DOMAIN t
    BY <1>9, <2>1 DEF Scanned
  <2>3. TwoOf(dirs, order, t, j, k)
    BY <1>7, <2>1, <2>2, ConcatApart
  <2> QED
    BY <1>5, <1>6, <2>2, <2>3 DEF TwoOf
<1> QED
  BY <1>8, <1>9

LEMMA TailApart ==
  ASSUME dirs \in Seq(Nodes \cup {Root}), dirs # <<>>, dirs' = Tail(dirs),
         \A j, k \in DOMAIN dirs : j # k => dirs[j] \notin Over(dirs[k])
  PROVE  /\ \A j, k \in DOMAIN dirs' : j # k => dirs'[j] \notin Over(dirs'[k])
         /\ \A d \in Listing' : d \notin Over(Head(dirs)) /\ Head(dirs) \notin Over(d)
<1> DEFINE X == Nodes \cup {Root}
<1>1. dirs \in Seq(X)
  OBVIOUS
<1> HIDE DEF X
<1>2. PICK b \in Nat : b = Len(dirs) /\ DOMAIN dirs = 1..b
  BY <1>1, LenProperties
<1>3. /\ Head(dirs) = dirs[1]
      /\ Tail(dirs) \in Seq(X) /\ Len(Tail(dirs)) = b - 1
      /\ \A i \in 1..(b - 1) : Tail(dirs)[i] = dirs[i + 1]
  BY <1>1, <1>2, HeadTailProperties
<1>4. b # 0
  BY <1>1, <1>2, EmptySeq
<1>5. DOMAIN dirs' = 1..(b - 1)
  BY <1>3, LenProperties
<1>6. \A i \in 1..(b - 1) : i + 1 \in 1..b /\ i + 1 # 1
  BY <1>2
<1>7. \A i, j \in 1..(b - 1) : i # j => i + 1 # j + 1
  OBVIOUS
<1>8. 1 \in 1..b
  BY <1>2, <1>4
<1>9. ASSUME NEW j \in 1..(b - 1), NEW k \in 1..(b - 1), j # k
      PROVE  dirs'[j] \notin Over(dirs'[k])
  <2>1. PICK x \in 1..b, y \in 1..b : x = j + 1 /\ y = k + 1 /\ x # y
    BY <1>6, <1>7, <1>9
  <2>2. dirs'[j] = dirs[x] /\ dirs'[k] = dirs[y]
    BY <1>3, <2>1
  <2> QED
    BY <1>2, <2>1, <2>2
<1>10. ASSUME NEW j \in 1..(b - 1)
       PROVE  dirs'[j] \notin Over(Head(dirs)) /\ Head(dirs) \notin Over(dirs'[j])
  <2>1. PICK x \in 1..b : x = j + 1 /\ x # 1
    BY <1>6
  <2>2. dirs'[j] = dirs[x]
    BY <1>3, <2>1
  <2> QED
    BY <1>2, <1>3, <1>8, <2>1, <2>2
<1> QED
  BY <1>5, <1>9, <1>10 DEF Listing

LEMMA AbreastKept ==
  ASSUME Types, Abreast, Steps
  PROVE  Abreast'
<1>1. dirs \in Seq(Nodes \cup {Root}) /\ here \in Nodes \cup {Root}
  BY DEF Types, Queues
<1>2. /\ \A j, k \in DOMAIN dirs : j # k => dirs[j] \notin Over(dirs[k])
      /\ pc = "scan" => \A d \in Listing : d \notin Over(here) /\ here \notin Over(d)
      /\ pc = "work" => \A d \in Listing : d \notin Over(here)
  BY DEF Abreast
<1>3. CASE UNCHANGED <<dirs, here, pc>>
  BY <1>2, <1>3 DEF Abreast, Listing
<1>4. CASE Ends
  BY <1>4 DEF Ends, Abreast
<1>5. CASE Starts
  BY <1>5 DEF Starts, Abreast
<1>6. CASE Finds
  BY <1>6 DEF Finds, Abreast
<1>7. CASE Passes
  <2>1. dirs # <<>> /\ dirs' = Tail(dirs) /\ pc' \notin {"scan", "work"}
    BY <1>7 DEF Passes
  <2> QED
    BY <1>1, <1>2, <2>1, TailApart DEF Abreast
<1>8. CASE Goes
  <2>1. dirs # <<>> /\ dirs' = Tail(dirs) /\ pc' = "scan" /\ here' = Head(dirs)
    BY <1>8 DEF Goes
  <2>2. /\ \A j, k \in DOMAIN dirs' : j # k => dirs'[j] \notin Over(dirs'[k])
        /\ \A d \in Listing' : d \notin Over(here') /\ here' \notin Over(d)
    BY <1>1, <1>2, <2>1, TailApart
  <2> QED
    BY <2>1, <2>2 DEF Abreast
<1>9. CASE ScanDir
  <2>1. /\ pc = "scan" /\ pc' = "work" /\ UNCHANGED here
        /\ Listing' \subseteq Listing \cup SubDirs(here)
    BY <1>9, ScanDirs
  <2>2. PICK S \in SUBSET Nodes : S = SubDirs(here)
    BY SubDirsAre
  <2>3. \A d \in S : Parent[d] = here
    BY <2>2, SubDirsAre
  <2>4. \A d \in Listing : d \in Nodes \cup {Root} /\ d \notin Over(here) /\ here \notin Over(d)
    <3>1. \A k \in DOMAIN dirs : dirs[k] \in Nodes \cup {Root}
      BY <1>1, ElementOfSeq, LenProperties
    <3> QED
      BY <1>2, <2>1, <3>1 DEF Listing
  <2>5. ASSUME NEW d \in S
        PROVE  /\ d \notin Over(here) /\ Over(d) = {d} \cup Over(here)
               /\ \A e \in Listing : d \notin Over(e) /\ e \notin Over(d)
    <3>1. d \notin Over(here) /\ Over(d) = {d} \cup Over(here)
      BY <2>3, OverIs
    <3>2. ASSUME NEW e \in Listing
          PROVE  d \notin Over(e) /\ e \notin Over(d)
      <4>1. d \notin Over(e)
        BY <2>3, <2>4, OverIs
      <4>2. d \in Over(d)
        BY <3>1
      <4> QED
        BY <2>4, <3>1, <4>1, <4>2
    <3> QED
      BY <3>1, <3>2
  <2>6. \A d \in Listing' : d \notin Over(here)
    BY <2>1, <2>2, <2>4, <2>5
  <2>7. ASSUME NEW order \in SetToSeqs(S), dirs' = Scanned(order),
               NEW j \in DOMAIN dirs', NEW k \in DOMAIN dirs', j # k
        PROVE  dirs'[j] \notin Over(dirs'[k])
    <3>1. \/ dirs'[j] \in S /\ dirs'[k] \in S /\ dirs'[j] # dirs'[k]
          \/ \E a, b \in DOMAIN dirs : a # b /\ dirs'[j] = dirs[a] /\ dirs'[k] = dirs[b]
          \/ dirs'[j] \in S /\ dirs'[k] \in Listing
          \/ dirs'[j] \in Listing /\ dirs'[k] \in S
      BY <1>1, <2>7, ScannedApart
    <3> QED
      BY <1>2, <2>5, <3>1
  <2>8. \A j, k \in DOMAIN dirs' : j # k => dirs'[j] \notin Over(dirs'[k])
    <3>1. UNCHANGED dirs \/ \E order \in SetToSeqs(S) : dirs' = Scanned(order)
      BY <1>9, <2>2 DEF ScanDir
    <3> QED
      BY <1>2, <2>7, <3>1
  <2> QED
    BY <2>1, <2>6, <2>8 DEF Abreast
<1>10. CASE Leaves
  BY <1>2, <1>10 DEF Leaves, Abreast, Listing
<1> QED
  BY <1>3, <1>4, <1>5, <1>6, <1>7, <1>8, <1>9, <1>10, StepDirs

LEMMA AbreastHolds == Spec => [](Types /\ Lists /\ Abreast)
<1>1. Init => Abreast
  BY DEF Init, Abreast, Listing
<1>2. (Types /\ Lists) /\ Abreast /\ [Next]_vars => Abreast'
  BY NextIsSteps, AbreastKept
<1> QED
  BY <1>1, <1>2, ListsHold, PTL DEF Spec

-----------------------------------------------------------------------------
(* What a restore works with is of its date.                               *)

StartsJob == \E kind \in setting.kinds, when \in 0..MaxClock : StartJob(kind, when)

LEMMA StillRestoring ==
  ASSUME Types, Types', Lists, Steps, Restoring', ~StartsJob
  PROVE  Restoring /\ UNCHANGED <<job, repo, setting>>
<1>1. UNCHANGED job /\ pc # "idle"
  BY StepJob DEF EditOn, Restoring, StartsJob
<1>2. Restoring /\ job.kind # "store"
  BY <1>1 DEF Restoring
<1>3. \A n \in Nodes : repo'[n] = repo[n]
  BY <1>2, StepRepo
<1>4. repo \in [Nodes -> Seq(Version)] /\ repo' \in [Nodes -> Seq(Version)]
  BY DEF Types, Repo
<1>5. repo' = repo
  BY <1>3, <1>4
<1> QED
  BY <1>1, <1>2, <1>5, StepClock

\* What is in a directory of the date is of the date if its own version says so.
LEMMA PresentBelow ==
  ASSUME NEW n \in Nodes, NEW w, Used(n, w), Parent[n] = Root \/ PresentAt(Parent[n], w)
  PROVE  PresentAt(n, w)
<1>1. CASE Parent[n] = Root
  BY <1>1, AboveNothing DEF PresentAt
<1>2. CASE Parent[n] # Root
  BY <1>2, AboveStep DEF PresentAt
<1> QED
  BY <1>1, <1>2

LEMMA PresentAbove ==
  ASSUME NEW n \in Nodes, NEW w, PresentAt(n, w), NEW m \in {n} \cup Above[n]
  PROVE  PresentAt(m, w) /\ Used(m, w)
BY AboveTransitive DEF PresentAt

LEMMA DatedKept ==
  ASSUME Types, Types', Lists, Dated, Steps
  PROVE  Dated'
<1> SUFFICES ASSUME Restoring'
             PROVE  /\ \A d \in Listing' : OfDate(d)'
                    /\ pc' \in {"scan", "work"} => OfDate(here)'
  BY DEF Dated
<1>1. CASE StartsJob
  <2>1. Listing' = {Root} /\ pc' = "enter"
    BY <1>1 DEF StartsJob, StartJob, Listing
  <2> QED
    BY <2>1 DEF OfDate
<1>2. CASE ~StartsJob
  <2>1. Restoring /\ UNCHANGED <<job, repo, setting>>
    BY <1>2, StillRestoring
  <2>2. \A d : OfDate(d)' <=> OfDate(d)
    BY <2>1 DEF OfDate, PresentAt, Used, Seen, VersionAt
  <2>3. /\ \A d \in Listing : OfDate(d)
        /\ pc \in {"scan", "work"} => OfDate(here)
    BY <2>1 DEF Dated
  <2>4. dirs \in Seq(Nodes \cup {Root})
    BY DEF Types, Queues
  <2> HIDE DEF OfDate
  <2>5. CASE UNCHANGED <<dirs, here, pc>>
    BY <2>2, <2>3, <2>5 DEF Listing
  <2>6. CASE Ends
    BY <2>6 DEF Ends, Restoring
  <2>7. CASE Finds
    BY <2>7 DEF Finds, Listing
  <2>8. CASE Passes \/ Goes
    <3>1. Head(dirs) \in Listing /\ Listing' \subseteq Listing
      BY <2>4, <2>8, ListingIs DEF Passes, Goes
    <3>2. pc' \in {"scan", "work"} => here' = Head(dirs)
      BY <2>8 DEF Passes, Goes
    <3> QED
      BY <2>2, <2>3, <3>1, <3>2
  <2>9. CASE ScanDir
    <3>1. /\ pc = "scan" /\ UNCHANGED here
          /\ Listing' \subseteq Listing \cup SubDirs(here)
      BY <2>9, ScanDirs
    <3>2. ASSUME NEW d \in SubDirs(here)
          PROVE  OfDate(d)
      <4>1. d \in Nodes /\ Parent[d] = here
        BY SubDirsAre
      <4>2. Used(d, job.when)
        BY <2>1 DEF SubDirs, Restoring
      <4>3. Parent[d] = Root \/ PresentAt(Parent[d], job.when)
        BY <2>3, <3>1, <4>1 DEF OfDate
      <4>4. PresentAt(d, job.when)
        BY <4>1, <4>2, <4>3, PresentBelow
      <4> QED
        BY <4>4 DEF OfDate
    <3> QED
      BY <2>2, <2>3, <3>1, <3>2
  <2>10. CASE Leaves
    BY <2>2, <2>3, <2>10 DEF Leaves, Listing
  <2> QED
    BY <1>2, <2>5, <2>6, <2>7, <2>8, <2>9, <2>10, StepDirs DEF StartsJob
<1> QED
  BY <1>1, <1>2

LEMMA DatedHolds == Spec => [](Types /\ Lists /\ Dated)
<1>1. Init => Dated
  BY DEF Init, Dated, Restoring
<1>2. (Types /\ Lists) /\ Dated /\ [Next]_vars /\ Types' => Dated'
  BY NextIsSteps, DatedKept
<1> QED
  BY <1>1, <1>2, ListsHold, PTL DEF Spec

LEMMA DatedDeferred ==
  ASSUME Types, later \in Seq(DatedLate), NEW i, Turn(i), AsOf(i), Defers(i)
  PROVE  later' \in Seq(DatedLate)
<1>1. CASE later' = later
  BY <1>1
<1>2. CASE IsDir(i.node) /\ later' = Deferred(i)
  <2>1. PICK x \in DatedLate : x = [node |-> i.node, entry |-> i.entry]
    <3>1. PICK n \in Nodes, e \in Version : n = i.node /\ e = i.entry
      BY DEF Turn
    <3>2. PICK x \in Late : x = [node |-> n, entry |-> e]
      BY DEF Late
    <3>3. x.node = n /\ x.entry = e
      BY <3>2
    <3> QED
      BY <1>2, <3>1, <3>2, <3>3 DEF AsOf, DatedLate
  <2>2. <<x>> \in Seq(DatedLate)
    OBVIOUS
  <2>3. <<x>> \o later \in Seq(DatedLate)
    BY <2>2, ConcatProperties
  <2> QED
    BY <1>2, <2>1, <2>3 DEF Deferred
<1> QED
  BY <1>1, <1>2 DEF Defers

LEMMA ListedAsOf ==
  ASSUME Types, job.kind = "restore", NEW i \in Listed(here)
  PROVE  AsOf(i)
<1>1. ForNode(i.node, i)
  BY ListedAreItems
<1>2. PICK n : n = i.node
  OBVIOUS
<1>3. Used(n, job.when) /\ i.entry = VersionAt(n, job.when)
  BY <1>1, <1>2 DEF ForNode, ForRestore, Work
<1> QED
  BY <1>2, <1>3 DEF AsOf

\* The three parts of Handed, while the date and the repository stay.
HandedOver == /\ \A i \in todo : AsOf(i)
              /\ sending # NoFile => AsOf(sending)
              /\ later \in Seq(DatedLate)

LEMMA HandedOverKept ==
  ASSUME Types, Types', Lists, HandedOver, Steps, Restoring, Restoring', ~StartsJob,
         \A x : AsOf(x)' <=> AsOf(x)
  PROVE  HandedOver'
<1>0. /\ \A i \in todo : AsOf(i)
      /\ sending # NoFile => AsOf(sending)
      /\ later \in Seq(DatedLate)
  BY DEF HandedOver
<1>1. DatedLate' = DatedLate
  BY DEF DatedLate, Late
<1>2. ASSUME \A i \in todo' : AsOf(i), sending' # NoFile => AsOf(sending'),
             later' \in Seq(DatedLate)
      PROVE  HandedOver'
  BY <1>1, <1>2 DEF HandedOver
<1>3. pc' # "idle" /\ job.kind = "restore"
  BY DEF Restoring
<1> HIDE DEF AsOf, HandedOver
<1>4. CASE Rests \/ EditOn
  BY <1>0, <1>2, <1>4 DEF Rests, EditOn, work
<1>5. CASE EnterDir \/ LeaveDir
  <2>1. UNCHANGED <<todo, sending, later>>
    BY <1>3, <1>5 DEF EnterDir, LeaveDir, EndJob, Steady, work
  <2> QED
    BY <1>0, <1>2, <2>1
<1>6. CASE ScanDir
  <2>1. UNCHANGED <<sending, later>> /\ todo' \subseteq Listed(here)
    BY <1>6 DEF ScanDir
  <2>2. \A i \in todo' : AsOf(i)
    BY <1>3, <2>1, ListedAsOf
  <2> QED
    BY <1>0, <1>2, <2>1, <2>2
<1>7. CASE ShowDiffs \/ StoreTransferOn
  BY <1>3, <1>7 DEF ShowDiffs, StoreTransferOn
<1>8. CASE \E i \in Item : SetEntryOn(i) \/ StoreOpenOn(i)
  <2>1. PICK i \in Item : SetEntryOn(i) \/ StoreOpenOn(i)
    BY <1>8
  <2>2. Turn(i) /\ i.op \in {"set", "delete", "store"}
    BY <2>1 DEF SetEntryOn, StoreOpenOn
  <2> QED
    BY <1>3, <2>2, NotRestore
<1>9. CASE \E i \in Item : ModifyOn(i) \/ CreateOn(i)
  <2>1. PICK i \in Item : ModifyOn(i) \/ CreateOn(i)
    BY <1>9
  <2>2. Called(i) /\ UNCHANGED sending /\ Turn(i) /\ Defers(i) /\ i \in todo
    BY <2>1 DEF ModifyOn, CreateOn, Turn
  <2>3. todo' \subseteq todo
    BY <2>2, CalledLists
  <2>4. later' \in Seq(DatedLate)
    BY <1>0, <2>2, DatedDeferred
  <2> QED
    BY <1>0, <1>2, <2>2, <2>3, <2>4
<1>10. CASE \E i \in Item : FetchOpenOn(i)
  <2>1. PICK i \in Item : FetchOpenOn(i)
    BY <1>10
  <2>2. /\ Called(i) /\ UNCHANGED later /\ i \in todo
        /\ \/ sending' = [node |-> i.node, entry |-> VersionAt(i.node, job.when), item |-> i]
           \/ UNCHANGED sending
    BY <2>1 DEF FetchOpenOn, Turn
  <2>3. todo' \subseteq todo
    BY <2>2, CalledLists
  <2>4. AsOf(i)
    BY <1>0, <2>2
  <2>5. sending' # NoFile => AsOf(sending')
    <3>1. ASSUME NEW n, n = i.node, NEW v, v = VersionAt(n, job.when),
                 sending' = [node |-> n, entry |-> v, item |-> i]
          PROVE  AsOf(sending')
      <4>1. sending'.node = n /\ sending'.entry = v
        BY <3>1
      <4> QED
        BY <2>4, <3>1, <4>1 DEF AsOf
    <3> QED
      BY <1>0, <2>2, <3>1
  <2> QED
    BY <1>0, <1>2, <2>2, <2>3, <2>5
<1>11. CASE FetchFillOn
  <2>1. PICK i : Called(i) /\ UNCHANGED later /\ sending' = NoFile
    BY <1>11 DEF FetchFillOn
  <2>2. todo' \subseteq todo
    BY <2>1, CalledLists
  <2> QED
    BY <1>0, <1>2, <2>1, <2>2
<1>12. CASE ModifyLaterOn
  <2>1. UNCHANGED <<todo, sending>> /\ later # <<>> /\ later' \in {Tail(later), <<>>}
    BY <1>12 DEF ModifyLaterOn
  <2>2. later' \in Seq(DatedLate)
    BY <1>0, <2>1, HeadTailProperties, EmptySeq
  <2> QED
    BY <1>0, <1>2, <2>1, <2>2
<1>13. CASE Finish \/ Crash
  BY <1>3, <1>13 DEF Finish, EndJob, Crash
<1> QED
  BY <1>4, <1>5, <1>6, <1>7, <1>8, <1>9, <1>10, <1>11, <1>12, <1>13 DEF Steps, StartsJob

LEMMA HandedKept ==
  ASSUME Types, Types', Lists, Handed, Steps
  PROVE  Handed'
<1> SUFFICES ASSUME Restoring'
             PROVE  HandedOver'
  BY DEF Handed, HandedOver
<1>1. CASE StartsJob
  <2>1. todo' = {} /\ sending' = NoFile /\ later' = <<>>
    BY <1>1 DEF StartsJob, StartJob, Types, Between, Lists
  <2> QED
    BY <2>1, EmptySeq DEF HandedOver
<1>2. CASE ~StartsJob
  <2>1. Restoring /\ UNCHANGED <<job, repo, setting>>
    BY <1>2, StillRestoring
  <2>2. \A x : AsOf(x)' <=> AsOf(x)
    BY <2>1 DEF AsOf, Used, Seen, VersionAt
  <2>3. HandedOver
    BY <2>1 DEF Handed, HandedOver
  <2> QED
    BY <1>2, <2>1, <2>2, <2>3, HandedOverKept
<1> QED
  BY <1>1, <1>2

LEMMA HandedHolds == Spec => [](Types /\ Lists /\ Handed)
<1>1. Init => Handed
  BY DEF Init, Handed, Restoring
<1>2. (Types /\ Lists) /\ Handed /\ [Next]_vars /\ Types' => Handed'
  BY NextIsSteps, HandedKept
<1> QED
  BY <1>1, <1>2, ListsHold, PTL DEF Spec

-----------------------------------------------------------------------------
(* What the calls of a restore bring.                                      *)

\* The tree T gets m and what is above it, and nothing else changes but directories.
Spread(m, T, U) ==
  /\ IsTree(U) /\ DOMAIN T \subseteq DOMAIN U /\ DOMAIN U \subseteq DOMAIN T \cup {m} \cup Above[m]
  /\ \A x \in DOMAIN T : U[x] = T[x] \/ x = m \/ IsDir(x)

LEMMA SpreadBy ==
  ASSUME NEW T, NEW U, NEW m, NEW D, NEW S, Elsewhere(T, U, D, S),
         DOMAIN T \subseteq D, D \subseteq DOMAIN T \cup {m} \cup Above[m],
         \A x \in S \cap DOMAIN T : x = m \/ IsDir(x)
  PROVE  Spread(m, T, U)
BY DEF Spread, Elsewhere

LEMMA SpreadTwice ==
  ASSUME NEW T, NEW U, NEW W, NEW m, Spread(m, T, U), Spread(m, U, W)
  PROVE  Spread(m, T, W)
BY DEF Spread

LEMMA SpreadByPath ==
  ASSUME NEW T, IsTree(T), NEW n \in Nodes, clock' \in 0..MaxClock
  PROVE  /\ Spread(n, T, PathCreate(T, n))
         /\ IsTree(PathCreate(T, n)) /\ DOMAIN PathCreate(T, n) = DOMAIN T \cup Above[n]
<1>1. PICK P : P = PathCreate(T, n)
  OBVIOUS
<1>2. Elsewhere(T, P, DOMAIN T \cup Above[n], Above[n] \ DOMAIN T)
  BY <1>1, PathCreateIs
<1>3. Spread(n, T, P)
  BY <1>2, SpreadBy
<1> QED
  BY <1>1, <1>2, <1>3 DEF Elsewhere

LEMMA SpreadByPlaced ==
  ASSUME NEW T, IsTree(T), NEW n \in Nodes, NEW v \in Node, clock' \in 0..MaxClock
  PROVE  /\ Spread(n, T, Placed(T, n, v)) /\ IsTree(Placed(T, n, v))
         /\ n \in DOMAIN Placed(T, n, v) /\ Placed(T, n, v)[n] = v
<1>1. PICK P : P = Placed(T, n, v)
  OBVIOUS
<1>2. Elsewhere(T, P, DOMAIN T \cup {n}, {n, Parent[n]}) /\ P[n] = v
  BY <1>1, PlacedIs
<1>3. \A x \in {n, Parent[n]} \cap DOMAIN T : x = n \/ IsDir(x)
  BY Parents DEF IsTree
<1>4. Spread(n, T, P)
  BY <1>2, <1>3, SpreadBy
<1> QED
  BY <1>1, <1>2, <1>4 DEF Elsewhere

LEMMA SpreadByWritten ==
  ASSUME NEW T, IsTree(T), NEW n \in DOMAIN T, NEW c \in Bytes, clock' \in 0..MaxClock
  PROVE  /\ Spread(n, T, Written(T, n, c)) /\ IsTree(Written(T, n, c))
         /\ n \in DOMAIN Written(T, n, c) /\ Written(T, n, c)[n].content = c
<1>1. PICK P : P = Written(T, n, c)
  OBVIOUS
<1>2. /\ Elsewhere(T, P, DOMAIN T, {n})
      /\ P[n] = [mode |-> T[n].mode, group |-> T[n].group,
                 mtime |-> clock', ctime |-> clock', content |-> c]
  BY <1>1, WrittenIs
<1>3. P[n].content = c
  BY <1>2
<1>4. Spread(n, T, P)
  BY <1>2, SpreadBy
<1> QED
  BY <1>1, <1>2, <1>3, <1>4 DEF Elsewhere

\* The attributes of n are those of its version v.
Restored(n, T, v) ==
  setting.keep = {} => /\ T[n].group = v.group
                       /\ ~IsLink(n) => T[n].mode = v.mode /\ T[n].mtime = v.mtime

LEMMA SpreadByModify ==
  ASSUME NEW T, IsTree(T), NEW n \in DOMAIN T, NEW v \in Version,
         setting \in Settings, clock' \in 0..MaxClock
  PROVE  LET U == ModifyDirEnt(T, n, v) IN
         /\ Spread(n, T, U) /\ Elsewhere(T, U, DOMAIN T, {n}) /\ n \in DOMAIN U
         /\ U[n].content = T[n].content /\ Restored(n, U, v)
<1>1. PICK U : U = ModifyDirEnt(T, n, v)
  OBVIOUS
<1>2. setting.keep \subseteq {"owner", "rights", "times"}
  BY SettingIs
<1>3. /\ Elsewhere(T, U, DOMAIN T, {n}) /\ U[n].content = T[n].content
      /\ setting.keep = {} => /\ U[n].group = v.group
                              /\ ~IsLink(n) => U[n].mode = v.mode /\ U[n].mtime = v.mtime
  BY <1>1, <1>2, ModifyIs
<1>4. Spread(n, T, U)
  BY <1>3, SpreadBy
<1> QED
  BY <1>1, <1>3, <1>4 DEF Elsewhere, Restored

LEMMA SpreadByCreate ==
  ASSUME NEW T, IsTree(T), NEW n \in Nodes, NEW v \in Version,
         setting \in Settings, clock' \in 0..MaxClock
  PROVE  LET U == CreateDirEnt(T, n, v) IN
         /\ Spread(n, T, U) /\ n \in DOMAIN U
         /\ IsLink(n) => U[n].content = v.target
         /\ Restored(n, U, v)
<1>1. PICK A : A = PathCreate(T, n)
  OBVIOUS
<1>2. Spread(n, T, A) /\ IsTree(A)
  BY <1>1, SpreadByPath
<1>3. PICK c \in Bytes : c = IF IsLink(n) THEN v.target ELSE Nothing
  BY DEF Version, Bytes
<1>4. PICK w : w = New(v.mode, c)
  OBVIOUS
<1>5. w \in Node /\ w.content = c
  <2>1. v.mode \in Modes
    BY DEF Version
  <2> QED
    BY <1>4, <2>1, NewIs
<1>6. PICK B : B = Placed(A, n, w)
  OBVIOUS
<1>7. Spread(n, A, B) /\ IsTree(B) /\ n \in DOMAIN B /\ B[n] = w
  BY <1>2, <1>5, <1>6, SpreadByPlaced
<1>8. PICK U : U = ModifyDirEnt(B, n, v)
  OBVIOUS
<1>9. Spread(n, B, U) /\ n \in DOMAIN U /\ U[n].content = B[n].content /\ Restored(n, U, v)
  BY <1>7, <1>8, SpreadByModify
<1>10. Spread(n, T, U)
  BY <1>2, <1>7, <1>9, SpreadTwice
<1>11. CreateDirEnt(T, n, v) = U
  BY <1>1, <1>3, <1>4, <1>6, <1>8 DEF CreateDirEnt
<1> QED
  BY <1>3, <1>5, <1>7, <1>9, <1>10, <1>11

\* The place of the restore gets the node m, and home does if it is this place.
Grown(m) ==
  /\ Spread(m, place, place')
  /\ home' = home \/ (~setting.elsewhere /\ home = place /\ home' = place')

LEMMA LocalGrown ==
  ASSUME Types, UNCHANGED setting, NEW U, NEW S, Local(U, S), NEW m, Spread(m, place, U)
  PROVE  Grown(m) /\ place' = U
<1>1. Flags /\ Trees /\ hidden \subseteq Nodes /\ IsTree(U)
  BY DEF Types, Marks, Spread
<1>2. /\ trees[Target]' = U
      /\ setting.elsewhere => home' = home
      /\ ~setting.elsewhere => Target = "home" /\ home' = U
  BY <1>1, LocalIs
<1>3. place' = U
  BY <1>2 DEF place
<1>4. ~setting.elsewhere => home = place
  BY <1>2 DEF place, home
<1> QED
  BY <1>2, <1>3, <1>4 DEF Grown

LEMMA SameGrown ==
  ASSUME Types, UNCHANGED <<setting, trees>>, NEW m
  PROVE  Grown(m) /\ place' = place
<1>1. place' = place /\ home' = home
  BY DEF place, Target, home
<1>2. IsTree(place)
  BY TargetIs DEF Types, place
<1> QED
  BY <1>1, <1>2 DEF Grown, Spread

\* An item that has succeeded has brought its node back; a directory waits for its rights.
Done(i) == i.op # "modify" => IF IsDir(i.node) THEN later' = Deferred(i)
                                                ELSE BackIn(i.node, place')

\* The call for an item of the lists.
Deals(i) ==
  /\ i \in todo /\ i \in Item /\ Called(i) /\ Defers(i) /\ Grown(i.node)
  /\ \/ UNCHANGED todo
     \/ Succeeds(i) /\ Done(i)
     \/ Fails(i)

LEMMA BackInIs ==
  ASSUME NEW n, NEW T, n \in DOMAIN T, NEW v, v = VersionAt(n, job.when), Restored(n, T, v),
         IsLink(n) => T[n].content = v.target,
         IsFile(n) => /\ T[n].content = v.digest /\ T[n].content = v.bytes
                      /\ SizeOf(T[n].content) = v.size /\ v.zipped = v.stream
  PROVE  BackIn(n, T)
<1> SUFFICES ASSUME setting.keep = {}
             PROVE  Alike(n, T[n], v)
  BY DEF BackIn
<1>1. T[n].group = v.group /\ (~IsLink(n) => T[n].mode = v.mode /\ T[n].mtime = v.mtime)
  BY DEF Restored
<1> QED
  BY <1>1 DEF Alike

LEMMA ModifyDeals ==
  ASSUME Types, Modify
  PROVE  \E i \in Item : Deals(i)
<1>1. PICK i \in Due("modify") :
       \/ /\ IsDir(i.node)
          /\ later' = Deferred(i)
          /\ Succeeds(i) /\ Fine
          /\ UNCHANGED <<trees, hidden>>
       \/ /\ ~IsDir(i.node) /\ i.node \in DOMAIN place
          /\ Local(ModifyDirEnt(place, i.node, i.entry), {i.node})
          /\ Succeeds(i) /\ Fine
          /\ UNCHANGED later
       \/ /\ ~IsDir(i.node)
          /\ Fails(i)
          /\ IF i.node \in DOMAIN place THEN Fault ELSE Fine
          /\ UNCHANGED <<trees, later, hidden>>
  BY Zenon DEF Modify, place
<1>2. Turn(i) /\ i.op = "modify"
  BY TurnIs
<1>3. Called(i) /\ Defers(i) /\ (Succeeds(i) \/ Fails(i))
  BY <1>1, <1>2 DEF Modify, Called, Turn, Defers
<1>4. Flags /\ IsTree(place) /\ UNCHANGED <<setting, clock>> /\ clock' \in 0..MaxClock
  BY <1>3, TargetIs, CalledLists, Clock DEF Types, place
<1>5. PICK n \in Nodes, e \in Version : n = i.node /\ e = i.entry
  BY <1>2 DEF Turn
<1>6. Grown(n)
  <2>1. CASE UNCHANGED trees
    BY <1>4, <2>1, SameGrown
  <2>2. CASE n \in DOMAIN place /\ Local(ModifyDirEnt(place, n, e), {n})
    <3>1. PICK U : U = ModifyDirEnt(place, n, e)
      OBVIOUS
    <3>2. Spread(n, place, U)
      BY <1>4, <2>2, <3>1, SpreadByModify DEF Flags
    <3> QED
      BY <1>4, <2>2, <3>1, <3>2, LocalGrown
  <2> QED
    BY <1>1, <1>5, <2>1, <2>2
<1>7. Done(i)
  BY <1>2 DEF Done
<1> QED
  BY <1>2, <1>3, <1>5, <1>6, <1>7 DEF Deals, Turn

LEMMA CreateDeals ==
  ASSUME Types, Lists, HandedOver, Create
  PROVE  \E i \in Item : Deals(i)
<1>1. PICK i \in Due("create") :
       \/ /\ i.node \notin DOMAIN place
          /\ Local(CreateDirEnt(place, i.node, i.entry), {i.node, Parent[i.node]})
          /\ later' = IF IsDir(i.node) THEN Deferred(i) ELSE later
          /\ Succeeds(i) /\ Fine
       \/ /\ IF i.node \notin DOMAIN place THEN Fault ELSE Fine
          /\ Fails(i)
          /\ later' = IF IsDir(i.node) /\ setting.ignoreErrors THEN Deferred(i) ELSE later
          /\ UNCHANGED <<trees, hidden>>
  BY Zenon DEF Create, place
<1>2. Turn(i) /\ i.op = "create"
  BY TurnIs
<1>3. Called(i) /\ Defers(i)
  BY <1>1, <1>2 DEF Create, Called, Turn, Defers
<1>4. Flags /\ IsTree(place) /\ UNCHANGED <<setting, clock>> /\ clock' \in 0..MaxClock
  BY <1>3, TargetIs, CalledLists, Clock DEF Types, place
<1>5. PICK n \in Nodes, e \in Version : n = i.node /\ e = i.entry
  BY <1>2 DEF Turn
<1>6. e = VersionAt(n, job.when) /\ ~IsFile(n)
  BY <1>2, <1>5 DEF HandedOver, AsOf, Lists, Turn
<1>7. CASE Fails(i) /\ UNCHANGED trees
  <2>1. Grown(n)
    BY <1>4, <1>7, SameGrown
  <2> QED
    BY <1>2, <1>3, <1>5, <1>7, <2>1 DEF Deals, Turn
<1>8. CASE /\ Local(CreateDirEnt(place, n, e), {n, Parent[n]})
           /\ later' = IF IsDir(n) THEN Deferred(i) ELSE later
           /\ Succeeds(i)
  <2>1. PICK U : U = CreateDirEnt(place, n, e)
    OBVIOUS
  <2>2. Spread(n, place, U) /\ n \in DOMAIN U /\ Restored(n, U, e)
        /\ (IsLink(n) => U[n].content = e.target)
    BY <1>4, <2>1, SpreadByCreate DEF Flags
  <2>3. PICK S : S = {n, Parent[n]}
    OBVIOUS
  <2>4. Grown(n) /\ place' = U
    BY <1>4, <1>8, <2>1, <2>2, <2>3, LocalGrown
  <2>5. BackIn(n, U)
    BY <1>6, <2>2, BackInIs
  <2>6. Done(i)
    BY <1>5, <1>8, <2>4, <2>5 DEF Done
  <2> QED
    BY <1>2, <1>3, <1>5, <1>8, <2>4, <2>6 DEF Deals, Turn
<1> QED
  BY <1>1, <1>5, <1>7, <1>8

LEMMA FetchOpenDeals ==
  ASSUME Types, FetchOpen
  PROVE  \E i \in Item : Deals(i)
<1>1. PICK i \in Due("fetch") :
       LET n == i.node
           P == PathCreate(place, n)
           v == VersionAt(n, job.when)
       IN \/ /\ n \notin DOMAIN P \/ setting.overwrite
             /\ Local(IF n \in DOMAIN P
                      THEN [Stamped(P, n) EXCEPT ![n].content = Nothing]
                      ELSE Placed(P, n, New(DefaultMode, Nothing)), {n, Parent[n]})
             /\ sending' = [node |-> n, entry |-> v, item |-> i]
             /\ Fine
             /\ UNCHANGED <<todo, bad, failed>>
          \/ /\ IF n \in DOMAIN P /\ ~setting.overwrite THEN Fine ELSE Fault
             /\ Local(P, {})
             /\ Fails(i)
             /\ UNCHANGED sending
  BY Zenon DEF FetchOpen, place
<1>2. Turn(i) /\ i.op = "fetch"
  BY TurnIs
<1>3. PICK n \in Nodes : n = i.node
  BY <1>2 DEF Turn
<1>4. PICK P, S : P = PathCreate(place, n) /\ S = {n, Parent[n]}
  OBVIOUS
<1>5. \/ /\ Local(IF n \in DOMAIN P THEN Written(P, n, Nothing)
                                    ELSE Placed(P, n, New(DefaultMode, Nothing)), S)
         /\ Fine
         /\ UNCHANGED <<todo, bad, failed>>
      \/ (Fine \/ Fault) /\ Local(P, {}) /\ Fails(i)
  BY <1>1, <1>3, <1>4, Zenon DEF Written
<1>6. Called(i) /\ Defers(i)
  BY <1>2, <1>5 DEF FetchOpen, Called, Turn, Defers
<1>7. Flags /\ IsTree(place) /\ UNCHANGED <<setting, clock>> /\ clock' \in 0..MaxClock
  BY <1>6, TargetIs, CalledLists, Clock DEF Types, place
<1>8. Spread(n, place, P) /\ IsTree(P)
  BY <1>4, <1>7, SpreadByPath
<1>9. Nothing \in Bytes /\ DefaultMode \in Modes
  BY TreeAssumption DEF Bytes
<1>10. Grown(n)
  <2>1. CASE Local(P, {})
    BY <1>7, <1>8, <2>1, LocalGrown
  <2>2. ASSUME n \in DOMAIN P, Local(Written(P, n, Nothing), S)
        PROVE  Grown(n)
    <3>1. PICK U : U = Written(P, n, Nothing)
      OBVIOUS
    <3>2. Spread(n, P, U)
      BY <1>7, <1>8, <1>9, <2>2, <3>1, SpreadByWritten
    <3>3. Spread(n, place, U) /\ Local(U, S)
      BY <1>8, <2>2, <3>1, <3>2, SpreadTwice
    <3> QED
      BY <1>7, <3>3, LocalGrown
  <2>3. ASSUME n \notin DOMAIN P, Local(Placed(P, n, New(DefaultMode, Nothing)), S)
        PROVE  Grown(n)
    <3>1. PICK w : w = New(DefaultMode, Nothing)
      OBVIOUS
    <3>2. w \in Node
      BY <1>7, <1>9, <3>1, NewIs
    <3>3. PICK U : U = Placed(P, n, w)
      OBVIOUS
    <3>4. Spread(n, P, U)
      BY <1>7, <1>8, <3>2, <3>3, SpreadByPlaced
    <3>5. Spread(n, place, U) /\ Local(U, S)
      BY <1>8, <2>3, <3>1, <3>3, <3>4, SpreadTwice
    <3> QED
      BY <1>7, <3>5, LocalGrown
  <2> QED
    BY <1>5, <2>1, <2>2, <2>3
<1> QED
  BY <1>2, <1>3, <1>5, <1>6, <1>10 DEF Deals, Turn

LEMMA FetchFillDeals ==
  ASSUME Types, Lists, HandedOver, FetchFill
  PROVE  \E i \in Item : Deals(i)
<1>1. /\ job.kind = "restore" /\ sending # NoFile
      /\ Working /\ UNCHANGED later
  BY DEF FetchFill
<1>2. sending \in Transfer /\ pc = "work"
  BY <1>1 DEF Types, Queues, Between
<1>3. PICK n \in Nodes, v \in Version, i \in Item :
        n = sending.node /\ v = sending.entry /\ i = sending.item
  BY <1>2 DEF Transfer
<1>4. i \in todo /\ i.node = n /\ IsFile(n) /\ v = VersionAt(n, job.when)
  BY <1>1, <1>3 DEF HandedOver, AsOf, Lists
<1> DEFINE With(bytes) == IF n \in DOMAIN place
                          THEN [Stamped(place, n) EXCEPT ![n].content = bytes]
                          ELSE place
<1>5. \/ /\ n \in DOMAIN place /\ Verified(v)
         /\ Local(ModifyDirEnt(With(Received(v)), n, v), {n})
         /\ Succeeds(i) /\ Fine
      \/ /\ Local(With(Received(v)), {n} \cap DOMAIN place)
         /\ Fails(i) /\ Fine
      \/ /\ Local(With(Half), {n} \cap DOMAIN place)
         /\ Fails(i) /\ Fault
  BY <1>3, Zenon DEF FetchFill, place
<1>6. Called(i) /\ Defers(i)
  BY <1>1, <1>2, <1>5 DEF Called, Defers
<1>7. Flags /\ IsTree(place) /\ UNCHANGED <<setting, clock>> /\ clock' \in 0..MaxClock
  BY <1>6, TargetIs, CalledLists, Clock DEF Types, place
<1>8. Received(v) \in Bytes /\ Half \in Bytes
  BY DEF Received, Version, Bytes
<1>9. ASSUME NEW b \in Bytes
      PROVE  /\ Spread(n, place, With(b)) /\ IsTree(With(b))
             /\ n \in DOMAIN place => n \in DOMAIN With(b) /\ With(b)[n].content = b
  <2>1. CASE n \in DOMAIN place
    <3>1. With(b) = Written(place, n, b)
      BY <2>1 DEF Written
    <3>2. PICK W : W = With(b)
      OBVIOUS
    <3> HIDE DEF With
    <3>3. Spread(n, place, W) /\ IsTree(W) /\ n \in DOMAIN W /\ W[n].content = b
      BY <1>7, <2>1, <3>1, <3>2, SpreadByWritten
    <3> QED
      BY <3>2, <3>3
  <2>2. CASE n \notin DOMAIN place
    <3>1. With(b) = place
      BY <2>2
    <3> HIDE DEF With
    <3>2. Spread(n, place, place)
      BY <1>7 DEF Spread
    <3> QED
      BY <1>7, <2>2, <3>1, <3>2
  <2> QED
    BY <2>1, <2>2
<1> HIDE DEF With
<1>10. PICK b \in Bytes : b = Received(v)
  BY <1>8
<1>11. CASE \E c \in Bytes : Local(With(c), {n} \cap DOMAIN place) /\ Fails(i)
  <2>1. PICK c \in Bytes : Local(With(c), {n} \cap DOMAIN place) /\ Fails(i)
    BY <1>11
  <2>2. PICK U, S : U = With(c) /\ S = {n} \cap DOMAIN place
    OBVIOUS
  <2>3. Spread(n, place, U) /\ Local(U, S)
    BY <1>9, <2>1, <2>2
  <2>4. Grown(n)
    BY <1>7, <2>3, LocalGrown
  <2> QED
    BY <1>3, <1>4, <1>6, <2>1, <2>4 DEF Deals
<1>12. CASE /\ n \in DOMAIN place /\ Verified(v)
            /\ Local(ModifyDirEnt(With(b), n, v), {n})
            /\ Succeeds(i)
  <2>1. PICK W : W = With(b)
    OBVIOUS
  <2>2. Spread(n, place, W) /\ IsTree(W) /\ n \in DOMAIN W /\ W[n].content = b
    BY <1>9, <1>12, <2>1
  <2>3. PICK U : U = ModifyDirEnt(W, n, v)
    OBVIOUS
  <2>4. Spread(n, W, U) /\ n \in DOMAIN U /\ U[n].content = W[n].content /\ Restored(n, U, v)
    BY <1>7, <2>2, <2>3, SpreadByModify DEF Flags
  <2>5. Spread(n, place, U)
    BY <2>2, <2>4, SpreadTwice
  <2>6. Grown(n) /\ place' = U
    <3>1. PICK S : S = {n}
      OBVIOUS
    <3> QED
      BY <1>7, <1>12, <2>1, <2>3, <2>5, <3>1, LocalGrown
  <2>7. /\ v.zipped = v.stream /\ b = v.bytes /\ v.bytes = v.digest /\ SizeOf(v.bytes) = v.size
    BY <1>10, <1>12 DEF Verified, Received
  <2>8. ~IsLink(n) /\ ~IsDir(n)
    BY <1>4 DEF IsFile, IsLink, IsDir
  <2>9. BackIn(n, U)
    BY <1>4, <2>2, <2>4, <2>7, <2>8, BackInIs
  <2>10. Done(i)
    BY <1>4, <2>6, <2>8, <2>9 DEF Done
  <2> QED
    BY <1>3, <1>4, <1>6, <1>12, <2>6, <2>10 DEF Deals
<1> QED
  BY <1>5, <1>8, <1>10, <1>11, <1>12

\* The loop over the directories that wait.
Rights(x) ==
  /\ x.node \in There /\ Elsewhere(place, place', There, {x.node})
  /\ Restored(x.node, place', x.entry)
  /\ Grown(x.node)
LateOn ==
  /\ pc = "final" /\ later # <<>>
  /\ UNCHANGED <<setting, repo, job, missing, dirty, pc, dirs, here, todo, bad, failed>>
  /\ \/ Rights(Head(later)) /\ later' = Tail(later) /\ UNCHANGED untold
     \/ /\ UNCHANGED trees
        /\ \/ later' = Tail(later) /\ untold' = untold \cup {Head(later).node}
           \/ untold' = untold \cup {later[k].node : k \in DOMAIN later}

LEMMA ModifyLaterIs ==
  ASSUME Types, ModifyLater
  PROVE  LateOn
<1>1. PICK x : x = Head(later)
  OBVIOUS
<1>2. /\ pc = "final" /\ later # <<>> /\ Steady
      /\ UNCHANGED <<repo, pending, pc, dirs, here, todo, sending, bad, broken, failed>>
  BY DEF ModifyLater
<1>3. UNCHANGED <<setting, repo, job, missing, dirty, pc, dirs, here, todo, bad, failed>>
  BY <1>2 DEF Steady
<1>4. \/ /\ x.node \in DOMAIN place
         /\ Local(ModifyDirEnt(place, x.node, x.entry), {x.node})
         /\ later' = Tail(later)
         /\ UNCHANGED untold
      \/ /\ untold' = untold \cup IF setting.ignoreErrors THEN {x.node}
                                  ELSE {later[i].node : i \in DOMAIN later}
         /\ later' = IF setting.ignoreErrors THEN Tail(later) ELSE <<>>
         /\ UNCHANGED <<trees, hidden>>
  BY <1>1, Zenon DEF ModifyLater, place
<1>5. later \in Seq(Late) /\ Flags /\ IsTree(place)
  BY TargetIs DEF Types, Queues, place
<1>6. x \in Late
  BY <1>1, <1>2, <1>5, HeadTailProperties
<1>7. PICK n \in Nodes, e \in Version : n = x.node /\ e = x.entry
  BY <1>6 DEF Late
<1>8. CASE /\ n \in DOMAIN place /\ Local(ModifyDirEnt(place, n, e), {n})
           /\ later' = Tail(later) /\ UNCHANGED untold
  <2>1. clock' \in 0..MaxClock /\ UNCHANGED setting
    BY <1>2, <1>5, Clock DEF Steady
  <2>2. PICK U : U = ModifyDirEnt(place, n, e)
    OBVIOUS
  <2>3. /\ Spread(n, place, U) /\ Elsewhere(place, U, DOMAIN place, {n})
        /\ Restored(n, U, e)
    BY <1>5, <1>8, <2>1, <2>2, SpreadByModify DEF Flags
  <2>4. Grown(n) /\ place' = U
    <3>1. PICK S : S = {n}
      OBVIOUS
    <3> QED
      BY <1>8, <2>1, <2>2, <2>3, <3>1, LocalGrown
  <2>5. Rights(x)
    BY <1>7, <1>8, <2>3, <2>4 DEF Rights, There
  <2> QED
    BY <1>1, <1>2, <1>3, <1>8, <2>5 DEF LateOn
<1>9. CASE /\ UNCHANGED trees
           /\ \/ later' = Tail(later) /\ untold' = untold \cup {x.node}
              \/ untold' = untold \cup {later[i].node : i \in DOMAIN later}
  BY <1>1, <1>2, <1>3, <1>9 DEF LateOn
<1> QED
  BY <1>4, <1>7, <1>8, <1>9

-----------------------------------------------------------------------------
(* The steps of a restore that goes on.                                    *)

\* A step that brings nothing.
Passing ==
  /\ UNCHANGED <<trees, todo, later, failed, untold>>
  /\ Ended => Ended'
  /\ pc = "final" => pc' = "final"
RestoreStep ==
  /\ UNCHANGED <<dirty, missing>> /\ failed \subseteq failed' /\ untold \subseteq untold'
  /\ Passing \/ ScanDir \/ (\E i \in Item : Deals(i)) \/ LateOn

LEMMA DealsIsStep ==
  ASSUME \E i \in Item : Deals(i)
  PROVE  RestoreStep
<1>1. PICK i \in Item : Deals(i)
  OBVIOUS
<1>2. UNCHANGED <<dirty, missing, untold>> /\ failed \subseteq failed'
  BY <1>1, CalledLists DEF Deals
<1> QED
  BY <1>1, <1>2 DEF RestoreStep

LEMMA RestoreSteps ==
  ASSUME Types, Types', Lists, Handed, [Next]_vars, Alone', ~StartsJob
  PROVE  /\ Alone /\ RestoreStep
         /\ UNCHANGED <<job, repo, setting>>
<1>1. Steps
  BY NextIsSteps
<1>2. Restoring /\ UNCHANGED <<job, repo, setting>>
  BY <1>1, StillRestoring DEF Alone
<1>3. HandedOver /\ pc # "idle" /\ pc' # "idle" /\ job.kind = "restore"
  BY <1>2 DEF Handed, HandedOver, Restoring, Alone
<1>4. RestoreStep
  <2>1. CASE UNCHANGED vars \/ Open \/ Close \/ Abandon
    <3>1. UNCHANGED <<trees, todo, later, failed, untold, dirty, missing, pc, bad>>
      BY <2>1 DEF vars, work, counts, history, Open, Close, Abandon
    <3> QED
      BY <1>2, <3>1 DEF RestoreStep, Passing, Ended
  <2>2. CASE EnterDir
    <3>1. UNCHANGED <<trees, todo, later, failed, untold, dirty, missing>> /\ pc = "enter"
      BY <1>3, <2>2 DEF EnterDir, EndJob, Steady, work
    <3> QED
      BY <3>1 DEF RestoreStep, Passing, Ended
  <2>3. CASE ScanDir
    <3>1. UNCHANGED <<dirty, missing>>
      BY <2>3 DEF ScanDir, Steady
    <3>2. failed \subseteq failed' /\ untold \subseteq untold'
      BY <2>3 DEF ScanDir
    <3> QED
      BY <2>3, <3>1, <3>2 DEF RestoreStep
  <2>4. CASE ShowDiffs
    BY <1>3, <2>4 DEF ShowDiffs
  <2>5. CASE SetEntry \/ StoreOpen
    <3>1. PICK i \in Item : SetEntryOn(i) \/ StoreOpenOn(i)
      BY <2>5, SetEntryDoes, StoreOpenDoes
    <3>2. Turn(i) /\ i.op \in {"set", "delete", "store"}
      BY <3>1 DEF SetEntryOn, StoreOpenOn
    <3> QED
      BY <1>3, <3>2, NotRestore
  <2>6. CASE StoreTransfer
    BY <1>3, <2>6 DEF StoreTransfer
  <2>7. CASE Modify
    BY <2>7, ModifyDeals, DealsIsStep
  <2>8. CASE Create
    BY <1>3, <2>8, CreateDeals, DealsIsStep
  <2>9. CASE FetchOpen
    BY <2>9, FetchOpenDeals, DealsIsStep
  <2>10. CASE FetchFill
    BY <1>3, <2>10, FetchFillDeals, DealsIsStep
  <2>11. CASE LeaveDir
    <3>1. /\ UNCHANGED <<trees, todo, later, failed, untold, dirty, missing>> /\ pc = "work"
          /\ ~bad \/ setting.ignoreErrors
      BY <1>3, <2>11 DEF LeaveDir, EndJob, Steady
    <3> QED
      BY <3>1 DEF RestoreStep, Passing, Ended
  <2>12. CASE ModifyLater
    <3>1. LateOn
      BY <2>12, ModifyLaterIs
    <3>2. UNCHANGED <<dirty, missing, failed>> /\ untold \subseteq untold'
      BY <3>1 DEF LateOn
    <3> QED
      BY <3>1, <3>2 DEF RestoreStep
  <2>13. CASE Finish \/ Crash
    BY <1>3, <2>13 DEF Finish, EndJob, Crash
  <2>14. CASE Edit
    <3>1. EditOn
      BY <2>14, EditDoes
    <3>2. dirty' # {}
      BY <3>1 DEF EditOn
    <3> QED
      BY <3>2 DEF Alone
  <2> QED
    BY <2>1, <2>2, <2>3, <2>4, <2>5, <2>6, <2>7, <2>8, <2>9, <2>10, <2>11, <2>12, <2>13, <2>14
       DEF Next, JobStep, StartsJob
<1>5. Alone
  BY <1>2, <1>4 DEF RestoreStep, Alone
<1> QED
  BY <1>2, <1>4, <1>5

\* What the job has still to do it had to do before.
LEMMA ToComeBefore ==
  ASSUME Types, Steps, ~StartsJob, NEW n \in Nodes, ToCome(n)'
  PROVE  ToCome(n)
<1>1. dirs \in Seq(Nodes \cup {Root})
  BY DEF Types, Queues
<1>2. CASE UNCHANGED <<dirs, here, pc>>
  BY <1>2 DEF ToCome, Listing
<1>3. CASE Ends \/ Finds
  BY <1>3 DEF Ends, Finds, ToCome, Listing
<1>4. CASE Passes \/ Goes
  <2>1. Head(dirs) \in Listing /\ Listing' \subseteq Listing
    BY <1>1, <1>4, ListingIs DEF Passes, Goes
  <2>2. pc' = "scan" => here' = Head(dirs)
    BY <1>4 DEF Passes, Goes
  <2> QED
    BY <2>1, <2>2 DEF ToCome
<1>5. CASE ScanDir
  <2>1. /\ pc = "scan" /\ pc' = "work" /\ UNCHANGED here
        /\ Listing' \subseteq Listing \cup SubDirs(here)
    BY <1>5, ScanDirs
  <2>2. PICK d \in Listing' : d \in {Root} \cup Above[n]
    BY <2>1 DEF ToCome
  <2>3. CASE d \in Listing
    BY <2>2, <2>3 DEF ToCome
  <2>4. CASE d \in SubDirs(here)
    <3>1. d \in Nodes /\ Parent[d] = here
      BY <2>4, SubDirsAre
    <3>2. d \in Above[n]
      BY <2>2, <3>1, TreeAssumption
    <3>3. here \in {Root} \cup Above[n]
      BY <3>1, <3>2, AboveClosed
    <3> QED
      BY <2>1, <3>3 DEF ToCome
  <2> QED
    BY <2>1, <2>2, <2>3, <2>4
<1>6. CASE Leaves
  BY <1>6 DEF Leaves, ToCome, Listing
<1> QED
  BY <1>2, <1>3, <1>4, <1>5, <1>6, StepDirs DEF StartsJob

LEMMA CameAtStart ==
  ASSUME Types, StartsJob, Restoring'
  PROVE  \A n \in missing' : n \notin There' /\ n \notin DOMAIN home'
<1>1. PICK kind \in setting.kinds, when \in 0..MaxClock : StartJob(kind, when)
  BY DEF StartsJob
<1>2. job' = [kind |-> kind, when |-> when] /\ UNCHANGED <<setting, trees>>
  BY <1>1 DEF StartJob
<1>3. kind = "restore"
  BY <1>2 DEF Restoring
<1>4. missing' = Nodes \ (DOMAIN home \cup DOMAIN trees[Target])
  BY <1>1, <1>3 DEF StartJob
<1>5. home' = home /\ There' = DOMAIN trees[Target]
  BY <1>2 DEF home, There, place, Target
<1> QED
  BY <1>4, <1>5

\* What the call for i adds: the node of i and directories above it.
LEMMA DealsAdds ==
  ASSUME Types, Lists, Restoring, Dated, Handed, Abreast, NEW i, Deals(i)
  PROVE  /\ \A n \in There' \ There : PresentAt(n, job.when)
         /\ \A n \in DOMAIN home' \ DOMAIN home : ~setting.elsewhere /\ n \in Nodes /\ ~ToCome(n)'
<1>1. Called(i) /\ Grown(i.node) /\ i \in todo /\ pc = "work"
  BY DEF Deals, Called
<1>2. PICK m \in Nodes : m = i.node
  BY DEF Deals, Item
<1>3. PICK d \in Nodes \cup {Root} : d = Parent[m]
  BY Parents
<1>4. here = d /\ Used(m, job.when) /\ OfDate(d)
  BY <1>1, <1>2, <1>3 DEF Lists, Handed, Dated, AsOf
<1>5. PresentAt(m, job.when)
  BY <1>2, <1>3, <1>4, PresentBelow DEF OfDate
<1>6. \A n \in {m} \cup Above[m] : n \in Nodes /\ PresentAt(n, job.when)
  BY <1>5, PresentAbove, AboveClosed
<1>7. /\ There' \subseteq There \cup {m} \cup Above[m]
      /\ home' = home \/ (~setting.elsewhere /\ home = place /\ home' = place')
  BY <1>1, <1>2 DEF Grown, Spread, There
<1>8. \A n \in {m} \cup Above[m] : ~ToCome(n)'
  <2>1. UNCHANGED <<pc, dirs, here>>
    BY <1>1, CalledLists
  <2>2. \A e \in Listing' : e \notin Over(d)
    BY <1>1, <1>4, <2>1 DEF Abreast, Listing
  <2>3. {Root} \cup Above[m] = Over(d)
    <3>1. Above[m] = IF d = Root THEN {} ELSE {d} \cup Above[d]
      BY <1>3, AboveNothing, AboveStep
    <3> QED
      BY <3>1 DEF Over
  <2>4. \A n \in {m} \cup Above[m] : Above[n] \subseteq Above[m]
    BY AboveTransitive
  <2> QED
    BY <1>1, <2>1, <2>2, <2>3, <2>4 DEF ToCome
<1> QED
  BY <1>6, <1>7, <1>8 DEF There

LEMMA CameKept ==
  ASSUME Types, Types', Lists, Dated, Handed, Abreast, Came, [Next]_vars
  PROVE  Came'
<1> SUFFICES ASSUME Alone', NEW n \in missing'
             PROVE  /\ n \in There' => PresentAt(n, job.when)'
                    /\ n \in DOMAIN home' => ~setting'.elsewhere /\ ~ToCome(n)'
  BY DEF Came
<1>1. CASE StartsJob
  BY <1>1, CameAtStart DEF Alone
<1>2. CASE ~StartsJob
  <2>1. Alone /\ RestoreStep /\ UNCHANGED <<job, repo, setting>> /\ Steps
    BY <1>2, RestoreSteps, NextIsSteps
  <2>2. n \in missing /\ n \in Nodes
    BY <2>1 DEF RestoreStep, Types, Marks
  <2>3. /\ n \in There => PresentAt(n, job.when)
        /\ n \in DOMAIN home => ~setting.elsewhere /\ ~ToCome(n)
    BY <2>1, <2>2 DEF Came
  <2>4. PresentAt(n, job.when)' <=> PresentAt(n, job.when)
    BY <2>1 DEF PresentAt, Used, Seen, VersionAt
  <2>5. ~ToCome(n) => ~ToCome(n)'
    BY <1>2, <2>1, <2>2, ToComeBefore
  <2> HIDE DEF PresentAt, ToCome
  <2>6. CASE There' = There /\ home' = home
    BY <2>1, <2>3, <2>4, <2>5, <2>6
  <2>7. CASE \E i \in Item : Deals(i)
    <3>1. PICK i \in Item : Deals(i)
      BY <2>7
    <3>2. /\ \A m \in There' \ There : PresentAt(m, job.when)
          /\ \A m \in DOMAIN home' \ DOMAIN home : ~setting.elsewhere /\ ~ToCome(m)'
      BY <2>1, <3>1, DealsAdds DEF Alone
    <3> QED
      BY <2>1, <2>3, <2>4, <2>5, <3>2
  <2>8. UNCHANGED <<trees, setting>> => There' = There /\ home' = home
    BY DEF There, place, Target, home
  <2>9. CASE ScanDir
    BY <2>1, <2>6, <2>8, <2>9 DEF ScanDir
  <2>10. CASE LateOn
    <3>1. PICK x : UNCHANGED trees \/ Rights(x)
      BY <2>10 DEF LateOn
    <3>2. CASE Rights(x)
      <4>1. There' = There
        BY <3>2 DEF Rights, Elsewhere, There
      <4>2. home' = home \/ (~setting.elsewhere /\ home = place /\ home' = place')
        BY <3>2 DEF Rights, Grown
      <4>3. DOMAIN home' = DOMAIN home
        BY <4>1, <4>2 DEF There
      <4> QED
        BY <2>1, <2>3, <2>4, <2>5, <4>1, <4>3
    <3> QED
      BY <2>1, <2>6, <2>8, <3>1, <3>2
  <2> QED
    BY <2>1, <2>6, <2>7, <2>8, <2>9, <2>10 DEF RestoreStep, Passing
<1> QED
  BY <1>1, <1>2

\* What was not there is fetched or created, never only modified.
LEMMA BroughtKept ==
  ASSUME Types, Types', Lists, Handed, Came, Brought, [Next]_vars
  PROVE  Brought'
<1> SUFFICES ASSUME Alone', NEW i \in todo', Missed(i.node)'
             PROVE  i.op # "modify"
  BY DEF Brought
<1>1. CASE StartsJob
  <2>1. todo' = {}
    BY <1>1 DEF StartsJob, StartJob, Types, Between
  <2> QED
    BY <2>1
<1>2. CASE ~StartsJob
  <2>1. Alone /\ RestoreStep /\ UNCHANGED <<job, repo, setting>> /\ Steps
    BY <1>2, RestoreSteps, NextIsSteps
  <2>2. Missed(i.node)
    BY <2>1 DEF RestoreStep, Missed
  <2>3. CASE i \in todo
    BY <2>1, <2>2, <2>3 DEF Brought
  <2>4. CASE ScanDir
    <3>1. pc = "scan" /\ i \in Listed(here)
      BY <2>4 DEF ScanDir
    <3>2. PICK n \in Nodes : n = i.node
      BY <3>1, ListedAreItems
    <3>3. ForRestore(n, i) /\ Parent[n] = here
      BY <2>1, <3>1, <3>2, ListedAreItems DEF ForNode, Alone, Restoring
    <3>4. ToCome(n)
      BY <3>1, <3>3, AboveClosed DEF ToCome
    <3>5. WholeFile(n)
      <4>1. n \in missing => n \notin DOMAIN home
        BY <2>1, <3>4 DEF Came
      <4> QED
        BY <2>2, <3>2, <4>1 DEF Missed, WholeFile
    <3> QED
      BY <3>3, <3>5 DEF ForRestore, Work
  <2>5. CASE todo' \subseteq todo
    BY <2>3, <2>5
  <2> QED
    BY <2>1, <2>4, <2>5, StepTodo
<1> QED
  BY <1>1, <1>2

-----------------------------------------------------------------------------
(* Whatever was not there comes back.                                      *)

LEMMA ToComeStays ==
  ASSUME Types, Steps, ~StartsJob, ~ScanDir, pc' # "idle", NEW n \in Nodes, Kept(n), ToCome(n)
  PROVE  ToCome(n)'
<1>1. dirs \in Seq(Nodes \cup {Root})
  BY DEF Types, Queues
<1>2. CASE UNCHANGED <<dirs, here, pc>>
  BY <1>2 DEF ToCome, Listing
<1>3. CASE Finds
  BY <1>3 DEF Finds, ToCome, Listing
<1>4. CASE Passes \/ Goes
  <2>1. Listing \subseteq {Head(dirs)} \cup Listing' /\ pc = "enter"
    BY <1>1, <1>4, ListingIs DEF Passes, Goes
  <2>2. PICK d \in Listing : d \in {Root} \cup Above[n]
    BY <2>1 DEF ToCome
  <2>3. d = Head(dirs) => Goes
    BY <1>4, <2>2 DEF Passes, Kept
  <2>4. CASE d = Head(dirs)
    BY <2>2, <2>3, <2>4 DEF Goes, ToCome
  <2> QED
    BY <2>1, <2>2, <2>4 DEF ToCome
<1>5. CASE Leaves
  BY <1>5 DEF Leaves, ToCome, Listing
<1> QED
  BY <1>2, <1>3, <1>4, <1>5, StepDirs DEF StartsJob, Ends

LEMMA BackIs ==
  ASSUME UNCHANGED <<setting, repo, job>>, NEW n
  PROVE  /\ BackIn(n, place') <=> Back(n)'
         /\ Back(n) /\ n \in There' /\ place'[n] = place[n] => Back(n)'
BY DEF Back, BackIn, Alike, VersionAt, Seen, There

\* The scan of a directory that a wanted node is in or below.
LEMMA ScanTakes ==
  ASSUME Types, Alone, Came, ScanDir, NEW n \in Nodes, Wanted(n),
         ({n} \cup Above[n]) \cap (failed' \cup untold') = {},
         here \in {Root} \cup Above[n]
  PROVE  ToCome(n)' \/ InWork(n)'
<1>1. pc = "scan" /\ job.kind = "restore"
  BY DEF ScanDir, Alone, Restoring
<1>2. ~(failed' = failed \cup (IF here = Root THEN Nodes ELSE {here}))
  OBVIOUS
<1>3. /\ \E order \in SetToSeqs(SubDirs(here)) : dirs' = Scanned(order)
      /\ \/ todo' = Listed(here)
         \/ \E i \in Listed(here) : todo' = Listed(here) \ {i} /\ untold' = untold \cup {i.node}
  BY <1>1, <1>2 DEF ScanDir
<1>4. SubDirs(here) \subseteq Listing'
  BY <1>3, ScanDirs
<1>5. CASE Parent[n] = here
  <2>1. ToCome(n)
    BY <1>1 DEF ToCome
  <2>2. WholeFile(n)
    <3>1. n \in missing => n \notin DOMAIN home
      BY <2>1 DEF Came
    <3> QED
      BY <3>1 DEF Wanted, Missed, WholeFile
  <2>3. Used(n, job.when) /\ n \in In(here) /\ n \notin setting.ignores
    BY <1>5 DEF Wanted, PresentAt, In, Kept
  <2>4. PICK i \in Differing(here, job.when) : i.node = n
    BY <2>2, <2>3, DifferingIs
  <2>5. i \in Listed(here)
    BY <1>1, <2>3, <2>4 DEF Listed
  <2>6. i \in todo'
    BY <1>3, <2>4, <2>5
  <2> QED
    BY <2>4, <2>6 DEF InWork
<1>6. CASE Parent[n] # here
  <2>1. Parent[n] # Root
    BY <1>6, AboveNothing
  <2>2. PICK c \in Above[n] : Parent[c] = here
    BY <1>6, <2>1, Toward
  <2>3. c \in Nodes /\ IsDir(c) /\ Used(c, job.when)
    BY <2>2, AboveClosed, AboveDirs DEF Wanted, PresentAt
  <2>4. c \in SubDirs(here)
    BY <1>1, <2>2, <2>3 DEF SubDirs, In
  <2> QED
    BY <1>4, <2>2, <2>4 DEF ToCome
<1> QED
  BY <1>5, <1>6

LEMMA ReturningScan ==
  ASSUME Types, Alone, Came, ScanDir, UNCHANGED <<setting, repo, job>>,
         NEW n \in Nodes, Wanted(n),
         ({n} \cup Above[n]) \cap (failed' \cup untold') = {}, Underway(n)
  PROVE  Underway(n)'
<1>1. pc = "scan" /\ pc' = "work" /\ Listing \subseteq Listing'
  BY ScanDirs
<1>2. UNCHANGED <<trees, later>> /\ todo = {}
  BY <1>1 DEF ScanDir, Types, Between
<1>3. CASE Waits(n)
  BY <1>2, <1>3 DEF Waits, Underway
<1>4. CASE Back(n) /\ ~IsDir(n)
  <2>1. place' = place
    BY <1>2 DEF place, Target
  <2>2. Back(n)'
    BY <1>4, <2>1, BackIs DEF Back, BackIn, There
  <2> QED
    BY <1>4, <2>2 DEF Underway
<1>5. CASE ToCome(n)
  <2>1. CASE here \in {Root} \cup Above[n]
    BY <2>1, ScanTakes DEF Underway
  <2>2. CASE here \notin {Root} \cup Above[n]
    BY <1>1, <1>5, <2>2 DEF ToCome, Underway
  <2> QED
    BY <2>1, <2>2
<1> QED
  BY <1>1, <1>2, <1>3, <1>4, <1>5 DEF Underway, InWork

LEMMA DeferredIs ==
  ASSUME Types, NEW i, i \in Item
  PROVE  /\ \E k \in DOMAIN Deferred(i) : Deferred(i)[k].node = i.node
         /\ \A j \in DOMAIN later : \E k \in DOMAIN Deferred(i) : Deferred(i)[k] = later[j]
<1>1. PICK x \in Late : x = [node |-> i.node, entry |-> i.entry]
  BY DEF Item, Late
<1>2. x.node = i.node
  BY <1>1
<1>3. later \in Seq(Late) /\ <<x>> \in Seq(Late) /\ Len(<<x>>) = 1 /\ <<x>>[1] = x
  BY DEF Types, Queues
<1>4. PICK m \in Nat : m = Len(later)
  BY <1>3, LenProperties
<1>5. DOMAIN later = 1..m
  BY <1>3, <1>4, LenProperties
<1>6. PICK t : t = <<x>> \o later
  OBVIOUS
<1>7. /\ t \in Seq(Late) /\ Len(t) = 1 + m
      /\ \A k \in 1..(1 + m) : t[k] = IF k <= 1 THEN <<x>>[k] ELSE later[k - 1]
  BY <1>3, <1>4, <1>6, ConcatProperties
<1>8. DOMAIN t = 1..(1 + m)
  BY <1>7, LenProperties
<1>9. 1 \in 1..(1 + m) /\ 1 <= 1
  OBVIOUS
<1>10. \A j \in 1..m : j + 1 \in 1..(1 + m) /\ ~(j + 1 <= 1) /\ (j + 1) - 1 = j
  OBVIOUS
<1>11. t[1] = x /\ 1 \in DOMAIN t
  BY <1>3, <1>7, <1>8, <1>9
<1>12. \A j \in DOMAIN later : \E k \in DOMAIN t : t[k] = later[j]
  BY <1>5, <1>7, <1>8, <1>10
<1>13. Deferred(i) = t
  BY <1>1, <1>6 DEF Deferred
<1> QED
  BY <1>2, <1>11, <1>12, <1>13

LEMMA ReturningDeals ==
  ASSUME Types, Lists, Handed, Brought, Alone, ~Ended', UNCHANGED <<setting, repo, job>>,
         NEW i, Deals(i),
         NEW n \in Nodes, Wanted(n), n \notin failed', Underway(n), ToCome(n) => ToCome(n)'
  PROVE  Underway(n)'
<1>1. /\ i \in todo /\ i \in Item /\ Called(i) /\ Defers(i) /\ Grown(i.node)
      /\ UNCHANGED todo \/ (Succeeds(i) /\ Done(i)) \/ Fails(i)
  BY DEF Deals
<1>2. pc = "work" /\ UNCHANGED <<setting, pc>>
  BY <1>1, CalledLists DEF Called
<1>3. CASE ToCome(n)
  BY <1>3 DEF Underway
<1>4. CASE InWork(n)
  <2>1. PICK j \in todo : j.node = n
    BY <1>4 DEF InWork
  <2>2. CASE j \in todo'
    BY <2>1, <2>2 DEF InWork, Underway
  <2>3. CASE j \notin todo'
    <3>1. ~Fails(i)
      <4>1. CASE setting.ignoreErrors
        BY <2>1, <2>3, <4>1 DEF Fails
      <4>2. CASE ~setting.ignoreErrors
        BY <1>2, <4>2 DEF Fails, Ended
      <4> QED
        BY <4>1, <4>2
    <3>2. Succeeds(i) /\ Done(i) /\ j = i
      BY <1>1, <2>1, <2>3, <3>1 DEF Succeeds
    <3>3. i.op # "modify" /\ i.node = n
      BY <2>1, <3>2 DEF Wanted, Brought
    <3>4. CASE IsDir(n)
      <4>1. later' = Deferred(i)
        BY <3>2, <3>3, <3>4 DEF Done
      <4>2. \E k \in DOMAIN Deferred(i) : Deferred(i)[k].node = i.node
        BY <1>1, DeferredIs
      <4> QED
        BY <3>3, <4>1, <4>2 DEF Waits, Underway
    <3>5. CASE ~IsDir(n)
      <4>1. BackIn(n, place')
        BY <3>2, <3>3, <3>5 DEF Done
      <4> QED
        BY <3>5, <4>1, BackIs DEF Underway
    <3> QED
      BY <3>4, <3>5
  <2> QED
    BY <2>2, <2>3
<1>5. CASE Waits(n)
  <2>1. PICK j \in DOMAIN later : later[j].node = n
    BY <1>5 DEF Waits
  <2>2. CASE later' = later
    BY <2>1, <2>2 DEF Waits, Underway
  <2>3. CASE later' = Deferred(i)
    <3>1. PICK k \in DOMAIN Deferred(i) : Deferred(i)[k] = later[j]
      BY <1>1, DeferredIs
    <3> QED
      BY <2>1, <2>3, <3>1 DEF Waits, Underway
  <2> QED
    BY <1>1, <2>2, <2>3 DEF Defers
<1>6. CASE Back(n) /\ ~IsDir(n) /\ n # i.node
  <2>1. n \in There /\ n \in There' /\ place'[n] = place[n]
    BY <1>1, <1>6 DEF Grown, Spread, There, Back, BackIn
  <2> QED
    BY <1>6, <2>1, BackIs DEF Underway
<1>7. n = i.node => InWork(n)
  BY <1>1 DEF InWork
<1> QED
  BY <1>2, <1>3, <1>4, <1>5, <1>6, <1>7 DEF Underway

\* The places of a list after the first.
LEMMA TailKeeps ==
  ASSUME NEW X, NEW s \in Seq(X), s # <<>>, NEW j \in DOMAIN s
  PROVE  s[j] = Head(s) \/ \E k \in DOMAIN Tail(s) : Tail(s)[k] = s[j]
<1>1. PICK m \in Nat : m = Len(s)
  BY LenProperties
<1>2. DOMAIN s = 1..m /\ m # 0
  BY <1>1, LenProperties, EmptySeq
<1>3. /\ Tail(s) \in Seq(X) /\ Len(Tail(s)) = m - 1 /\ Head(s) = s[1]
      /\ \A k \in 1..(m - 1) : Tail(s)[k] = s[k + 1]
  BY <1>1, HeadTailProperties
<1>4. m - 1 \in Nat
  BY <1>2
<1>5. DOMAIN Tail(s) = 1..(m - 1)
  BY <1>3, <1>4, LenProperties
<1>6. j \in 1..m
  BY <1>2
<1>7. j = 1 \/ (j - 1 \in 1..(m - 1) /\ (j - 1) + 1 = j)
  BY <1>6
<1>8. CASE j = 1
  BY <1>3, <1>8
<1>9. CASE j - 1 \in 1..(m - 1) /\ (j - 1) + 1 = j
  <2>1. PICK k : k = j - 1
    OBVIOUS
  <2>2. k \in DOMAIN Tail(s) /\ Tail(s)[k] = s[j]
    BY <1>3, <1>5, <1>9, <2>1
  <2> QED
    BY <2>2
<1> QED
  BY <1>7, <1>8, <1>9

LEMMA ReturningLate ==
  ASSUME Types, Handed, Alone, UNCHANGED <<setting, repo, job>>, LateOn,
         NEW n \in Nodes, Wanted(n), n \notin untold', Underway(n), ToCome(n) => ToCome(n)'
  PROVE  Underway(n)'
<1>1. /\ pc = "final" /\ pc' = "final" /\ later # <<>> /\ UNCHANGED todo
      /\ later \in Seq(Late) /\ later \in Seq(DatedLate)
  BY DEF LateOn, Types, Queues, Handed, Alone
<1>2. PICK x : x = Head(later)
  OBVIOUS
<1>3. x \in DatedLate
  BY <1>1, <1>2, HeadTailProperties
<1>4. x.entry = VersionAt(x.node, job.when) /\ IsDir(x.node)
  BY <1>3 DEF DatedLate, AsOf
<1>5. ASSUME Rights(x), x.node = n
      PROVE  Underway(n)'
  <2>1. n \in DOMAIN place' /\ Restored(n, place', x.entry)
    BY <1>5 DEF Rights, Elsewhere, There
  <2>2. ~IsLink(n) /\ ~IsFile(n)
    BY <1>4, <1>5 DEF IsDir, IsLink, IsFile
  <2>3. PICK v, T : v = x.entry /\ T = place'
    OBVIOUS
  <2>4. BackIn(n, T)
    BY <1>4, <1>5, <2>1, <2>2, <2>3, BackInIs
  <2> QED
    BY <1>1, <2>3, <2>4, BackIs DEF Underway
<1>6. CASE ToCome(n)
  BY <1>6 DEF Underway
<1>7. CASE InWork(n)
  BY <1>1, <1>7 DEF InWork, Underway
<1>8. CASE Waits(n)
  <2>1. PICK j \in DOMAIN later : later[j].node = n
    BY <1>8 DEF Waits
  <2>2. /\ later' = Tail(later)
        /\ Rights(x) \/ untold' = untold \cup {x.node}
    BY <1>2, <2>1 DEF LateOn
  <2>3. CASE later[j] = x
    BY <1>5, <2>1, <2>2, <2>3
  <2>4. CASE \E k \in DOMAIN Tail(later) : Tail(later)[k] = later[j]
    BY <2>1, <2>2, <2>4 DEF Waits, Underway
  <2> QED
    BY <1>1, <1>2, <2>3, <2>4, TailKeeps
<1>9. CASE Back(n)
  <2>1. CASE Rights(x)
    <3>1. CASE x.node # n
      <4>1. n \in There /\ n \in There' /\ place'[n] = place[n]
        BY <1>9, <2>1, <3>1 DEF Rights, Elsewhere, There, Back, BackIn
      <4> QED
        BY <1>1, <1>9, <4>1, BackIs DEF Underway
    <3> QED
      BY <1>5, <2>1, <3>1
  <2>2. CASE UNCHANGED trees
    <3>1. place' = place
      BY <2>2 DEF place, Target
    <3>2. Back(n)'
      BY <1>9, <3>1, BackIs DEF Back, BackIn, There
    <3> QED
      BY <1>1, <3>2 DEF Underway
  <2> QED
    BY <1>2, <2>1, <2>2 DEF LateOn
<1> QED
  BY <1>6, <1>7, <1>8, <1>9 DEF Underway

LEMMA ReturningKept ==
  ASSUME Types, Types', Lists, Handed, Came, Brought, Returning, [Next]_vars
  PROVE  Returning'
<1> SUFFICES ASSUME Alone', ~Ended', NEW n \in Nodes, Wanted(n)'
             PROVE  Underway(n)'
  BY DEF Returning
<1>1. CASE StartsJob
  <2>1. dirs' = <<Root>>
    BY <1>1 DEF StartsJob, StartJob
  <2>2. 1 \in DOMAIN <<Root>> /\ <<Root>>[1] = Root
    OBVIOUS
  <2>3. Root \in Listing'
    BY <2>1, <2>2 DEF Listing
  <2> QED
    BY <2>3 DEF ToCome, Underway
<1>2. CASE ~StartsJob
  <2>1. Alone /\ RestoreStep /\ UNCHANGED <<job, repo, setting>> /\ Steps
    BY <1>2, RestoreSteps, NextIsSteps
  <2>2. UNCHANGED missing /\ failed \subseteq failed' /\ untold \subseteq untold' /\ pc' # "idle"
    BY <2>1 DEF RestoreStep, Alone, Restoring
  <2>3. ({n} \cup Above[n]) \cap (failed' \cup untold') = {}
    BY DEF Wanted
  <2>4. Wanted(n)
    <3>1. Kept(n) /\ Missed(n)
      BY <2>1, <2>2 DEF Wanted, Kept, Missed
    <3>2. PresentAt(n, job.when)' <=> PresentAt(n, job.when)
      BY <2>1 DEF PresentAt, Used, Seen, VersionAt
    <3>3. PresentAt(n, job.when)'
      BY DEF Wanted
    <3> QED
      BY <2>2, <2>3, <3>1, <3>2, <3>3 DEF Wanted
  <2>5. ~Ended
    <3>1. CASE \E i \in Item : Deals(i)
      <4>1. PICK i \in Item : Called(i)
        BY <3>1 DEF Deals
      <4>2. UNCHANGED <<pc, setting>> /\ bad' \in {bad, TRUE}
        BY <4>1, CalledLists
      <4> QED
        BY <4>2 DEF Ended
    <3>2. CASE ScanDir \/ LateOn
      BY <3>2 DEF ScanDir, LateOn, Ended
    <3>3. CASE Passing
      BY <3>3 DEF Passing
    <3> QED
      BY <2>1, <3>1, <3>2, <3>3 DEF RestoreStep
  <2>6. Underway(n)
    BY <2>1, <2>4, <2>5 DEF Returning
  <2>7. Kept(n) /\ ({n} \cup Above[n]) \cap failed' = {} /\ n \notin failed' /\ n \notin untold'
    BY <2>3, <2>4 DEF Wanted
  <2>8. CASE ScanDir
    BY <2>1, <2>3, <2>4, <2>6, <2>8, ReturningScan
  <2>9. CASE ~ScanDir
    <3>1. ToCome(n) => ToCome(n)'
      BY <1>2, <2>1, <2>2, <2>7, <2>9, ToComeStays
    <3>2. CASE \E i \in Item : Deals(i)
      <4>1. PICK i \in Item : Deals(i)
        BY <3>2
      <4> QED
        BY <2>1, <2>4, <2>6, <2>7, <3>1, <4>1, ReturningDeals
    <3>3. CASE LateOn
      BY <2>1, <2>4, <2>6, <2>7, <3>1, <3>3, ReturningLate
    <3>4. CASE Passing
      <4>1. UNCHANGED <<trees, todo, later>> /\ (pc = "final" => pc' = "final")
        BY <3>4 DEF Passing
      <4>2. place' = place
        BY <2>1, <4>1 DEF place, Target
      <4>3. Back(n) => Back(n)'
        BY <2>1, <4>2, BackIs DEF Back, BackIn, There
      <4>4. /\ InWork(n) => InWork(n)'
            /\ Waits(n) => Waits(n)'
        BY <4>1 DEF InWork, Waits
      <4> QED
        BY <2>6, <3>1, <4>1, <4>3, <4>4 DEF Underway
    <3> QED
      BY <2>1, <2>9, <3>2, <3>3, <3>4 DEF RestoreStep
  <2> QED
    BY <2>8, <2>9
<1> QED
  BY <1>1, <1>2

LEMMA ReturningHolds ==
  Spec => [](Types /\ Lists /\ Walk /\ Abreast /\ Dated /\ Handed /\ Came /\ Brought /\ Returning)
<1>1. Init => Came /\ Brought /\ Returning
  BY DEF Init, Came, Brought, Returning, Alone, Restoring
<1>2. /\ Types /\ Lists /\ Walk /\ Abreast /\ Dated /\ Handed
      /\ Came /\ Brought /\ Returning
      /\ [Next]_vars /\ Types'
      => Came' /\ Brought' /\ Returning'
  BY CameKept, BroughtKept, ReturningKept
<1> QED
  BY <1>1, <1>2, WalkHolds, AbreastHolds, DatedHolds, HandedHolds, PTL DEF Spec

\* Every node that was not there is back, and nothing that is not of the date came.
Exact ==
  \A n \in {m \in Nodes : Kept(m) /\ ({m} \cup Above[m]) \cap (failed \cup untold) = {}} :
    IF PresentAt(n, job.when) THEN Missed(n) => Back(n)
                              ELSE n \in missing => n \notin There

LEMMA ExactAtEnd ==
  ASSUME Types, Walk, Came, Returning, Alone, pc = "final", later = <<>>
  PROVE  Exact
<1> SUFFICES ASSUME NEW n \in Nodes, Kept(n),
                    ({n} \cup Above[n]) \cap (failed \cup untold) = {}
             PROVE  IF PresentAt(n, job.when) THEN Missed(n) => Back(n)
                                              ELSE n \in missing => n \notin There
  BY DEF Exact
<1>1. CASE ~PresentAt(n, job.when)
  BY <1>1 DEF Came
<1>2. CASE PresentAt(n, job.when) /\ Missed(n)
  <2>1. Underway(n)
    BY <1>2 DEF Wanted, Returning, Ended
  <2>2. ~InWork(n) /\ ~Waits(n)
    BY DEF Types, Between, InWork, Waits
  <2>3. ~ToCome(n)
    <3>1. CASE setting.recursive
      BY <3>1 DEF Walk, ToCome, Listing
    <3>2. CASE ~setting.recursive
      <4>1. Parent[n] = Root
        BY <3>2 DEF Kept
      <4>2. Above[n] = {}
        BY <4>1, AboveNothing
      <4> QED
        BY <4>2 DEF Walk, ToCome
    <3> QED
      BY <3>1, <3>2
  <2> QED
    BY <1>2, <2>1, <2>2, <2>3 DEF Underway
<1> QED
  BY <1>1, <1>2

LEMMA ExactIs ==
  ASSUME (pc = "idle" /\ result = "ok" /\ job.kind = "restore" /\ dirty = {}) => Exact
  PROVE  RestoreIsExact
BY DEF RestoreIsExact, Exact, Missed, Back, BackIn, There, place

LEMMA RestoreIsExactKept ==
  ASSUME Types, Types', Lists, Walk, Came, Returning, [Next]_vars,
         (pc = "idle" /\ result = "ok" /\ job.kind = "restore" /\ dirty = {}) => Exact,
         pc' = "idle", result' = "ok", job'.kind = "restore", dirty' = {}
  PROVE  Exact'
<1>1. Steps
  BY NextIsSteps
<1>2. ASSUME UNCHANGED <<setting, trees, repo, job, missing, failed, untold>>, Exact
      PROVE  Exact'
  <2>1. \A n : Kept(n)' <=> Kept(n)
    BY <1>2 DEF Kept
  <2>2. \A n : PresentAt(n, job.when)' <=> PresentAt(n, job.when)
    BY <1>2 DEF PresentAt, Used, Seen, VersionAt
  <2>3. \A n : Missed(n)' <=> Missed(n)
    BY <1>2 DEF Missed
  <2>4. place' = place /\ There' = There
    BY <1>2 DEF place, Target, There
  <2>5. \A n : Back(n)' <=> Back(n)
    BY <1>2, <2>4, BackIs DEF Back
  <2> HIDE DEF Kept, PresentAt, Missed, Back, There
  <2> QED
    BY <1>2, <2>1, <2>2, <2>3, <2>4, <2>5 DEF Exact
<1>3. CASE Rests
  BY <1>2, <1>3 DEF Rests
<1>4. CASE EditOn
  <2>1. dirty' # {}
    BY <1>4 DEF EditOn
  <2> QED
    BY <2>1
<1>5. CASE Finish
  <2>1. /\ pc = "final" /\ later = <<>>
        /\ UNCHANGED <<setting, trees, repo, job, missing, failed, untold, dirty>>
    BY <1>5 DEF Finish, EndJob
  <2>2. Alone
    BY <2>1 DEF Alone, Restoring
  <2>3. Exact
    BY <2>1, <2>2, ExactAtEnd
  <2> QED
    BY <1>2, <2>1, <2>3
<1>6. CASE StartsJob
  BY <1>6 DEF StartsJob, StartJob
<1>7. CASE \E i : Called(i)
  <2>1. PICK i : Called(i)
    BY <1>7
  <2>2. pc = "work" /\ UNCHANGED pc
    BY <2>1, CalledLists DEF Called
  <2> QED
    BY <2>2
<1>8. CASE EnterDir \/ LeaveDir
  <2>1. result' \in {"skipped", "error"} \/ pc' # "idle"
    BY <1>8 DEF EnterDir, LeaveDir, EndJob
  <2> QED
    BY <2>1
<1>9. CASE ScanDir \/ ShowDiffs \/ ModifyLaterOn \/ Crash
  BY <1>9 DEF ScanDir, ShowDiffs, Working, ModifyLaterOn, Crash
<1> QED
  BY <1>1, <1>3, <1>4, <1>5, <1>6, <1>7, <1>8, <1>9 DEF Steps, StartsJob, SetEntryOn, StoreOpenOn,
     ModifyOn, CreateOn, FetchOpenOn, StoreTransferOn, FetchFillOn

\* A restore is exact: once it returns 0, and nobody worked in the tree meanwhile, every node
\* of the date that was not there is, and every file with FORCE, whole and with its
\* attributes; and nothing else has come.
THEOREM RestoreIsExactCorrect == Spec => []RestoreIsExact
<1> DEFINE Told == (pc = "idle" /\ result = "ok" /\ job.kind = "restore" /\ dirty = {}) => Exact
<1>1. Init => Told
  BY DEF Init
<1>2. /\ Types /\ Lists /\ Walk /\ Came /\ Returning
      /\ Told /\ [Next]_vars /\ Types'
      => Told'
  BY RestoreIsExactKept
<1>3. Told => RestoreIsExact
  BY ExactIs
<1> HIDE DEF Told
<1> QED
  BY <1>1, <1>2, <1>3, ReturningHolds, PTL DEF Spec
=============================================================================

-------------------------- MODULE EntryStoreProofs --------------------------
(***************************************************************************)
(* Proofs about EntryStore, for every number of names, paths, ids, handles *)
(* and revisions.  The argument has four layers, and each uses the ones    *)
(* before it:                                                              *)
(*                                                                         *)
(*  SInv    types, and that every entry, in memory or on disk, is sound:   *)
(*          its revisions grow, its times do not decrease, and what it     *)
(*          stores has its id.  No assumption on the client.               *)
(*  Kept    what memory and disk have to do with each other.  An entry in  *)
(*          memory goes on from the one on disk, a listed folder has all   *)
(*          the entries of its directory, so an entry that is written      *)
(*          drops nothing from the file it replaces; and what a handle     *)
(*          writes is in an entry file.  Here the client is Careful.       *)
(*  Unique  no entry has an id that is still to be given out.  With Kept   *)
(*          it gives the version FileCloseOut looks for.                   *)
(*  Digests a handle is the only one to write its data file, and until it  *)
(*          is closed no version has a digest of that file.                *)
(*                                                                         *)
(* TypeOK, DataIsListed, IdsAreUnique, OwnerIsFound and DigestIsContent    *)
(* are conjuncts or consequences of these.  HistoryIsKept, DataFileStays   *)
(* and RestorePointStays are about steps, and follow from the layers step  *)
(* by step.                                                                *)
(***************************************************************************)
EXTENDS EntryStore, NumberFacts, SequenceTheorems, TLAPS

\* Two versions are the same but for the digest, which is filled in later.
SameVersion(v, w) ==
  /\ v.status = w.status
  /\ v.revision = w.revision
  /\ v.storeName = w.storeName
  /\ v.btime = w.btime

\* Entry f is entry e, or what became of it.
Continues(f, e) ==
  /\ f.name = e.name /\ f.id = e.id
  /\ e.nextRevision <= f.nextRevision
  /\ \A i \in DOMAIN e.versions :
       /\ i \in DOMAIN f.versions
       /\ SameVersion(e.versions[i], f.versions[i])

\* The revisions of an entry grow and its times do not decrease; what it stores
\* has its id and a revision it has given out.
Ordered(e) ==
  /\ e.id > 0
  /\ \A i \in DOMAIN e.versions :
       /\ e.versions[i].revision <= e.nextRevision
       /\ e.versions[i].btime <= clock
       /\ \/ e.versions[i].storeName = NoStore
          \/ /\ e.versions[i].storeName[1] = e.id
             /\ e.versions[i].storeName[2] <= e.nextRevision
  /\ \A i, j \in DOMAIN e.versions :
       i < j => /\ e.versions[i].revision < e.versions[j].revision
                /\ e.versions[i].btime <= e.versions[j].btime

\* An entry has a version.
Sound(e) == Ordered(e) /\ e.versions # <<>>

\* Every entry is sound, in memory and on disk.
MemoryIsSound ==
  \A d \in DOMAIN folders : \A i \in DOMAIN folders[d].entries :
    Sound(folders[d].entries[i])

DiskIsSound ==
  \A k \in DOMAIN entryFiles : Sound(entryFiles[k]) /\ entryFiles[k].name = k[2]

\* A repository that is not in the list has nothing in memory.
NothingUnloaded ==
  /\ attached => loaded
  /\ ~loaded => DOMAIN folders = {} /\ DOMAIN files = {}

\* A handle is of a folder that was opened.
HandleHasFolder == \A h \in DOMAIN files : files[h].did <= nextFolderId

SInv == TypeOK /\ MemoryIsSound /\ DiskIsSound /\ NothingUnloaded /\ HandleHasFolder

\* A directory is open once, and a name is in it once.
OpenOnce ==
  \A c, d \in DOMAIN folders : folders[c].path = folders[d].path => c = d

NamedOnce ==
  \A d \in DOMAIN folders : \A i, j \in DOMAIN folders[d].entries :
    folders[d].entries[i].name = folders[d].entries[j].name => i = j

\* A folder that was listed has all the entries of its directory in memory, and
\* before that none.
ListedIsComplete ==
  \A d \in DOMAIN folders :
    IF folders[d].listed
    THEN \A n \in Names : <<folders[d].path, n>> \in DOMAIN entryFiles =>
           Positions(folders[d].entries, n) # {}
    ELSE folders[d].entries = <<>>

\* An entry in memory is that on disk, or what became of it.
MemoryContinuesDisk ==
  \A d \in DOMAIN folders : \A i \in DOMAIN folders[d].entries :
    LET e == folders[d].entries[i]
        k == <<folders[d].path, e.name>>
    IN k \in DOMAIN entryFiles => Continues(e, entryFiles[k])

\* The version a handle writes is in an entry file, and as long as the folder
\* is open that is a file of the folder.
ListedHandle(h) ==
  /\ files[h].path \in DOMAIN data
  /\ \E k \in DOMAIN entryFiles :
       /\ entryFiles[k].id = files[h].fileId
       /\ \E i \in DOMAIN entryFiles[k].versions :
            /\ entryFiles[k].versions[i].revision = files[h].fileRevision
            /\ entryFiles[k].versions[i].storeName = files[h].path
       /\ files[h].did \in DOMAIN folders =>
            folders[files[h].did].listed /\ folders[files[h].did].path = k[1]

HandleIsListed ==
  \A h \in DOMAIN files : files[h].mode = "out" => ListedHandle(h)

Kept == OpenOnce /\ NamedOnce /\ ListedIsComplete /\ MemoryContinuesDisk
                 /\ DataIsListed /\ HandleIsListed

CInv == SInv /\ Kept

\* No entry has an id that is still to be given out.
LastFileId == IF loaded THEN nextFileId ELSE savedFileId
IdsGivenOut == ~idsLost => \A k \in Keys : \A e \in Known(k) : e.id <= LastFileId

Unique == IdsGivenOut /\ IdsAreUnique

UInv == SInv /\ Kept /\ Unique

\* As long as a file is written, the versions it is of have no digest.
NoDigestYet ==
  ~idsLost => \A h \in DOMAIN files : files[h].mode = "out" =>
    \A k \in Keys : \A e \in Known(k) : \A i \in DOMAIN e.versions :
      e.versions[i].storeName = files[h].path => e.versions[i].md5 = NoDigest

OneHandle ==
  ~idsLost => \A g, h \in DOMAIN files :
    files[g].mode = "out" /\ files[h].mode = "out" /\ files[g].path = files[h].path => g = h

Digests == DigestIsContent /\ NoDigestYet /\ OneHandle

DInv == UInv /\ Digests

\* As long as no write has failed, what is in memory is on disk, but for the
\* digests.
NothingUnwritten ==
  \A d \in DOMAIN folders : \A i \in DOMAIN folders[d].entries :
    LET e == folders[d].entries[i]
        k == <<folders[d].path, e.name>>
    IN k \in DOMAIN entryFiles /\ DOMAIN entryFiles[k].versions = DOMAIN e.versions

\* The step of SetEntry, FileOpenOut and FileCloseOut: entry m takes the place
\* of the one it continues, or is added as a new one; maybe it is written.
Fits(did, i, m) ==
  /\ did \in DOMAIN folders
  /\ m \in Entry /\ Sound(m)
  /\ i \in 1..(Len(folders[did].entries) + 1)
  /\ \/ i \in DOMAIN folders[did].entries /\ Continues(m, folders[did].entries[i])
     \/ i \notin DOMAIN folders[did].entries /\ Positions(folders[did].entries, m.name) = {}

\* The entry m is in its place; whether it was written or not is left open.
EntryChanged(did, i, m) ==
  /\ folders' = WithEntry(did, i, m)
  /\ \/ entryFiles' = entryFiles
     \/ entryFiles' = Put(entryFiles, <<folders[did].path, m.name>>, m)
-----------------------------------------------------------------------------
(* The operators of the model.                                             *)

\* The parts of an entry.
LEMMA EntryParts ==
  ASSUME NEW e \in Entry
  PROVE  /\ e.name \in Names /\ e.id \in Nat /\ e.nextRevision \in Nat
         /\ e.modified \in BOOLEAN
         /\ e.versions \in Seq(Version)
         /\ Len(e.versions) \in Nat
         /\ DOMAIN e.versions = 1..Len(e.versions)
         /\ \A i \in DOMAIN e.versions :
              /\ e.versions[i] \in Version
              /\ e.versions[i].revision \in Nat /\ e.versions[i].btime \in Nat
              /\ e.versions[i].md5 \in Digest /\ e.versions[i].storeName \in Store
<1>1. e.versions \in Seq(Version)
  BY DEF Entry
<1>2. Len(e.versions) \in Nat /\ DOMAIN e.versions = 1..Len(e.versions)
  BY <1>1, LenProperties
<1>3. \A i \in DOMAIN e.versions : e.versions[i] \in Version
  BY <1>1, <1>2, ElementOfSeq
<1> QED
  BY <1>1, <1>2, <1>3 DEF Entry, Version

\* FirstOf returns the least element of a set of positions.
LEMMA FirstOfLeast ==
  ASSUME NEW S \in SUBSET Nat, S # {}
  PROVE  FirstOf(S) \in S /\ \A j \in S : FirstOf(S) <= j
<1>1. \E i \in S : \A j \in S : i <= j
  BY LeastNatural
<1> QED
  BY <1>1 DEF FirstOf

\* The position of a name that is in a folder.
LEMMA FirstPosition ==
  ASSUME NEW entries \in Seq(Entry), NEW name, Positions(entries, name) # {}
  PROVE  /\ FirstOf(Positions(entries, name)) \in DOMAIN entries
         /\ entries[FirstOf(Positions(entries, name))].name = name
<1>1. Positions(entries, name) \in SUBSET Nat
  BY LenProperties DEF Positions
<1> QED
  BY <1>1, FirstOfLeast DEF Positions

\* WithEntry changes one entry of one folder, or adds it behind the others.
LEMMA WithEntryFacts ==
  ASSUME TypeOK, NEW did \in DOMAIN folders, NEW m \in Entry,
         NEW i \in 1..(Len(folders[did].entries) + 1)
  PROVE  LET new == WithEntry(did, i, m)
             s == folders[did].entries
         IN /\ new \in [DOMAIN folders -> Folder]
            /\ \A d \in DOMAIN folders : /\ new[d].path = folders[d].path
                                         /\ new[d].listed = folders[d].listed
            /\ \A d \in DOMAIN folders \ {did} : new[d] = folders[d]
            /\ DOMAIN new[did].entries = DOMAIN s \cup {i}
            /\ new[did].entries[i] = m
            /\ \A j \in DOMAIN s : j # i => new[did].entries[j] = s[j]
<1> DEFINE s == folders[did].entries
           t == IF i \in DOMAIN s THEN [s EXCEPT ![i] = m] ELSE Append(s, m)
<1>1. folders[did] \in Folder /\ s \in Seq(Entry)
  BY DEF TypeOK, Folder
<1>2. DOMAIN s = 1..Len(s) /\ Len(s) \in Nat
  BY <1>1, LenProperties
<1>3. /\ t \in Seq(Entry)
      /\ DOMAIN t = DOMAIN s \cup {i}
      /\ t[i] = m
      /\ \A j \in DOMAIN s : j # i => t[j] = s[j]
  <2>1. CASE i \in DOMAIN s
    BY <1>1, <1>2, <2>1, ExceptSeq
  <2>2. CASE i \notin DOMAIN s
    <3>1. i = Len(s) + 1
      BY <1>2, <2>2
    <3> QED
      BY <1>1, <1>2, <2>2, <3>1, AppendProperties
  <2> QED
    BY <2>1, <2>2
<1>4. WithEntry(did, i, m) = [folders EXCEPT ![did].entries = t]
  BY DEF WithEntry
<1> HIDE DEF t
<1>5. WithEntry(did, i, m) = [folders EXCEPT ![did] = [@ EXCEPT !.entries = t]]
  BY <1>4
<1>6. [folders[did] EXCEPT !.entries = t] \in Folder
  BY <1>1, <1>3 DEF Folder
<1>7. \A d \in DOMAIN folders : folders[d] \in Folder
  BY DEF TypeOK
<1> QED
  BY <1>1, <1>3, <1>5, <1>6, <1>7, ZenonT(60) DEF Folder

\* What the program knows of a key.
LEMMA KnownIs ==
  ASSUME NEW k, NEW e
  PROVE  e \in Known(k) <=>
           \/ k \in DOMAIN entryFiles /\ e = entryFiles[k]
           \/ \E d \in DOMAIN folders : \E i \in DOMAIN folders[d].entries :
                /\ folders[d].path = k[1]
                /\ folders[d].entries[i].name = k[2]
                /\ e = folders[d].entries[i]
BY DEF Known, Positions

\* What the program knows of a key after a step.
LEMMA KnownIsNext ==
  ASSUME NEW k, NEW e
  PROVE  e \in Known(k)' <=>
           \/ k \in DOMAIN entryFiles' /\ e = entryFiles'[k]
           \/ \E d \in DOMAIN folders' : \E i \in DOMAIN folders'[d].entries :
                /\ folders'[d].path = k[1]
                /\ folders'[d].entries[i].name = k[2]
                /\ e = folders'[d].entries[i]
BY DEF Known, Positions

\* The last version of a sound entry is the one a client gets now.
LEMMA LatestIsLast ==
  ASSUME NEW e \in Entry, Sound(e)
  PROVE  /\ Len(e.versions) \in DOMAIN e.versions
         /\ DOMAIN e.versions = 1..Len(e.versions)
         /\ Latest(e) = e.versions[Len(e.versions)]
         /\ Last(e.versions) = e.versions[Len(e.versions)]
<1> DEFINE n == Len(e.versions)
<1>1. e.versions \in Seq(Version) /\ e.versions # <<>>
  BY DEF Entry, Sound
<1>2. n \in Nat \ {0} /\ DOMAIN e.versions = 1..n
  BY <1>1, LenProperties, EmptySeq
<1>3. Candidates(e, 0) = DOMAIN e.versions
  BY DEF Candidates
<1>4. \A i \in DOMAIN e.versions : e.versions[i].btime \in Nat
  BY EntryParts
<1>5. \A j \in 1..n : \/ e.versions[j].btime < e.versions[n].btime
                      \/ e.versions[j].btime = e.versions[n].btime /\ j <= n
  <2> SUFFICES ASSUME NEW j \in 1..n
               PROVE  e.versions[j].btime <= e.versions[n].btime
    BY <1>2, <1>4
  <2>1. CASE j = n
    BY <1>2, <1>4, <2>1
  <2>2. CASE j < n
    BY <1>2, <2>2 DEF Sound, Ordered
  <2> QED
    BY <1>2, <2>1, <2>2
<1>6. \A i \in 1..n :
        (\A j \in 1..n : \/ e.versions[j].btime < e.versions[i].btime
                         \/ e.versions[j].btime = e.versions[i].btime /\ j <= i)
          => i = n
  BY <1>2, <1>4, <1>5
<1>7. dup_date(e, 0) = n
  BY <1>2, <1>3, <1>5, <1>6 DEF dup_date
<1> QED
  BY <1>2, <1>7 DEF Latest, Last

\* The version as of a time is the last one made before.
LEMMA DupDateIsLast ==
  ASSUME NEW e \in Entry, Sound(e), NEW when \in Nat, Candidates(e, when) # {}
  PROVE  /\ dup_date(e, when) \in Candidates(e, when)
         /\ \A j \in Candidates(e, when) : j <= dup_date(e, when)
<1> DEFINE C == Candidates(e, when)
<1>1. /\ Len(e.versions) \in Nat
      /\ \A j \in C : j \in 1..Len(e.versions) /\ e.versions[j].btime \in Nat
      /\ C \subseteq 0..Len(e.versions)
  BY EntryParts DEF Candidates
<1>2. PICK m \in C : \A j \in C : j <= m
  BY <1>1, GreatestNatural
<1>3. \A i, j \in C : i < j => e.versions[i].btime <= e.versions[j].btime
  BY DEF Candidates, Sound, Ordered
<1>4. \A j \in C : \/ e.versions[j].btime < e.versions[m].btime
                   \/ e.versions[j].btime = e.versions[m].btime /\ j <= m
  <2> SUFFICES ASSUME NEW j \in C
               PROVE  e.versions[j].btime <= e.versions[m].btime
    BY <1>1, <1>2
  <2>1. CASE j = m
    BY <1>1, <2>1
  <2>2. CASE j < m
    BY <1>3, <2>2
  <2> QED
    BY <1>1, <1>2, <2>1, <2>2
<1>5. \A i \in C :
        (\A j \in C : \/ e.versions[j].btime < e.versions[i].btime
                      \/ e.versions[j].btime = e.versions[i].btime /\ j <= i)
          => i = m
  BY <1>1, <1>2, <1>4
<1> HIDE DEF C
<1>6. dup_date(e, when) = m
  BY <1>4, <1>5 DEF dup_date, C
<1> QED
  BY <1>2, <1>6 DEF C

\* One version more, with the next revision or a later one: the entry goes on
\* as it was.
LEMMA LongerEntry ==
  ASSUME clock \in Nat,
         NEW e \in Entry, Ordered(e),
         NEW v \in Version, v.revision > e.nextRevision, v.btime = clock,
         \/ v.storeName = NoStore
         \/ v.storeName[1] = e.id /\ v.storeName[2] <= v.revision,
         NEW n, n.id = e.id, n.name = e.name, n.nextRevision = v.revision,
         n.versions = Append(e.versions, v)
  PROVE  /\ Append(e.versions, v) \in Seq(Version)
         /\ Sound(n) /\ Continues(n, e)
         /\ Len(n.versions) = Len(e.versions) + 1
         /\ DOMAIN n.versions = DOMAIN e.versions \cup {Len(e.versions) + 1}
         /\ n.versions[Len(e.versions) + 1] = v
         /\ \A i \in DOMAIN e.versions : n.versions[i] = e.versions[i]
<1> DEFINE s == e.versions
           t == Append(e.versions, v)
           len == Len(e.versions)
<1>1. /\ s \in Seq(Version) /\ len \in Nat /\ DOMAIN s = 1..len
      /\ e.nextRevision \in Nat /\ e.id \in Nat
  BY EntryParts
<1>2. /\ t \in Seq(Version) /\ Len(t) = len + 1
      /\ \A i \in 1..len : t[i] = s[i]
      /\ t[len + 1] = v
  BY <1>1, AppendProperties
<1>3. DOMAIN t = 1..(len + 1)
  BY <1>1, <1>2, LenProperties
<1>4. v.revision \in Nat /\ v.btime \in Nat
  BY DEF Version
<1>6. /\ n.id = e.id /\ n.name = e.name /\ n.nextRevision = v.revision
      /\ n.versions = t
  OBVIOUS
<1> HIDE DEF t
<1>7. t # <<>>
  BY <1>1, <1>2, EmptySeq
<1>8. ASSUME NEW i \in DOMAIN t
      PROVE  /\ t[i].revision <= v.revision
             /\ t[i].btime <= clock
             /\ \/ t[i].storeName = NoStore
                \/ t[i].storeName[1] = e.id /\ t[i].storeName[2] <= v.revision
  <2>1. CASE i = len + 1
    BY <1>2, <1>4, <2>1
  <2>2. CASE i \in 1..len
    <3>1. s[i].storeName \in Store /\ s[i].revision \in Nat /\ s[i].btime \in Nat
      BY <1>1, <2>2, EntryParts
    <3>2. /\ s[i].revision <= e.nextRevision
          /\ s[i].btime <= clock
          /\ \/ s[i].storeName = NoStore
             \/ s[i].storeName[1] = e.id /\ s[i].storeName[2] <= e.nextRevision
      BY <1>1, <2>2 DEF Ordered
    <3>3. s[i].storeName[2] <= e.nextRevision => s[i].storeName[2] <= v.revision
      BY <1>1, <1>4, <3>1 DEF Store
    <3>4. t[i] = s[i]
      BY <1>2, <2>2
    <3>5. s[i].revision <= v.revision
      BY <1>1, <1>4, <3>1, <3>2
    <3> QED
      BY <3>2, <3>3, <3>4, <3>5
  <2> QED
    BY <1>1, <1>3, <2>1, <2>2
<1>9. ASSUME NEW i \in DOMAIN t, NEW j \in DOMAIN t, i < j
      PROVE  t[i].revision < t[j].revision /\ t[i].btime <= t[j].btime
  <2>1. i \in 1..len
    BY <1>1, <1>3, <1>9
  <2>2. /\ s[i].revision \in Nat /\ s[i].btime \in Nat
        /\ s[i].revision <= e.nextRevision /\ s[i].btime <= clock
    BY <1>1, <2>1, EntryParts DEF Ordered
  <2>3. CASE j = len + 1
    <3>1. t[j] = v /\ t[i] = s[i]
      BY <1>1, <1>2, <2>1, <2>3
    <3> QED
      BY <1>1, <1>4, <2>2, <3>1
  <2>4. CASE j \in 1..len
    BY <1>1, <1>2, <1>9, <2>1, <2>4 DEF Ordered
  <2> QED
    BY <1>1, <1>3, <2>3, <2>4
<1>10. Sound(n)
  BY <1>6, <1>7, <1>8, <1>9 DEF Sound, Ordered
<1>11. Continues(n, e)
  BY <1>1, <1>2, <1>3, <1>4, <1>6 DEF Continues, SameVersion
<1> QED
  BY <1>1, <1>2, <1>3, <1>6, <1>10, <1>11 DEF t

\* What is written to disk is the entry.
LEMMA WrittenEntry ==
  ASSUME NEW e \in Entry, Sound(e), NEW n, n = Written(e)
  PROVE  /\ n \in Entry /\ Sound(n)
         /\ n.id = e.id /\ n.name = e.name /\ n.nextRevision = e.nextRevision
         /\ n.versions = e.versions /\ n.modified = FALSE
BY DEF Written, Entry, Sound, Ordered

\* To go on is reflexive and transitive.
LEMMA ContinuesItself == ASSUME NEW e \in Entry PROVE Continues(e, e)
BY EntryParts DEF Continues, SameVersion

\* To continue an entry is transitive.
LEMMA ContinuesOn ==
  ASSUME NEW e \in Entry, NEW f \in Entry, NEW g \in Entry,
         Continues(f, e), Continues(g, f)
  PROVE  Continues(g, e)
<1>1. /\ e.nextRevision \in Nat /\ f.nextRevision \in Nat /\ g.nextRevision \in Nat
  BY EntryParts
<1> QED
  BY <1>1 DEF Continues, SameVersion

\* The digest of a version is filled in.
LEMMA WithDigestFacts ==
  ASSUME NEW e \in Entry, Sound(e), NEW j \in DOMAIN e.versions, NEW md5 \in Digest
  PROVE  LET n == WithDigest(e, j, md5)
         IN /\ n \in Entry /\ Sound(n) /\ Continues(n, e)
            /\ n.id = e.id /\ n.name = e.name
            /\ DOMAIN n.versions = DOMAIN e.versions
            /\ n.versions[j].md5 = md5 /\ SameVersion(n.versions[j], e.versions[j])
            /\ \A i \in DOMAIN e.versions : i # j => n.versions[i] = e.versions[i]
<1> DEFINE v == [e.versions[j] EXCEPT !.md5 = md5]
           t == [e.versions EXCEPT ![j] = v]
           n == WithDigest(e, j, md5)
<1>1. /\ e.versions \in Seq(Version) /\ DOMAIN e.versions = 1..Len(e.versions)
      /\ e.versions[j] \in Version /\ e.nextRevision \in Nat
  BY EntryParts
<1>2. /\ v \in Version /\ v.md5 = md5
      /\ SameVersion(v, e.versions[j])
  BY <1>1 DEF Version, SameVersion
<1>3. /\ t \in Seq(Version)
      /\ DOMAIN t = DOMAIN e.versions
      /\ t[j] = v
      /\ \A i \in DOMAIN e.versions : i # j => t[i] = e.versions[i]
  BY <1>1, <1>2, ExceptSeq
<1>4. n = [e EXCEPT !.versions = t, !.modified = TRUE]
  BY DEF WithDigest
<1> HIDE DEF v, t, n
<1>5. /\ n \in Entry
      /\ n.id = e.id /\ n.name = e.name /\ n.nextRevision = e.nextRevision
      /\ n.versions = t
  BY <1>3, <1>4 DEF Entry
<1>6. \A i \in DOMAIN t : SameVersion(t[i], e.versions[i])
  BY <1>2, <1>3 DEF SameVersion
<1>7. t # <<>>
  BY <1>1, <1>3
<1>8. Sound(n)
  BY <1>3, <1>5, <1>6, <1>7 DEF Sound, Ordered, SameVersion
<1>9. Continues(n, e)
  BY <1>1, <1>3, <1>5, <1>6 DEF Continues, SameVersion
<1> QED
  BY <1>2, <1>3, <1>5, <1>8, <1>9 DEF n

-----------------------------------------------------------------------------
(* A change of one entry.                                                  *)

\* A change of one entry to a sound one keeps the types of the folders and of the
\* entry files, and all entries sound.
LEMMA ChangeIsSound ==
  ASSUME SInv, NEW did, NEW i, NEW m, Fits(did, i, m), EntryChanged(did, i, m),
         clock' = clock
  PROVE  /\ folders' \in [DOMAIN folders' -> Folder]
         /\ DOMAIN folders' = DOMAIN folders
         /\ entryFiles' \in [DOMAIN entryFiles' -> Entry]
         /\ DOMAIN entryFiles' \subseteq Keys
         /\ MemoryIsSound' /\ DiskIsSound'
<1> DEFINE s == folders[did].entries
           key == <<folders[did].path, m.name>>
<1>1. /\ did \in DOMAIN folders /\ m \in Entry
      /\ i \in 1..(Len(s) + 1)
      /\ Sound(m)
  BY DEF Fits
<1>2. /\ folders' \in [DOMAIN folders -> Folder]
      /\ \A d \in DOMAIN folders \ {did} : folders'[d] = folders[d]
      /\ DOMAIN folders'[did].entries = DOMAIN s \cup {i}
      /\ folders'[did].entries[i] = m
      /\ \A j \in DOMAIN s : j # i => folders'[did].entries[j] = s[j]
  BY <1>1, WithEntryFacts DEF EntryChanged, SInv
<1>3. \A e : Sound(e)' <=> Sound(e)
  BY DEF Sound, Ordered
<1>4. MemoryIsSound'
  <2> SUFFICES ASSUME NEW d \in DOMAIN folders', NEW j \in DOMAIN folders'[d].entries
               PROVE  Sound(folders'[d].entries[j])
    BY <1>3 DEF MemoryIsSound
  <2>1. CASE d # did
    BY <1>2, <2>1 DEF SInv, MemoryIsSound
  <2>2. CASE d = did /\ j = i
    BY <1>1, <1>2, <2>2
  <2>3. CASE d = did /\ j # i
    BY <1>1, <1>2, <2>3 DEF SInv, MemoryIsSound
  <2> QED
    BY <2>1, <2>2, <2>3
<1>5. key \in Keys
  <2>1. folders[did] \in Folder
    BY <1>1 DEF SInv, TypeOK
  <2> QED
    BY <1>1, <2>1, EntryParts DEF Keys, Folder
<1>6. /\ entryFiles' \in [DOMAIN entryFiles' -> Entry]
      /\ DOMAIN entryFiles' \subseteq Keys
      /\ DiskIsSound'
  <2>1. CASE entryFiles' = entryFiles
    BY <1>3, <2>1 DEF SInv, TypeOK, DiskIsSound
  <2>2. CASE entryFiles' = Put(entryFiles, key, m)
    <3>1. /\ DOMAIN entryFiles' = DOMAIN entryFiles \cup {key}
          /\ entryFiles'[key] = m
          /\ \A k \in DOMAIN entryFiles : k # key => entryFiles'[k] = entryFiles[k]
          /\ entryFiles' \in [DOMAIN entryFiles' -> Entry]
      BY <1>1, <2>2 DEF Put, SInv, TypeOK
    <3>2. m.name = key[2]
      OBVIOUS
    <3> HIDE DEF key
    <3>3. ASSUME NEW k \in DOMAIN entryFiles'
          PROVE  Sound(entryFiles'[k]) /\ entryFiles'[k].name = k[2]
      BY <1>1, <3>1, <3>2, <3>3 DEF SInv, DiskIsSound
    <3> QED
      BY <1>3, <1>5, <3>1, <3>3 DEF SInv, TypeOK, DiskIsSound
  <2> QED
    BY <2>1, <2>2 DEF EntryChanged
<1> QED
  BY <1>2, <1>4, <1>6

\* The entry files as they were, or continued.
HistoryGoesOn ==
  \A k \in DOMAIN entryFiles :
    k \in DOMAIN entryFiles' /\ Continues(entryFiles'[k], entryFiles[k])

\* A change of one entry to one that continues it keeps what relates the memory to
\* the disk, drops no version from an entry file and moves no folder.
LEMMA ChangeGoesOn ==
  ASSUME CInv, NEW did, NEW i, NEW m, Fits(did, i, m), folders[did].listed,
         EntryChanged(did, i, m)
  PROVE  /\ OpenOnce' /\ NamedOnce' /\ ListedIsComplete' /\ MemoryContinuesDisk'
         /\ HistoryGoesOn
         /\ \A d \in DOMAIN folders : /\ folders'[d].path = folders[d].path
                                      /\ folders'[d].listed = folders[d].listed
<1> DEFINE s == folders[did].entries
           t == folders'[did].entries
           key == <<folders[did].path, m.name>>
<1>1. /\ did \in DOMAIN folders /\ m \in Entry
      /\ i \in 1..(Len(s) + 1)
      /\ \/ i \in DOMAIN s /\ Continues(m, s[i])
         \/ i \notin DOMAIN s /\ Positions(s, m.name) = {}
  BY DEF Fits
<1>2. /\ DOMAIN folders' = DOMAIN folders
      /\ \A d \in DOMAIN folders : /\ folders'[d].path = folders[d].path
                                   /\ folders'[d].listed = folders[d].listed
      /\ \A d \in DOMAIN folders \ {did} : folders'[d] = folders[d]
      /\ DOMAIN t = DOMAIN s \cup {i}
      /\ t[i] = m
      /\ \A j \in DOMAIN s : j # i => t[j] = s[j]
  BY <1>1, WithEntryFacts DEF EntryChanged, CInv, SInv
<1>3. \A e \in Entry : Continues(e, e)
  BY ContinuesItself
<1>4. /\ s \in Seq(Entry)
      /\ \A j \in DOMAIN s : s[j] \in Entry
      /\ \A k \in DOMAIN entryFiles : entryFiles[k] \in Entry
  <2>1. folders[did] \in Folder
    BY <1>1 DEF CInv, SInv, TypeOK
  <2>2. s \in Seq(Entry)
    BY <2>1 DEF Folder
  <2> QED
    BY <2>2, LenProperties, ElementOfSeq DEF CInv, SInv, TypeOK
<1>5. OpenOnce'
  BY <1>2 DEF CInv, Kept, OpenOnce
<1>6. i \in DOMAIN s => m.name = s[i].name /\ Continues(m, s[i])
  <2>1. i \in DOMAIN s => ~(i \notin DOMAIN s)
    OBVIOUS
  <2> QED
    BY <1>1, <2>1 DEF Continues
<1>7. \A j \in DOMAIN s : j # i => s[j].name # m.name
  <2>1. CASE i \in DOMAIN s
    BY <1>1, <1>6, <2>1 DEF CInv, Kept, NamedOnce
  <2>2. CASE i \notin DOMAIN s
    BY <1>1, <2>2 DEF Positions
  <2> QED
    BY <2>1, <2>2
<1>8. NamedOnce'
  <2> SUFFICES ASSUME NEW d \in DOMAIN folders,
                      NEW j \in DOMAIN folders'[d].entries,
                      NEW l \in DOMAIN folders'[d].entries,
                      folders'[d].entries[j].name = folders'[d].entries[l].name
               PROVE  j = l
    BY <1>2 DEF NamedOnce
  <2>1. CASE d # did
    BY <1>2, <2>1 DEF CInv, Kept, NamedOnce
  <2>2. CASE d = did /\ j # i /\ l # i
    BY <1>1, <1>2, <2>2 DEF CInv, Kept, NamedOnce
  <2>3. CASE d = did /\ (j = i \/ l = i)
    BY <1>2, <1>7, <2>3
  <2> QED
    BY <2>1, <2>2, <2>3
<1>9. /\ DOMAIN entryFiles' = DOMAIN entryFiles
         \/ DOMAIN entryFiles' = DOMAIN entryFiles \cup {key}
      /\ \A k \in DOMAIN entryFiles : k # key => entryFiles'[k] = entryFiles[k]
      /\ key \in DOMAIN entryFiles' =>
           \/ entryFiles'[key] = m
           \/ key \in DOMAIN entryFiles /\ entryFiles'[key] = entryFiles[key]
  BY DEF EntryChanged, Put
<1>10. key \in DOMAIN entryFiles =>
         /\ i \in DOMAIN s
         /\ Continues(m, entryFiles[key])
  <2> SUFFICES ASSUME key \in DOMAIN entryFiles
               PROVE  i \in DOMAIN s /\ Continues(m, entryFiles[key])
    OBVIOUS
  <2>1. m.name \in Names
    BY <1>1, EntryParts
  <2>2. Positions(s, m.name) # {}
    BY <1>1, <2>1 DEF CInv, Kept, ListedIsComplete
  <2>3. i \in DOMAIN s /\ Continues(m, s[i]) /\ s[i].name = m.name
    BY <1>1, <1>6, <2>2
  <2>4. Continues(s[i], entryFiles[key])
    BY <1>1, <2>3 DEF CInv, Kept, MemoryContinuesDisk
  <2> QED
    BY <1>1, <1>4, <2>3, <2>4, ContinuesOn
<1>11. HistoryGoesOn
  <2> SUFFICES ASSUME NEW k \in DOMAIN entryFiles
               PROVE  k \in DOMAIN entryFiles' /\ Continues(entryFiles'[k], entryFiles[k])
    BY DEF HistoryGoesOn
  <2>1. CASE k # key
    BY <1>3, <1>4, <1>9, <2>1
  <2>2. CASE k = key
    BY <1>3, <1>4, <1>9, <1>10, <2>2
  <2> QED
    BY <2>1, <2>2
<1>12. ListedIsComplete'
  <2>1. ASSUME NEW d \in DOMAIN folders, folders[d].listed, NEW n \in Names,
               <<folders[d].path, n>> \in DOMAIN entryFiles'
        PROVE  Positions(folders'[d].entries, n) # {}
    <3>1. CASE d # did
      <4>1. <<folders[d].path, n>> # key
        BY <1>1, <3>1 DEF CInv, Kept, OpenOnce
      <4>2. <<folders[d].path, n>> \in DOMAIN entryFiles
        BY <1>9, <2>1, <4>1
      <4> QED
        BY <1>2, <2>1, <3>1, <4>2 DEF CInv, Kept, ListedIsComplete
    <3>2. CASE d = did /\ n = m.name
      BY <1>2, <3>2 DEF Positions
    <3>3. CASE d = did /\ n # m.name
      <4>1. <<folders[d].path, n>> \in DOMAIN entryFiles
        BY <1>9, <2>1, <3>3
      <4>2. PICK j \in DOMAIN s : s[j].name = n
        BY <2>1, <3>3, <4>1 DEF CInv, Kept, ListedIsComplete, Positions
      <4>3. j # i
        BY <1>6, <3>3, <4>2
      <4> QED
        BY <1>2, <3>3, <4>2, <4>3 DEF Positions
    <3> QED
      BY <3>1, <3>2, <3>3
  <2>2. ASSUME NEW d \in DOMAIN folders, ~folders[d].listed
        PROVE  folders'[d].entries = <<>>
    BY <1>2, <2>2 DEF CInv, Kept, ListedIsComplete
  <2> QED
    BY <1>2, <2>1, <2>2 DEF ListedIsComplete
<1>13. MemoryContinuesDisk'
  <2> SUFFICES ASSUME NEW d \in DOMAIN folders, NEW j \in DOMAIN folders'[d].entries,
                      <<folders[d].path, folders'[d].entries[j].name>> \in DOMAIN entryFiles'
               PROVE  Continues(folders'[d].entries[j],
                        entryFiles'[<<folders[d].path, folders'[d].entries[j].name>>])
    BY <1>2 DEF MemoryContinuesDisk
  <2>1. CASE d = did /\ j = i
    BY <1>1, <1>2, <1>3, <1>9, <1>10, <2>1
  <2>2. CASE d # did \/ j # i
    <3>1. /\ j \in DOMAIN folders[d].entries
          /\ folders'[d].entries[j] = folders[d].entries[j]
      BY <1>2, <2>2
    <3>2. <<folders[d].path, folders[d].entries[j].name>> # key
      BY <1>1, <1>7, <2>2, <3>1 DEF CInv, Kept, OpenOnce
    <3> QED
      BY <1>9, <3>1, <3>2 DEF CInv, Kept, MemoryContinuesDisk
  <2> QED
    BY <2>1, <2>2
<1> QED
  BY <1>2, <1>5, <1>8, <1>11, <1>12, <1>13


-----------------------------------------------------------------------------
(* Types, and that entries are sound.                                      *)

\* The bounds are numbers.
LEMMA Bounds ==
  /\ MaxTry \in Nat \ {0}
  /\ MaxFileId \in Nat /\ MaxRevision \in Nat /\ MaxFolders \in Nat
  /\ MaxFiles \in Nat /\ MaxChunks \in Nat /\ MaxClock \in Nat
  /\ MaxRestarts \in Nat
BY BoundsAssumption

\* The types, in parts.
FlagTypes == {attached, loaded, idsLost} \subseteq BOOLEAN

CounterTypes ==
  /\ {nextFileId, savedFileId} \subseteq 0..MaxFileId
  /\ nextFolderId \in 0..MaxFolders
  /\ nextFileRuntimeId \in 0..MaxFiles
  /\ clock \in 1..(MaxClock + 1)
  /\ restarts \in 0..MaxRestarts

FolderTypes ==
  /\ folders \in [DOMAIN folders -> Folder]
  /\ DOMAIN folders \subseteq 1..nextFolderId

FileTypes ==
  /\ files \in [DOMAIN files -> File]
  /\ DOMAIN files \subseteq 1..nextFileRuntimeId

DiskTypes ==
  /\ entryFiles \in [DOMAIN entryFiles -> Entry]
  /\ DOMAIN entryFiles \subseteq Keys
  /\ data \in [DOMAIN data -> Content]
  /\ DOMAIN data \subseteq Store

\* The type invariant is its parts.
LEMMA TypeParts ==
  /\ TypeOK <=> FlagTypes /\ CounterTypes /\ FolderTypes /\ FileTypes /\ DiskTypes
  /\ TypeOK' <=> FlagTypes' /\ CounterTypes' /\ FolderTypes' /\ FileTypes' /\ DiskTypes'
BY Zenon DEF TypeOK, FlagTypes, CounterTypes, FolderTypes, FileTypes, DiskTypes

\* The parts follow from the inductive invariant.
LEMMA SoundTypes ==
  ASSUME SInv PROVE FlagTypes /\ CounterTypes /\ FolderTypes /\ FileTypes /\ DiskTypes
BY TypeParts DEF SInv

\* What a step leaves alone stays sound.
LEMMA SoundStays == ASSUME clock' = clock PROVE \A e : Sound(e)' <=> Sound(e)
BY DEF Sound, Ordered

\* Entry files that a step leaves alone stay sound.
LEMMA DiskStays ==
  ASSUME DiskIsSound, UNCHANGED <<entryFiles, clock>>
  PROVE  DiskIsSound'
BY SoundStays DEF DiskIsSound

\* Folders that a step leaves alone, and new ones without entries, stay sound.
LEMMA MemoryStays ==
  ASSUME MemoryIsSound, clock' = clock,
         \A d \in DOMAIN folders' :
           \/ d \in DOMAIN folders /\ folders'[d] = folders[d]
           \/ DOMAIN folders'[d].entries = {}
  PROVE  MemoryIsSound'
<1>1. ASSUME NEW d \in DOMAIN folders', NEW i \in DOMAIN folders'[d].entries
      PROVE  Sound(folders'[d].entries[i])
  BY DEF MemoryIsSound
<1> QED
  BY <1>1, SoundStays DEF MemoryIsSound

\* An empty repository is sound.
LEMMA InitSound == Init => SInv
<1> SUFFICES ASSUME Init PROVE SInv
  OBVIOUS
<1>1. DOMAIN Empty = {} /\ \A S : Empty \in [DOMAIN Empty -> S]
  BY DEF Empty
<1>2. CounterTypes
  BY Bounds DEF Init, CounterTypes
<1>4. FlagTypes
  BY Zenon DEF Init, FlagTypes
<1>3. FolderTypes /\ FileTypes /\ DiskTypes
  BY <1>1 DEF Init, FolderTypes, FileTypes, DiskTypes
<1> QED
  BY <1>1, <1>2, <1>3, <1>4, TypeParts
  DEF Init, SInv, MemoryIsSound, DiskIsSound, NothingUnloaded, HandleHasFolder

\* A step that forgets the memory.
LEMMA ForgetSound ==
  ASSUME SInv, Forget, attached' = FALSE, loaded' = FALSE, idsLost' \in BOOLEAN,
         savedFileId' \in 0..MaxFileId, restarts' \in 0..MaxRestarts,
         UNCHANGED <<entryFiles, data, clock>>
  PROVE  SInv'
<1>1. DOMAIN Empty = {} /\ \A S : Empty \in [DOMAIN Empty -> S]
  BY DEF Empty
<1>2. CounterTypes'
  BY Bounds, SoundTypes DEF Forget, CounterTypes
<1>3. FolderTypes' /\ FileTypes' /\ DiskTypes'
  BY <1>1, SoundTypes DEF Forget, FolderTypes, FileTypes, DiskTypes, Keys
<1>4. FlagTypes'
  BY Zenon DEF FlagTypes
<1> QED
  BY <1>1, <1>2, <1>3, <1>4, TypeParts, DiskStays, MemoryStays
  DEF Forget, SInv, NothingUnloaded, HandleHasFolder

\* A crash of the program keeps types and soundness.
LEMMA RestartSound == ASSUME SInv, Restart PROVE SInv'
<1>1. idsLost' \in BOOLEAN /\ savedFileId' \in 0..MaxFileId /\ restarts' \in 0..MaxRestarts
  BY Bounds DEF Restart, disk, SInv, TypeOK
<1> QED
  BY <1>1, ForgetSound DEF Restart, disk

\* Opening the repository keeps types and soundness.
LEMMA OpenRepositorySound == ASSUME SInv, OpenRepository PROVE SInv'
<1>1. TypeOK'
  BY DEF OpenRepository, disk, world, SInv, TypeOK, Keys
<1>2. NothingUnloaded' /\ HandleHasFolder'
  BY DEF OpenRepository, SInv, NothingUnloaded, HandleHasFolder
<1> QED
  BY <1>1, <1>2, DiskStays, MemoryStays DEF OpenRepository, disk, world, SInv

\* Closing the repository keeps types and soundness, whether it is forgotten or not.
LEMMA CloseRepositorySound ==
  ASSUME SInv, NEW forgotten \in BOOLEAN, CloseRepository(forgotten)
  PROVE  SInv'
<1>1. CASE forgotten
  BY <1>1, ForgetSound DEF CloseRepository, world, SInv, TypeOK
<1>2. CASE ~forgotten
  <2>1. TypeOK'
    BY <1>2 DEF CloseRepository, memory, world, SInv, TypeOK, Keys
  <2>2. NothingUnloaded' /\ HandleHasFolder'
    BY <1>2 DEF CloseRepository, memory, SInv, NothingUnloaded, HandleHasFolder
  <2> QED
    BY <1>2, <2>1, <2>2, DiskStays, MemoryStays
    DEF CloseRepository, memory, world, SInv
<1> QED
  BY <1>1, <1>2

\* The clock keeps types and soundness: no entry has a time to come.
LEMMA TickSound == ASSUME SInv, Tick PROVE SInv'
<1>1. TypeOK'
  BY BoundsAssumption DEF Tick, memory, disk, SInv, TypeOK, Keys
<1>2. ASSUME NEW e \in Entry, Sound(e)
      PROVE  Sound(e)'
  <2>1. \A i \in DOMAIN e.versions :
          e.versions[i].btime <= clock => e.versions[i].btime <= clock'
    BY EntryParts DEF Tick, SInv, TypeOK
  <2> QED
    BY <1>2, <2>1 DEF Sound, Ordered
<1>3. /\ MemoryIsSound'
      /\ DiskIsSound'
  <2>1. \A d \in DOMAIN folders : \A i \in DOMAIN folders[d].entries :
          folders[d].entries[i] \in Entry
    <3> SUFFICES ASSUME NEW d \in DOMAIN folders, NEW i \in DOMAIN folders[d].entries
                 PROVE  folders[d].entries[i] \in Entry
      OBVIOUS
    <3>1. folders[d].entries \in Seq(Entry)
      BY DEF SInv, TypeOK, Folder
    <3> QED
      BY <3>1, LenProperties, ElementOfSeq
  <2>2. \A k \in DOMAIN entryFiles : entryFiles[k] \in Entry
    BY DEF SInv, TypeOK
  <2>3. UNCHANGED <<folders, entryFiles>>
    BY DEF Tick, memory, disk
  <2> QED
    BY <1>2, <2>1, <2>2, <2>3 DEF SInv, MemoryIsSound, DiskIsSound
<1> QED
  BY <1>1, <1>3 DEF Tick, memory, SInv, NothingUnloaded, HandleHasFolder

\* A directory that is opened has no entries yet.
LEMMA OpenDirSound == ASSUME SInv, NEW path \in Paths, OpenDir(path) PROVE SInv'
<1>1. /\ folders' \in [DOMAIN folders' -> Folder]
      /\ DOMAIN folders' = DOMAIN folders \cup {nextFolderId + 1}
      /\ \A d \in DOMAIN folders : d # nextFolderId + 1 => folders'[d] = folders[d]
      /\ folders'[nextFolderId + 1].entries = <<>>
  <2>1. [path |-> path, entries |-> <<>>, listed |-> FALSE] \in Folder
    BY EmptySeq DEF Folder
  <2> QED
    BY <2>1 DEF OpenDir, Put, SInv, TypeOK
<1>2. CounterTypes'
  BY Bounds, SoundTypes DEF OpenDir, disk, world, CounterTypes
<1>3. FolderTypes'
  <2>1. nextFolderId \in Nat /\ nextFolderId' = nextFolderId + 1
    BY Bounds, SoundTypes DEF OpenDir, CounterTypes
  <2>2. DOMAIN folders' \subseteq 1..nextFolderId'
    BY <1>1, <2>1, SoundTypes DEF FolderTypes
  <2> QED
    BY <1>1, <2>2 DEF FolderTypes
<1>4. FlagTypes' /\ FileTypes' /\ DiskTypes'
  BY SoundTypes DEF OpenDir, disk, world, FlagTypes, FileTypes, DiskTypes, Keys
<1>5. MemoryIsSound'
  <2>1. \A d \in DOMAIN folders' :
          \/ d \in DOMAIN folders /\ folders'[d] = folders[d]
          \/ DOMAIN folders'[d].entries = {}
    BY <1>1
  <2> QED
    BY <2>1, MemoryStays DEF OpenDir, world, SInv
<1>6. HandleHasFolder'
  BY DEF OpenDir, SInv, TypeOK, HandleHasFolder, File
<1>7. DiskIsSound' /\ NothingUnloaded'
  BY DiskStays DEF OpenDir, disk, world, SInv, NothingUnloaded
<1> QED
  BY <1>2, <1>3, <1>4, <1>5, <1>6, <1>7, TypeParts DEF SInv

\* Closing a handle that reads keeps types and soundness.
LEMMA FileCloseInSound == ASSUME SInv, NEW fid, FileCloseIn(fid) PROVE SInv'
<1>1. /\ files' \in [DOMAIN files' -> File] /\ DOMAIN files' \subseteq DOMAIN files
      /\ \A h \in DOMAIN files' : files'[h] = files[h]
  BY SoundTypes DEF FileCloseIn, Without, FileTypes
<1>2. FlagTypes' /\ CounterTypes' /\ FolderTypes' /\ DiskTypes'
  BY SoundTypes
  DEF FileCloseIn, disk, world, FlagTypes, CounterTypes, FolderTypes, DiskTypes, Keys
<1>3. FileTypes'
  BY <1>1, SoundTypes DEF FileCloseIn, FileTypes
<1>4. MemoryIsSound'
  BY MemoryStays DEF FileCloseIn, world, SInv
<1>5. DiskIsSound' /\ NothingUnloaded'
  BY <1>1, DiskStays DEF FileCloseIn, disk, world, SInv, NothingUnloaded
<1>6. HandleHasFolder'
  BY <1>1 DEF FileCloseIn, SInv, HandleHasFolder
<1> QED
  BY <1>2, <1>3, <1>4, <1>5, <1>6, TypeParts DEF SInv

\* What was written to a handle, and one write more.
LEMMA AppendContent ==
  ASSUME NEW s \in Content, NEW c \in Chunks, Len(s) < MaxChunks
  PROVE  Append(s, c) \in Content
<1>1. PICK n \in 0..MaxChunks : s \in [1..n -> Chunks]
  BY DEF Content
<1>2. s \in Seq(Chunks) /\ Len(s) = n
  <2>1. s \in Seq(Chunks)
    BY <1>1, BoundsAssumption, SeqDef
  <2> QED
    BY <1>1, <2>1, LenProperties
<1>3. Append(s, c) \in [1..(n + 1) -> Chunks]
  BY <1>2, AppendProperties, LenProperties
<1> QED
  BY <1>2, <1>3, BoundsAssumption DEF Content

\* A write keeps types and soundness.
LEMMA FileWriteSound ==
  ASSUME SInv, NEW fid, NEW chunk \in Chunks, NEW flushed \in BOOLEAN,
         FileWrite(fid, chunk, flushed)
  PROVE  SInv'
<1> DEFINE w == Append(files[fid].written, chunk)
<1>1. files[fid] \in File /\ fid \in DOMAIN files
  BY DEF FileWrite, SInv, TypeOK
<1>2. w \in Content
  BY <1>1, AppendContent DEF FileWrite, File
<1>3. files' = [files EXCEPT ![fid] = [@ EXCEPT !.written = w]]
  BY DEF FileWrite
<1>4. data' = [data EXCEPT ![files[fid].path] = w] \/ data' = data
  BY DEF FileWrite
<1> HIDE DEF w
<1>5. [files[fid] EXCEPT !.written = w] \in File
  BY <1>1, <1>2 DEF File
<1>6. /\ files' \in [DOMAIN files' -> File]
      /\ DOMAIN files' = DOMAIN files
      /\ \A h \in DOMAIN files : files'[h].did = files[h].did
  BY <1>1, <1>3, <1>5 DEF SInv, TypeOK, File
<1>7. data' \in [DOMAIN data' -> Content] /\ DOMAIN data' = DOMAIN data
  BY <1>2, <1>4 DEF SInv, TypeOK
<1>8. TypeOK'
  BY <1>6, <1>7 DEF FileWrite, world, SInv, TypeOK, Keys
<1>9. HandleHasFolder'
  BY <1>6 DEF FileWrite, SInv, HandleHasFolder
<1>10. MemoryIsSound'
  BY MemoryStays DEF FileWrite, world, SInv
<1>11. DiskIsSound' /\ NothingUnloaded'
  BY <1>6, DiskStays DEF FileWrite, world, SInv, NothingUnloaded
<1> QED
  BY <1>8, <1>9, <1>10, <1>11 DEF SInv

\* Opening a file to read keeps types and soundness.
LEMMA FileOpenInSound ==
  ASSUME SInv, NEW did, NEW name, NEW when \in Nat, FileOpenIn(did, name, when)
  PROVE  SInv'
<1> DEFINE s == folders[did].entries
           e == s[FirstOf(GetEntry(folders[did], name))]
           v == e.versions[dup_date(e, when)]
           f == [did |-> did, fileId |-> e.id, fileRevision |-> v.revision,
                 path |-> v.storeName, written |-> <<>>, mode |-> "in"]
<1>1. s \in Seq(Entry) /\ did \in DOMAIN folders /\ did \in Nat /\ did <= nextFolderId
  BY DEF FileOpenIn, SInv, TypeOK, Folder
<1>2. e \in Entry /\ Sound(e)
  <2>1. FirstOf(Positions(s, name)) \in DOMAIN s
    BY <1>1, FirstPosition DEF FileOpenIn, GetEntry
  <2> QED
    BY <1>1, <2>1, LenProperties, ElementOfSeq DEF GetEntry, SInv, MemoryIsSound
<1> HIDE DEF e
<1>3. v.revision \in Nat /\ v.storeName \in Store /\ e.id \in Nat
  <2>1. Candidates(e, when) # {}
    BY DEF FileOpenIn, e
  <2>2. dup_date(e, when) \in DOMAIN e.versions
    BY <1>2, <2>1, DupDateIsLast DEF Candidates
  <2> QED
    BY <1>2, <2>2, EntryParts
<1>4. files' = Put(files, nextFileRuntimeId + 1, f)
  BY DEF FileOpenIn, e
<1> HIDE DEF v
<1>5. f \in File
  <2>1. <<>> \in Content
    BY BoundsAssumption DEF Content
  <2> QED
    BY <1>1, <1>3, <2>1 DEF File
<1>6. /\ files' \in [DOMAIN files' -> File]
      /\ DOMAIN files' = DOMAIN files \cup {nextFileRuntimeId + 1}
      /\ \A h \in DOMAIN files' : files'[h].did <= nextFolderId
  BY <1>1, <1>4, <1>5 DEF Put, SInv, TypeOK, HandleHasFolder, File
<1> HIDE DEF f
<1>7. TypeOK'
  <2>1. CounterTypes'
    BY Bounds, SoundTypes DEF FileOpenIn, disk, world, CounterTypes
  <2>2. FileTypes'
    <3>1. /\ nextFileRuntimeId \in Nat
          /\ nextFileRuntimeId' = nextFileRuntimeId + 1
      BY Bounds, SoundTypes DEF FileOpenIn, CounterTypes
    <3>2. DOMAIN files' \subseteq 1..nextFileRuntimeId'
      BY <1>6, <3>1, SoundTypes DEF FileTypes
    <3> QED
      BY <1>6, <3>2 DEF FileTypes
  <2>3. FlagTypes' /\ FolderTypes' /\ DiskTypes'
    BY SoundTypes DEF FileOpenIn, disk, world, FlagTypes, FolderTypes, DiskTypes, Keys
  <2> QED
    BY <2>1, <2>2, <2>3, TypeParts
<1>8. HandleHasFolder' /\ NothingUnloaded'
  BY <1>6 DEF FileOpenIn, HandleHasFolder, SInv, NothingUnloaded
<1> QED
  BY <1>7, <1>8, DiskStays, MemoryStays DEF FileOpenIn, disk, world, SInv

-----------------------------------------------------------------------------
(* CloseDir and GetEntries.                                                *)

\* An entry in memory is an entry.
LEMMA MemoryEntry ==
  ASSUME SInv, NEW d \in DOMAIN folders
  PROVE  /\ folders[d] \in Folder
         /\ folders[d].entries \in Seq(Entry)
         /\ DOMAIN folders[d].entries = 1..Len(folders[d].entries)
         /\ Len(folders[d].entries) \in Nat
         /\ \A i \in DOMAIN folders[d].entries :
              folders[d].entries[i] \in Entry /\ Sound(folders[d].entries[i])
<1>1. folders[d] \in Folder
  BY DEF SInv, TypeOK
<1>2. folders[d].entries \in Seq(Entry)
  BY <1>1 DEF Folder
<1>3. /\ DOMAIN folders[d].entries = 1..Len(folders[d].entries)
      /\ Len(folders[d].entries) \in Nat
  BY <1>2, LenProperties
<1>4. \A i \in DOMAIN folders[d].entries : folders[d].entries[i] \in Entry
  BY <1>2, <1>3, ElementOfSeq
<1> QED
  BY <1>1, <1>2, <1>3, <1>4 DEF SInv, MemoryIsSound

\* CloseDir writes entries of the folder and forgets them.
LEMMA CloseDirFacts ==
  ASSUME SInv, NEW did, NEW failed, CloseDir(did, failed)
  PROVE  /\ did \in DOMAIN folders
         /\ folders' = Without(folders, did)
         /\ entryFiles' = [k \in DOMAIN entryFiles' |-> entryFiles'[k]]
         /\ DOMAIN entryFiles \subseteq DOMAIN entryFiles'
         /\ \A k \in DOMAIN entryFiles' :
              \/ k \in DOMAIN entryFiles /\ entryFiles'[k] = entryFiles[k]
              \/ /\ k = <<folders[did].path, k[2]>>
                 /\ \E i \in DOMAIN folders[did].entries :
                      /\ folders[did].entries[i].name = k[2]
                      /\ entryFiles'[k] = Written(folders[did].entries[i])
<1> DEFINE s == folders[did].entries
           changed == {i \in DOMAIN s : s[i].modified /\ s[i].name \notin failed}
           keys == {<<folders[did].path, s[i].name>> : i \in changed}
<1>1. /\ did \in DOMAIN folders
      /\ folders' = Without(folders, did)
      /\ entryFiles' = [k \in DOMAIN entryFiles \cup keys |->
                          IF k \in keys THEN Written(s[FirstOf(Positions(s, k[2]))])
                                        ELSE entryFiles[k]]
  BY DEF CloseDir
<1>2. s \in Seq(Entry)
  BY <1>1, MemoryEntry
<1>3. ASSUME NEW k \in keys
      PROVE  /\ k = <<folders[did].path, k[2]>>
             /\ FirstOf(Positions(s, k[2])) \in DOMAIN s
             /\ s[FirstOf(Positions(s, k[2]))].name = k[2]
  <2>1. PICK i \in changed : k = <<folders[did].path, s[i].name>>
    OBVIOUS
  <2>2. Positions(s, k[2]) # {}
    BY <2>1 DEF Positions
  <2> QED
    BY <1>2, <2>1, <2>2, FirstPosition
<1> HIDE DEF keys
<1>4. ASSUME NEW k \in DOMAIN entryFiles', k \in keys
      PROVE  /\ k = <<folders[did].path, k[2]>>
             /\ \E i \in DOMAIN s : /\ s[i].name = k[2]
                                    /\ entryFiles'[k] = Written(s[i])
  BY <1>1, <1>3, <1>4
<1>5. ASSUME NEW k \in DOMAIN entryFiles', k \notin keys
      PROVE  k \in DOMAIN entryFiles /\ entryFiles'[k] = entryFiles[k]
  BY <1>1, <1>5
<1> QED
  BY <1>1, <1>4, <1>5

\* Closing a directory writes only sound entries.
LEMMA CloseDirSound ==
  ASSUME SInv, NEW did, NEW failed, CloseDir(did, failed) PROVE SInv'
<1>1. /\ DOMAIN folders' = DOMAIN folders \ {did}
      /\ \A d \in DOMAIN folders' : folders'[d] = folders[d]
      /\ folders' = [d \in DOMAIN folders' |-> folders[d]]
  BY CloseDirFacts DEF Without
<1>2. ASSUME NEW k \in DOMAIN entryFiles'
      PROVE  /\ k \in Keys /\ entryFiles'[k] \in Entry
             /\ Sound(entryFiles'[k]) /\ entryFiles'[k].name = k[2]
  <2>1. CASE k \in DOMAIN entryFiles /\ entryFiles'[k] = entryFiles[k]
    BY <2>1 DEF SInv, TypeOK, DiskIsSound
  <2>2. CASE /\ k = <<folders[did].path, k[2]>>
             /\ \E i \in DOMAIN folders[did].entries :
                  /\ folders[did].entries[i].name = k[2]
                  /\ entryFiles'[k] = Written(folders[did].entries[i])
    <3>1. PICK i \in DOMAIN folders[did].entries :
            /\ folders[did].entries[i].name = k[2]
            /\ entryFiles'[k] = Written(folders[did].entries[i])
      BY <2>2
    <3>2. /\ folders[did].entries[i] \in Entry /\ Sound(folders[did].entries[i])
          /\ folders[did] \in Folder
      BY CloseDirFacts, MemoryEntry
    <3>3. /\ entryFiles'[k] \in Entry /\ Sound(entryFiles'[k])
          /\ entryFiles'[k].name = k[2]
      BY <3>1, <3>2, WrittenEntry
    <3>4. k[2] \in Names /\ folders[did].path \in Paths
      BY <3>2, <3>3, EntryParts DEF Folder
    <3> QED
      BY <2>2, <3>3, <3>4 DEF Keys
  <2> QED
    BY <2>1, <2>2, CloseDirFacts
<1>3. DiskIsSound'
  BY <1>2, SoundStays DEF CloseDir, world, DiskIsSound
<1>4. DiskTypes'
  <2>1. entryFiles' = [k \in DOMAIN entryFiles' |-> entryFiles'[k]]
    BY CloseDirFacts
  <2>2. entryFiles' \in [DOMAIN entryFiles' -> Entry]
    BY <1>2, <2>1
  <2> QED
    BY <1>2, <2>2, SoundTypes DEF CloseDir, DiskTypes, Keys
<1>5. FolderTypes'
  BY <1>1, SoundTypes DEF CloseDir, FolderTypes
<1>6. FlagTypes' /\ CounterTypes' /\ FileTypes'
  BY SoundTypes DEF CloseDir, world, FlagTypes, CounterTypes, FileTypes
<1>7. MemoryIsSound'
  BY <1>1, MemoryStays DEF CloseDir, world, SInv
<1>8. NothingUnloaded' /\ HandleHasFolder'
  BY <1>1 DEF CloseDir, SInv, NothingUnloaded, HandleHasFolder
<1> QED
  BY <1>3, <1>4, <1>5, <1>6, <1>7, <1>8, TypeParts DEF SInv

\* GetEntries adds the entry files that have no entry in memory, each once.
LEMMA GetEntriesFacts ==
  ASSUME SInv, NEW did, GetEntries(did)
  PROVE  LET path == folders[did].path
             s == folders[did].entries
             t == folders'[did].entries
         IN /\ did \in DOMAIN folders
            /\ folders' \in [DOMAIN folders -> Folder]
            /\ \A d \in DOMAIN folders \ {did} : folders'[d] = folders[d]
            /\ folders'[did].path = path
            /\ folders'[did].listed
            /\ DOMAIN s \subseteq DOMAIN t
            /\ \A j \in DOMAIN s : t[j] = s[j]
            /\ \A j \in DOMAIN t \ DOMAIN s :
                 /\ <<path, t[j].name>> \in DOMAIN entryFiles
                 /\ t[j] = entryFiles[<<path, t[j].name>>]
                 /\ Positions(s, t[j].name) = {}
            /\ \A j, l \in DOMAIN t \ DOMAIN s : t[j].name = t[l].name => j = l
            /\ \A n \in Names : <<path, n>> \in DOMAIN entryFiles => Positions(t, n) # {}
<1> DEFINE path == folders[did].path
           s == folders[did].entries
           new == {n \in Names : <<path, n>> \in DOMAIN entryFiles /\ Positions(s, n) = {}}
           N == Cardinality(new)
<1>1. did \in DOMAIN folders
  BY DEF GetEntries
<1>2. /\ folders[did] \in Folder /\ s \in Seq(Entry)
      /\ DOMAIN s = 1..Len(s) /\ Len(s) \in Nat
  BY <1>1, MemoryEntry
<1>3. IsFiniteSet(new) /\ N \in Nat
  BY NamesAssumption, FS_Subset, FS_CardinalityType
<1>4. PICK order \in [1..N -> new] :
        /\ {order[i] : i \in DOMAIN order} = new
        /\ folders' = [folders EXCEPT
             ![did].entries = @ \o [i \in DOMAIN order |-> entryFiles[<<path, order[i]>>]],
             ![did].listed = TRUE]
  BY DEF GetEntries
<1> HIDE DEF N
<1> DEFINE read == [i \in 1..N |-> entryFiles[<<path, order[i]>>]]
           t == s \o read
<1>5. \A i, j \in 1..N : order[i] = order[j] => i = j
  <2>1. order \in Surjection(1..N, new)
    BY <1>4 DEF Surjection
  <2>2. IsFiniteSet(1..N) /\ Cardinality(1..N) = N
    BY <1>3, FS_Interval
  <2>3. order \in Injection(1..N, new)
    BY <2>1, <2>2, FS_SurjSameCardinalityImpliesInj DEF N
  <2> QED
    BY <2>3 DEF Injection, IsInjective
<1>6. \A i \in 1..N : /\ order[i] \in Names
                      /\ <<path, order[i]>> \in DOMAIN entryFiles
                      /\ Positions(s, order[i]) = {}
                      /\ read[i] = entryFiles[<<path, order[i]>>]
                      /\ read[i] \in Entry /\ read[i].name = order[i]
  BY <1>4 DEF SInv, TypeOK, DiskIsSound
<1>7. read \in Seq(Entry) /\ Len(read) = N
  <2>1. read \in [1..N -> Entry]
    BY <1>6
  <2> HIDE DEF read
  <2> QED
    BY <1>3, <2>1, FunctionIsSeq
<1>8. folders' = [folders EXCEPT ![did] = [@ EXCEPT !.entries = t, !.listed = TRUE]]
  BY <1>4
<1> HIDE DEF read
<1>9. /\ t \in Seq(Entry)
      /\ DOMAIN t = 1..(Len(s) + N)
      /\ \A j \in DOMAIN s : t[j] = s[j]
      /\ \A j \in 1..N : t[Len(s) + j] = read[j]
  <2>1. /\ t \in Seq(Entry) /\ Len(t) = Len(s) + N
        /\ \A j \in 1..(Len(s) + N) : t[j] = IF j <= Len(s) THEN s[j] ELSE read[j - Len(s)]
    BY <1>2, <1>7, ConcatProperties
  <2>2. \A j \in 1..N : /\ Len(s) + j \in 1..(Len(s) + N)
                        /\ ~(Len(s) + j <= Len(s)) /\ (Len(s) + j) - Len(s) = j
    BY <1>2, <1>3
  <2>3. DOMAIN t = 1..(Len(s) + N)
    BY <2>1, LenProperties
  <2>4. \A j \in DOMAIN s : j \in 1..(Len(s) + N) /\ j <= Len(s)
    BY <1>2, <1>3
  <2> QED
    BY <2>1, <2>2, <2>3, <2>4
<1> HIDE DEF t
<1>10. [folders[did] EXCEPT !.entries = t, !.listed = TRUE] \in Folder
  BY <1>2, <1>9 DEF Folder
<1>11. /\ folders' \in [DOMAIN folders -> Folder]
       /\ \A d \in DOMAIN folders \ {did} : folders'[d] = folders[d]
       /\ folders'[did].path = path /\ folders'[did].listed
       /\ folders'[did].entries = t
  BY <1>1, <1>2, <1>8, <1>10 DEF SInv, TypeOK, Folder
<1>12. ASSUME NEW j \in DOMAIN t \ DOMAIN s
       PROVE  \E i \in 1..N : j = Len(s) + i
  <2>1. j \in Int /\ Len(s) < j /\ j <= Len(s) + N
    BY <1>2, <1>3, <1>9
  <2>2. j - Len(s) \in 1..N /\ j = Len(s) + (j - Len(s))
    BY <1>2, <1>3, <2>1
  <2> QED
    BY <2>2
<1>13. ASSUME NEW j \in DOMAIN t \ DOMAIN s
       PROVE  \E i \in 1..N : j = Len(s) + i /\ t[j] = read[i] /\ t[j].name = order[i]
  <2>1. PICK i \in 1..N : j = Len(s) + i
    BY <1>12
  <2>2. t[j] = read[i]
    BY <1>9, <2>1
  <2> QED
    BY <1>6, <2>1, <2>2
<1>14. \A j \in DOMAIN t \ DOMAIN s :
         /\ <<path, t[j].name>> \in DOMAIN entryFiles
         /\ t[j] = entryFiles[<<path, t[j].name>>]
         /\ Positions(s, t[j].name) = {}
  BY <1>6, <1>13
<1>15. \A j, l \in DOMAIN t \ DOMAIN s : t[j].name = t[l].name => j = l
  BY <1>5, <1>13
<1>16. ASSUME NEW n \in Names, <<path, n>> \in DOMAIN entryFiles
       PROVE  Positions(t, n) # {}
  <2>1. CASE Positions(s, n) # {}
    <3>1. PICK j \in DOMAIN s : s[j].name = n
      BY <2>1 DEF Positions
    <3>2. j \in DOMAIN t
      BY <1>2, <1>3, <1>9, <3>1
    <3> QED
      BY <1>9, <3>1, <3>2 DEF Positions
  <2>2. CASE Positions(s, n) = {}
    <3>1. PICK i \in 1..N : order[i] = n
      BY <1>4, <1>16, <2>2
    <3>2. Len(s) + i \in DOMAIN t
      BY <1>2, <1>3, <1>9, <3>1
    <3>3. t[Len(s) + i].name = n
      BY <1>6, <1>9, <3>1
    <3> QED
      BY <3>2, <3>3 DEF Positions
  <2> QED
    BY <2>1, <2>2
<1>17. DOMAIN s \subseteq DOMAIN t
  BY <1>2, <1>3, <1>9
<1> QED
  BY <1>1, <1>9, <1>11, <1>14, <1>15, <1>16, <1>17, ZenonT(60)

\* Listing a directory takes only sound entries to memory.
LEMMA GetEntriesSound == ASSUME SInv, NEW did, GetEntries(did) PROVE SInv'
<1> DEFINE path == folders[did].path
           s == folders[did].entries
           t == folders'[did].entries
<1>1. /\ did \in DOMAIN folders
      /\ folders' \in [DOMAIN folders -> Folder]
      /\ \A d \in DOMAIN folders \ {did} : folders'[d] = folders[d]
      /\ \A j \in DOMAIN s : t[j] = s[j]
      /\ \A j \in DOMAIN t \ DOMAIN s :
           /\ <<path, t[j].name>> \in DOMAIN entryFiles
           /\ t[j] = entryFiles[<<path, t[j].name>>]
  BY GetEntriesFacts
<1>2. ASSUME NEW d \in DOMAIN folders', NEW j \in DOMAIN folders'[d].entries
      PROVE  Sound(folders'[d].entries[j])
  <2>1. CASE d # did
    BY <1>1, <2>1 DEF SInv, MemoryIsSound
  <2>2. CASE d = did /\ j \in DOMAIN s
    BY <1>1, <2>2 DEF SInv, MemoryIsSound
  <2>3. CASE d = did /\ j \notin DOMAIN s
    BY <1>1, <2>3 DEF SInv, DiskIsSound
  <2> QED
    BY <2>1, <2>2, <2>3
<1>3. MemoryIsSound'
  BY <1>2, SoundStays DEF GetEntries, world, MemoryIsSound
<1>4. FolderTypes'
  BY <1>1, SoundTypes DEF GetEntries, FolderTypes
<1>5. FlagTypes' /\ CounterTypes' /\ FileTypes' /\ DiskTypes'
  BY SoundTypes DEF GetEntries, disk, world, FlagTypes, CounterTypes, FileTypes,
     DiskTypes, Keys
<1>6. NothingUnloaded' /\ HandleHasFolder'
  BY <1>1 DEF GetEntries, SInv, NothingUnloaded, HandleHasFolder
<1> QED
  BY <1>3, <1>4, <1>5, <1>6, TypeParts, DiskStays DEF GetEntries, disk, world, SInv

-----------------------------------------------------------------------------
(* SetEntry, FileOpenOut and FileCloseOut as changes of one entry.         *)

\* A version that a change adds is made now, and has no digest or the one that
\* the entry has for the same data file.
Adds(did, i, m) ==
  \A j \in DOMAIN m.versions :
    \/ /\ i \in DOMAIN folders[did].entries
       /\ j \in DOMAIN folders[did].entries[i].versions
       /\ m.versions[j] = folders[did].entries[i].versions[j]
    \/ /\ m.versions[j].btime = clock
       /\ \/ m.versions[j].md5 = NoDigest
          \/ /\ i \in DOMAIN folders[did].entries
             /\ \E l \in DOMAIN folders[did].entries[i].versions :
                  /\ folders[did].entries[i].versions[l].md5 = m.versions[j].md5
                  /\ folders[did].entries[i].versions[l].storeName =
                       m.versions[j].storeName

\* A new entry has the next file id.
GetsId(did, i, m) ==
  \/ /\ i \in DOMAIN folders[did].entries
     /\ nextFileId' = nextFileId
  \/ /\ i \notin DOMAIN folders[did].entries
     /\ nextFileId < MaxFileId
     /\ nextFileId' = nextFileId + 1
     /\ m.id = nextFileId + 1

\* The entry a client gets for a name that it did not find.
LEMMA NewEntryFacts ==
  ASSUME SInv, NEW name \in Names
  PROVE  /\ NewEntry(name) \in Entry /\ Ordered(NewEntry(name))
         /\ NewEntry(name).id = nextFileId + 1 /\ NewEntry(name).name = name
         /\ NewEntry(name).nextRevision = 0
         /\ NewEntry(name).versions = <<>> /\ DOMAIN NewEntry(name).versions = {}
         /\ Len(NewEntry(name).versions) = 0
<1>1. nextFileId + 1 \in Nat /\ nextFileId + 1 > 0
  BY SoundTypes, Bounds DEF CounterTypes
<1>2. <<>> \in Seq(Version) /\ Len(<<>>) = 0 /\ DOMAIN <<>> = {}
  <2>1. <<>> \in Seq(Version) /\ Len(<<>>) = 0
    BY EmptySeq
  <2> QED
    BY <2>1, LenProperties
<1> DEFINE none == <<>>
<1> HIDE DEF none
<1>3. NewEntry(name) = [name |-> name, id |-> nextFileId + 1, nextRevision |-> 0,
                        modified |-> FALSE, versions |-> none]
  BY DEF NewEntry, none
<1>4. none \in Seq(Version) /\ Len(none) = 0 /\ DOMAIN none = {}
  BY <1>2 DEF none
<1>5. NewEntry(name) \in Entry
  BY <1>1, <1>3, <1>4 DEF Entry
<1>6. Ordered(NewEntry(name))
  BY <1>1, <1>3, <1>4 DEF Ordered
<1> QED
  BY <1>3, <1>4, <1>5, <1>6 DEF none

\* WithVersion is a longer entry.
LEMMA WithVersionFacts ==
  ASSUME clock \in Nat, NEW e \in Entry, Ordered(e),
         NEW st \in {"used", "deleted"}, NEW digest \in Digest, NEW store \in Store,
         \/ store = NoStore
         \/ store[1] = e.id /\ store[2] <= e.nextRevision
  PROVE  LET n == WithVersion(e, st, digest, store)
             len == Len(e.versions) + 1
         IN /\ n \in Entry /\ Sound(n) /\ Continues(n, e)
            /\ n.id = e.id /\ n.name = e.name
            /\ DOMAIN n.versions = DOMAIN e.versions \cup {len}
            /\ n.versions[len].md5 = digest /\ n.versions[len].storeName = store
            /\ n.versions[len].btime = clock
            /\ \A i \in DOMAIN e.versions : n.versions[i] = e.versions[i]
<1> DEFINE v == [status |-> st, revision |-> e.nextRevision + 1, md5 |-> digest,
                 storeName |-> store, btime |-> clock]
           n == WithVersion(e, st, digest, store)
<1>1. e.nextRevision \in Nat /\ e.modified \in BOOLEAN /\ e.versions \in Seq(Version)
  BY EntryParts
<1>2. /\ v \in Version /\ v.revision > e.nextRevision /\ v.btime = clock
      /\ v.md5 = digest /\ v.storeName = store
  BY <1>1 DEF Version
<1>3. store[2] <= e.nextRevision => store[2] <= v.revision
  BY <1>1 DEF Store
<1>4. n = [e EXCEPT !.nextRevision = e.nextRevision + 1, !.versions = Append(@, v)]
  BY DEF WithVersion
<1>5. /\ n.id = e.id /\ n.name = e.name /\ n.nextRevision = v.revision
      /\ n.versions = Append(e.versions, v)
  BY <1>4 DEF Entry
<1>6. \/ v.storeName = NoStore
      \/ v.storeName[1] = e.id /\ v.storeName[2] <= v.revision
  BY <1>2, <1>3
<1>7. v.revision = e.nextRevision + 1 /\ v.revision \in Nat
  BY <1>1
<1> HIDE DEF v, n
<1>8. /\ Append(e.versions, v) \in Seq(Version)
      /\ Sound(n) /\ Continues(n, e)
      /\ DOMAIN n.versions = DOMAIN e.versions \cup {Len(e.versions) + 1}
      /\ n.versions[Len(e.versions) + 1] = v
      /\ \A i \in DOMAIN e.versions : n.versions[i] = e.versions[i]
  BY <1>1, <1>2, <1>5, <1>6, LongerEntry
<1>9. n \in Entry
  BY <1>4, <1>7, <1>8 DEF Entry
<1> QED
  BY <1>2, <1>5, <1>8, <1>9 DEF n

\* When writing succeeds, the entry is on disk.
EntryWritten(did, ok, m) ==
  ok => entryFiles' = Put(entryFiles, <<folders[did].path, m.name>>, m)

\* SetEntry adds a version to an entry, or adds an entry that has one.
LEMMA SetEntryChange ==
  ASSUME SInv, NEW did, NEW name \in Names, NEW deleteIt \in BOOLEAN,
         NEW keepDigest \in BOOLEAN, NEW ok \in BOOLEAN,
         SetEntry(did, name, deleteIt, keepDigest, ok)
  PROVE  \E i, m : /\ Fits(did, i, m) /\ EntryChanged(did, i, m)
                   /\ m.name = name
                   /\ Adds(did, i, m) /\ GetsId(did, i, m)
                   /\ EntryWritten(did, ok, m)
<1> DEFINE s == folders[did].entries
           found == Positions(s, name)
           key == <<folders[did].path, name>>
<1>1. did \in DOMAIN folders
  BY DEF SetEntry, MayChange
<1>2. /\ s \in Seq(Entry) /\ DOMAIN s = 1..Len(s) /\ Len(s) \in Nat
      /\ \A j \in DOMAIN s : s[j] \in Entry /\ Sound(s[j])
  BY <1>1, MemoryEntry
<1>3. clock \in Nat
  BY SoundTypes, Bounds DEF CounterTypes
<1>4. NoDigest \in Digest /\ NoStore \in Store
  BY DEF Digest, NoStore, Store
<1>5. CASE found = {}
  <2> DEFINE e == NewEntry(name)
             m == WithVersion(e, "used", NoDigest, NoStore)
  <2>1. /\ e \in Entry /\ Ordered(e) /\ e.id = nextFileId + 1 /\ e.name = name
        /\ DOMAIN e.versions = {}
    BY NewEntryFacts
  <2>2. /\ nextFileId < MaxFileId /\ nextFileId' = nextFileId + 1
        /\ folders' = WithEntry(did, Len(s) + 1, m)
        /\ entryFiles' = IF ok THEN Put(entryFiles, key, m) ELSE entryFiles
    BY <1>5 DEF SetEntry, GetEntry
  <2> HIDE DEF e
  <2>3. /\ m \in Entry /\ Sound(m) /\ m.id = e.id /\ m.name = e.name
        /\ DOMAIN m.versions = {Len(e.versions) + 1}
        /\ m.versions[Len(e.versions) + 1].md5 = NoDigest
        /\ m.versions[Len(e.versions) + 1].btime = clock
    BY <1>3, <1>4, <2>1, WithVersionFacts
  <2> HIDE DEF m
  <2>4. Len(s) + 1 \in 1..(Len(s) + 1) /\ Len(s) + 1 \notin DOMAIN s
    BY <1>2
  <2>5. Fits(did, Len(s) + 1, m)
    BY <1>1, <1>5, <2>1, <2>3, <2>4 DEF Fits
  <2>6. Adds(did, Len(s) + 1, m)
    BY <2>3 DEF Adds
  <2>7. GetsId(did, Len(s) + 1, m)
    BY <2>1, <2>2, <2>3, <2>4 DEF GetsId
  <2>8. EntryChanged(did, Len(s) + 1, m)
    BY <2>1, <2>2, <2>3 DEF EntryChanged
  <2> QED
    BY <2>1, <2>2, <2>3, <2>5, <2>6, <2>7, <2>8 DEF EntryWritten
<1>6. CASE found # {}
  <2> DEFINE i == FirstOf(found)
             e == s[i]
             digest == IF keepDigest THEN Latest(e).md5 ELSE NoDigest
             st == IF deleteIt THEN "deleted" ELSE "used"
             n == WithVersion(e, st, digest, Last(e.versions).storeName)
             m == IF ok THEN Written(n) ELSE n
             len == Len(e.versions)
  <2>1. i \in DOMAIN s /\ e.name = name
    BY <1>2, <1>6, FirstPosition
  <2>2. e \in Entry /\ Sound(e)
    BY <1>2, <2>1
  <2>3. /\ folders' = WithEntry(did, i, m)
        /\ entryFiles' = IF ok THEN Put(entryFiles, key, m) ELSE entryFiles
        /\ nextFileId' = nextFileId
    BY <1>6 DEF SetEntry, GetEntry
  <2> HIDE DEF i, e
  <2>4. /\ len \in DOMAIN e.versions
        /\ Latest(e) = e.versions[len]
        /\ Last(e.versions) = e.versions[len]
    BY <2>2, LatestIsLast
  <2>5. e.versions[len].md5 \in Digest /\ e.versions[len].storeName \in Store
    BY <2>2, <2>4, EntryParts
  <2>6. \/ e.versions[len].storeName = NoStore
        \/ /\ e.versions[len].storeName[1] = e.id
           /\ e.versions[len].storeName[2] <= e.nextRevision
    BY <2>2, <2>4 DEF Sound, Ordered
  <2>7. digest \in Digest /\ (digest = NoDigest \/ digest = e.versions[len].md5)
    BY <1>4, <2>4, <2>5
  <2>8. st \in {"used", "deleted"} /\ Ordered(e)
    BY <2>2 DEF Sound
  <2> HIDE DEF len, digest, st
  <2>9. /\ n \in Entry /\ Sound(n) /\ Continues(n, e)
        /\ n.id = e.id /\ n.name = e.name
        /\ DOMAIN n.versions = DOMAIN e.versions \cup {Len(e.versions) + 1}
        /\ n.versions[Len(e.versions) + 1].md5 = digest
        /\ n.versions[Len(e.versions) + 1].storeName = e.versions[len].storeName
        /\ n.versions[Len(e.versions) + 1].btime = clock
        /\ \A j \in DOMAIN e.versions : n.versions[j] = e.versions[j]
    BY <1>3, <2>2, <2>4, <2>5, <2>6, <2>7, <2>8, WithVersionFacts
  <2> HIDE DEF n
  <2>10. m \in Entry /\ Sound(m) /\ m.id = n.id /\ m.name = n.name
         /\ m.versions = n.versions /\ m.nextRevision = n.nextRevision
    BY <2>9, WrittenEntry
  <2> HIDE DEF m
  <2>11. Continues(m, e)
    BY <2>9, <2>10 DEF Continues
  <2>12. Fits(did, i, m)
    BY <1>1, <1>2, <2>1, <2>10, <2>11 DEF Fits, e
  <2>13. Adds(did, i, m)
    BY <2>1, <2>4, <2>7, <2>9, <2>10 DEF Adds, e
  <2>14. GetsId(did, i, m)
    BY <2>1, <2>3 DEF GetsId
  <2>15. EntryChanged(did, i, m)
    BY <2>1, <2>3, <2>9, <2>10 DEF EntryChanged, e
  <2> QED
    BY <2>1, <2>3, <2>9, <2>10, <2>12, <2>13, <2>14, <2>15 DEF e, EntryWritten
<1> QED
  BY <1>5, <1>6

\* The name of a new data file is not in use, or every try found a file.
LEMMA TakenFacts ==
  ASSUME NEW id \in Nat, NEW first \in Nat
  PROVE  /\ Taken(id, first) \in 0..MaxTry
         /\ Taken(id, first) = MaxTry \/ <<id, first + Taken(id, first)>> \notin DOMAIN data
<1> DEFINE S == {k \in 0..MaxTry : k = MaxTry \/ <<id, first + k>> \notin DOMAIN data}
<1>1. MaxTry \in S /\ S \in SUBSET Nat
  BY Bounds
<1>2. FirstOf(S) \in S
  BY <1>1, FirstOfLeast
<1> QED
  BY <1>2 DEF Taken

\* The entry that FileOpenOut makes of entry e.
LEMMA OpenedEntryFacts ==
  ASSUME clock \in Nat, NEW e \in Entry, Ordered(e)
  PROVE  LET n == OpenedEntry(e)
             v == Last(n.versions)
             len == Len(e.versions) + 1
         IN /\ n \in Entry /\ Sound(n) /\ Continues(n, e)
            /\ n.id = e.id /\ n.name = e.name
            /\ DOMAIN n.versions = DOMAIN e.versions \cup {len}
            /\ \A i \in DOMAIN e.versions : n.versions[i] = e.versions[i]
            /\ n.versions[len] = v
            /\ v.btime = clock /\ v.md5 = NoDigest
            /\ v.revision = n.nextRevision /\ v.revision \in Nat
            /\ v.storeName \in Store
            /\ v.storeName[1] = e.id /\ v.storeName[2] > e.nextRevision
            /\ v.storeName \in DOMAIN data => n.nextRevision > MaxTry
<1> DEFINE first == e.nextRevision + 1
           k == Taken(e.id, first)
           revision == first + k
           store == <<e.id, IF k = MaxTry THEN revision - 1 ELSE revision>>
           v == [status |-> "used", revision |-> revision, md5 |-> NoDigest,
                 storeName |-> store, btime |-> clock]
           n == OpenedEntry(e)
<1>1. e.nextRevision \in Nat /\ e.id \in Nat /\ e.versions \in Seq(Version)
  BY EntryParts
<1>2. first \in Nat /\ first > e.nextRevision
  BY <1>1
<1>3. n = [e EXCEPT !.nextRevision = revision, !.modified = TRUE,
                    !.versions = Append(@, v)]
  BY DEF OpenedEntry
<1> HIDE DEF first, n
<1>4. k \in 0..MaxTry /\ (k = MaxTry \/ <<e.id, first + k>> \notin DOMAIN data)
  BY <1>1, <1>2, TakenFacts
<1> HIDE DEF k
<1>5. /\ revision \in Nat /\ revision > e.nextRevision
      /\ store \in Store /\ store[1] = e.id
      /\ store[2] > e.nextRevision /\ store[2] <= revision
      /\ store \in DOMAIN data => revision > MaxTry
  <2>1. k \in Nat /\ (k = MaxTry => k > 0)
    BY <1>4, Bounds
  <2>2. revision \in Nat /\ revision > e.nextRevision
    BY <1>1, <2>1 DEF first
  <2>3. CASE k = MaxTry
    <3>1. store = <<e.id, revision - 1>> /\ revision - 1 \in Nat /\ revision - 1 > e.nextRevision
      BY <1>1, <2>1, <2>3 DEF first
    <3>2. revision > MaxTry
      BY <1>1, <2>1, <2>3, Bounds DEF first
    <3> HIDE DEF revision, store
    <3> QED
      BY <1>1, <2>2, <3>1, <3>2 DEF Store
  <2>4. CASE k # MaxTry
    <3>1. store = <<e.id, revision>> /\ store \notin DOMAIN data
      BY <1>4, <2>4
    <3> HIDE DEF revision, store
    <3> QED
      BY <1>1, <2>2, <3>1 DEF Store
  <2> QED
    BY <2>3, <2>4
<1> HIDE DEF revision, store
<1>6. NoDigest \in Digest
  BY DEF Digest
<1>7. v \in Version
  BY <1>5, <1>6 DEF Version
<1>8. /\ v.revision = revision /\ v.storeName = store /\ v.btime = clock
      /\ v.md5 = NoDigest
  OBVIOUS
<1> HIDE DEF v
<1>9. /\ n.id = e.id /\ n.name = e.name /\ n.nextRevision = v.revision
      /\ n.versions = Append(e.versions, v)
  BY <1>3, <1>8 DEF Entry
<1>10. /\ Append(e.versions, v) \in Seq(Version)
       /\ Sound(n) /\ Continues(n, e)
       /\ DOMAIN n.versions = DOMAIN e.versions \cup {Len(e.versions) + 1}
       /\ Len(n.versions) = Len(e.versions) + 1
       /\ n.versions[Len(e.versions) + 1] = v
       /\ \A i \in DOMAIN e.versions : n.versions[i] = e.versions[i]
  BY <1>5, <1>7, <1>8, <1>9, LongerEntry
<1>11. n \in Entry
  BY <1>3, <1>5, <1>10 DEF Entry
<1>12. Last(n.versions) = v
  BY <1>10 DEF Last
<1> QED
  BY <1>5, <1>8, <1>9, <1>10, <1>11, <1>12 DEF n

\* The step of FileOpenOut that creates a data file.
Created(did, i, m) ==
  \E j \in DOMAIN m.versions :
    LET p == m.versions[j].storeName
    IN /\ entryFiles' = Put(entryFiles, <<folders[did].path, m.name>>, m)
       /\ data' = Put(data, p, <<>>)
       /\ nextFileRuntimeId < MaxFiles
       /\ nextFileRuntimeId' = nextFileRuntimeId + 1
       /\ files' = Put(files, nextFileRuntimeId + 1,
                       [did |-> did, fileId |-> m.id,
                        fileRevision |-> m.versions[j].revision, path |-> p,
                        written |-> <<>>, mode |-> "out"])
       /\ m.versions[j].md5 = NoDigest
       /\ p \in Store /\ p[1] = m.id /\ p[2] > 0
       /\ i \in DOMAIN folders[did].entries =>
            p[2] > folders[did].entries[i].nextRevision
       /\ p \in DOMAIN data => MaxTry < MaxRevision

\* The step of FileOpenOut in which entry m is the one opened.
Opened(did, stage, i, m) ==
  /\ Fits(did, i, m) /\ EntryChanged(did, i, m)
  /\ Adds(did, i, m) /\ GetsId(did, i, m)
  /\ \/ stage \in {"started", "saved"}
     \/ entryFiles' = Put(entryFiles, <<folders[did].path, m.name>>, m)
  /\ IF stage = "created" THEN Created(did, i, m)
     ELSE nextFileRuntimeId' = nextFileRuntimeId /\ data' = data /\ files' = files

\* FileOpenOut changes one entry, to one that continues it, and in its last stage
\* creates the data file of the new version.
LEMMA FileOpenOutChange ==
  ASSUME SInv, NEW did, NEW name \in Names, NEW stage, FileOpenOut(did, name, stage)
  PROVE  \E i, m : Opened(did, stage, i, m)
<1> DEFINE s == folders[did].entries
           found == Positions(s, name)
           i == IF found = {} THEN Len(s) + 1 ELSE FirstOf(found)
           old == IF found = {} THEN NewEntry(name) ELSE s[i]
           e == OpenedEntry(old)
           v == Last(e.versions)
           m == IF stage \in {"started", "saved"} THEN e ELSE Written(e)
           key == <<folders[did].path, name>>
           len == Len(old.versions) + 1
<1>1. did \in DOMAIN folders
  BY DEF FileOpenOut, MayChange
<1>2. /\ s \in Seq(Entry) /\ DOMAIN s = 1..Len(s) /\ Len(s) \in Nat
      /\ \A j \in DOMAIN s : s[j] \in Entry /\ Sound(s[j])
  BY <1>1, MemoryEntry
<1>3. clock \in Nat /\ MaxTry \in Nat /\ MaxRevision \in Nat
  BY SoundTypes, Bounds DEF CounterTypes
<1>4. /\ found = {} => nextFileId < MaxFileId
      /\ e.nextRevision <= MaxRevision
      /\ nextFileId' = IF found = {} THEN nextFileId + 1 ELSE nextFileId
      /\ folders' = WithEntry(did, i, m)
      /\ IF stage \in {"started", "saved"} THEN entryFiles' = entryFiles
                                           ELSE entryFiles' = Put(entryFiles, key, m)
      /\ IF stage = "created"
         THEN /\ nextFileRuntimeId < MaxFiles
              /\ nextFileRuntimeId' = nextFileRuntimeId + 1
              /\ data' = Put(data, v.storeName, <<>>)
              /\ files' = Put(files, nextFileRuntimeId + 1,
                   [did |-> did, fileId |-> e.id, fileRevision |-> v.revision,
                    path |-> v.storeName, written |-> <<>>, mode |-> "out"])
         ELSE UNCHANGED <<nextFileRuntimeId, data, files>>
  BY DEF FileOpenOut, GetEntry
<1>5. /\ i \in 1..(Len(s) + 1)
      /\ found = {} => i \notin DOMAIN s
      /\ found # {} => i \in DOMAIN s /\ old = s[i] /\ s[i].name = name
  <2>1. CASE found = {}
    BY <1>2, <2>1
  <2>2. CASE found # {}
    BY <1>2, <2>2, FirstPosition
  <2> QED
    BY <2>1, <2>2
<1>6. /\ old \in Entry /\ Ordered(old) /\ old.name = name
      /\ found = {} => /\ old.id = nextFileId + 1 /\ DOMAIN old.versions = {}
                       /\ old.nextRevision = 0
      /\ old.nextRevision \in Nat
  <2>1. CASE found = {}
    BY <2>1, NewEntryFacts
  <2>2. CASE found # {}
    BY <1>2, <1>5, <2>2, EntryParts DEF Sound
  <2> QED
    BY <2>1, <2>2
<1> HIDE DEF i, old
<1>7. /\ e \in Entry /\ Sound(e) /\ Continues(e, old)
      /\ e.id = old.id /\ e.name = old.name
      /\ DOMAIN e.versions = DOMAIN old.versions \cup {len}
      /\ \A j \in DOMAIN old.versions : e.versions[j] = old.versions[j]
      /\ e.versions[len] = v
      /\ v.btime = clock /\ v.md5 = NoDigest
      /\ v.revision = e.nextRevision /\ v.revision \in Nat
      /\ v.storeName \in Store
      /\ v.storeName[1] = old.id /\ v.storeName[2] > old.nextRevision
      /\ v.storeName \in DOMAIN data => e.nextRevision > MaxTry
  BY <1>3, <1>6, OpenedEntryFacts
<1> HIDE DEF e, v, len
<1>8. /\ m \in Entry /\ Sound(m) /\ m.id = e.id /\ m.name = e.name
      /\ m.versions = e.versions /\ m.nextRevision = e.nextRevision
  BY <1>7, WrittenEntry
<1> HIDE DEF m
<1>9. Continues(m, old)
  BY <1>7, <1>8 DEF Continues
<1>10. Fits(did, i, m)
  BY <1>1, <1>5, <1>6, <1>7, <1>8, <1>9 DEF Fits
<1>11. EntryChanged(did, i, m)
  BY <1>4, <1>6, <1>7, <1>8 DEF EntryChanged
<1>12. Adds(did, i, m)
  BY <1>5, <1>6, <1>7, <1>8 DEF Adds
<1>13. GetsId(did, i, m)
  BY <1>4, <1>5, <1>6, <1>7, <1>8 DEF GetsId
<1>14. stage = "created" => Created(did, i, m)
  <2> SUFFICES ASSUME stage = "created" PROVE Created(did, i, m)
    OBVIOUS
  <2>1. len \in DOMAIN m.versions /\ m.versions[len] = v
    BY <1>7, <1>8
  <2>2. v.storeName[2] > 0
    BY <1>6, <1>7 DEF Store
  <2>3. i \in DOMAIN s => v.storeName[2] > s[i].nextRevision
    BY <1>5, <1>7
  <2>4. v.storeName \in DOMAIN data => MaxTry < MaxRevision
    BY <1>3, <1>4, <1>7
  <2>5. key = <<folders[did].path, m.name>>
    BY <1>6, <1>7, <1>8
  <2>6. /\ entryFiles' = Put(entryFiles, <<folders[did].path, m.name>>, m)
        /\ nextFileRuntimeId < MaxFiles
        /\ nextFileRuntimeId' = nextFileRuntimeId + 1
        /\ data' = Put(data, v.storeName, <<>>)
        /\ files' = Put(files, nextFileRuntimeId + 1,
             [did |-> did, fileId |-> m.id, fileRevision |-> v.revision,
              path |-> v.storeName, written |-> <<>>, mode |-> "out"])
    BY <1>4, <1>8, <2>5
  <2> QED
    BY <1>7, <1>8, <2>1, <2>2, <2>3, <2>4, <2>6 DEF Created
<1>15. key = <<folders[did].path, m.name>>
  BY <1>6, <1>7, <1>8
<1> QED
  BY <1>4, <1>10, <1>11, <1>12, <1>13, <1>14, <1>15 DEF Opened

\* The version that FileCloseOut finds for a handle.
LEMMA OwnerFacts ==
  ASSUME SInv, NEW did \in DOMAIN folders, NEW f, Owned(folders[did], f)
  PROVE  LET s == folders[did].entries
             i == OwnerEntry(folders[did], f)
             j == OwnerVersion(folders[did], f)
         IN /\ i \in DOMAIN s /\ s[i].id = f.fileId
            /\ j \in DOMAIN s[i].versions
            /\ s[i].versions[j].revision = f.fileRevision
<1> DEFINE s == folders[did].entries
           i == OwnerEntry(folders[did], f)
           j == OwnerVersion(folders[did], f)
<1>1. s \in Seq(Entry) /\ DOMAIN s = 1..Len(s) /\ \A l \in DOMAIN s : s[l] \in Entry
  BY MemoryEntry
<1>2. i \in WithId(folders[did], f)
  <2>1. WithId(folders[did], f) \in SUBSET Nat /\ WithId(folders[did], f) # {}
    BY <1>1 DEF WithId, Owned
  <2> QED
    BY <2>1, FirstOfLeast DEF OwnerEntry
<1>3. i \in DOMAIN s /\ s[i].id = f.fileId
  BY <1>2 DEF WithId
<1> HIDE DEF i
<1>4. j \in WithRevision(s[i], f)
  <2>1. WithRevision(s[i], f) \in SUBSET Nat /\ WithRevision(s[i], f) # {}
    BY <1>1, <1>3, EntryParts DEF WithRevision, Owned, i
  <2> QED
    BY <2>1, FirstOfLeast DEF OwnerVersion, i
<1> QED
  BY <1>3, <1>4 DEF WithRevision, i

\* The step of FileCloseOut that fills in the digest of version j of entry i.
Filled(did, f, i, j, m) ==
  /\ Fits(did, i, m) /\ folders' = WithEntry(did, i, m)
  /\ i \in DOMAIN folders[did].entries
  /\ DOMAIN m.versions = DOMAIN folders[did].entries[i].versions
  /\ j \in DOMAIN m.versions
  /\ m.id = f.fileId
  /\ m.versions[j].revision = f.fileRevision
  /\ m.versions[j].storeName = folders[did].entries[i].versions[j].storeName
  /\ m.versions[j].md5 = f.written
  /\ \A l \in DOMAIN m.versions : l # j =>
       m.versions[l] = folders[did].entries[i].versions[l]

\* An entry whose digest is filled in fits in its place.
LEMMA DigestSet ==
  ASSUME SInv, NEW did \in DOMAIN folders, NEW f \in File, Owned(folders[did], f),
         NEW i, i = OwnerEntry(folders[did], f),
         NEW j, j = OwnerVersion(folders[did], f),
         folders' = WithEntry(did, i, WithDigest(folders[did].entries[i], j, f.written))
  PROVE  Filled(did, f, i, j, WithDigest(folders[did].entries[i], j, f.written))
<1> DEFINE s == folders[did].entries
           e == s[i]
           m == WithDigest(s[i], j, f.written)
<1>1. /\ i \in DOMAIN s /\ e.id = f.fileId
      /\ j \in DOMAIN e.versions
      /\ e.versions[j].revision = f.fileRevision
  BY OwnerFacts
<1>2. /\ s \in Seq(Entry) /\ DOMAIN s = 1..Len(s) /\ Len(s) \in Nat
      /\ e \in Entry /\ Sound(e)
  BY <1>1, MemoryEntry
<1>3. f.written \in Digest
  BY DEF File, Digest
<1>4. /\ m \in Entry /\ Sound(m) /\ Continues(m, e)
      /\ m.id = e.id /\ m.name = e.name
      /\ DOMAIN m.versions = DOMAIN e.versions
      /\ m.versions[j].md5 = f.written /\ SameVersion(m.versions[j], e.versions[j])
      /\ \A l \in DOMAIN e.versions : l # j => m.versions[l] = e.versions[l]
  BY <1>1, <1>2, <1>3, WithDigestFacts
<1>5. i \in 1..(Len(s) + 1)
  BY <1>1, <1>2
<1> HIDE DEF m
<1>6. Fits(did, i, m)
  BY <1>1, <1>2, <1>4, <1>5 DEF Fits
<1> QED
  BY <1>1, <1>4, <1>6 DEF Filled, SameVersion, m

\* FileCloseOut fills in the digest of a version, or changes no entry.
LEMMA FileCloseOutChange ==
  ASSUME SInv, NEW fid, NEW flushed \in BOOLEAN, FileCloseOut(fid, flushed)
  PROVE  LET f == files[fid]
         IN /\ fid \in DOMAIN files /\ f \in File /\ f.mode = "out"
            /\ IF flushed THEN data' = [data EXCEPT ![f.path] = f.written]
                          ELSE data' = data
            /\ \/ files' = Without(files, fid)
               \/ files' = [files EXCEPT ![fid].mode = "closed"]
            /\ \/ folders' = folders
               \/ /\ flushed
                  /\ files' = Without(files, fid)
                  /\ f.did \in DOMAIN folders
                  /\ \E i, j, m : Filled(f.did, f, i, j, m)
<1> DEFINE f == files[fid]
           i == OwnerEntry(folders[f.did], f)
           j == OwnerVersion(folders[f.did], f)
           m == WithDigest(folders[f.did].entries[i], j, f.written)
<1>1. fid \in DOMAIN files /\ f \in File /\ f.mode = "out"
  BY DEF FileCloseOut, SInv, TypeOK
<1>2. \/ /\ ~flushed
         /\ files' = [files EXCEPT ![fid].mode = "closed"]
         /\ data' = data /\ folders' = folders
      \/ /\ flushed
         /\ data' = [data EXCEPT ![f.path] = f.written]
         /\ \/ /\ f.did \notin DOMAIN folders
               /\ files' = Without(files, fid)
               /\ folders' = folders
            \/ /\ f.did \in DOMAIN folders
               /\ Owned(folders[f.did], f)
               /\ folders' = WithEntry(f.did, i, m)
               /\ files' = Without(files, fid)
            \/ /\ f.did \in DOMAIN folders
               /\ ~Owned(folders[f.did], f)
               /\ files' = [files EXCEPT ![fid].mode = "closed"]
               /\ folders' = folders
  BY DEF FileCloseOut
<1>3. ASSUME f.did \in DOMAIN folders, Owned(folders[f.did], f),
             folders' = WithEntry(f.did, i, m)
      PROVE  Filled(f.did, f, i, j, m)
  <2> HIDE DEF f
  <2>1. i = OwnerEntry(folders[f.did], f) /\ j = OwnerVersion(folders[f.did], f)
    OBVIOUS
  <2> HIDE DEF i, j
  <2> QED
    BY <1>1, <1>3, <2>1, DigestSet
<1> HIDE DEF i, j, m
<1> QED
  BY <1>1, <1>2, <1>3

-----------------------------------------------------------------------------
(* Types hold.                                                             *)

\* A change of one entry that leaves the handles alone.
LEMMA SetEntrySound ==
  ASSUME SInv, NEW did, NEW name \in Names, NEW deleteIt \in BOOLEAN,
         NEW keepDigest \in BOOLEAN, NEW ok \in BOOLEAN,
         SetEntry(did, name, deleteIt, keepDigest, ok)
  PROVE  SInv'
<1>1. PICK i, m : Fits(did, i, m) /\ EntryChanged(did, i, m) /\ GetsId(did, i, m)
  BY SetEntryChange
<1>2. /\ folders' \in [DOMAIN folders' -> Folder]
      /\ DOMAIN folders' = DOMAIN folders
      /\ entryFiles' \in [DOMAIN entryFiles' -> Entry]
      /\ DOMAIN entryFiles' \subseteq Keys
      /\ MemoryIsSound' /\ DiskIsSound'
  BY <1>1, ChangeIsSound DEF SetEntry, world
<1>3. UNCHANGED <<attached, loaded, nextFolderId, nextFileRuntimeId, files,
                  savedFileId, data, world>>
  BY DEF SetEntry
<1>4. CounterTypes'
  BY <1>1, <1>3, Bounds, SoundTypes DEF GetsId, world, CounterTypes
<1>5. FlagTypes' /\ FolderTypes' /\ FileTypes' /\ DiskTypes'
  BY <1>2, <1>3, SoundTypes
  DEF world, FlagTypes, FolderTypes, FileTypes, DiskTypes, Keys
<1>6. NothingUnloaded' /\ HandleHasFolder'
  BY <1>2, <1>3 DEF SInv, NothingUnloaded, HandleHasFolder
<1> QED
  BY <1>2, <1>4, <1>5, <1>6, TypeParts DEF SInv

\* Handle f is one of a version of entry m that has no digest.
IsHandleOf(f, m) ==
  \E j \in DOMAIN m.versions : /\ m.versions[j].storeName = f.path
                              /\ m.versions[j].revision = f.fileRevision
                              /\ m.versions[j].md5 = NoDigest

\* What the creation of a data file does to the handles and the data files.
LEMMA CreatedFacts ==
  ASSUME SInv, NEW did, NEW i, NEW m, Fits(did, i, m), Created(did, i, m)
  PROVE  LET h == nextFileRuntimeId + 1
             f == files'[h]
         IN /\ nextFileRuntimeId \in Nat
            /\ nextFileRuntimeId' = h /\ h \in 0..MaxFiles
            /\ h \notin DOMAIN files /\ DOMAIN files' = DOMAIN files \cup {h}
            /\ files' \in [DOMAIN files' -> File]
            /\ \A g \in DOMAIN files : files'[g] = files[g]
            /\ f.did = did /\ f.fileId = m.id /\ f.mode = "out"
            /\ f.path \in Store /\ f.path[1] = m.id /\ f.path[2] > 0
            /\ i \in DOMAIN folders[did].entries =>
                 f.path[2] > folders[did].entries[i].nextRevision
            /\ f.path \in DOMAIN data => MaxTry < MaxRevision
            /\ IsHandleOf(f, m)
            /\ DOMAIN data' = DOMAIN data \cup {f.path}
            /\ data' \in [DOMAIN data' -> Content]
            /\ data'[f.path] = <<>>
            /\ \A p \in DOMAIN data : p # f.path => data'[p] = data[p]
            /\ entryFiles' = Put(entryFiles, <<folders[did].path, m.name>>, m)
<1> DEFINE h == nextFileRuntimeId + 1
<1>1. PICK j \in DOMAIN m.versions :
        LET p == m.versions[j].storeName
        IN /\ entryFiles' = Put(entryFiles, <<folders[did].path, m.name>>, m)
           /\ data' = Put(data, p, <<>>)
           /\ nextFileRuntimeId < MaxFiles
           /\ nextFileRuntimeId' = nextFileRuntimeId + 1
           /\ files' = Put(files, nextFileRuntimeId + 1,
                           [did |-> did, fileId |-> m.id,
                            fileRevision |-> m.versions[j].revision, path |-> p,
                            written |-> <<>>, mode |-> "out"])
           /\ m.versions[j].md5 = NoDigest
           /\ p \in Store /\ p[1] = m.id /\ p[2] > 0
           /\ i \in DOMAIN folders[did].entries =>
                p[2] > folders[did].entries[i].nextRevision
           /\ p \in DOMAIN data => MaxTry < MaxRevision
  BY DEF Created
<1> DEFINE p == m.versions[j].storeName
           f == [did |-> did, fileId |-> m.id,
                 fileRevision |-> m.versions[j].revision, path |-> p,
                 written |-> <<>>, mode |-> "out"]
<1>2. nextFileRuntimeId \in Nat /\ h \in 0..MaxFiles /\ h \notin DOMAIN files
  <2>1. nextFileRuntimeId \in 0..MaxFiles /\ DOMAIN files \subseteq 1..nextFileRuntimeId
    BY SoundTypes DEF CounterTypes, FileTypes
  <2> QED
    BY <1>1, <2>1, Bounds
<1>3. f \in File
  <2>1. <<>> \in Content
    BY BoundsAssumption DEF Content
  <2>2. m.id \in Nat /\ m.versions[j].revision \in Nat /\ p \in Store
    BY <1>1, EntryParts DEF Fits
  <2>3. did \in Nat
    BY DEF Fits, SInv, TypeOK
  <2> QED
    BY <2>1, <2>2, <2>3 DEF File
<1>4. /\ files' = Put(files, h, f) /\ data' = Put(data, p, <<>>)
      /\ f.did = did /\ f.fileId = m.id /\ f.mode = "out" /\ f.path = p
      /\ m.versions[j].revision = f.fileRevision
  BY <1>1
<1> HIDE DEF f, p, h
<1>5. /\ DOMAIN files' = DOMAIN files \cup {h}
      /\ files' \in [DOMAIN files' -> File]
      /\ \A g \in DOMAIN files : files'[g] = files[g]
      /\ files'[h] = f
  BY <1>2, <1>3, <1>4 DEF Put, SInv, TypeOK
<1>6. /\ DOMAIN data' = DOMAIN data \cup {p}
      /\ data' \in [DOMAIN data' -> Content]
      /\ data'[p] = <<>>
      /\ \A q \in DOMAIN data : q # p => data'[q] = data[q]
  <2>1. <<>> \in Content
    BY BoundsAssumption DEF Content
  <2> QED
    BY <1>4, <2>1 DEF Put, SInv, TypeOK
<1>7. IsHandleOf(f, m)
  BY <1>1, <1>4 DEF IsHandleOf, p
<1> QED
  BY <1>1, <1>2, <1>4, <1>5, <1>6, <1>7 DEF h, p

\* Opening a file to write keeps types and soundness.
LEMMA FileOpenOutSound ==
  ASSUME SInv, NEW did, NEW name \in Names, NEW stage, FileOpenOut(did, name, stage)
  PROVE  SInv'
<1>1. PICK i, m :
        /\ Fits(did, i, m) /\ EntryChanged(did, i, m)
        /\ GetsId(did, i, m)
        /\ IF stage = "created" THEN Created(did, i, m)
           ELSE nextFileRuntimeId' = nextFileRuntimeId /\ data' = data /\ files' = files
  <2>1. \E i, m : Opened(did, stage, i, m)
    BY FileOpenOutChange
  <2> QED
    BY <2>1 DEF Opened
<1>2. /\ folders' \in [DOMAIN folders' -> Folder]
      /\ DOMAIN folders' = DOMAIN folders
      /\ entryFiles' \in [DOMAIN entryFiles' -> Entry]
      /\ DOMAIN entryFiles' \subseteq Keys
      /\ MemoryIsSound' /\ DiskIsSound'
  BY <1>1, ChangeIsSound DEF FileOpenOut, world
<1>3. /\ UNCHANGED <<attached, loaded, nextFolderId, world>>
      /\ savedFileId' = savedFileId \/ savedFileId' = nextFileId'
  BY DEF FileOpenOut
<1>4. nextFileId' \in 0..MaxFileId
  BY <1>1, Bounds, SoundTypes DEF GetsId, CounterTypes
<1>5. /\ nextFileRuntimeId' \in 0..MaxFiles
      /\ FileTypes'
      /\ data' \in [DOMAIN data' -> Content] /\ DOMAIN data' \subseteq Store
      /\ \A h \in DOMAIN files' : files'[h].did <= nextFolderId
  <2>1. CASE stage = "created"
    <3>1. /\ nextFileRuntimeId' \in 0..MaxFiles
          /\ data' \in [DOMAIN data' -> Content] /\ DOMAIN data' \subseteq Store
          /\ files' \in [DOMAIN files' -> File]
      BY <1>1, <2>1, CreatedFacts, SoundTypes DEF DiskTypes
    <3> DEFINE h == nextFileRuntimeId + 1
    <3>2. /\ nextFileRuntimeId \in Nat /\ nextFileRuntimeId' = h
          /\ DOMAIN files' = DOMAIN files \cup {h}
          /\ \A g \in DOMAIN files : files'[g] = files[g]
          /\ files'[h].did = did
      BY <1>1, <2>1, CreatedFacts
    <3>3. DOMAIN files' \subseteq 1..nextFileRuntimeId'
      BY <3>2, SoundTypes DEF FileTypes
    <3> HIDE DEF h
    <3>5. did <= nextFolderId
      BY <1>1 DEF Fits, SInv, TypeOK
    <3>4. \A g \in DOMAIN files' : files'[g].did <= nextFolderId
      BY <3>2, <3>5 DEF SInv, HandleHasFolder
    <3> QED
      BY <3>1, <3>3, <3>4 DEF FileTypes
  <2>2. CASE stage # "created"
    BY <1>1, <2>2, SoundTypes DEF CounterTypes, FileTypes, DiskTypes, SInv, HandleHasFolder
  <2> QED
    BY <2>1, <2>2
<1>6. CounterTypes'
  BY <1>3, <1>4, <1>5, SoundTypes DEF world, CounterTypes
<1>7. FlagTypes' /\ FolderTypes' /\ DiskTypes'
  BY <1>2, <1>3, <1>5, SoundTypes
  DEF world, FlagTypes, FolderTypes, DiskTypes, Keys
<1>8. loaded
  BY DEF FileOpenOut, MayChange, SInv, NothingUnloaded
<1>9. NothingUnloaded' /\ HandleHasFolder'
  BY <1>3, <1>5, <1>8 DEF SInv, NothingUnloaded, HandleHasFolder
<1> QED
  BY <1>2, <1>5, <1>6, <1>7, <1>9, TypeParts DEF SInv

\* Closing a handle that writes keeps types and soundness.
LEMMA FileCloseOutSound ==
  ASSUME SInv, NEW fid, NEW flushed \in BOOLEAN, FileCloseOut(fid, flushed)
  PROVE  SInv'
<1> DEFINE f == files[fid]
<1>1. /\ fid \in DOMAIN files /\ f \in File
      /\ data' = [data EXCEPT ![f.path] = f.written] \/ data' = data
      /\ \/ files' = Without(files, fid)
         \/ files' = [files EXCEPT ![fid].mode = "closed"]
      /\ folders' = folders \/ \E i, j, m : Filled(f.did, f, i, j, m)
  BY FileCloseOutChange
<1>2. UNCHANGED <<attached, loaded, nextFileId, nextFolderId, nextFileRuntimeId,
                  savedFileId, entryFiles, world>>
  BY DEF FileCloseOut
<1>3. /\ folders' \in [DOMAIN folders' -> Folder]
      /\ DOMAIN folders' = DOMAIN folders
      /\ MemoryIsSound' /\ DiskIsSound'
  <2>1. CASE folders' = folders
    BY <1>2, <2>1, DiskStays, MemoryStays DEF world, SInv, TypeOK
  <2>2. CASE \E i, j, m : Filled(f.did, f, i, j, m)
    <3>1. PICK i, j, m : Filled(f.did, f, i, j, m)
      BY <2>2
    <3>2. Fits(f.did, i, m) /\ EntryChanged(f.did, i, m)
      BY <1>2, <3>1 DEF Filled, EntryChanged
    <3> QED
      BY <1>2, <3>2, ChangeIsSound DEF world
  <2> QED
    BY <1>1, <2>1, <2>2
<1>4. /\ files' \in [DOMAIN files' -> File]
      /\ DOMAIN files' \subseteq DOMAIN files
      /\ \A h \in DOMAIN files' : files'[h].did = files[h].did
  <2>1. CASE files' = Without(files, fid)
    BY <2>1 DEF Without, SInv, TypeOK
  <2>2. CASE files' = [files EXCEPT ![fid].mode = "closed"]
    <3>1. files' = [files EXCEPT ![fid] = [f EXCEPT !.mode = "closed"]]
      BY <2>2
    <3>2. [f EXCEPT !.mode = "closed"] \in File /\ [f EXCEPT !.mode = "closed"].did = f.did
      BY <1>1 DEF File
    <3> QED
      BY <1>1, <3>1, <3>2 DEF SInv, TypeOK
  <2> QED
    BY <1>1, <2>1, <2>2
<1>5. data' \in [DOMAIN data' -> Content] /\ DOMAIN data' = DOMAIN data
  BY <1>1 DEF SInv, TypeOK, File
<1>6. FlagTypes' /\ CounterTypes' /\ FolderTypes' /\ FileTypes' /\ DiskTypes'
  BY <1>2, <1>3, <1>4, <1>5, SoundTypes
  DEF world, FlagTypes, CounterTypes, FolderTypes, FileTypes, DiskTypes, Keys
<1>7. NothingUnloaded' /\ HandleHasFolder'
  BY <1>2, <1>3, <1>4 DEF SInv, NothingUnloaded, HandleHasFolder
<1> QED
  BY <1>3, <1>6, <1>7, TypeParts DEF SInv

\* Every step keeps types and soundness.
LEMMA NextSound == ASSUME SInv, [Next]_vars PROVE SInv'
<1>1. CASE OpenRepository
  BY <1>1, OpenRepositorySound
<1>2. CASE \E forgotten \in BOOLEAN : CloseRepository(forgotten)
  BY <1>2, CloseRepositorySound
<1>3. CASE \E path \in Paths : OpenDir(path)
  BY <1>3, OpenDirSound
<1>4. ASSUME NEW did \in 1..MaxFolders, NEW failed, CloseDir(did, failed)
      PROVE  SInv'
  BY <1>4, CloseDirSound
<1>5. ASSUME NEW did \in 1..MaxFolders, GetEntries(did) PROVE SInv'
  BY <1>5, GetEntriesSound
<1>6. ASSUME NEW did \in 1..MaxFolders, NEW name \in Names,
             \E deleteIt, keepDigest \in BOOLEAN,
                ok \in IF Failures THEN BOOLEAN ELSE {TRUE} :
               SetEntry(did, name, deleteIt, keepDigest, ok)
      PROVE  SInv'
  BY <1>6, SetEntrySound
<1>7. ASSUME NEW did \in 1..MaxFolders, NEW name \in Names, NEW stage,
             FileOpenOut(did, name, stage)
      PROVE  SInv'
  BY <1>7, FileOpenOutSound
<1>8. ASSUME NEW did \in 1..MaxFolders, NEW name \in Names, NEW when \in 0..MaxClock,
             FileOpenIn(did, name, when)
      PROVE  SInv'
  BY <1>8, FileOpenInSound, BoundsAssumption
<1>9. ASSUME NEW fid \in 1..MaxFiles,
             \E chunk \in Chunks, flushed \in BOOLEAN : FileWrite(fid, chunk, flushed)
      PROVE  SInv'
  BY <1>9, FileWriteSound
<1>10. ASSUME NEW fid \in 1..MaxFiles,
              \E flushed \in IF Failures THEN BOOLEAN ELSE {TRUE} : FileCloseOut(fid, flushed)
       PROVE  SInv'
  BY <1>10, FileCloseOutSound
<1>11. ASSUME NEW fid \in 1..MaxFiles, FileCloseIn(fid) PROVE SInv'
  BY <1>11, FileCloseInSound
<1>12. CASE Restart
  BY <1>12, RestartSound
<1>13. CASE Tick
  BY <1>13, TickSound
<1>14. CASE UNCHANGED vars
  BY <1>14 DEF vars, memory, disk, world, SInv, TypeOK, MemoryIsSound, DiskIsSound,
     NothingUnloaded, HandleHasFolder, Sound, Ordered, Keys
<1> QED
  BY <1>1, <1>2, <1>3, <1>4, <1>5, <1>6, <1>7, <1>8, <1>9, <1>10, <1>11, <1>12,
     <1>13, <1>14 DEF Next

\* Types and the soundness of entries hold, whatever the client does.
LEMMA SInvHolds == Spec => []SInv
<1>1. SInv /\ [Next]_vars => SInv'
  BY NextSound
<1> QED
  BY <1>1, InitSound, PTL DEF Spec

\* Every variable has its type, and with it ids and revisions stay below their
\* counters, whatever the client calls, whatever fails and whenever the process
\* ends.
THEOREM TypeCorrect == Spec => []TypeOK
<1>1. SInv => TypeOK
  BY DEF SInv
<1> QED
  BY <1>1, SInvHolds, PTL

-----------------------------------------------------------------------------
(* The history of an entry, of a client that behaves like HandleDir and    *)
(* StoreDir.                                                               *)

\* Entry files that a step leaves alone go on.
LEMMA SameHistory == ASSUME SInv, entryFiles' = entryFiles PROVE HistoryGoesOn
BY ContinuesItself DEF HistoryGoesOn, SInv, TypeOK

\* Data files stay listed when no new one is created.
LEMMA DataListedStays ==
  ASSUME DataIsListed, HistoryGoesOn, DOMAIN data' \subseteq DOMAIN data
  PROVE  DataIsListed'
BY DEF DataIsListed, HistoryGoesOn, Continues, SameVersion

\* A handle of an open data file stays listed.
HandleStays(g, h) ==
  /\ files'[h].mode = "out" => files[g].mode = "out"
  /\ files'[h].did = files[g].did /\ files'[h].path = files[g].path
  /\ files'[h].fileId = files[g].fileId
  /\ files'[h].fileRevision = files[g].fileRevision

\* A handle that writes stays listed when the entry files go on and the folders that
\* stay open keep their path and are not unlisted.
LEMMA HandleListedStays ==
  ASSUME HandleIsListed, HistoryGoesOn, DOMAIN data \subseteq DOMAIN data',
         NEW g \in DOMAIN files, NEW h \in DOMAIN files', HandleStays(g, h),
         files'[h].mode = "out",
         files[g].did \in DOMAIN folders' =>
           /\ files[g].did \in DOMAIN folders
           /\ folders'[files[g].did].path = folders[files[g].did].path
           /\ folders[files[g].did].listed => folders'[files[g].did].listed
  PROVE  ListedHandle(h)'
<1> DEFINE f == files[g]
<1>1. /\ files'[h].did = f.did /\ files'[h].path = f.path
      /\ files'[h].fileId = f.fileId /\ files'[h].fileRevision = f.fileRevision
      /\ f.mode = "out"
  BY DEF HandleStays
<1>2. PICK k \in DOMAIN entryFiles :
        /\ entryFiles[k].id = f.fileId
        /\ \E i \in DOMAIN entryFiles[k].versions :
             /\ entryFiles[k].versions[i].revision = f.fileRevision
             /\ entryFiles[k].versions[i].storeName = f.path
        /\ f.did \in DOMAIN folders =>
             folders[f.did].listed /\ folders[f.did].path = k[1]
  BY <1>1 DEF HandleIsListed, ListedHandle
<1>3. PICK i \in DOMAIN entryFiles[k].versions :
        /\ entryFiles[k].versions[i].revision = f.fileRevision
        /\ entryFiles[k].versions[i].storeName = f.path
  BY <1>2
<1>4. k \in DOMAIN entryFiles' /\ Continues(entryFiles'[k], entryFiles[k])
  BY <1>2 DEF HistoryGoesOn
<1>5. f.path \in DOMAIN data'
  BY <1>1 DEF HandleIsListed, ListedHandle
<1>6. /\ entryFiles'[k].id = f.fileId
      /\ i \in DOMAIN entryFiles'[k].versions
      /\ entryFiles'[k].versions[i].revision = f.fileRevision
      /\ entryFiles'[k].versions[i].storeName = f.path
  BY <1>2, <1>3, <1>4 DEF Continues, SameVersion
<1> QED
  BY <1>1, <1>2, <1>4, <1>5, <1>6 DEF ListedHandle

\* A step that changes no entry.
LEMMA KeptStays ==
  ASSUME SInv, Kept, UNCHANGED <<folders, entryFiles>>, DOMAIN data' = DOMAIN data,
         \A h \in DOMAIN files' :
           files'[h].mode = "out" => \E g \in DOMAIN files : HandleStays(g, h)
  PROVE  Kept' /\ HistoryGoesOn
<1>1. HistoryGoesOn
  BY SameHistory
<1>2. DataIsListed'
  BY <1>1, DataListedStays DEF Kept
<1>3. HandleIsListed'
  <2> SUFFICES ASSUME NEW h \in DOMAIN files', files'[h].mode = "out"
               PROVE  ListedHandle(h)'
    BY DEF HandleIsListed
  <2>1. PICK g \in DOMAIN files : HandleStays(g, h)
    OBVIOUS
  <2> QED
    BY <1>1, <2>1, HandleListedStays DEF Kept
<1>4. OpenOnce' /\ NamedOnce' /\ ListedIsComplete' /\ MemoryContinuesDisk'
  BY DEF Kept, OpenOnce, NamedOnce, ListedIsComplete, MemoryContinuesDisk
<1> QED
  BY <1>1, <1>2, <1>3, <1>4 DEF Kept

\* An empty repository relates memory and disk as it should.
LEMMA InitKept == Init => Kept
BY DEF Init, Empty, Kept, OpenOnce, NamedOnce, ListedIsComplete, MemoryContinuesDisk,
   DataIsListed, HandleIsListed

\* A step that forgets the memory.
LEMMA ForgetKept ==
  ASSUME SInv, Kept, Forget, UNCHANGED <<entryFiles, data>>
  PROVE  Kept' /\ HistoryGoesOn
<1>1. DOMAIN folders' = {} /\ DOMAIN files' = {}
  BY DEF Forget, Empty
<1>2. HistoryGoesOn
  BY SameHistory
<1> QED
  BY <1>1, <1>2, DataListedStays
  DEF Kept, OpenOnce, NamedOnce, ListedIsComplete, MemoryContinuesDisk, HandleIsListed

\* The actions that change no entry.
LEMMA QuietKept ==
  ASSUME SInv, Kept,
         \/ OpenRepository \/ Restart \/ Tick
         \/ \E forgotten \in BOOLEAN : CloseRepository(forgotten)
         \/ \E fid : FileCloseIn(fid)
         \/ \E fid, chunk, flushed : FileWrite(fid, chunk, flushed)
         \/ \E did, name, when : FileOpenIn(did, name, when)
  PROVE  Kept' /\ HistoryGoesOn
<1>1. CASE OpenRepository \/ Tick
  BY <1>1, KeptStays DEF OpenRepository, Tick, memory, disk, HandleStays
<1>2. CASE Restart
  BY <1>2, ForgetKept DEF Restart, disk
<1>3. ASSUME NEW forgotten \in BOOLEAN, CloseRepository(forgotten)
      PROVE  Kept' /\ HistoryGoesOn
  <2>1. CASE forgotten
    BY <1>3, <2>1, ForgetKept DEF CloseRepository
  <2>2. CASE ~forgotten
    BY <1>3, <2>2, KeptStays DEF CloseRepository, memory, HandleStays
  <2> QED
    BY <2>1, <2>2
<1>4. ASSUME NEW fid, FileCloseIn(fid)
      PROVE  Kept' /\ HistoryGoesOn
  <2>1. \A h \in DOMAIN files' : h \in DOMAIN files /\ HandleStays(h, h)
    BY <1>4 DEF FileCloseIn, Without, HandleStays
  <2> QED
    BY <1>4, <2>1, KeptStays DEF FileCloseIn, disk
<1>5. ASSUME NEW fid, NEW chunk, NEW flushed, FileWrite(fid, chunk, flushed)
      PROVE  Kept' /\ HistoryGoesOn
  <2>1. /\ fid \in DOMAIN files /\ files[fid] \in File
        /\ files' = [files EXCEPT ![fid] =
                       [files[fid] EXCEPT !.written = Append(@, chunk)]]
    BY <1>5 DEF FileWrite, SInv, TypeOK
  <2>2. \A h \in DOMAIN files' : h \in DOMAIN files /\ HandleStays(h, h)
    BY <2>1 DEF HandleStays, File
  <2>3. DOMAIN data' = DOMAIN data
    BY <1>5 DEF FileWrite
  <2> QED
    BY <1>5, <2>2, <2>3, KeptStays DEF FileWrite
<1>6. ASSUME NEW did, NEW name, NEW when, FileOpenIn(did, name, when)
      PROVE  Kept' /\ HistoryGoesOn
  <2> DEFINE h == nextFileRuntimeId + 1
  <2>1. /\ DOMAIN files' = DOMAIN files \cup {h}
        /\ \A g \in DOMAIN files : g # h => files'[g] = files[g]
        /\ files'[h].mode = "in"
    BY <1>6 DEF FileOpenIn, Put
  <2> HIDE DEF h
  <2>2. \A g \in DOMAIN files' :
          files'[g].mode = "out" => g \in DOMAIN files /\ HandleStays(g, g)
    BY <2>1 DEF HandleStays
  <2> QED
    BY <1>6, <2>2, KeptStays DEF FileOpenIn, disk
<1> QED
  BY <1>1, <1>2, <1>3, <1>4, <1>5, <1>6

\* A directory that is opened is open once, and not listed.
LEMMA OpenDirKept ==
  ASSUME SInv, Kept, Careful, NEW path \in Paths, OpenDir(path)
  PROVE  Kept' /\ HistoryGoesOn
<1> DEFINE n == nextFolderId + 1
<1>1. /\ n \notin DOMAIN folders
      /\ \A h \in DOMAIN files : files[h].did # n
  <2>1. nextFolderId \in Nat /\ DOMAIN folders \subseteq 1..nextFolderId
    BY Bounds, SoundTypes DEF CounterTypes, FolderTypes
  <2>2. \A h \in DOMAIN files : files[h].did \in Nat /\ files[h].did <= nextFolderId
    BY DEF SInv, TypeOK, File, HandleHasFolder
  <2> QED
    BY <2>1, <2>2
<1>2. /\ DOMAIN folders' = DOMAIN folders \cup {n}
      /\ \A d \in DOMAIN folders : folders'[d] = folders[d]
      /\ folders'[n].path = path /\ folders'[n].entries = <<>>
      /\ ~folders'[n].listed
  BY <1>1 DEF OpenDir, Put
<1> HIDE DEF n
<1>3. /\ \A d \in DOMAIN folders : folders[d].path # path
      /\ UNCHANGED <<files, entryFiles, data>>
  BY DEF OpenDir, disk
<1>4. HistoryGoesOn
  BY <1>3, SameHistory
<1>5. DataIsListed'
  BY <1>3, <1>4, DataListedStays DEF Kept
<1>6. OpenOnce' /\ NamedOnce' /\ ListedIsComplete' /\ MemoryContinuesDisk'
  BY <1>2, <1>3, SMTT(30)
  DEF Kept, OpenOnce, NamedOnce, ListedIsComplete, MemoryContinuesDisk
<1>7. HandleIsListed'
  <2> SUFFICES ASSUME NEW h \in DOMAIN files', files'[h].mode = "out"
               PROVE  ListedHandle(h)'
    BY DEF HandleIsListed
  <2>1. HandleStays(h, h) /\ h \in DOMAIN files
    BY <1>3 DEF HandleStays
  <2>2. files[h].did \in DOMAIN folders' =>
          files[h].did \in DOMAIN folders /\ folders'[files[h].did] = folders[files[h].did]
    BY <1>1, <1>2, <1>3
  <2> QED
    BY <1>3, <1>4, <2>1, <2>2, HandleListedStays DEF Kept
<1> QED
  BY <1>4, <1>5, <1>6, <1>7 DEF Kept

\* What CloseDir writes continues the entry files; no other entry is changed.
LEMMA CloseDirKept ==
  ASSUME SInv, Kept, NEW did, NEW failed, CloseDir(did, failed)
  PROVE  Kept' /\ HistoryGoesOn
<1> DEFINE path == folders[did].path
<1>1. /\ did \in DOMAIN folders
      /\ DOMAIN folders' = DOMAIN folders \ {did}
      /\ \A d \in DOMAIN folders' : folders'[d] = folders[d] /\ folders[d].path # path
      /\ files' = files /\ data' = data
  BY CloseDirFacts DEF Without, CloseDir, Kept, OpenOnce
<1>2. /\ DOMAIN entryFiles \subseteq DOMAIN entryFiles'
      /\ \A k \in DOMAIN entryFiles' :
           k[1] # path => k \in DOMAIN entryFiles /\ entryFiles'[k] = entryFiles[k]
  BY CloseDirFacts
<1>3. HistoryGoesOn
  <2> SUFFICES ASSUME NEW k \in DOMAIN entryFiles
               PROVE  k \in DOMAIN entryFiles' /\ Continues(entryFiles'[k], entryFiles[k])
    BY DEF HistoryGoesOn
  <2>1. k \in DOMAIN entryFiles'
    BY <1>2
  <2>2. CASE entryFiles'[k] = entryFiles[k]
    BY <2>1, <2>2, ContinuesItself DEF SInv, TypeOK
  <2>3. ASSUME NEW i \in DOMAIN folders[did].entries,
               k = <<path, k[2]>>, folders[did].entries[i].name = k[2],
               entryFiles'[k] = Written(folders[did].entries[i])
        PROVE  Continues(entryFiles'[k], entryFiles[k])
    <3> DEFINE e == folders[did].entries[i]
    <3>1. e \in Entry /\ Sound(e)
      BY <1>1, MemoryEntry
    <3>2. Continues(e, entryFiles[k])
      BY <1>1, <2>3 DEF Kept, MemoryContinuesDisk
    <3> HIDE DEF e
    <3>3. entryFiles'[k] = Written(e)
      BY <2>3 DEF e
    <3> QED
      BY <3>1, <3>2, <3>3, WrittenEntry DEF Continues
  <2> QED
    BY <2>1, <2>2, <2>3, CloseDirFacts
<1>4. DataIsListed'
  BY <1>1, <1>3, DataListedStays DEF Kept
<1>5. OpenOnce' /\ NamedOnce'
  BY <1>1 DEF Kept, OpenOnce, NamedOnce
<1>6. ListedIsComplete'
  <2> SUFFICES ASSUME NEW d \in DOMAIN folders', folders[d].listed, NEW n \in Names,
                      <<folders[d].path, n>> \in DOMAIN entryFiles'
               PROVE  Positions(folders[d].entries, n) # {}
    BY <1>1 DEF Kept, ListedIsComplete
  <2>1. <<folders[d].path, n>> \in DOMAIN entryFiles
    BY <1>1, <1>2
  <2> QED
    BY <1>1, <2>1 DEF Kept, ListedIsComplete
<1>7. MemoryContinuesDisk'
  BY <1>1, <1>2 DEF Kept, MemoryContinuesDisk
<1>8. HandleIsListed'
  <2> SUFFICES ASSUME NEW h \in DOMAIN files', files'[h].mode = "out"
               PROVE  ListedHandle(h)'
    BY DEF HandleIsListed
  <2>1. HandleStays(h, h) /\ h \in DOMAIN files
    BY <1>1 DEF HandleStays
  <2> QED
    BY <1>1, <1>3, <2>1, HandleListedStays DEF Kept
<1> QED
  BY <1>3, <1>4, <1>5, <1>6, <1>7, <1>8 DEF Kept

\* GetEntries leaves a folder complete, with the entries of the disk.
LEMMA GetEntriesKept ==
  ASSUME SInv, Kept, NEW did, GetEntries(did)
  PROVE  Kept' /\ HistoryGoesOn
<1> DEFINE path == folders[did].path
           s == folders[did].entries
           t == folders'[did].entries
<1>1. /\ did \in DOMAIN folders
      /\ DOMAIN folders' = DOMAIN folders
      /\ \A d \in DOMAIN folders \ {did} : folders'[d] = folders[d]
      /\ folders'[did].path = path
      /\ folders'[did].listed
      /\ DOMAIN s \subseteq DOMAIN t
      /\ \A j \in DOMAIN s : t[j] = s[j]
      /\ \A j \in DOMAIN t \ DOMAIN s :
           /\ <<path, t[j].name>> \in DOMAIN entryFiles
           /\ t[j] = entryFiles[<<path, t[j].name>>]
           /\ Positions(s, t[j].name) = {}
      /\ \A j, l \in DOMAIN t \ DOMAIN s : t[j].name = t[l].name => j = l
      /\ \A n \in Names : <<path, n>> \in DOMAIN entryFiles => Positions(t, n) # {}
  BY GetEntriesFacts
<1>2. entryFiles' = entryFiles /\ data' = data /\ files' = files
  BY DEF GetEntries, disk
<1>3. HistoryGoesOn
  BY <1>2, SameHistory
<1>4. DataIsListed'
  BY <1>2, <1>3, DataListedStays DEF Kept
<1>5. OpenOnce'
  BY <1>1 DEF Kept, OpenOnce
<1>6. NamedOnce'
  <2>1. ASSUME NEW j \in DOMAIN t, NEW l \in DOMAIN t, t[j].name = t[l].name
        PROVE  j = l
    <3>1. CASE j \in DOMAIN s /\ l \in DOMAIN s
      BY <1>1, <2>1, <3>1 DEF Kept, NamedOnce
    <3>0. ASSUME NEW a \in DOMAIN s, NEW b \in DOMAIN t \ DOMAIN s,
                 t[a].name = t[b].name
          PROVE  FALSE
      <4>1. Positions(s, t[b].name) = {} /\ s[a].name = t[b].name
        BY <1>1, <3>0
      <4> HIDE DEF s, t
      <4>2. a \in Positions(s, t[b].name)
        BY <3>0, <4>1 DEF Positions
      <4> QED
        BY <4>1, <4>2
    <3>2. CASE j \in DOMAIN s /\ l \notin DOMAIN s
      BY <2>1, <3>0, <3>2
    <3>3. CASE j \notin DOMAIN s /\ l \in DOMAIN s
      BY <2>1, <3>0, <3>3
    <3>4. CASE j \notin DOMAIN s /\ l \notin DOMAIN s
      BY <1>1, <2>1, <3>4
    <3> QED
      BY <3>1, <3>2, <3>3, <3>4
  <2> QED
    BY <1>1, <2>1 DEF Kept, NamedOnce
<1>7. ListedIsComplete'
  <2>1. ASSUME NEW d \in DOMAIN folders, d # did
        PROVE  folders'[d] = folders[d]
    BY <1>1, <2>1
  <2> QED
    BY <1>1, <1>2, <2>1 DEF Kept, ListedIsComplete
<1>8. MemoryContinuesDisk'
  <2>1. ASSUME NEW j \in DOMAIN t, <<path, t[j].name>> \in DOMAIN entryFiles
        PROVE  Continues(t[j], entryFiles[<<path, t[j].name>>])
    <3>1. CASE j \in DOMAIN s
      BY <1>1, <2>1, <3>1 DEF Kept, MemoryContinuesDisk
    <3>2. CASE j \notin DOMAIN s
      BY <1>1, <3>2, ContinuesItself DEF SInv, TypeOK
    <3> QED
      BY <3>1, <3>2
  <2> QED
    BY <1>1, <1>2, <2>1 DEF Kept, MemoryContinuesDisk
<1>9. HandleIsListed'
  <2> SUFFICES ASSUME NEW h \in DOMAIN files', files'[h].mode = "out"
               PROVE  ListedHandle(h)'
    BY DEF HandleIsListed
  <2>1. HandleStays(h, h) /\ h \in DOMAIN files
    BY <1>2 DEF HandleStays
  <2> QED
    BY <1>1, <1>2, <1>3, <2>1, HandleListedStays DEF Kept
<1> QED
  BY <1>3, <1>4, <1>5, <1>6, <1>7, <1>8, <1>9 DEF Kept

\* SetEntry relates memory and disk as it should, whether the write fails or not.
LEMMA SetEntryKept ==
  ASSUME SInv, Kept, Careful, NEW did, NEW name \in Names, NEW deleteIt \in BOOLEAN,
         NEW keepDigest \in BOOLEAN, NEW ok \in BOOLEAN,
         SetEntry(did, name, deleteIt, keepDigest, ok)
  PROVE  Kept' /\ HistoryGoesOn
<1>1. PICK i, m : Fits(did, i, m) /\ EntryChanged(did, i, m)
  BY SetEntryChange
<1>2. folders[did].listed
  BY DEF SetEntry, MayChange
<1>3. /\ OpenOnce' /\ NamedOnce' /\ ListedIsComplete' /\ MemoryContinuesDisk'
      /\ HistoryGoesOn
      /\ \A d \in DOMAIN folders : /\ folders'[d].path = folders[d].path
                                   /\ folders'[d].listed = folders[d].listed
      /\ DOMAIN folders' = DOMAIN folders
  BY <1>1, <1>2, ChangeGoesOn DEF CInv, EntryChanged, WithEntry
<1>4. files' = files /\ data' = data
  BY DEF SetEntry
<1>5. DataIsListed'
  BY <1>3, <1>4, DataListedStays DEF Kept
<1>6. HandleIsListed'
  <2> SUFFICES ASSUME NEW h \in DOMAIN files', files'[h].mode = "out"
               PROVE  ListedHandle(h)'
    BY DEF HandleIsListed
  <2>1. HandleStays(h, h) /\ h \in DOMAIN files
    BY <1>4 DEF HandleStays
  <2> QED
    BY <1>3, <1>4, <2>1, HandleListedStays DEF Kept
<1> QED
  BY <1>3, <1>5, <1>6 DEF Kept

\* The data file that FileOpenOut creates is listed in the entry file, which it writes
\* first.
LEMMA FileOpenOutKept ==
  ASSUME SInv, Kept, Careful, NEW did, NEW name \in Names, NEW stage,
         FileOpenOut(did, name, stage)
  PROVE  Kept' /\ HistoryGoesOn
<1>1. PICK i, m : Opened(did, stage, i, m)
  BY FileOpenOutChange
<1>2. /\ Fits(did, i, m) /\ EntryChanged(did, i, m)
      /\ stage = "created" => Created(did, i, m)
      /\ stage # "created" => data' = data /\ files' = files
  BY <1>1 DEF Opened
<1>3. folders[did].listed
  BY DEF FileOpenOut, MayChange
<1>4. /\ OpenOnce' /\ NamedOnce' /\ ListedIsComplete' /\ MemoryContinuesDisk'
      /\ HistoryGoesOn
      /\ \A d \in DOMAIN folders : /\ folders'[d].path = folders[d].path
                                   /\ folders'[d].listed = folders[d].listed
      /\ DOMAIN folders' = DOMAIN folders
  BY <1>2, <1>3, ChangeGoesOn DEF CInv, EntryChanged, WithEntry
<1>5. CASE stage # "created"
  <2>1. DataIsListed'
    BY <1>2, <1>4, <1>5, DataListedStays DEF Kept
  <2>2. ASSUME NEW h \in DOMAIN files', files'[h].mode = "out"
        PROVE  ListedHandle(h)'
    <3>1. HandleStays(h, h) /\ h \in DOMAIN files
      BY <1>2, <1>5 DEF HandleStays
    <3> QED
      BY <1>2, <1>4, <1>5, <2>2, <3>1, HandleListedStays DEF Kept
  <2>3. HandleIsListed'
    BY <2>2 DEF HandleIsListed
  <2> QED
    BY <1>4, <2>1, <2>3 DEF Kept
<1>6. CASE stage = "created"
  <2> DEFINE n == nextFileRuntimeId + 1
             f == files'[n]
             key == <<folders[did].path, m.name>>
  <2>1. /\ DOMAIN files' = DOMAIN files \cup {n} /\ n \notin DOMAIN files
        /\ \A g \in DOMAIN files : files'[g] = files[g]
        /\ f.did = did /\ f.fileId = m.id
        /\ IsHandleOf(f, m)
        /\ DOMAIN data' = DOMAIN data \cup {f.path}
        /\ entryFiles' = Put(entryFiles, key, m)
    <3>1. Fits(did, i, m) /\ Created(did, i, m)
      BY <1>2, <1>6
    <3>2. /\ DOMAIN files' = DOMAIN files \cup {n} /\ n \notin DOMAIN files
          /\ \A g \in DOMAIN files : files'[g] = files[g]
          /\ f.did = did /\ f.fileId = m.id
          /\ DOMAIN data' = DOMAIN data \cup {f.path}
      BY <3>1, CreatedFacts
    <3>3. IsHandleOf(f, m)
      BY <3>1, CreatedFacts
    <3>4. entryFiles' = Put(entryFiles, key, m)
      BY <3>1, CreatedFacts
    <3> QED
      BY <3>2, <3>3, <3>4
  <2> HIDE DEF n
  <2>2. key \in DOMAIN entryFiles' /\ entryFiles'[key] = m
    BY <2>1 DEF Put
  <2>3. DataIsListed'
    <3> SUFFICES ASSUME NEW p \in DOMAIN data'
                 PROVE  \E k \in DOMAIN entryFiles' :
                          \E j \in DOMAIN entryFiles'[k].versions :
                            entryFiles'[k].versions[j].storeName = p
      BY DEF DataIsListed
    <3>1. CASE p = f.path
      BY <2>1, <2>2, <3>1 DEF IsHandleOf
    <3>2. CASE p \in DOMAIN data
      BY <1>4, <3>2 DEF Kept, DataIsListed, HistoryGoesOn, Continues, SameVersion
    <3> QED
      BY <2>1, <3>1, <3>2
  <2>4. ASSUME NEW h \in DOMAIN files', files'[h].mode = "out"
        PROVE  ListedHandle(h)'
    <3>1. CASE h = n
      <4>1. key[1] = folders[did].path
        OBVIOUS
      <4>2. did \in DOMAIN folders
        BY <1>2 DEF Fits
      <4> HIDE DEF key
      <4> QED
        BY <1>3, <1>4, <2>1, <2>2, <3>1, <4>1, <4>2 DEF ListedHandle, IsHandleOf
    <3>2. CASE h \in DOMAIN files
      <4>1. HandleStays(h, h)
        BY <2>1, <3>2 DEF HandleStays
      <4> QED
        BY <1>4, <2>1, <2>4, <3>2, <4>1, HandleListedStays DEF Kept
    <3> QED
      BY <2>1, <3>1, <3>2
  <2>5. HandleIsListed'
    BY <2>4 DEF HandleIsListed
  <2> QED
    BY <1>4, <2>3, <2>5 DEF Kept
<1> QED
  BY <1>5, <1>6

\* Closing a handle that writes leaves the data file listed.
LEMMA FileCloseOutKept ==
  ASSUME SInv, Kept, NEW fid, NEW flushed \in BOOLEAN, FileCloseOut(fid, flushed)
  PROVE  Kept' /\ HistoryGoesOn
<1> DEFINE f == files[fid]
<1>1. /\ fid \in DOMAIN files /\ f \in File
      /\ DOMAIN data' = DOMAIN data
      /\ \/ files' = Without(files, fid)
         \/ files' = [files EXCEPT ![fid].mode = "closed"]
      /\ folders' = folders \/ \E i, j, m : Filled(f.did, f, i, j, m)
  <2>1. DOMAIN [data EXCEPT ![f.path] = f.written] = DOMAIN data
    OBVIOUS
  <2> QED
    BY <2>1, FileCloseOutChange
<1>2. entryFiles' = entryFiles
  BY DEF FileCloseOut
<1>3. \A h \in DOMAIN files' :
        /\ h \in DOMAIN files
        /\ files'[h].mode = "out" => HandleStays(h, h)
  <2>1. CASE files' = Without(files, fid)
    BY <2>1 DEF Without, HandleStays
  <2>2. CASE files' = [files EXCEPT ![fid].mode = "closed"]
    BY <1>1, <2>2 DEF HandleStays, File
  <2> QED
    BY <1>1, <2>1, <2>2
<1>4. CASE folders' = folders
  BY <1>1, <1>2, <1>3, <1>4, KeptStays
<1>5. CASE \E i, j, m : Filled(f.did, f, i, j, m)
  <2>1. PICK i, j, m : Filled(f.did, f, i, j, m)
    BY <1>5
  <2> DEFINE did == f.did
  <2>2. /\ Fits(did, i, m) /\ EntryChanged(did, i, m)
        /\ i \in DOMAIN folders[did].entries
    BY <1>2, <2>1 DEF Filled, EntryChanged
  <2> HIDE DEF did
  <2>3. folders[did].listed
    <3>1. did \in DOMAIN folders
      BY <2>2 DEF Fits
    <3>2. DOMAIN folders[did].entries = {} \/ folders[did].listed
      BY <3>1 DEF Kept, ListedIsComplete
    <3> QED
      BY <2>2, <3>2
  <2>4. /\ OpenOnce' /\ NamedOnce' /\ ListedIsComplete' /\ MemoryContinuesDisk'
        /\ HistoryGoesOn
        /\ \A d \in DOMAIN folders : /\ folders'[d].path = folders[d].path
                                     /\ folders'[d].listed = folders[d].listed
        /\ DOMAIN folders' = DOMAIN folders
    BY <2>2, <2>3, ChangeGoesOn DEF CInv, EntryChanged, WithEntry
  <2>5. DataIsListed'
    BY <1>1, <2>4, DataListedStays DEF Kept
  <2>6. ASSUME NEW h \in DOMAIN files', files'[h].mode = "out"
        PROVE  ListedHandle(h)'
    BY <1>1, <1>3, <2>4, <2>6, HandleListedStays DEF Kept
  <2>7. HandleIsListed'
    BY <2>6 DEF HandleIsListed
  <2> QED
    BY <2>4, <2>5, <2>7 DEF Kept
<1> QED
  BY <1>1, <1>4, <1>5

\* Every step of a client like HandleDir and StoreDir keeps what relates memory and
\* disk.
LEMMA NextKept ==
  ASSUME SInv, Kept, Careful, [Next]_vars PROVE Kept' /\ HistoryGoesOn
<1>1. CASE \/ OpenRepository \/ Restart \/ Tick
           \/ \E forgotten \in BOOLEAN : CloseRepository(forgotten)
  BY <1>1, QuietKept
<1>2. CASE \E path \in Paths : OpenDir(path)
  BY <1>2, OpenDirKept
<1>3. ASSUME NEW did \in 1..MaxFolders, NEW failed, CloseDir(did, failed)
      PROVE  Kept' /\ HistoryGoesOn
  BY <1>3, CloseDirKept
<1>4. ASSUME NEW did \in 1..MaxFolders, GetEntries(did)
      PROVE  Kept' /\ HistoryGoesOn
  BY <1>4, GetEntriesKept
<1>5. ASSUME NEW did \in 1..MaxFolders, NEW name \in Names,
             \E deleteIt, keepDigest \in BOOLEAN,
                ok \in IF Failures THEN BOOLEAN ELSE {TRUE} :
               SetEntry(did, name, deleteIt, keepDigest, ok)
      PROVE  Kept' /\ HistoryGoesOn
  BY <1>5, SetEntryKept
<1>6. ASSUME NEW did \in 1..MaxFolders, NEW name \in Names, NEW stage,
             FileOpenOut(did, name, stage)
      PROVE  Kept' /\ HistoryGoesOn
  BY <1>6, FileOpenOutKept
<1>7. ASSUME NEW did, NEW name, NEW when, FileOpenIn(did, name, when)
      PROVE  Kept' /\ HistoryGoesOn
  BY <1>7, QuietKept
<1>8. ASSUME NEW fid, NEW chunk, NEW flushed, FileWrite(fid, chunk, flushed)
      PROVE  Kept' /\ HistoryGoesOn
  BY <1>8, QuietKept
<1>9. ASSUME NEW fid \in 1..MaxFiles,
             \E flushed \in IF Failures THEN BOOLEAN ELSE {TRUE} : FileCloseOut(fid, flushed)
      PROVE  Kept' /\ HistoryGoesOn
  BY <1>9, FileCloseOutKept
<1>10. ASSUME NEW fid, FileCloseIn(fid) PROVE Kept' /\ HistoryGoesOn
  BY <1>10, QuietKept
<1>11. CASE UNCHANGED vars
  BY <1>11, KeptStays DEF vars, memory, disk, HandleStays
<1> QED
  BY <1>1, <1>2, <1>3, <1>4, <1>5, <1>6, <1>7, <1>8, <1>9, <1>10, <1>11 DEF Next

\* The inductive step of CInv; with it the entry files go on.
LEMMA NextCInv == ASSUME CInv, Careful, [Next]_vars PROVE CInv' /\ HistoryGoesOn
BY NextSound, NextKept DEF CInv

\* CInv holds, of a client that behaves like HandleDir and StoreDir.
LEMMA CInvHolds == ASSUME Careful PROVE Spec => []CInv
<1>1. Init => CInv
  BY InitSound, InitKept DEF CInv
<1>2. CInv /\ [Next]_vars => CInv'
  BY NextCInv
<1> QED
  BY <1>1, <1>2, PTL DEF Spec

\* Every data file is named by a version in an entry file: AQBServer_FileOpenOut
\* writes the entry before it creates the file, and no later write of the entry
\* drops the version.
THEOREM DataListed == ASSUME Careful PROVE Spec => []DataIsListed
<1>1. CInv => DataIsListed
  BY DEF CInv, Kept
<1> QED
  BY <1>1, CInvHolds, PTL

\* No version of an entry file is dropped or renumbered: every write of an entry
\* (AQBServer__WriteEntry) replaces the file by one that continues it, since the
\* directory was read when the folder was listed.
THEOREM HistoryKept == ASSUME Careful PROVE Spec => HistoryIsKept
<1> DEFINE Step ==
      \A k \in DOMAIN entryFiles :
        /\ k \in DOMAIN entryFiles'
        /\ entryFiles[k].id = entryFiles'[k].id
        /\ \A i \in DOMAIN entryFiles[k].versions :
             /\ i \in DOMAIN entryFiles'[k].versions
             /\ LET v == entryFiles[k].versions[i]
                    w == entryFiles'[k].versions[i]
                IN v = [w EXCEPT !.md5 = v.md5]
<1>1. CInv /\ CInv' /\ [Next]_vars => Step
  <2> SUFFICES ASSUME CInv, CInv', HistoryGoesOn, NEW k \in DOMAIN entryFiles,
                      NEW i \in DOMAIN entryFiles[k].versions
               PROVE  /\ k \in DOMAIN entryFiles'
                      /\ entryFiles[k].id = entryFiles'[k].id
                      /\ i \in DOMAIN entryFiles'[k].versions
                      /\ LET v == entryFiles[k].versions[i]
                             w == entryFiles'[k].versions[i]
                         IN v = [w EXCEPT !.md5 = v.md5]
    BY NextCInv DEF HistoryGoesOn, Continues
  <2> DEFINE v == entryFiles[k].versions[i]
             w == entryFiles'[k].versions[i]
  <2>1. /\ k \in DOMAIN entryFiles' /\ entryFiles[k].id = entryFiles'[k].id
        /\ i \in DOMAIN entryFiles'[k].versions /\ SameVersion(v, w)
    BY DEF HistoryGoesOn, Continues
  <2>2. entryFiles[k] \in Entry /\ entryFiles'[k] \in Entry
    BY <2>1 DEF CInv, SInv, TypeOK
  <2>3. v \in Version /\ w \in Version
    BY <2>1, <2>2, EntryParts
  <2> QED
    BY <2>1, <2>3 DEF Version, SameVersion
<1>2. [Next]_vars /\ CInv /\ CInv' => [Step]_vars
  BY <1>1
<1> QED
  BY <1>2, CInvHolds, PTL DEF Spec, HistoryIsKept

-----------------------------------------------------------------------------
(* File ids are given out once, as long as none was lost.                  *)

\* What is known of a key is a sound entry of that name.
LEMMA KnownEntry ==
  ASSUME SInv, NEW k \in Keys, NEW e \in Known(k)
  PROVE  e \in Entry /\ Sound(e) /\ e.name = k[2] /\ e.id \in Nat
<1>1. CASE k \in DOMAIN entryFiles /\ e = entryFiles[k]
  BY <1>1, EntryParts DEF SInv, DiskIsSound, TypeOK
<1>2. ASSUME NEW d \in DOMAIN folders, NEW i \in DOMAIN folders[d].entries,
             folders[d].entries[i].name = k[2], e = folders[d].entries[i]
      PROVE  e \in Entry /\ Sound(e) /\ e.name = k[2] /\ e.id \in Nat
  BY <1>2, MemoryEntry, EntryParts
<1> QED
  BY <1>1, <1>2, KnownIs

\* The key of an entry in memory.
LEMMA KeyInMemory ==
  ASSUME SInv, NEW d \in DOMAIN folders, NEW i \in DOMAIN folders[d].entries
  PROVE  LET k == <<folders[d].path, folders[d].entries[i].name>>
         IN k \in Keys /\ folders[d].entries[i] \in Known(k)
<1>1. folders[d] \in Folder /\ folders[d].entries[i] \in Entry
  BY MemoryEntry
<1>2. folders[d].path \in Paths /\ folders[d].entries[i].name \in Names
  BY <1>1, EntryParts DEF Folder
<1> QED
  BY <1>2, KnownIs DEF Keys

\* A change of one entry is all that becomes known.
LEMMA ChangeKnown ==
  ASSUME SInv, NEW did, NEW i, NEW m, Fits(did, i, m), EntryChanged(did, i, m),
         NEW k \in Keys, NEW f \in Known(k)'
  PROVE  \/ f \in Known(k)
         \/ f = m /\ k = <<folders[did].path, m.name>>
<1> DEFINE s == folders[did].entries
           key == <<folders[did].path, m.name>>
<1>1. /\ did \in DOMAIN folders
      /\ folders' \in [DOMAIN folders -> Folder]
      /\ \A d \in DOMAIN folders : folders'[d].path = folders[d].path
      /\ \A d \in DOMAIN folders \ {did} : folders'[d] = folders[d]
      /\ DOMAIN folders'[did].entries = DOMAIN s \cup {i}
      /\ folders'[did].entries[i] = m
      /\ \A j \in DOMAIN s : j # i => folders'[did].entries[j] = s[j]
  BY WithEntryFacts DEF Fits, EntryChanged, SInv
<1>2. k = <<k[1], k[2]>>
  BY DEF Keys
<1>3. ASSUME k \in DOMAIN entryFiles', f = entryFiles'[k]
      PROVE  f \in Known(k) \/ (f = m /\ k = key)
  <2>1. CASE entryFiles' = entryFiles
    BY <1>3, <2>1, KnownIs
  <2>2. CASE entryFiles' = Put(entryFiles, key, m)
    <3>1. CASE k = key
      BY <1>3, <2>2, <3>1 DEF Put
    <3>2. CASE k # key
      <4>1. k \in DOMAIN entryFiles /\ f = entryFiles[k]
        BY <1>3, <2>2, <3>2 DEF Put
      <4> QED
        BY <4>1, KnownIs
    <3> QED
      BY <3>1, <3>2
  <2> QED
    BY <2>1, <2>2 DEF EntryChanged
<1>4. ASSUME NEW d \in DOMAIN folders', NEW j \in DOMAIN folders'[d].entries,
             folders'[d].path = k[1], folders'[d].entries[j].name = k[2],
             f = folders'[d].entries[j]
      PROVE  f \in Known(k) \/ (f = m /\ k = key)
  <2>1. CASE d = did /\ j = i
    BY <1>1, <1>2, <1>4, <2>1
  <2>2. CASE d # did \/ j # i
    <3>1. /\ d \in DOMAIN folders /\ j \in DOMAIN folders[d].entries
          /\ folders[d].path = k[1]
          /\ folders'[d].entries[j] = folders[d].entries[j]
      BY <1>1, <1>4, <2>2
    <3> QED
      BY <1>4, <3>1, KnownIs
  <2> QED
    BY <2>1, <2>2
<1> QED
  BY <1>3, <1>4, KnownIsNext

\* Every entry that is known had its id before.
IdsStay == \A k \in Keys : \A f \in Known(k)' : \E e \in Known(k) : f.id = e.id

\* Ids stay unique when nothing new becomes known and no id is taken back.
LEMMA UniqueStays ==
  ASSUME SInv, SInv', Unique, IdsStay,
         ~idsLost' => ~idsLost /\ LastFileId' = LastFileId
  PROVE  Unique'
<1> SUFFICES ASSUME ~idsLost' PROVE Unique'
  BY DEF Unique, IdsGivenOut, IdsAreUnique
<1>1. ASSUME NEW k \in Keys, NEW f \in Known(k)' PROVE f.id <= LastFileId'
  BY DEF IdsStay, Unique, IdsGivenOut
<1>2. ASSUME NEW k \in Keys, NEW l \in Keys, NEW e \in Known(k)', NEW f \in Known(l)',
             e.id = f.id
      PROVE  k = l
  BY <1>2 DEF IdsStay, Unique, IdsAreUnique
<1>3. Keys' = Keys
  BY DEF Keys
<1> QED
  BY <1>1, <1>2, <1>3 DEF Unique, IdsGivenOut, IdsAreUnique

\* Nothing becomes known.
LEMMA KnownStays ==
  ASSUME \A k \in DOMAIN entryFiles' :
           k \in DOMAIN entryFiles /\ entryFiles'[k] = entryFiles[k],
         \A d \in DOMAIN folders' :
           \/ d \in DOMAIN folders /\ folders'[d] = folders[d]
           \/ DOMAIN folders'[d].entries = {}
  PROVE  \A k \in Keys : \A f \in Known(k)' : f \in Known(k)
<1> SUFFICES ASSUME NEW k \in Keys, NEW f \in Known(k)' PROVE f \in Known(k)
  OBVIOUS
<1>1. CASE k \in DOMAIN entryFiles' /\ f = entryFiles'[k]
  BY <1>1, KnownIs
<1>2. CASE \E d \in DOMAIN folders' : \E i \in DOMAIN folders'[d].entries :
             /\ folders'[d].path = k[1]
             /\ folders'[d].entries[i].name = k[2]
             /\ f = folders'[d].entries[i]
  BY <1>2, KnownIs
<1> QED
  BY <1>1, <1>2, KnownIsNext

\* What CloseDir writes was known before.
LEMMA CloseDirKnown ==
  ASSUME SInv, NEW did, NEW failed, CloseDir(did, failed),
         NEW k \in Keys, NEW f \in Known(k)'
  PROVE  \E e \in Known(k) : f.id = e.id /\ f.versions = e.versions
<1>1. /\ did \in DOMAIN folders
      /\ \A d \in DOMAIN folders' : d \in DOMAIN folders /\ folders'[d] = folders[d]
  BY CloseDirFacts DEF Without
<1>2. ASSUME k \in DOMAIN entryFiles', f = entryFiles'[k]
      PROVE  \E e \in Known(k) : f.id = e.id /\ f.versions = e.versions
  <2>1. CASE k \in DOMAIN entryFiles /\ entryFiles'[k] = entryFiles[k]
    BY <1>2, <2>1, KnownIs
  <2>2. ASSUME NEW i \in DOMAIN folders[did].entries,
               k = <<folders[did].path, k[2]>>, folders[did].entries[i].name = k[2],
               entryFiles'[k] = Written(folders[did].entries[i])
        PROVE  \E e \in Known(k) : f.id = e.id /\ f.versions = e.versions
    <3> DEFINE e == folders[did].entries[i]
    <3>1. e \in Entry /\ Sound(e)
      BY <1>1, MemoryEntry
    <3>2. e \in Known(k)
      BY <1>1, <2>2, KnownIs
    <3>3. f = Written(e)
      BY <1>2, <2>2
    <3> HIDE DEF e
    <3> QED
      BY <3>1, <3>2, <3>3, WrittenEntry
  <2> QED
    BY <1>2, <2>1, <2>2, CloseDirFacts
<1>3. ASSUME NEW d \in DOMAIN folders', NEW i \in DOMAIN folders'[d].entries,
             folders'[d].path = k[1], folders'[d].entries[i].name = k[2],
             f = folders'[d].entries[i]
      PROVE  f \in Known(k)
  BY <1>1, <1>3, KnownIs
<1> QED
  BY <1>2, <1>3, KnownIsNext

\* What GetEntries takes to memory was known before.
LEMMA GetEntriesKnown ==
  ASSUME SInv, NEW did, GetEntries(did), NEW k \in Keys, NEW f \in Known(k)'
  PROVE  f \in Known(k)
<1> DEFINE path == folders[did].path
           s == folders[did].entries
           t == folders'[did].entries
<1>1. /\ did \in DOMAIN folders
      /\ DOMAIN folders' = DOMAIN folders
      /\ \A d \in DOMAIN folders \ {did} : folders'[d] = folders[d]
      /\ folders'[did].path = path
      /\ \A j \in DOMAIN s : t[j] = s[j]
      /\ \A j \in DOMAIN t \ DOMAIN s :
           /\ <<path, t[j].name>> \in DOMAIN entryFiles
           /\ t[j] = entryFiles[<<path, t[j].name>>]
  BY GetEntriesFacts
<1>2. entryFiles' = entryFiles
  BY DEF GetEntries, disk
<1>3. k = <<k[1], k[2]>>
  BY DEF Keys
<1>4. CASE k \in DOMAIN entryFiles' /\ f = entryFiles'[k]
  BY <1>2, <1>4, KnownIs
<1>5. ASSUME NEW d \in DOMAIN folders', NEW j \in DOMAIN folders'[d].entries,
             folders'[d].path = k[1], folders'[d].entries[j].name = k[2],
             f = folders'[d].entries[j]
      PROVE  f \in Known(k)
  <2>1. CASE d = did /\ j \notin DOMAIN s
    <3>1. k \in DOMAIN entryFiles /\ f = entryFiles[k]
      BY <1>1, <1>3, <1>5, <2>1
    <3> QED
      BY <3>1, KnownIs
  <2>2. CASE d # did \/ j \in DOMAIN s
    <3>1. /\ d \in DOMAIN folders /\ folders[d].path = k[1]
          /\ j \in DOMAIN folders[d].entries
          /\ folders'[d].entries[j] = folders[d].entries[j]
      BY <1>1, <1>5, <2>2
    <3> QED
      BY <1>5, <3>1, KnownIs
  <2> QED
    BY <2>1, <2>2
<1> QED
  BY <1>4, <1>5, KnownIsNext

\* A change of one entry keeps ids unique, if the entry keeps its id or has the next
\* one.
LEMMA ChangeUnique ==
  ASSUME SInv, SInv', Unique, attached, UNCHANGED <<loaded, idsLost>>,
         NEW did, NEW i, NEW m, Fits(did, i, m), EntryChanged(did, i, m), GetsId(did, i, m)
  PROVE  Unique'
<1> DEFINE s == folders[did].entries
           key == <<folders[did].path, m.name>>
<1>1. /\ did \in DOMAIN folders /\ loaded /\ loaded'
      /\ LastFileId = nextFileId /\ LastFileId' = nextFileId'
  BY DEF Fits, SInv, NothingUnloaded, LastFileId
<1>2. CASE i \in DOMAIN s
  <2>1. Continues(m, s[i])
    BY <1>2 DEF Fits
  <2>2. s[i] \in Known(key) /\ s[i].id = m.id
    BY <1>1, <1>2, <2>1, KeyInMemory DEF Continues
  <2>3. IdsStay
    BY <2>2, ChangeKnown DEF IdsStay
  <2>4. nextFileId' = nextFileId
    BY <1>2 DEF GetsId
  <2> QED
    BY <1>1, <2>3, <2>4, UniqueStays
<1>3. CASE i \notin DOMAIN s
  <2>1. nextFileId \in Nat /\ nextFileId' = nextFileId + 1 /\ m.id = nextFileId + 1
    BY <1>3, Bounds, SoundTypes DEF GetsId, CounterTypes
  <2>2. ASSUME NEW k \in Keys, NEW f \in Known(k)', ~idsLost
        PROVE  \/ f \in Known(k) /\ f.id \in Nat /\ f.id <= nextFileId
               \/ f.id = nextFileId + 1 /\ k = key
    <3>1. CASE f \in Known(k)
      BY <1>1, <2>2, <3>1, KnownEntry DEF Unique, IdsGivenOut
    <3>2. CASE f = m /\ k = key
      BY <2>1, <3>2
    <3> QED
      BY <3>1, <3>2, ChangeKnown
  <2>3. ASSUME ~idsLost, NEW k \in Keys, NEW f \in Known(k)'
        PROVE  f.id <= nextFileId'
    BY <2>1, <2>2, <2>3
  <2>4. ASSUME ~idsLost, NEW k \in Keys, NEW l \in Keys, NEW e \in Known(k)',
               NEW f \in Known(l)', e.id = f.id
        PROVE  k = l
    <3>1. CASE e.id <= nextFileId
      BY <2>1, <2>2, <2>4, <3>1 DEF Unique, IdsAreUnique
    <3>2. CASE e.id = nextFileId + 1
      <4>1. ASSUME NEW q \in Keys, NEW g \in Known(q)', g.id = nextFileId + 1
            PROVE  q = key
        BY <2>1, <2>2, <2>4, <4>1
      <4> QED
        BY <2>4, <3>2, <4>1
    <3> QED
      BY <2>2, <2>4, <3>1, <3>2
  <2>5. Keys' = Keys
    BY DEF Keys
  <2> QED
    BY <1>1, <2>3, <2>4, <2>5 DEF Unique, IdsGivenOut, IdsAreUnique
<1> QED
  BY <1>2, <1>3

\* The actions that make no entry known.
LEMMA QuietUnique ==
  ASSUME SInv, SInv', Unique,
         \/ OpenRepository \/ Restart \/ Tick
         \/ \E forgotten \in BOOLEAN : CloseRepository(forgotten)
         \/ \E path \in Paths : OpenDir(path)
         \/ \E did, failed : CloseDir(did, failed)
         \/ \E did : GetEntries(did)
         \/ \E fid : FileCloseIn(fid)
         \/ \E fid, chunk, flushed : FileWrite(fid, chunk, flushed)
         \/ \E did, name, when : FileOpenIn(did, name, when)
         \/ UNCHANGED vars
  PROVE  Unique'
<1>1. DOMAIN Empty = {}
  BY DEF Empty
<1>2. CASE OpenRepository
  <2>1. IdsStay
    BY <1>2, KnownStays DEF OpenRepository, disk, IdsStay
  <2>2. LastFileId' = LastFileId /\ idsLost' = idsLost
    BY <1>2 DEF OpenRepository, disk, world, LastFileId
  <2> QED
    BY <2>1, <2>2, UniqueStays
<1>3. CASE Restart
  <2>1. IdsStay
    BY <1>1, <1>3, KnownStays DEF Restart, Forget, disk, IdsStay
  <2>2. ~idsLost' => ~idsLost /\ LastFileId' = LastFileId
    BY <1>3 DEF Restart, disk, LastFileId
  <2> QED
    BY <2>1, <2>2, UniqueStays
<1>4. ASSUME NEW forgotten \in BOOLEAN, CloseRepository(forgotten)
      PROVE  Unique'
  <2>1. IdsStay
    <3>1. CASE forgotten
      BY <1>1, <1>4, <3>1, KnownStays DEF CloseRepository, Forget, IdsStay
    <3>2. CASE ~forgotten
      BY <1>4, <3>2, KnownStays DEF CloseRepository, memory, IdsStay
    <3> QED
      BY <3>1, <3>2
  <2>2. loaded
    BY <1>4 DEF CloseRepository, SInv, NothingUnloaded
  <2>3. idsLost' = idsLost
    BY <1>4 DEF CloseRepository, world
  <2>4. LastFileId' = LastFileId
    <3>1. CASE forgotten
      BY <1>4, <2>2, <3>1 DEF CloseRepository, LastFileId
    <3>2. CASE ~forgotten
      BY <1>4, <2>2, <3>2 DEF CloseRepository, memory, LastFileId
    <3> QED
      BY <3>1, <3>2
  <2> QED
    BY <2>1, <2>3, <2>4, UniqueStays
<1>5. ASSUME NEW path \in Paths, OpenDir(path)
      PROVE  Unique'
  <2>1. \A d \in DOMAIN folders' :
          \/ d \in DOMAIN folders /\ folders'[d] = folders[d]
          \/ DOMAIN folders'[d].entries = {}
    BY <1>5 DEF OpenDir, Put
  <2>2. IdsStay
    BY <1>5, <2>1, KnownStays DEF OpenDir, disk, IdsStay
  <2> QED
    BY <1>5, <2>2, UniqueStays DEF OpenDir, disk, world, LastFileId
<1>6. ASSUME NEW did, NEW failed, CloseDir(did, failed)
      PROVE  Unique'
  <2>1. IdsStay
    BY <1>6, CloseDirKnown DEF IdsStay
  <2> QED
    BY <1>6, <2>1, UniqueStays DEF CloseDir, world, LastFileId
<1>7. ASSUME NEW did, GetEntries(did)
      PROVE  Unique'
  <2>1. IdsStay
    BY <1>7, GetEntriesKnown DEF IdsStay
  <2> QED
    BY <1>7, <2>1, UniqueStays DEF GetEntries, disk, world, LastFileId
<1>8. ASSUME UNCHANGED <<loaded, nextFileId, savedFileId, folders, entryFiles, idsLost>>
      PROVE  Unique'
  <2>1. IdsStay
    BY <1>8, KnownStays DEF IdsStay
  <2> QED
    BY <1>8, <2>1, UniqueStays DEF LastFileId
<1>9. ASSUME Tick \/ UNCHANGED vars PROVE Unique'
  BY <1>8, <1>9 DEF Tick, vars, memory, disk, world
<1>10. ASSUME NEW fid, FileCloseIn(fid) PROVE Unique'
  BY <1>8, <1>10 DEF FileCloseIn, disk, world
<1>11. ASSUME NEW fid, NEW chunk, NEW flushed, FileWrite(fid, chunk, flushed)
       PROVE  Unique'
  BY <1>8, <1>11 DEF FileWrite, world
<1>12. ASSUME NEW did, NEW name, NEW when, FileOpenIn(did, name, when) PROVE Unique'
  BY <1>8, <1>12 DEF FileOpenIn, disk, world
<1> QED
  BY <1>2, <1>3, <1>4, <1>5, <1>6, <1>7, <1>9, <1>10, <1>11, <1>12

\* Every step keeps ids unique.
LEMMA NextUnique == ASSUME SInv, Unique, [Next]_vars PROVE Unique'
<1>1. SInv'
  BY NextSound
<1>2. ASSUME NEW did, NEW name \in Names, NEW deleteIt \in BOOLEAN,
             NEW keepDigest \in BOOLEAN, NEW ok \in BOOLEAN,
             SetEntry(did, name, deleteIt, keepDigest, ok)
      PROVE  Unique'
  <2>1. PICK i, m : Fits(did, i, m) /\ EntryChanged(did, i, m) /\ GetsId(did, i, m)
    BY <1>2, SetEntryChange
  <2> QED
    BY <1>1, <1>2, <2>1, ChangeUnique DEF SetEntry, MayChange, world
<1>3. ASSUME NEW did, NEW name \in Names, NEW stage, FileOpenOut(did, name, stage)
      PROVE  Unique'
  <2>1. PICK i, m : Opened(did, stage, i, m)
    BY <1>3, FileOpenOutChange
  <2>2. Fits(did, i, m) /\ EntryChanged(did, i, m) /\ GetsId(did, i, m)
    BY <2>1 DEF Opened
  <2> QED
    BY <1>1, <1>3, <2>2, ChangeUnique DEF FileOpenOut, MayChange, world
<1>4. ASSUME NEW fid, NEW flushed \in BOOLEAN, FileCloseOut(fid, flushed)
      PROVE  Unique'
  <2>1. \/ folders' = folders
        \/ \E i, j, m : Filled(files[fid].did, files[fid], i, j, m)
    BY <1>4, FileCloseOutChange
  <2>2. /\ attached
        /\ UNCHANGED <<loaded, nextFileId, savedFileId, entryFiles, idsLost>>
    BY <1>4 DEF FileCloseOut, world
  <2>3. CASE folders' = folders
    <3>1. IdsStay
      BY <2>2, <2>3, KnownStays DEF IdsStay
    <3> QED
      BY <1>1, <2>2, <3>1, UniqueStays DEF LastFileId
  <2>4. ASSUME NEW i, NEW j, NEW m, Filled(files[fid].did, files[fid], i, j, m)
        PROVE  Unique'
    <3> DEFINE did == files[fid].did
    <3>1. /\ Fits(did, i, m) /\ EntryChanged(did, i, m)
          /\ GetsId(did, i, m)
      BY <2>2, <2>4 DEF Filled, EntryChanged, GetsId
    <3> HIDE DEF did
    <3> QED
      BY <1>1, <2>2, <3>1, ChangeUnique
  <2> QED
    BY <2>1, <2>3, <2>4
<1>5. CASE \E fid \in 1..MaxFiles : \E flushed \in IF Failures THEN BOOLEAN ELSE {TRUE} :
             FileCloseOut(fid, flushed)
  BY <1>4, <1>5
<1>6. CASE \E did \in 1..MaxFolders : \E name \in Names :
             \E deleteIt, keepDigest \in BOOLEAN,
                ok \in IF Failures THEN BOOLEAN ELSE {TRUE} :
               SetEntry(did, name, deleteIt, keepDigest, ok)
  BY <1>2, <1>6
<1>7. CASE \E did \in 1..MaxFolders : \E name \in Names :
             \E stage \in IF Failures THEN Stages ELSE {"created"} :
               FileOpenOut(did, name, stage)
  BY <1>3, <1>7
<1> QED
  BY <1>1, <1>5, <1>6, <1>7, QuietUnique DEF Next

\* An empty repository has given out no id.
LEMMA InitUnique == Init => Unique
BY DEF Init, Empty, Unique, IdsGivenOut, IdsAreUnique, Known

\* Two entries never share a file id, until a process ends with ids it gave
\* out and did not save.
THEOREM IdsUnique == Spec => []IdsAreUnique
<1>1. Init => SInv /\ Unique
  BY InitSound, InitUnique
<1>2. SInv /\ Unique /\ [Next]_vars => SInv' /\ Unique'
  BY NextSound, NextUnique
<1>3. Unique => IdsAreUnique
  BY DEF Unique
<1> QED
  BY <1>1, <1>2, <1>3, PTL DEF Spec

\* The invariants together say that a handle finds its version: the entry with its id
\* is in the folder it was opened in, since the id is in no other.
LEMMA OwnerIsThere == UInv => OwnerIsFound
<1> SUFFICES ASSUME UInv, ~idsLost, NEW h \in DOMAIN files, files[h].mode = "out",
                    files[h].did \in DOMAIN folders
             PROVE  Owned(folders[files[h].did], files[h])
  BY DEF OwnerIsFound
<1> DEFINE f == files[h]
           d == folders[f.did]
           s == d.entries
<1>0. SInv /\ Kept /\ Unique
  BY DEF UInv
<1>1. PICK k \in DOMAIN entryFiles :
        /\ entryFiles[k].id = f.fileId
        /\ \E i \in DOMAIN entryFiles[k].versions :
             /\ entryFiles[k].versions[i].revision = f.fileRevision
             /\ entryFiles[k].versions[i].storeName = f.path
        /\ d.listed /\ d.path = k[1]
  BY <1>0 DEF Kept, HandleIsListed, ListedHandle
<1>2. PICK i \in DOMAIN entryFiles[k].versions :
        entryFiles[k].versions[i].revision = f.fileRevision
  BY <1>1
<1>3. k \in Keys /\ k = <<d.path, k[2]>> /\ k[2] \in Names
  BY <1>0, <1>1 DEF SInv, TypeOK, Keys
<1>4. PICK p \in DOMAIN s : s[p].name = k[2]
  BY <1>0, <1>1, <1>3 DEF Kept, ListedIsComplete, Positions
<1>5. Continues(s[p], entryFiles[k])
  BY <1>0, <1>3, <1>4 DEF Kept, MemoryContinuesDisk
<1>6. /\ s[p].id = f.fileId
      /\ i \in DOMAIN s[p].versions /\ s[p].versions[i].revision = f.fileRevision
  BY <1>1, <1>2, <1>5 DEF Continues, SameVersion
<1>7. WithId(d, f) # {} /\ WithId(d, f) \in SUBSET Nat
  BY <1>0, <1>4, <1>6, MemoryEntry DEF WithId
<1>8. OwnerEntry(d, f) \in DOMAIN s /\ s[OwnerEntry(d, f)].id = f.fileId
  <2>1. OwnerEntry(d, f) \in WithId(d, f)
    BY <1>7, FirstOfLeast DEF OwnerEntry
  <2> QED
    BY <2>1 DEF WithId
<1>9. OwnerEntry(d, f) = p
  <2> DEFINE q == OwnerEntry(d, f)
             l == <<d.path, s[q].name>>
  <2> HIDE DEF q
  <2>1. q \in DOMAIN s /\ s[q].id = f.fileId
    BY <1>8 DEF q
  <2>2. l \in Keys /\ s[q] \in Known(l)
    BY <1>0, <2>1, KeyInMemory
  <2>3. entryFiles[k] \in Known(k)
    BY <1>1, KnownIs
  <2>4. k = l
    BY <1>0, <1>1, <1>3, <2>1, <2>2, <2>3 DEF Unique, IdsAreUnique
  <2>5. s[q].name = s[p].name
    BY <1>3, <1>4, <2>4
  <2> QED
    BY <1>0, <1>4, <2>1, <2>5 DEF Kept, NamedOnce, q
<1> QED
  BY <1>6, <1>7, <1>9 DEF Owned, WithRevision

\* UInv holds, of a client that behaves like HandleDir and StoreDir.
LEMMA UInvHolds == ASSUME Careful PROVE Spec => []UInv
<1>1. Init => UInv
  BY InitSound, InitKept, InitUnique DEF UInv
<1>2. UInv /\ [Next]_vars => UInv'
  BY NextSound, NextKept, NextUnique DEF UInv
<1> QED
  BY <1>1, <1>2, PTL DEF Spec

\* AQBServer_FileCloseOut finds the version its handle belongs to, however many
\* versions and entries the folder got meanwhile and if it was opened again; the
\* search ("this should never happen...") does not fail.
THEOREM OwnerFound == ASSUME Careful PROVE Spec => []OwnerIsFound
BY UInvHolds, OwnerIsThere, PTL

-----------------------------------------------------------------------------
(* The digest of a version is that of its data file, as long as no id was  *)
(* lost.                                                                   *)

\* Every version that has a digest has it before, for the same data file.
Stamped(store, md5) ==
  \E l \in Keys : \E e \in Known(l) : \E j \in DOMAIN e.versions :
    e.versions[j].storeName = store /\ e.versions[j].md5 = md5

StampsStay ==
  \A k \in Keys : \A f \in Known(k)' : \A i \in DOMAIN f.versions :
    f.versions[i].md5 # NoDigest => Stamped(f.versions[i].storeName, f.versions[i].md5)

OutPath(p) == \E h \in DOMAIN files : files[h].mode = "out" /\ files[h].path = p

\* What a digest in memory or on disk says.
LEMMA StampedIsContent ==
  ASSUME Digests, ~idsLost, NEW p, NEW md5, Stamped(p, md5), md5 # NoDigest
  PROVE  p \in DOMAIN data /\ data[p] = md5 /\ ~OutPath(p)
BY DEF Digests, DigestIsContent, NoDigestYet, Stamped, OutPath

\* No digest is added, and data files change only while they are written.
LEMMA DigestsStay ==
  ASSUME Digests, ~idsLost' => ~idsLost, StampsStay,
         \A p \in DOMAIN data :
           OutPath(p) \/ (p \in DOMAIN data' /\ data'[p] = data[p]),
         \A h \in DOMAIN files' : files'[h].mode = "out" =>
           h \in DOMAIN files /\ files[h].mode = "out" /\ files'[h].path = files[h].path
  PROVE  Digests'
<1> SUFFICES ASSUME ~idsLost' PROVE Digests'
  BY DEF Digests, DigestIsContent, NoDigestYet, OneHandle
<1>1. Keys' = Keys
  BY DEF Keys
<1>2. ASSUME NEW k \in Keys, NEW e \in Known(k)', NEW i \in DOMAIN e.versions,
             e.versions[i].md5 # NoDigest
      PROVE  LET p == e.versions[i].storeName
             IN /\ p \in DOMAIN data' /\ data'[p] = e.versions[i].md5
                /\ \A h \in DOMAIN files' : files'[h].mode = "out" => files'[h].path # p
  <2>1. Stamped(e.versions[i].storeName, e.versions[i].md5)
    BY <1>2 DEF StampsStay
  <2> QED
    BY <1>2, <2>1, StampedIsContent DEF OutPath
<1>3. DigestIsContent' /\ NoDigestYet'
  BY <1>1, <1>2 DEF DigestIsContent, NoDigestYet
<1>4. OneHandle'
  BY DEF Digests, OneHandle
<1> QED
  BY <1>3, <1>4 DEF Digests

\* A step that knows no new digest keeps the digests right.
LEMMA NoStampsAdded ==
  ASSUME \A k \in Keys : \A f \in Known(k)' : \E e \in Known(k) : f.versions = e.versions
  PROVE  StampsStay
BY DEF StampsStay, Stamped

\* SetEntry adds no digest, and FileOpenOut neither.
LEMMA ChangeStamps ==
  ASSUME SInv, NEW did, NEW i, NEW m, Fits(did, i, m), EntryChanged(did, i, m),
         Adds(did, i, m)
  PROVE  StampsStay
<1> DEFINE s == folders[did].entries
           key == <<folders[did].path, m.name>>
<1>1. did \in DOMAIN folders
  BY DEF Fits
<1> SUFFICES ASSUME NEW k \in Keys, NEW f \in Known(k)', NEW j \in DOMAIN f.versions,
                    f.versions[j].md5 # NoDigest
             PROVE  Stamped(f.versions[j].storeName, f.versions[j].md5)
  BY DEF StampsStay
<1>2. CASE f \in Known(k)
  BY <1>2 DEF Stamped
<1>3. CASE f = m
  <2>1. /\ i \in DOMAIN s
        /\ \E l \in DOMAIN s[i].versions :
             /\ s[i].versions[l].md5 = m.versions[j].md5
             /\ s[i].versions[l].storeName = m.versions[j].storeName
    BY <1>3 DEF Adds
  <2>2. <<folders[did].path, s[i].name>> \in Keys
        /\ s[i] \in Known(<<folders[did].path, s[i].name>>)
    BY <1>1, <2>1, KeyInMemory
  <2> QED
    BY <1>3, <2>1, <2>2 DEF Stamped
<1> QED
  BY <1>2, <1>3, ChangeKnown

\* The entry file that has the id of an entry in memory is its own.
LEMMA SameEntry ==
  ASSUME UInv, ~idsLost, NEW d \in DOMAIN folders, NEW i \in DOMAIN folders[d].entries,
         NEW k \in DOMAIN entryFiles, entryFiles[k].id = folders[d].entries[i].id
  PROVE  Continues(folders[d].entries[i], entryFiles[k])
<1> DEFINE e == folders[d].entries[i]
           l == <<folders[d].path, e.name>>
<1>1. SInv /\ Kept /\ Unique /\ k \in Keys
  BY DEF UInv, SInv, TypeOK, Keys
<1>2. l \in Keys /\ e \in Known(l)
  BY <1>1, KeyInMemory
<1>3. entryFiles[k] \in Known(k)
  BY KnownIs
<1>4. k = l
  BY <1>1, <1>2, <1>3 DEF Unique, IdsAreUnique
<1> QED
  BY <1>1, <1>4 DEF Kept, MemoryContinuesDisk

\* A data file that FileOpenOut creates is a new one.
LEMMA NewDataFile ==
  ASSUME UInv, ~idsLost, loaded, NEW did, NEW i, NEW m, Fits(did, i, m),
         GetsId(did, i, m), Created(did, i, m)
  PROVE  files'[nextFileRuntimeId + 1].path \notin DOMAIN data
<1> DEFINE p == files'[nextFileRuntimeId + 1].path
           s == folders[did].entries
<1>0. SInv /\ Kept /\ Unique
  BY DEF UInv
<1>1. /\ p \in Store /\ p[1] = m.id /\ p[2] > 0
      /\ i \in DOMAIN s => p[2] > s[i].nextRevision
  BY <1>0, CreatedFacts
<1> HIDE DEF p
<1> SUFFICES ASSUME p \in DOMAIN data PROVE FALSE
  BY DEF p
<1>2. PICK k \in DOMAIN entryFiles :
        \E j \in DOMAIN entryFiles[k].versions : entryFiles[k].versions[j].storeName = p
  BY <1>0 DEF Kept, DataIsListed
<1>3. p # NoStore
  BY <1>1 DEF NoStore
<1>4. /\ entryFiles[k] \in Entry /\ Sound(entryFiles[k])
      /\ entryFiles[k].id \in Nat /\ entryFiles[k].nextRevision \in Nat
  BY <1>0, EntryParts DEF SInv, TypeOK, DiskIsSound
<1>5. entryFiles[k].id = m.id /\ p[2] <= entryFiles[k].nextRevision
  BY <1>1, <1>2, <1>3, <1>4 DEF Sound, Ordered
<1>6. CASE i \in DOMAIN s
  <2>1. did \in DOMAIN folders /\ Continues(m, s[i])
    BY <1>6 DEF Fits
  <2>2. Continues(s[i], entryFiles[k])
    BY <1>5, <1>6, <2>1, SameEntry DEF Continues
  <2>3. s[i].nextRevision \in Nat
    BY <1>0, <1>6, <2>1, MemoryEntry, EntryParts
  <2> QED
    BY <1>1, <1>4, <1>5, <1>6, <2>2, <2>3 DEF Continues, Store
<1>7. CASE i \notin DOMAIN s
  <2>1. m.id = nextFileId + 1 /\ nextFileId \in Nat
    BY <1>0, <1>7, Bounds, SoundTypes DEF GetsId, CounterTypes
  <2>2. k \in Keys /\ entryFiles[k] \in Known(k)
    BY <1>0, KnownIs DEF SInv, TypeOK
  <2>3. entryFiles[k].id <= nextFileId
    BY <1>0, <2>2 DEF Unique, IdsGivenOut, LastFileId
  <2> QED
    BY <1>4, <1>5, <2>1, <2>3
<1> QED
  BY <1>6, <1>7

\* The version whose digest FileCloseOut fills in names the data file of the
\* handle.
LEMMA FilledIsOwn ==
  ASSUME UInv, ~idsLost, NEW h \in DOMAIN files, files[h].mode = "out",
         NEW i, NEW j, NEW m, Filled(files[h].did, files[h], i, j, m)
  PROVE  m.versions[j].storeName = files[h].path
<1> DEFINE f == files[h]
           did == f.did
           s == folders[did].entries
<1>0. SInv /\ Kept
  BY DEF UInv
<1>1. /\ did \in DOMAIN folders
      /\ i \in DOMAIN s /\ Fits(did, i, m)
      /\ m.id = f.fileId /\ j \in DOMAIN m.versions
      /\ m.versions[j].revision = f.fileRevision
      /\ m \in Entry /\ Sound(m)
  BY DEF Filled, Fits
<1>2. PICK k \in DOMAIN entryFiles :
        /\ entryFiles[k].id = f.fileId
        /\ \E l \in DOMAIN entryFiles[k].versions :
             /\ entryFiles[k].versions[l].revision = f.fileRevision
             /\ entryFiles[k].versions[l].storeName = f.path
  BY <1>0 DEF Kept, HandleIsListed, ListedHandle
<1>3. PICK l \in DOMAIN entryFiles[k].versions :
        /\ entryFiles[k].versions[l].revision = f.fileRevision
        /\ entryFiles[k].versions[l].storeName = f.path
  BY <1>2
<1>4. Continues(m, s[i])
  BY <1>1 DEF Fits
<1>5. Continues(s[i], entryFiles[k])
  <2>1. s[i].id = entryFiles[k].id
    BY <1>1, <1>2, <1>4 DEF Continues
  <2> HIDE DEF did
  <2> QED
    BY <1>1, <2>1, SameEntry
<1>6. /\ l \in DOMAIN m.versions
      /\ m.versions[l].revision = f.fileRevision
      /\ m.versions[l].storeName = f.path
  BY <1>3, <1>4, <1>5 DEF Continues, SameVersion
<1>7. j = l
  <2>1. j \in Nat /\ l \in Nat /\ m.versions[j].revision \in Nat
    BY <1>1, <1>6, EntryParts
  <2>2. ~(j < l) /\ ~(l < j)
    BY <1>1, <1>6, <2>1 DEF Sound, Ordered
  <2> QED
    BY <2>1, <2>2
<1> QED
  BY <1>6, <1>7

\* The actions that create and close no data file.
LEMMA QuietDigests ==
  ASSUME UInv, Digests,
         \/ OpenRepository \/ Restart \/ Tick
         \/ \E forgotten \in BOOLEAN : CloseRepository(forgotten)
         \/ \E path \in Paths : OpenDir(path)
         \/ \E did, failed : CloseDir(did, failed)
         \/ \E did : GetEntries(did)
         \/ \E did, name, when : FileOpenIn(did, name, when)
         \/ \E fid : FileCloseIn(fid)
         \/ \E fid, chunk, flushed : FileWrite(fid, chunk, flushed)
         \/ \E did : \E name \in Names : \E deleteIt, keepDigest, ok \in BOOLEAN :
              SetEntry(did, name, deleteIt, keepDigest, ok)
         \/ UNCHANGED vars
  PROVE  Digests'
<1>0. SInv
  BY DEF UInv
<1>1. DOMAIN Empty = {}
  BY DEF Empty
<1>2. ASSUME UNCHANGED <<folders, entryFiles>> PROVE StampsStay
  BY <1>2, KnownStays, NoStampsAdded
<1>3. CASE OpenRepository \/ Tick \/ UNCHANGED vars
  <2>1. UNCHANGED <<folders, entryFiles, files, data, idsLost>>
    BY <1>3 DEF OpenRepository, Tick, vars, memory, disk, world
  <2> QED
    BY <1>2, <2>1, DigestsStay
<1>4. CASE Restart
  <2>1. StampsStay
    BY <1>1, <1>4, KnownStays, NoStampsAdded DEF Restart, Forget, disk
  <2>2. DOMAIN files' = {} /\ data' = data /\ (~idsLost' => ~idsLost)
    BY <1>1, <1>4 DEF Restart, Forget, disk
  <2> QED
    BY <2>1, <2>2, DigestsStay
<1>5. ASSUME NEW forgotten \in BOOLEAN, CloseRepository(forgotten) PROVE Digests'
  <2>1. data' = data /\ idsLost' = idsLost
    BY <1>5 DEF CloseRepository, world
  <2>2. CASE forgotten
    <3>1. StampsStay
      BY <1>1, <1>5, <2>2, KnownStays, NoStampsAdded DEF CloseRepository, Forget
    <3>2. DOMAIN files' = {}
      BY <1>1, <1>5, <2>2 DEF CloseRepository, Forget
    <3> QED
      BY <2>1, <3>1, <3>2, DigestsStay
  <2>3. CASE ~forgotten
    BY <1>2, <1>5, <2>1, <2>3, DigestsStay DEF CloseRepository, memory
  <2> QED
    BY <2>2, <2>3
<1>6. ASSUME NEW path \in Paths, OpenDir(path) PROVE Digests'
  <2>1. \A d \in DOMAIN folders' :
          \/ d \in DOMAIN folders /\ folders'[d] = folders[d]
          \/ DOMAIN folders'[d].entries = {}
    BY <1>6 DEF OpenDir, Put
  <2>2. UNCHANGED <<entryFiles, files, data, idsLost>>
    BY <1>6 DEF OpenDir, disk, world
  <2>3. StampsStay
    BY <2>1, <2>2, KnownStays, NoStampsAdded
  <2> QED
    BY <2>2, <2>3, DigestsStay
<1>7. ASSUME NEW did, NEW failed, CloseDir(did, failed) PROVE Digests'
  <2>1. UNCHANGED <<files, data, idsLost>>
    BY <1>7 DEF CloseDir, world
  <2>2. StampsStay
    BY <1>0, <1>7, CloseDirKnown, NoStampsAdded
  <2> QED
    BY <2>1, <2>2, DigestsStay
<1>8. ASSUME NEW did, GetEntries(did) PROVE Digests'
  <2>1. UNCHANGED <<files, data, idsLost>>
    BY <1>8 DEF GetEntries, disk, world
  <2>2. StampsStay
    BY <1>0, <1>8, GetEntriesKnown, NoStampsAdded
  <2> QED
    BY <2>1, <2>2, DigestsStay
<1>9. ASSUME NEW did, NEW name, NEW when, FileOpenIn(did, name, when) PROVE Digests'
  <2> DEFINE h == nextFileRuntimeId + 1
  <2>1. /\ DOMAIN files' = DOMAIN files \cup {h}
        /\ \A g \in DOMAIN files : g # h => files'[g] = files[g]
        /\ files'[h].mode = "in"
        /\ UNCHANGED <<folders, entryFiles, data, idsLost>>
    BY <1>9 DEF FileOpenIn, Put, disk, world
  <2> HIDE DEF h
  <2>2. \A g \in DOMAIN files' : files'[g].mode = "out" =>
          g \in DOMAIN files /\ files[g].mode = "out" /\ files'[g].path = files[g].path
    BY <2>1
  <2> QED
    BY <1>2, <2>1, <2>2, DigestsStay
<1>10. ASSUME NEW fid, FileCloseIn(fid) PROVE Digests'
  <2>1. /\ \A h \in DOMAIN files' : h \in DOMAIN files /\ files'[h] = files[h]
        /\ UNCHANGED <<folders, entryFiles, data, idsLost>>
    BY <1>10 DEF FileCloseIn, Without, disk, world
  <2> QED
    BY <1>2, <2>1, DigestsStay
<1>11. ASSUME NEW fid, NEW chunk, NEW flushed, FileWrite(fid, chunk, flushed)
       PROVE  Digests'
  <2>1. /\ fid \in DOMAIN files /\ files[fid] \in File /\ files[fid].mode = "out"
        /\ files' = [files EXCEPT ![fid] =
                       [files[fid] EXCEPT !.written = Append(@, chunk)]]
        /\ UNCHANGED <<folders, entryFiles, idsLost>>
    BY <1>0, <1>11 DEF FileWrite, world, SInv, TypeOK
  <2>2. \A h \in DOMAIN files' :
          h \in DOMAIN files /\ files[h].mode = files'[h].mode /\ files'[h].path = files[h].path
    BY <2>1 DEF File
  <2>3. /\ DOMAIN data' = DOMAIN data
        /\ \A p \in DOMAIN data : p # files[fid].path => data'[p] = data[p]
    BY <1>11 DEF FileWrite
  <2>4. \A p \in DOMAIN data : OutPath(p) \/ (p \in DOMAIN data' /\ data'[p] = data[p])
    BY <2>1, <2>3 DEF OutPath
  <2> QED
    BY <1>2, <2>1, <2>2, <2>4, DigestsStay
<1>12. ASSUME NEW did, NEW name \in Names, NEW deleteIt \in BOOLEAN,
              NEW keepDigest \in BOOLEAN, NEW ok \in BOOLEAN,
              SetEntry(did, name, deleteIt, keepDigest, ok)
       PROVE  Digests'
  <2>1. PICK i, m : Fits(did, i, m) /\ EntryChanged(did, i, m) /\ Adds(did, i, m)
    BY <1>0, <1>12, SetEntryChange
  <2>2. StampsStay
    BY <1>0, <2>1, ChangeStamps
  <2>3. UNCHANGED <<files, data, idsLost>>
    BY <1>12 DEF SetEntry, world
  <2> QED
    BY <2>2, <2>3, DigestsStay
<1> QED
  BY <1>3, <1>4, <1>5, <1>6, <1>7, <1>8, <1>9, <1>10, <1>11, <1>12

\* FileOpenOut creates a data file of its own, whose version has no digest.
LEMMA FileOpenOutDigests ==
  ASSUME UInv, Digests, NEW did, NEW name \in Names, NEW stage,
         FileOpenOut(did, name, stage)
  PROVE  Digests'
<1>0. SInv /\ Kept
  BY DEF UInv
<1>1. PICK i, m : Opened(did, stage, i, m)
  BY <1>0, FileOpenOutChange
<1>2. /\ Fits(did, i, m) /\ EntryChanged(did, i, m) /\ Adds(did, i, m)
      /\ GetsId(did, i, m)
      /\ stage = "created" => Created(did, i, m)
      /\ stage # "created" => data' = data /\ files' = files
  BY <1>1 DEF Opened
<1>3. StampsStay
  BY <1>0, <1>2, ChangeStamps
<1>4. idsLost' = idsLost /\ loaded
  BY <1>0 DEF FileOpenOut, MayChange, world, SInv, NothingUnloaded
<1>5. CASE stage # "created"
  BY <1>2, <1>3, <1>4, <1>5, DigestsStay
<1>6. CASE stage = "created"
  <2> SUFFICES ASSUME ~idsLost PROVE Digests'
    BY <1>4 DEF Digests, DigestIsContent, NoDigestYet, OneHandle
  <2> DEFINE n == nextFileRuntimeId + 1
             p == files'[n].path
  <2>1. /\ DOMAIN files' = DOMAIN files \cup {n} /\ n \notin DOMAIN files
        /\ \A g \in DOMAIN files : files'[g] = files[g]
        /\ DOMAIN data' = DOMAIN data \cup {p}
        /\ \A q \in DOMAIN data : q # p => data'[q] = data[q]
    BY <1>0, <1>2, <1>6, CreatedFacts
  <2>2. p \notin DOMAIN data
    BY <1>2, <1>4, <1>6, NewDataFile
  <2> HIDE DEF n, p
  <2>3. ASSUME NEW k \in Keys, NEW e \in Known(k)', NEW j \in DOMAIN e.versions,
               e.versions[j].md5 # NoDigest
        PROVE  LET q == e.versions[j].storeName
               IN q \in DOMAIN data /\ data[q] = e.versions[j].md5 /\ ~OutPath(q)
    <3>1. Stamped(e.versions[j].storeName, e.versions[j].md5)
      BY <1>3, <2>3 DEF StampsStay
    <3> QED
      BY <2>3, <3>1, StampedIsContent
  <2>4. Keys' = Keys
    BY DEF Keys
  <2>5. DigestIsContent'
    BY <2>1, <2>2, <2>3, <2>4 DEF DigestIsContent
  <2>6. NoDigestYet'
    <3> SUFFICES ASSUME NEW h \in DOMAIN files', files'[h].mode = "out",
                        NEW k \in Keys, NEW e \in Known(k)', NEW j \in DOMAIN e.versions,
                        e.versions[j].storeName = files'[h].path,
                        e.versions[j].md5 # NoDigest
                 PROVE  FALSE
      BY <2>4 DEF NoDigestYet
    <3>1. files'[h].path \in DOMAIN data /\ ~OutPath(files'[h].path)
      BY <2>3
    <3>2. h # n
      BY <2>2, <3>1 DEF p
    <3> QED
      BY <2>1, <3>1, <3>2 DEF OutPath
  <2>7. OneHandle'
    <3>1. ASSUME NEW g \in DOMAIN files, files[g].mode = "out" PROVE files[g].path # p
      BY <1>0, <2>2, <3>1 DEF Kept, HandleIsListed, ListedHandle
    <3>2. ASSUME NEW g \in DOMAIN files', NEW h \in DOMAIN files',
                 files'[g].mode = "out", files'[h].mode = "out",
                 files'[g].path = files'[h].path
          PROVE  g = h
      <4>1. CASE g = n \/ h = n
        BY <2>1, <3>1, <3>2, <4>1 DEF p
      <4>2. CASE g # n /\ h # n
        BY <2>1, <3>2, <4>2 DEF Digests, OneHandle
      <4> QED
        BY <4>1, <4>2
    <3> QED
      BY <3>2 DEF OneHandle
  <2> QED
    BY <2>5, <2>6, <2>7 DEF Digests
<1> QED
  BY <1>5, <1>6

\* FileCloseOut gives the version the digest of what was written to the handle.
LEMMA FileCloseOutDigests ==
  ASSUME UInv, Digests, NEW fid, NEW flushed \in BOOLEAN, FileCloseOut(fid, flushed)
  PROVE  Digests'
<1> DEFINE f == files[fid]
<1>0. SInv /\ Kept
  BY DEF UInv
<1>1. /\ fid \in DOMAIN files /\ f \in File /\ f.mode = "out"
      /\ \/ data' = data
         \/ data' = [data EXCEPT ![f.path] = f.written]
      /\ \/ files' = Without(files, fid)
         \/ files' = [files EXCEPT ![fid].mode = "closed"]
      /\ \/ folders' = folders
         \/ /\ data' = [data EXCEPT ![f.path] = f.written]
            /\ files' = Without(files, fid)
            /\ \E i, j, m : Filled(f.did, f, i, j, m)
  BY <1>0, FileCloseOutChange
<1>2. entryFiles' = entryFiles /\ idsLost' = idsLost
  BY DEF FileCloseOut, world
<1>3. \A h \in DOMAIN files' : files'[h].mode = "out" =>
        /\ h \in DOMAIN files /\ files[h].mode = "out" /\ files'[h].path = files[h].path
        /\ h # fid
  <2>1. CASE files' = Without(files, fid)
    BY <2>1 DEF Without
  <2>2. CASE files' = [files EXCEPT ![fid].mode = "closed"]
    BY <1>1, <2>2 DEF File
  <2> QED
    BY <1>1, <2>1, <2>2
<1>4. \A p \in DOMAIN data :
        OutPath(p) \/ (p \in DOMAIN data' /\ data'[p] = data[p])
  <2>1. OutPath(f.path)
    BY <1>1 DEF OutPath
  <2>2. \A p \in DOMAIN data : p = f.path \/ (p \in DOMAIN data' /\ data'[p] = data[p])
    BY <1>1
  <2> QED
    BY <2>1, <2>2
<1>5. CASE folders' = folders
  <2>1. StampsStay
    BY <1>2, <1>5, KnownStays, NoStampsAdded
  <2> QED
    BY <1>2, <1>3, <1>4, <2>1, DigestsStay
<1>6. ASSUME NEW i, NEW j, NEW m, Filled(f.did, f, i, j, m), ~idsLost,
             data' = [data EXCEPT ![f.path] = f.written]
      PROVE  Digests'
  <2> DEFINE did == f.did
             s == folders[did].entries
             p == f.path
  <2>1. /\ Fits(did, i, m) /\ EntryChanged(did, i, m)
        /\ i \in DOMAIN s /\ did \in DOMAIN folders
        /\ DOMAIN m.versions = DOMAIN s[i].versions
        /\ m.versions[j].md5 = f.written
        /\ \A l \in DOMAIN m.versions : l # j => m.versions[l] = s[i].versions[l]
    BY <1>2, <1>6 DEF Filled, Fits, EntryChanged
  <2>2. m.versions[j].storeName = p
    <3>1. fid \in DOMAIN files /\ files[fid].mode = "out"
      BY <1>1
    <3>2. Filled(files[fid].did, files[fid], i, j, m) /\ ~idsLost
      BY <1>6
    <3> QED
      BY <3>1, <3>2, FilledIsOwn
  <2>3. p \in DOMAIN data /\ OutPath(p)
    BY <1>0, <1>1 DEF Kept, HandleIsListed, ListedHandle, OutPath
  <2>4. DOMAIN data' = DOMAIN data /\ data'[p] = f.written
        /\ \A q \in DOMAIN data : q # p => data'[q] = data[q]
    BY <1>6, <2>3
  <2>5. \A h \in DOMAIN files' : files'[h].mode = "out" =>
          files'[h].path # p /\ OutPath(files'[h].path)
    BY <1>1, <1>3, <1>6 DEF Digests, OneHandle, OutPath
  <2> HIDE DEF did, p
  <2>6. ASSUME NEW k \in Keys, NEW e \in Known(k)', NEW l \in DOMAIN e.versions,
               e.versions[l].md5 # NoDigest
        PROVE  \/ e.versions[l].storeName = p /\ e.versions[l].md5 = f.written
               \/ Stamped(e.versions[l].storeName, e.versions[l].md5)
    <3>1. CASE e \in Known(k)
      BY <3>1 DEF Stamped
    <3>2. CASE e = m /\ l = j
      BY <2>1, <2>2, <3>2
    <3>3. CASE e = m /\ l # j
      <4>1. <<folders[did].path, s[i].name>> \in Keys
            /\ s[i] \in Known(<<folders[did].path, s[i].name>>)
        BY <1>0, <2>1, KeyInMemory
      <4>2. l \in DOMAIN s[i].versions /\ e.versions[l] = s[i].versions[l]
        BY <2>1, <3>3
      <4> QED
        BY <4>1, <4>2 DEF Stamped
    <3> QED
      BY <1>0, <2>1, <3>1, <3>2, <3>3, ChangeKnown
  <2>7. ASSUME NEW k \in Keys, NEW e \in Known(k)', NEW l \in DOMAIN e.versions,
               e.versions[l].md5 # NoDigest
        PROVE  LET q == e.versions[l].storeName
               IN /\ q \in DOMAIN data' /\ data'[q] = e.versions[l].md5
                  /\ \A h \in DOMAIN files' : files'[h].mode = "out" => files'[h].path # q
    <3>1. CASE e.versions[l].storeName = p /\ e.versions[l].md5 = f.written
      BY <2>3, <2>4, <2>5, <3>1
    <3>2. CASE Stamped(e.versions[l].storeName, e.versions[l].md5)
      <4> DEFINE q == e.versions[l].storeName
      <4>1. q \in DOMAIN data /\ data[q] = e.versions[l].md5 /\ ~OutPath(q)
        BY <1>6, <2>7, <3>2, StampedIsContent
      <4> HIDE DEF q
      <4>2. q # p
        BY <2>3, <4>1
      <4> QED
        BY <2>4, <2>5, <4>1, <4>2 DEF q
    <3> QED
      BY <2>6, <2>7, <3>1, <3>2
  <2>8. Keys' = Keys
    BY DEF Keys
  <2>9. DigestIsContent' /\ NoDigestYet'
    BY <2>7, <2>8 DEF DigestIsContent, NoDigestYet
  <2>10. OneHandle'
    BY <1>3, <1>6 DEF Digests, OneHandle
  <2> QED
    BY <2>9, <2>10 DEF Digests
<1>7. CASE idsLost
  BY <1>2, <1>7 DEF Digests, DigestIsContent, NoDigestYet, OneHandle
<1> QED
  BY <1>1, <1>5, <1>6, <1>7

\* Every step keeps the digests right.
LEMMA NextDigests ==
  ASSUME UInv, Digests, [Next]_vars PROVE Digests'
<1>1. CASE \E did \in 1..MaxFolders : \E name \in Names :
             \E stage \in IF Failures THEN Stages ELSE {"created"} :
               FileOpenOut(did, name, stage)
  BY <1>1, FileOpenOutDigests
<1>2. CASE \E fid \in 1..MaxFiles : \E flushed \in IF Failures THEN BOOLEAN ELSE {TRUE} :
             FileCloseOut(fid, flushed)
  BY <1>2, FileCloseOutDigests
<1>3. CASE \E did \in 1..MaxFolders : \E name \in Names :
             \E deleteIt, keepDigest \in BOOLEAN,
                ok \in IF Failures THEN BOOLEAN ELSE {TRUE} :
               SetEntry(did, name, deleteIt, keepDigest, ok)
  <2>1. \E did : \E name \in Names : \E deleteIt, keepDigest, ok \in BOOLEAN :
          SetEntry(did, name, deleteIt, keepDigest, ok)
    BY <1>3
  <2> QED
    BY <2>1, QuietDigests
<1> QED
  BY <1>1, <1>2, <1>3, QuietDigests DEF Next

\* An empty repository has no digests.
LEMMA InitDigests == Init => Digests
BY DEF Init, Empty, Digests, DigestIsContent, NoDigestYet, OneHandle, Known

\* DInv holds, of a client that behaves like HandleDir and StoreDir.
LEMMA DInvHolds == ASSUME Careful PROVE Spec => []DInv
<1>1. Init => DInv
  BY InitSound, InitKept, InitUnique, InitDigests DEF DInv, UInv
<1>2. DInv /\ [Next]_vars => DInv'
  BY NextSound, NextKept, NextUnique, NextDigests DEF DInv, UInv
<1> QED
  BY <1>1, <1>2, PTL DEF Spec

\* The digest of a version is the one of the data file the version names.  Those of
\* AQBServer_FileCloseOut are of the file it closes, and a version gets a digest
\* otherwise only with the data file itself (SetEntry with an unchanged file).
THEOREM DigestsAreContent == ASSUME Careful PROVE Spec => []DigestIsContent
<1>1. DInv => DigestIsContent
  BY DEF DInv, Digests
<1> QED
  BY <1>1, DInvHolds, PTL

-----------------------------------------------------------------------------
(* A data file changes only through the handle it was created with.        *)

\* Data file p is not written by this step.
Untouched(p) == p \in DOMAIN data' /\ data'[p] = data[p]

\* FileOpenOut is the only action that could write over a data file that no
\* handle writes.
LEMMA OnlyCreationReplaces ==
  ASSUME SInv, [Next]_vars, NEW p \in DOMAIN data, Writing(p) = {}
  PROVE  \/ Untouched(p)
         \/ \E did, i, m : /\ loaded
                           /\ Fits(did, i, m) /\ GetsId(did, i, m) /\ Created(did, i, m)
                           /\ files'[nextFileRuntimeId + 1].path = p
<1> DEFINE Replaced ==
      \E did, i, m : /\ loaded
                     /\ Fits(did, i, m) /\ GetsId(did, i, m) /\ Created(did, i, m)
                     /\ files'[nextFileRuntimeId + 1].path = p
<1>1. ASSUME data' = data PROVE Untouched(p)
  BY <1>1 DEF Untouched
<1>2. ASSUME NEW fid, NEW chunk, NEW flushed, FileWrite(fid, chunk, flushed)
      PROVE  Untouched(p)
  <2>1. files[fid].path # p
    BY <1>2 DEF FileWrite, Writing
  <2>2. data' = data \/ data' = [data EXCEPT ![files[fid].path] =
                                   Append(files[fid].written, chunk)]
    BY <1>2 DEF FileWrite
  <2> QED
    BY <2>1, <2>2 DEF Untouched
<1>3. ASSUME NEW fid, NEW flushed \in BOOLEAN, FileCloseOut(fid, flushed)
      PROVE  Untouched(p)
  <2>1. /\ fid \in DOMAIN files /\ files[fid].mode = "out"
        /\ data' = data \/ data' = [data EXCEPT ![files[fid].path] = files[fid].written]
    BY <1>3, FileCloseOutChange
  <2>2. files[fid].path # p
    BY <2>1 DEF Writing
  <2> QED
    BY <2>1, <2>2 DEF Untouched
<1>4. ASSUME NEW did, NEW name \in Names, NEW stage, FileOpenOut(did, name, stage)
      PROVE  Untouched(p) \/ Replaced
  <2>1. PICK i, m : Opened(did, stage, i, m)
    BY <1>4, FileOpenOutChange
  <2>2. /\ Fits(did, i, m) /\ GetsId(did, i, m)
        /\ stage = "created" => Created(did, i, m)
        /\ stage # "created" => data' = data
    BY <2>1 DEF Opened
  <2>3. loaded
    BY <1>4 DEF FileOpenOut, MayChange, SInv, NothingUnloaded
  <2>4. CASE stage # "created"
    BY <1>1, <2>2, <2>4
  <2>5. CASE stage = "created"
    <3> DEFINE q == files'[nextFileRuntimeId + 1].path
    <3>1. /\ DOMAIN data' = DOMAIN data \cup {q}
          /\ \A r \in DOMAIN data : r # q => data'[r] = data[r]
      BY <2>2, <2>5, CreatedFacts
    <3>2. CASE p = q
      BY <2>2, <2>3, <2>5, <3>2
    <3>3. CASE p # q
      BY <3>1, <3>3 DEF Untouched
    <3> QED
      BY <3>2, <3>3
  <2> QED
    BY <2>4, <2>5
<1>5. CASE \/ OpenRepository \/ Restart \/ Tick
           \/ \E forgotten \in BOOLEAN : CloseRepository(forgotten)
           \/ \E path \in Paths : OpenDir(path)
  BY <1>1, <1>5 DEF OpenRepository, Restart, Tick, CloseRepository, OpenDir, disk
<1>6. ASSUME NEW did, \/ \E failed : CloseDir(did, failed)
                      \/ GetEntries(did)
                      \/ \E name, when : FileOpenIn(did, name, when)
      PROVE  Untouched(p)
  BY <1>1, <1>6 DEF CloseDir, GetEntries, FileOpenIn, disk
<1>7. ASSUME NEW did, NEW name, NEW deleteIt, NEW keepDigest, NEW ok,
             SetEntry(did, name, deleteIt, keepDigest, ok)
      PROVE  Untouched(p)
  BY <1>1, <1>7 DEF SetEntry
<1>8. ASSUME NEW fid, FileCloseIn(fid) PROVE Untouched(p)
  BY <1>1, <1>8 DEF FileCloseIn, disk
<1>9. CASE UNCHANGED vars
  BY <1>1, <1>9 DEF vars, disk
<1>10. ASSUME NEW did \in 1..MaxFolders,
              \/ \E failed \in IF Failures THEN SUBSET Names ELSE {{}} : CloseDir(did, failed)
              \/ GetEntries(did)
              \/ \E name \in Names :
                   \/ \E deleteIt, keepDigest \in BOOLEAN,
                         ok \in IF Failures THEN BOOLEAN ELSE {TRUE} :
                        SetEntry(did, name, deleteIt, keepDigest, ok)
                   \/ \E stage \in IF Failures THEN Stages ELSE {"created"} :
                        FileOpenOut(did, name, stage)
                   \/ \E when \in 0..MaxClock : FileOpenIn(did, name, when)
       PROVE  Untouched(p) \/ Replaced
  BY <1>4, <1>6, <1>7, <1>10
<1>11. ASSUME NEW fid \in 1..MaxFiles,
              \/ \E chunk \in Chunks, flushed \in BOOLEAN : FileWrite(fid, chunk, flushed)
              \/ \E flushed \in IF Failures THEN BOOLEAN ELSE {TRUE} : FileCloseOut(fid, flushed)
              \/ FileCloseIn(fid)
       PROVE  Untouched(p)
  BY <1>2, <1>3, <1>8, <1>11
<1> HIDE DEF Replaced
<1> QED
  BY <1>5, <1>9, <1>10, <1>11 DEF Next, Replaced

\* A data file that no handle writes stays as it is, even after file ids were
\* given out twice, if no entry has more revisions than FileOpenOut tries names.
THEOREM DataFilesStay == ASSUME MaxRevision <= MaxTry PROVE Spec => DataFileStays
<1> DEFINE Step == \A p \in DOMAIN data :
                     Writing(p) = {} => p \in DOMAIN data' /\ data'[p] = data[p]
<1>1. ASSUME SInv, [Next]_vars PROVE Step
  <2> SUFFICES ASSUME NEW p \in DOMAIN data, Writing(p) = {} PROVE Untouched(p)
    BY DEF Untouched
  <2>1. ASSUME NEW did, NEW i, NEW m, Fits(did, i, m), Created(did, i, m),
               files'[nextFileRuntimeId + 1].path = p
        PROVE  FALSE
    <3>1. files'[nextFileRuntimeId + 1].path \in DOMAIN data => MaxTry < MaxRevision
      BY <1>1, <2>1, CreatedFacts
    <3> QED
      BY <2>1, <3>1, Bounds
  <2> QED
    BY <1>1, <2>1, OnlyCreationReplaces
<1>2. [Next]_vars /\ SInv => [Step]_vars
  BY <1>1
<1> QED
  BY <1>2, SInvHolds, PTL DEF Spec, DataFileStays

\* The same for any number of revisions, until a process ends with file ids it
\* gave out and did not save.
THEOREM DataFilesStayUnlost ==
  ASSUME Careful
  PROVE  Spec => [][~idsLost => \A p \in DOMAIN data :
                      Writing(p) = {} => p \in DOMAIN data' /\ data'[p] = data[p]]_vars
<1> DEFINE Step == ~idsLost => \A p \in DOMAIN data :
                     Writing(p) = {} => p \in DOMAIN data' /\ data'[p] = data[p]
<1>1. ASSUME UInv, [Next]_vars PROVE Step
  <2> SUFFICES ASSUME ~idsLost, NEW p \in DOMAIN data, Writing(p) = {} PROVE Untouched(p)
    BY DEF Untouched
  <2>1. SInv
    BY <1>1 DEF UInv
  <2>2. ASSUME NEW did, NEW i, NEW m, loaded, Fits(did, i, m), GetsId(did, i, m),
               Created(did, i, m), files'[nextFileRuntimeId + 1].path = p
        PROVE  FALSE
    BY <1>1, <2>2, NewDataFile
  <2> QED
    BY <1>1, <2>1, <2>2, OnlyCreationReplaces
<1>2. [Next]_vars /\ UInv => [Step]_vars
  BY <1>1
<1> QED
  BY <1>2, UInvHolds, PTL DEF Spec

-----------------------------------------------------------------------------
(* The version of a moment that has passed, of a client that behaves like  *)
(* HandleDir and StoreDir and a disk that never fails.                     *)

\* Entry f is entry e with versions added now.
GrewNow(f, e) ==
  /\ Continues(f, e)
  /\ \A i \in DOMAIN f.versions : i \in DOMAIN e.versions \/ f.versions[i].btime = clock

\* Versions added now are not among those made before a moment that has passed.
LEMMA PastIsFixed ==
  ASSUME NEW e \in Entry, Sound(e), NEW f \in Entry, Sound(f), GrewNow(f, e),
         clock \in Nat, NEW when \in 1..clock, Candidates(f, when) # {}
  PROVE  /\ Candidates(e, when) # {}
         /\ f.versions[dup_date(f, when)].revision = e.versions[dup_date(e, when)].revision
<1>1. Candidates(f, when) = Candidates(e, when)
  <2>1. ASSUME NEW i \in Candidates(f, when) PROVE i \in Candidates(e, when)
    BY <2>1 DEF Candidates, GrewNow, Continues, SameVersion
  <2>2. ASSUME NEW i \in Candidates(e, when) PROVE i \in Candidates(f, when)
    BY <2>2 DEF Candidates, GrewNow, Continues, SameVersion
  <2> QED
    BY <2>1, <2>2
<1>2. /\ dup_date(e, when) \in Candidates(e, when)
      /\ \A j \in Candidates(e, when) : j <= dup_date(e, when)
  BY <1>1, DupDateIsLast
<1>3. /\ dup_date(f, when) \in Candidates(e, when)
      /\ \A j \in Candidates(e, when) : j <= dup_date(f, when)
  BY <1>1, DupDateIsLast
<1>4. Candidates(e, when) \subseteq Nat /\ Candidates(e, when) \subseteq DOMAIN e.versions
  BY EntryParts DEF Candidates
<1>5. dup_date(f, when) = dup_date(e, when)
  BY <1>2, <1>3, <1>4
<1> QED
  BY <1>2, <1>4, <1>5 DEF GrewNow, Continues, SameVersion

\* A step adds versions to the entry files only now.
PastStays ==
  \A k \in DOMAIN entryFiles :
    k \in DOMAIN entryFiles' /\ GrewNow(entryFiles'[k], entryFiles[k])

\* When entry files go on and keep their versions, the past stays.
LEMMA SameVersionsPast ==
  ASSUME HistoryGoesOn,
         \A k \in DOMAIN entryFiles : DOMAIN entryFiles'[k].versions = DOMAIN entryFiles[k].versions
  PROVE  PastStays
BY DEF HistoryGoesOn, PastStays, GrewNow

\* The actions that leave the entries alone, or forget them.
LEMMA QuietUnwritten ==
  ASSUME NothingUnwritten, entryFiles' = entryFiles,
         \A d \in DOMAIN folders' :
           \/ d \in DOMAIN folders /\ folders'[d] = folders[d]
           \/ DOMAIN folders'[d].entries = {}
  PROVE  NothingUnwritten'
BY DEF NothingUnwritten

\* What CloseDir writes was on disk but for the digests.
LEMMA CloseDirPast ==
  ASSUME SInv, Kept, NothingUnwritten, NEW did, NEW failed, CloseDir(did, failed)
  PROVE  NothingUnwritten' /\ PastStays
<1> DEFINE path == folders[did].path
<1>1. /\ did \in DOMAIN folders
      /\ \A d \in DOMAIN folders' : d \in DOMAIN folders /\ folders'[d] = folders[d]
                                    /\ folders[d].path # path
  <2>1. did \in DOMAIN folders /\ folders' = Without(folders, did)
    BY CloseDirFacts
  <2>2. \A d \in DOMAIN folders' : d # did /\ d \in DOMAIN folders /\ folders'[d] = folders[d]
    BY <2>1 DEF Without
  <2> QED
    BY <2>1, <2>2 DEF Kept, OpenOnce
<1>2. /\ DOMAIN entryFiles \subseteq DOMAIN entryFiles'
      /\ \A k \in DOMAIN entryFiles :
           \/ entryFiles'[k] = entryFiles[k]
           \/ /\ k = <<path, k[2]>>
              /\ \E i \in DOMAIN folders[did].entries :
                   /\ folders[did].entries[i].name = k[2]
                   /\ entryFiles'[k] = Written(folders[did].entries[i])
  BY CloseDirFacts
<1>3. NothingUnwritten'
  <2> SUFFICES ASSUME NEW d \in DOMAIN folders', NEW i \in DOMAIN folders'[d].entries,
                      NEW k, k = <<folders'[d].path, folders'[d].entries[i].name>>
               PROVE  /\ k \in DOMAIN entryFiles'
                      /\ DOMAIN entryFiles'[k].versions = DOMAIN folders'[d].entries[i].versions
    BY DEF NothingUnwritten
  <2>1. d \in DOMAIN folders /\ folders'[d] = folders[d] /\ k[1] # path
    BY <1>1
  <2>2. /\ k \in DOMAIN entryFiles
        /\ DOMAIN entryFiles[k].versions = DOMAIN folders[d].entries[i].versions
    BY <2>1 DEF NothingUnwritten
  <2>3. k \in DOMAIN entryFiles' /\ entryFiles'[k] = entryFiles[k]
    BY <1>2, <2>1, <2>2
  <2> QED
    BY <2>1, <2>2, <2>3
<1>4. PastStays
  <2> SUFFICES ASSUME NEW k \in DOMAIN entryFiles
               PROVE  DOMAIN entryFiles'[k].versions = DOMAIN entryFiles[k].versions
    BY CloseDirKept, SameVersionsPast
  <2>1. ASSUME NEW i \in DOMAIN folders[did].entries, k = <<path, k[2]>>,
               folders[did].entries[i].name = k[2],
               entryFiles'[k] = Written(folders[did].entries[i])
        PROVE  DOMAIN entryFiles'[k].versions = DOMAIN entryFiles[k].versions
    <3>1. DOMAIN entryFiles[k].versions = DOMAIN folders[did].entries[i].versions
      BY <1>1, <2>1 DEF NothingUnwritten
    <3>2. folders[did].entries[i] \in Entry /\ Sound(folders[did].entries[i])
      BY <1>1, MemoryEntry
    <3>3. entryFiles'[k].versions = folders[did].entries[i].versions
      BY <2>1, <3>2, WrittenEntry
    <3> QED
      BY <3>1, <3>3
  <2> QED
    BY <1>2, <2>1
<1> QED
  BY <1>3, <1>4

\* GetEntries takes the entries from disk.
LEMMA GetEntriesUnwritten ==
  ASSUME SInv, NothingUnwritten, NEW did, GetEntries(did)
  PROVE  NothingUnwritten'
<1> DEFINE path == folders[did].path
           s == folders[did].entries
           t == folders'[did].entries
<1>1. /\ did \in DOMAIN folders
      /\ DOMAIN folders' = DOMAIN folders
      /\ \A d \in DOMAIN folders \ {did} : folders'[d] = folders[d]
      /\ folders'[did].path = path
      /\ \A j \in DOMAIN s : t[j] = s[j]
      /\ \A j \in DOMAIN t \ DOMAIN s :
           /\ <<path, t[j].name>> \in DOMAIN entryFiles
           /\ t[j] = entryFiles[<<path, t[j].name>>]
  BY GetEntriesFacts
<1>2. entryFiles' = entryFiles
  BY DEF GetEntries, disk
<1>3. ASSUME NEW j \in DOMAIN t, NEW k, k = <<path, t[j].name>>
      PROVE  k \in DOMAIN entryFiles /\ DOMAIN entryFiles[k].versions = DOMAIN t[j].versions
  <2>1. CASE j \in DOMAIN s
    BY <1>1, <1>3, <2>1 DEF NothingUnwritten
  <2>2. CASE j \notin DOMAIN s
    BY <1>1, <1>3, <2>2
  <2> QED
    BY <2>1, <2>2
<1> HIDE DEF t
<1>4. ASSUME NEW d \in DOMAIN folders', NEW j \in DOMAIN folders'[d].entries,
             NEW k, k = <<folders'[d].path, folders'[d].entries[j].name>>
      PROVE  /\ k \in DOMAIN entryFiles
             /\ DOMAIN entryFiles[k].versions = DOMAIN folders'[d].entries[j].versions
  <2>1. CASE d = did
    BY <1>1, <1>3, <1>4, <2>1 DEF t
  <2>2. CASE d # did
    BY <1>1, <1>4, <2>2 DEF NothingUnwritten
  <2> QED
    BY <2>1, <2>2
<1> QED
  BY <1>2, <1>4 DEF NothingUnwritten

\* SetEntry and FileOpenOut, when the entry is written, add versions made now.
LEMMA ChangePast ==
  ASSUME SInv, Kept, NothingUnwritten, NEW did, NEW i, NEW m,
         Fits(did, i, m), folders[did].listed, EntryChanged(did, i, m), Adds(did, i, m),
         entryFiles' = Put(entryFiles, <<folders[did].path, m.name>>, m)
  PROVE  NothingUnwritten' /\ PastStays
<1> DEFINE s == folders[did].entries
           key == <<folders[did].path, m.name>>
<1>1. /\ OpenOnce' /\ NamedOnce' /\ HistoryGoesOn
      /\ \A d \in DOMAIN folders : folders'[d].path = folders[d].path
  BY ChangeGoesOn DEF CInv
<1>2. /\ did \in DOMAIN folders /\ m \in Entry
      /\ i \in 1..(Len(s) + 1)
      /\ \/ i \in DOMAIN s /\ Continues(m, s[i])
         \/ i \notin DOMAIN s /\ Positions(s, m.name) = {}
  BY DEF Fits
<1>3. /\ DOMAIN folders' = DOMAIN folders
      /\ \A d \in DOMAIN folders \ {did} : folders'[d] = folders[d]
      /\ DOMAIN folders'[did].entries = DOMAIN s \cup {i}
      /\ folders'[did].entries[i] = m
      /\ \A j \in DOMAIN s : j # i => folders'[did].entries[j] = s[j]
  BY <1>2, WithEntryFacts DEF EntryChanged, SInv
<1>4. /\ DOMAIN entryFiles' = DOMAIN entryFiles \cup {key}
      /\ entryFiles'[key] = m
      /\ \A k \in DOMAIN entryFiles : k # key => entryFiles'[k] = entryFiles[k]
  BY DEF Put
<1>5. PastStays
  <2> SUFFICES ASSUME NEW k \in DOMAIN entryFiles
               PROVE  /\ k \in DOMAIN entryFiles'
                      /\ Continues(entryFiles'[k], entryFiles[k])
                      /\ \A j \in DOMAIN entryFiles'[k].versions :
                           \/ j \in DOMAIN entryFiles[k].versions
                           \/ entryFiles'[k].versions[j].btime = clock
    BY DEF PastStays, GrewNow
  <2>1. k \in DOMAIN entryFiles' /\ Continues(entryFiles'[k], entryFiles[k])
    BY <1>1 DEF HistoryGoesOn
  <2>2. CASE k # key
    BY <1>4, <2>1, <2>2
  <2>3. CASE k = key
    <3>1. Positions(s, m.name) # {}
      BY <1>2, <2>3, EntryParts DEF Kept, ListedIsComplete
    <3>2. i \in DOMAIN s /\ s[i].name = m.name
      BY <1>2, <3>1 DEF Continues
    <3>3. DOMAIN entryFiles[k].versions = DOMAIN s[i].versions
      BY <1>2, <2>3, <3>2 DEF NothingUnwritten
    <3>4. \A j \in DOMAIN m.versions : j \in DOMAIN s[i].versions \/ m.versions[j].btime = clock
      BY DEF Adds
    <3> QED
      BY <1>4, <2>1, <2>3, <3>3, <3>4
  <2> QED
    BY <2>2, <2>3
<1>6. NothingUnwritten'
  <2> SUFFICES ASSUME NEW d \in DOMAIN folders', NEW j \in DOMAIN folders'[d].entries,
                      NEW k, k = <<folders'[d].path, folders'[d].entries[j].name>>
               PROVE  /\ k \in DOMAIN entryFiles'
                      /\ DOMAIN entryFiles'[k].versions = DOMAIN folders'[d].entries[j].versions
    BY DEF NothingUnwritten
  <2>1. CASE d = did /\ j = i
    BY <1>1, <1>2, <1>3, <1>4, <2>1
  <2>2. CASE d # did \/ j # i
    <3>1. /\ d \in DOMAIN folders /\ j \in DOMAIN folders[d].entries
          /\ folders'[d].entries[j] = folders[d].entries[j]
          /\ folders'[d].path = folders[d].path
      BY <1>1, <1>3, <2>2
    <3>2. k # key
      <4> SUFFICES ASSUME k = key PROVE FALSE
        OBVIOUS
      <4>1. /\ folders'[d].path = folders'[did].path
            /\ folders'[d].entries[j].name = folders'[did].entries[i].name
        BY <1>1, <1>2, <1>3
      <4> QED
        BY <1>1, <1>2, <1>3, <2>2, <4>1 DEF OpenOnce, NamedOnce
    <3> QED
      BY <1>4, <3>1, <3>2 DEF NothingUnwritten
  <2> QED
    BY <2>1, <2>2
<1> QED
  BY <1>5, <1>6

\* FileCloseOut adds no version.
LEMMA FilledUnwritten ==
  ASSUME SInv, NothingUnwritten, entryFiles' = entryFiles,
         NEW did, NEW f, NEW i, NEW j, NEW m, Filled(did, f, i, j, m)
  PROVE  NothingUnwritten'
<1> DEFINE s == folders[did].entries
           t == folders'[did].entries
<1>1. /\ did \in DOMAIN folders /\ m \in Entry /\ i \in DOMAIN s
      /\ i \in 1..(Len(s) + 1)
      /\ DOMAIN m.versions = DOMAIN s[i].versions
      /\ m.name = s[i].name
      /\ folders' = WithEntry(did, i, m)
  BY DEF Filled, Fits, Continues
<1>2. /\ DOMAIN folders' = DOMAIN folders
      /\ \A d \in DOMAIN folders : folders'[d].path = folders[d].path
      /\ \A d \in DOMAIN folders \ {did} : folders'[d] = folders[d]
      /\ DOMAIN t = DOMAIN s \cup {i} /\ t[i] = m
      /\ \A l \in DOMAIN s : l # i => t[l] = s[l]
  BY <1>1, WithEntryFacts DEF SInv
<1>3. ASSUME NEW d \in DOMAIN folders', NEW l \in DOMAIN folders'[d].entries
      PROVE  /\ d \in DOMAIN folders /\ l \in DOMAIN folders[d].entries
             /\ folders'[d].path = folders[d].path
             /\ folders'[d].entries[l].name = folders[d].entries[l].name
             /\ DOMAIN folders'[d].entries[l].versions = DOMAIN folders[d].entries[l].versions
  <2>1. CASE d = did /\ l = i
    BY <1>1, <1>2, <2>1
  <2>2. CASE d # did \/ l # i
    BY <1>1, <1>2, <2>2
  <2> QED
    BY <2>1, <2>2
<1> QED
  BY <1>3 DEF NothingUnwritten

\* Every step of a client like HandleDir and StoreDir, when no write fails.
LEMMA NextPast ==
  ASSUME SInv, Kept, NothingUnwritten, Careful, ~Failures, [Next]_vars
  PROVE  NothingUnwritten' /\ PastStays
<1>1. HistoryGoesOn
  BY NextKept
<1>2. ASSUME entryFiles' = entryFiles PROVE PastStays
  BY <1>1, <1>2, SameVersionsPast
<1>3. DOMAIN Empty = {}
  BY DEF Empty
<1>4. CASE \/ OpenRepository \/ Restart \/ Tick \/ UNCHANGED vars
           \/ \E forgotten \in BOOLEAN : CloseRepository(forgotten)
           \/ \E path \in Paths : OpenDir(path)
  <2>1. entryFiles' = entryFiles
    BY <1>4 DEF OpenRepository, Restart, Tick, CloseRepository, OpenDir, vars, disk
  <2>2. \/ folders' = folders
        \/ folders' = Empty
        \/ \E path \in Paths : folders' = Put(folders, nextFolderId + 1,
                                 [path |-> path, entries |-> <<>>, listed |-> FALSE])
    BY <1>4 DEF OpenRepository, Restart, Tick, CloseRepository, OpenDir, Forget, vars, memory
  <2>3. ASSUME NEW path \in Paths,
               folders' = Put(folders, nextFolderId + 1,
                              [path |-> path, entries |-> <<>>, listed |-> FALSE]),
               NEW d \in DOMAIN folders'
        PROVE  \/ d \in DOMAIN folders /\ folders'[d] = folders[d]
               \/ DOMAIN folders'[d].entries = {}
    BY <2>3 DEF Put
  <2>4. \A d \in DOMAIN folders' :
          \/ d \in DOMAIN folders /\ folders'[d] = folders[d]
          \/ DOMAIN folders'[d].entries = {}
    BY <1>3, <2>2, <2>3
  <2> QED
    BY <1>2, <2>1, <2>4, QuietUnwritten
<1>5. ASSUME NEW did, \/ \E failed : CloseDir(did, failed)
                      \/ GetEntries(did)
                      \/ \E name, when : FileOpenIn(did, name, when)
      PROVE  NothingUnwritten' /\ PastStays
  <2>1. CASE \E failed : CloseDir(did, failed)
    BY <2>1, CloseDirPast
  <2>2. CASE GetEntries(did)
    BY <1>2, <2>2, GetEntriesUnwritten DEF GetEntries, disk
  <2>3. CASE \E name, when : FileOpenIn(did, name, when)
    BY <1>2, <2>3, QuietUnwritten DEF FileOpenIn, disk
  <2> QED
    BY <1>5, <2>1, <2>2, <2>3
<1>6. ASSUME NEW did, NEW name \in Names, NEW deleteIt \in BOOLEAN,
             NEW keepDigest \in BOOLEAN, SetEntry(did, name, deleteIt, keepDigest, TRUE)
      PROVE  NothingUnwritten' /\ PastStays
  <2> DEFINE ok == TRUE
  <2>1. ok \in BOOLEAN /\ ok /\ SetEntry(did, name, deleteIt, keepDigest, ok)
    BY <1>6
  <2> HIDE DEF ok
  <2>2. PICK i, m : /\ Fits(did, i, m) /\ EntryChanged(did, i, m)
                    /\ m.name = name
                    /\ Adds(did, i, m) /\ GetsId(did, i, m)
                    /\ EntryWritten(did, ok, m)
    BY <2>1, SetEntryChange
  <2>3. /\ Fits(did, i, m) /\ EntryChanged(did, i, m) /\ Adds(did, i, m)
        /\ entryFiles' = Put(entryFiles, <<folders[did].path, m.name>>, m)
    BY <2>1, <2>2 DEF EntryWritten
  <2>4. folders[did].listed
    BY <1>6 DEF SetEntry, MayChange
  <2> QED
    BY <2>3, <2>4, ChangePast
<1>7. ASSUME NEW did, NEW name \in Names, FileOpenOut(did, name, "created")
      PROVE  NothingUnwritten' /\ PastStays
  <2>1. PICK i, m : Opened(did, "created", i, m)
    BY <1>7, FileOpenOutChange
  <2>2. /\ Fits(did, i, m) /\ EntryChanged(did, i, m) /\ Adds(did, i, m)
        /\ entryFiles' = Put(entryFiles, <<folders[did].path, m.name>>, m)
    BY <2>1 DEF Opened
  <2>3. folders[did].listed
    BY <1>7 DEF FileOpenOut, MayChange
  <2> QED
    BY <2>2, <2>3, ChangePast
<1>8. ASSUME NEW fid, NEW flushed \in BOOLEAN, FileCloseOut(fid, flushed)
      PROVE  NothingUnwritten' /\ PastStays
  <2>1. entryFiles' = entryFiles
    BY <1>8 DEF FileCloseOut
  <2>2. folders' = folders \/ \E i, j, m : Filled(files[fid].did, files[fid], i, j, m)
    BY <1>8, FileCloseOutChange
  <2>3. NothingUnwritten'
    BY <2>1, <2>2, QuietUnwritten, FilledUnwritten
  <2> QED
    BY <1>2, <2>1, <2>3
<1>9. ASSUME NEW fid, \/ \E chunk, flushed : FileWrite(fid, chunk, flushed)
                      \/ FileCloseIn(fid)
      PROVE  NothingUnwritten' /\ PastStays
  BY <1>2, <1>9, QuietUnwritten DEF FileWrite, FileCloseIn, disk
<1>10. ASSUME NEW did \in 1..MaxFolders,
              \/ \E failed \in IF Failures THEN SUBSET Names ELSE {{}} : CloseDir(did, failed)
              \/ GetEntries(did)
              \/ \E name \in Names :
                   \/ \E deleteIt, keepDigest \in BOOLEAN,
                         ok \in IF Failures THEN BOOLEAN ELSE {TRUE} :
                        SetEntry(did, name, deleteIt, keepDigest, ok)
                   \/ \E stage \in IF Failures THEN Stages ELSE {"created"} :
                        FileOpenOut(did, name, stage)
                   \/ \E when \in 0..MaxClock : FileOpenIn(did, name, when)
       PROVE  NothingUnwritten' /\ PastStays
  BY <1>5, <1>6, <1>7, <1>10
<1>11. ASSUME NEW fid \in 1..MaxFiles,
              \/ \E chunk \in Chunks, flushed \in BOOLEAN : FileWrite(fid, chunk, flushed)
              \/ \E flushed \in IF Failures THEN BOOLEAN ELSE {TRUE} : FileCloseOut(fid, flushed)
              \/ FileCloseIn(fid)
       PROVE  NothingUnwritten' /\ PastStays
  BY <1>8, <1>9, <1>11
<1> QED
  BY <1>4, <1>10, <1>11 DEF Next

\* Asking for a moment that has passed gives the same version today and after
\* every later backup, as long as no write fails: a version whose entry file
\* could not be written appears there later, with the time it was made at.
THEOREM RestorePointsStay ==
  ASSUME Careful, ~Failures
  PROVE  Spec => RestorePointStays
<1> DEFINE PInv == CInv /\ NothingUnwritten
           Step == \A k \in DOMAIN entryFiles : \A when \in 1..clock :
                     Candidates(entryFiles'[k], when) # {} =>
                       /\ Candidates(entryFiles[k], when) # {}
                       /\ entryFiles'[k].versions[dup_date(entryFiles'[k], when)].revision =
                            entryFiles[k].versions[dup_date(entryFiles[k], when)].revision
<1>1. Init => PInv
  BY InitSound, InitKept DEF Init, Empty, CInv, NothingUnwritten
<1>2. ASSUME PInv, [Next]_vars PROVE PInv' /\ PastStays
  BY <1>2, NextCInv, NextPast DEF CInv
<1>3. ASSUME PInv, [Next]_vars PROVE Step
  <2> SUFFICES ASSUME NEW k \in DOMAIN entryFiles, NEW when \in 1..clock,
                      Candidates(entryFiles'[k], when) # {}
               PROVE  /\ Candidates(entryFiles[k], when) # {}
                      /\ entryFiles'[k].versions[dup_date(entryFiles'[k], when)].revision =
                           entryFiles[k].versions[dup_date(entryFiles[k], when)].revision
    OBVIOUS
  <2>1. SInv /\ SInv' /\ PastStays
    BY <1>2, <1>3 DEF CInv
  <2>2. k \in DOMAIN entryFiles' /\ GrewNow(entryFiles'[k], entryFiles[k])
    BY <2>1 DEF PastStays
  <2>3. entryFiles[k] \in Entry /\ Sound(entryFiles[k])
    BY <2>1 DEF SInv, TypeOK, DiskIsSound
  <2>4. entryFiles'[k] \in Entry /\ Sound(entryFiles'[k])
    <3>1. entryFiles'[k] \in Entry
      BY <2>1, <2>2 DEF SInv, TypeOK
    <3>2. /\ entryFiles'[k].id > 0 /\ entryFiles'[k].versions # <<>>
          /\ \A i \in DOMAIN entryFiles'[k].versions :
               LET v == entryFiles'[k].versions[i]
               IN /\ v.revision <= entryFiles'[k].nextRevision
                  /\ \/ v.storeName = NoStore
                     \/ /\ v.storeName[1] = entryFiles'[k].id
                        /\ v.storeName[2] <= entryFiles'[k].nextRevision
          /\ \A i, j \in DOMAIN entryFiles'[k].versions :
               i < j => LET v == entryFiles'[k].versions[i]
                            w == entryFiles'[k].versions[j]
                        IN v.revision < w.revision /\ v.btime <= w.btime
      BY <2>1, <2>2 DEF SInv, DiskIsSound, Sound, Ordered
    <3>3. clock \in Nat
      BY <2>1, SoundTypes, Bounds DEF CounterTypes
    <3>4. \A i \in DOMAIN entryFiles'[k].versions :
            entryFiles'[k].versions[i].btime <= clock
      BY <2>2, <2>3, <3>3 DEF GrewNow, Continues, SameVersion, Sound, Ordered
    <3> QED
      BY <3>1, <3>2, <3>4 DEF Sound, Ordered
  <2>5. clock \in Nat
    BY <2>1, SoundTypes, Bounds DEF CounterTypes
  <2> QED
    BY <2>2, <2>3, <2>4, <2>5, PastIsFixed
<1>4. [Next]_vars /\ PInv => [Step]_vars
  BY <1>3
<1>5. PInv /\ [Next]_vars => PInv'
  BY <1>2
<1> HIDE DEF PInv
<1> QED
  BY <1>1, <1>4, <1>5, PTL DEF Spec, RestorePointStays

=============================================================================

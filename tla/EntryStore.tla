----------------------------- MODULE EntryStore -----------------------------
(***************************************************************************)
(* What the repository server of backup/server.c keeps inside one          *)
(* repository: the folders a client has open, their cached entries, the    *)
(* entry files ("e." files below admin/) and the data files (below data/). *)
(* One client, the owner of the write lock, makes the calls; module        *)
(* AQBServer says why there is only one.  Every exported function is one   *)
(* action; the process is single threaded, so what it has written to disk  *)
(* halfway through a call shows only when it ends there.                   *)
(*                                                                         *)
(* Abstractions: a storage path data/AA/AA/AA/AA-BB.data is the pair       *)
(* <<file id, revision>> it is made of; the MD5 digest of a file is its    *)
(* content; the metadata of a version (mode, owner, times of the file,     *)
(* compression flag) is left out, except for the backup time.              *)
(***************************************************************************)
EXTENDS Naturals, Sequences, FiniteSets

CONSTANTS
  Paths,       \* directories of the repository
  Names,       \* names of entries
  Chunks,      \* what FileWrite is given
  MaxTry,      \* AQB_SERVER_MAX_TRY_NAME
  Careful,     \* TRUE: the caller behaves like HandleDir and StoreDir
  Failures,    \* TRUE: writing a file may fail
  Jobs,        \* what the client does: "store", "restore" or both
  MaxFileId,   \* bound on the ids given to entries
  MaxRevision, \* bound on the revisions of an entry
  MaxFolders,  \* bound on the folder ids given out while a repository is loaded
  MaxFiles,    \* bound on the file handles given out while it is loaded
  MaxChunks,   \* bound on the writes to one handle
  MaxClock,    \* bound on the clock
  MaxRestarts  \* bound on how often the process ends

ASSUME BoundsAssumption ==
  /\ MaxTry \in Nat \ {0}
  /\ {Careful, Failures} \subseteq BOOLEAN
  /\ Jobs \subseteq {"store", "restore"}
  /\ {MaxFileId, MaxRevision, MaxFolders, MaxFiles, MaxChunks, MaxClock,
      MaxRestarts} \subseteq Nat

\* A file system has names of bounded length.
ASSUME NamesAssumption == IsFiniteSet(Names)

VARIABLES
  attached,    \* the client has the repository open
  loaded,      \* the repository is in the server's list
  nextFileId, nextFolderId, nextFileRuntimeId,   \* counters of AQB_REPOSITORY
  folders,     \* AQB_REPOSITORY.folders: folder id -> folder
  files,       \* AQB_REPOSITORY.files: handle -> file
  savedFileId, \* "nextfileid" of repository.conf
  entryFiles,  \* the entry files: <<path, name>> -> entry
  data,        \* the data files: <<file id, revision>> -> content
  clock,       \* time(0)
  restarts,    \* how often the process ended
  idsLost      \* history: it ended before the file ids it gave out were saved

memory == <<nextFileId, nextFolderId, nextFileRuntimeId, folders, files>>
disk   == <<savedFileId, entryFiles, data>>
world  == <<clock, restarts, idsLost>>
vars   == <<attached, loaded, memory, disk, world>>

Content  == UNION {[1..n -> Chunks] : n \in 0..MaxChunks}
NoDigest == <<"no digest">>
NoStore  == <<0, 0>>
Digest   == Content \cup {NoDigest}
Store    == Nat \X Nat

Version == [status: {"used", "deleted"}, revision: Nat, md5: Digest,
            storeName: Store, btime: Nat]
Entry   == [name: Names, id: Nat, nextRevision: Nat, modified: BOOLEAN,
            versions: Seq(Version)]
Folder  == [path: Paths, entries: Seq(Entry), listed: BOOLEAN]
\* Mode "closed" is a handle that stays in the list after its fclose.
File    == [did: Nat, fileId: Nat, fileRevision: Nat, path: Store,
            written: Content, mode: {"out", "in", "closed"}]

-----------------------------------------------------------------------------
Empty         == [x \in {} |-> x]
Put(f, k, v)  == [x \in DOMAIN f \cup {k} |-> IF x = k THEN v ELSE f[x]]
Without(f, k) == [x \in DOMAIN f \ {k} |-> f[x]]
Last(s)       == s[Len(s)]

Positions(entries, name) == {i \in DOMAIN entries : entries[i].name = name}

\* The position of the first element of a list with a property.
FirstOf(S) == CHOOSE i \in S : \A j \in S : i <= j

\* Mutant of Candidates: versions of the second asked for are taken as well.
CandidatesUpTo(e, when) ==
  {i \in DOMAIN e.versions : when = 0 \/ e.versions[i].btime <= when}

\* The versions made before "when"; 0 means now.
Candidates(e, when) ==
  {i \in DOMAIN e.versions : when = 0 \/ e.versions[i].btime < when}

\* Mutant of dup_date: among versions of one second the first wins.
dup_date_first(e, when) ==
  CHOOSE i \in Candidates(e, when) :
    \A j \in Candidates(e, when) :
      \/ e.versions[j].btime < e.versions[i].btime
      \/ e.versions[j].btime = e.versions[i].btime /\ j >= i

(***************************************************************************)
(* AQBEntry_dup_date: the version a client sees that asks for the entry as *)
(* of "when", 0 meaning now.  Among versions of one second the last wins.  *)
(***************************************************************************)
dup_date(e, when) ==
  CHOOSE i \in Candidates(e, when) :
    \A j \in Candidates(e, when) :
      \/ e.versions[j].btime < e.versions[i].btime
      \/ e.versions[j].btime = e.versions[i].btime /\ j <= i

Latest(e) == e.versions[dup_date(e, 0)]

-----------------------------------------------------------------------------
Init ==
  /\ attached = FALSE
  /\ loaded = FALSE
  /\ nextFileId = 0
  /\ nextFolderId = 0
  /\ nextFileRuntimeId = 0
  /\ folders = Empty
  /\ files = Empty
  /\ savedFileId = 0
  /\ entryFiles = Empty
  /\ data = Empty
  /\ clock = 1
  /\ restarts = 0
  /\ idsLost = FALSE

\* Mutant of Forget: the folders survive.
ForgetCounters ==
  /\ nextFileId' = 0
  /\ nextFolderId' = 0
  /\ nextFileRuntimeId' = 0
  /\ folders' = folders
  /\ files' = Empty

Forget ==
  /\ nextFileId' = 0
  /\ nextFolderId' = 0
  /\ nextFileRuntimeId' = 0
  /\ folders' = Empty
  /\ files' = Empty

\* Mutant of OpenRepository: "nextfileid" is not read.
OpenRepositoryUnread ==
  /\ ~attached
  /\ attached' = TRUE
  /\ loaded' = TRUE
  /\ nextFileId' = IF loaded THEN nextFileId ELSE 0
  /\ UNCHANGED <<nextFolderId, nextFileRuntimeId, folders, files, disk, world>>

OpenRepository ==
  /\ ~attached
  /\ attached' = TRUE
  /\ loaded' = TRUE
  /\ nextFileId' = IF loaded THEN nextFileId ELSE savedFileId
  /\ UNCHANGED <<nextFolderId, nextFileRuntimeId, folders, files, disk, world>>

\* The repository is forgotten when nobody else uses it and saving it worked.
\* Its folders and files are freed as they are: no entry is written.
CloseRepository(forgotten) ==
  /\ attached
  /\ attached' = FALSE
  /\ IF forgotten
     THEN /\ savedFileId' = nextFileId
          /\ loaded' = FALSE
          /\ Forget
     ELSE UNCHANGED <<savedFileId, loaded, memory>>
  /\ UNCHANGED <<entryFiles, data, world>>

-----------------------------------------------------------------------------
\* OpenDir of the owner of the write lock.  HandleDir has one folder open at
\* a time.
OpenDir(path) ==
  /\ attached
  /\ Careful => \A d \in DOMAIN folders : folders[d].path # path
  /\ nextFolderId < MaxFolders
  /\ nextFolderId' = nextFolderId + 1
  /\ folders' = Put(folders, nextFolderId + 1,
                    [path |-> path, entries |-> <<>>, listed |-> FALSE])
  /\ UNCHANGED <<attached, loaded, nextFileId, nextFileRuntimeId, files, disk,
                 world>>

Written(e) == [e EXCEPT !.modified = FALSE]

\* CloseDir writes the modified entries and forgets the folder, also when
\* writing them failed.
CloseDir(did, failed) ==
  /\ attached
  /\ did \in DOMAIN folders
  /\ LET d == folders[did]
         changed == {i \in DOMAIN d.entries :
                       d.entries[i].modified /\ d.entries[i].name \notin failed}
         keys == {<<d.path, d.entries[i].name>> : i \in changed}
     IN entryFiles' = [k \in DOMAIN entryFiles \cup keys |->
                         IF k \in keys
                         THEN Written(d.entries[FirstOf(Positions(d.entries, k[2]))])
                         ELSE entryFiles[k]]
  /\ folders' = Without(folders, did)
  /\ UNCHANGED <<attached, loaded, nextFileId, nextFolderId, nextFileRuntimeId,
                 files, savedFileId, data, world>>

\* ReadEntries adds the entry files of the folder to the entries in memory,
\* in the order of the directory, and skips names that are in memory already.
GetEntries(did) ==
  /\ attached
  /\ did \in DOMAIN folders
  /\ LET d == folders[did]
         new == {n \in Names : /\ <<d.path, n>> \in DOMAIN entryFiles
                               /\ Positions(d.entries, n) = {}}
     IN \E order \in [1..Cardinality(new) -> new] :
          /\ {order[i] : i \in DOMAIN order} = new
          /\ folders' = [folders EXCEPT
               ![did].entries = @ \o [i \in DOMAIN order |->
                                        entryFiles[<<d.path, order[i]>>]],
               ![did].listed = TRUE]
  /\ UNCHANGED <<attached, loaded, nextFileId, nextFolderId, nextFileRuntimeId,
                 files, disk, world>>

-----------------------------------------------------------------------------
\* Mutant of GetEntry: deleted entries are not found.
GetEntryUndeleted(d, name) ==
  {i \in Positions(d.entries, name) :
     Last(d.entries[i].versions).status # "deleted"}

(***************************************************************************)
(* GetEntry looks for the name among the entries in memory.  It then tries *)
(* to read a file that has the bare name, but entry files have the prefix  *)
(* "e.", and a name has no dot (aqbackup.c escapes everything but letters  *)
(* and digits): an entry that is only on disk is not found.                *)
(***************************************************************************)
GetEntry(d, name) == Positions(d.entries, name)

\* StoreDir asks for the entries of a folder before it changes one.
MayChange(did) ==
  /\ attached
  /\ "store" \in Jobs
  /\ did \in DOMAIN folders
  /\ Careful => folders[did].listed

\* Replace or append an entry of folder did.
WithEntry(did, i, e) ==
  [folders EXCEPT ![did].entries = IF i \in DOMAIN @ THEN [@ EXCEPT ![i] = e]
                                                     ELSE Append(@, e)]

NewEntry(name) ==
  [name |-> name, id |-> nextFileId + 1, nextRevision |-> 0,
   modified |-> FALSE, versions |-> <<>>]

WithVersion(e, status, digest, store) ==
  [e EXCEPT !.nextRevision = @ + 1,
            !.versions = Append(@, [status |-> status, revision |-> e.nextRevision + 1,
                                    md5 |-> digest, storeName |-> store,
                                    btime |-> clock])]

(***************************************************************************)
(* SetEntry and DeleteEntry add a version without new content.  The digest *)
(* comes from the caller: none for what is not a regular file, and         *)
(* otherwise the one the caller was given for this entry.  A failure to    *)
(* write the entry file leaves the new version in memory, unmarked.        *)
(***************************************************************************)
SetEntry(did, name, deleteIt, keepDigest, ok) ==
  /\ MayChange(did)
  /\ LET d == folders[did]
         found == GetEntry(d, name)
         key == <<d.path, name>>
     IN \/ /\ found = {} /\ ~deleteIt /\ ~keepDigest
           /\ nextFileId < MaxFileId
           /\ nextFileId' = nextFileId + 1
           /\ LET e == WithVersion(NewEntry(name), "used", NoDigest, NoStore)
              IN /\ folders' = WithEntry(did, Len(d.entries) + 1, e)
                 /\ entryFiles' = IF ok THEN Put(entryFiles, key, e) ELSE entryFiles
        \/ /\ found # {}
           /\ LET i == FirstOf(found)
                  e == d.entries[i]
                  digest == IF keepDigest THEN Latest(e).md5 ELSE NoDigest
                  n == WithVersion(e, IF deleteIt THEN "deleted" ELSE "used",
                                   digest, Last(e.versions).storeName)
              IN /\ ~(deleteIt /\ Last(e.versions).status = "deleted")
                 /\ e.nextRevision < MaxRevision
                 /\ folders' = WithEntry(did, i, IF ok THEN Written(n) ELSE n)
                 /\ entryFiles' = IF ok THEN Put(entryFiles, key, Written(n))
                                        ELSE entryFiles
           /\ UNCHANGED nextFileId
  /\ UNCHANGED <<attached, loaded, nextFolderId, nextFileRuntimeId, files,
                 savedFileId, data, world>>

-----------------------------------------------------------------------------
(* FileOpenOut: a new version with a data file of its own.                 *)

\* Mutant of Taken: nobody looks whether the file exists.
NotTaken(id, first) == 0

\* How many candidate names are taken, from revision "first" on.
Taken(id, first) ==
  FirstOf({k \in 0..MaxTry : k = MaxTry \/ <<id, first + k>> \notin DOMAIN data})

\* Mutant of OpenedEntry: the new version takes the place of the old ones.
OpenedEntryAlone(e) ==
  LET first == e.nextRevision + 1
      revision == first + Taken(e.id, first)
  IN [e EXCEPT !.nextRevision = revision,
               !.modified = TRUE,
               !.versions = <<[status |-> "used", revision |-> revision,
                               md5 |-> NoDigest, storeName |-> <<e.id, revision>>,
                               btime |-> clock]>>]

\* When every try found a file, the revision moves on but the name stays the
\* one that was tried last.
OpenedEntry(e) ==
  LET first == e.nextRevision + 1
      k == Taken(e.id, first)
      revision == first + k
      store == <<e.id, IF k = MaxTry THEN revision - 1 ELSE revision>>
  IN [e EXCEPT !.nextRevision = revision,
               !.modified = TRUE,
               !.versions = Append(@, [status |-> "used", revision |-> revision,
                                       md5 |-> NoDigest, storeName |-> store,
                                       btime |-> clock])]

\* How far the call gets: repository.conf is saved, then the entry file
\* written, then the data file created and its handle given out.
Stages == {"started", "saved", "listed", "created"}

FileOpenOut(did, name, stage) ==
  /\ MayChange(did)
  /\ LET d == folders[did]
         found == GetEntry(d, name)
         i == IF found = {} THEN Len(d.entries) + 1 ELSE FirstOf(found)
         old == IF found = {} THEN NewEntry(name) ELSE d.entries[i]
         e == OpenedEntry(old)
         v == Last(e.versions)
     IN /\ found = {} => nextFileId < MaxFileId
        /\ e.nextRevision <= MaxRevision
        /\ nextFileId' = IF found = {} THEN nextFileId + 1 ELSE nextFileId
        /\ savedFileId' = IF stage = "started" THEN savedFileId ELSE nextFileId'
        /\ IF stage \in {"started", "saved"}
           THEN /\ folders' = WithEntry(did, i, e)
                /\ UNCHANGED entryFiles
           ELSE /\ folders' = WithEntry(did, i, Written(e))
                /\ entryFiles' = Put(entryFiles, <<d.path, name>>, Written(e))
        /\ IF stage = "created"
           THEN /\ nextFileRuntimeId < MaxFiles
                /\ nextFileRuntimeId' = nextFileRuntimeId + 1
                /\ data' = Put(data, v.storeName, <<>>)
                /\ files' = Put(files, nextFileRuntimeId + 1,
                     [did |-> did, fileId |-> e.id, fileRevision |-> v.revision,
                      path |-> v.storeName, written |-> <<>>, mode |-> "out"])
           ELSE UNCHANGED <<nextFileRuntimeId, data, files>>
  /\ UNCHANGED <<attached, loaded, nextFolderId, world>>

\* The stream is buffered: the file on disk follows now or later.
FileWrite(fid, chunk, flushed) ==
  /\ attached
  /\ fid \in DOMAIN files
  /\ files[fid].mode = "out"
  /\ Len(files[fid].written) < MaxChunks
  /\ files' = [files EXCEPT ![fid].written = Append(@, chunk)]
  /\ data' = IF flushed THEN [data EXCEPT ![files[fid].path] =
                                Append(files[fid].written, chunk)]
                        ELSE data
  /\ UNCHANGED <<attached, loaded, nextFileId, nextFolderId, nextFileRuntimeId,
                 folders, savedFileId, entryFiles, world>>

(***************************************************************************)
(* FileCloseOut stores the digest of what was written in the version the   *)
(* handle belongs to: it takes the first entry of the folder that has the  *)
(* file id, and in it the version that has the revision.  When it finds no *)
(* such version ("this should never happen..."), or fclose fails, the      *)
(* handle stays in the list with its stream closed.                        *)
(***************************************************************************)
WithId(d, f) == {i \in DOMAIN d.entries : d.entries[i].id = f.fileId}

\* Mutant of WithRevision: only the last version is looked at.
WithLastRevision(e, f) ==
  {j \in {Len(e.versions)} : e.versions[j].revision = f.fileRevision}

WithRevision(e, f) ==
  {j \in DOMAIN e.versions : e.versions[j].revision = f.fileRevision}

OwnerEntry(d, f)   == FirstOf(WithId(d, f))
OwnerVersion(d, f) == FirstOf(WithRevision(d.entries[OwnerEntry(d, f)], f))

Owned(d, f) ==
  /\ WithId(d, f) # {}
  /\ WithRevision(d.entries[OwnerEntry(d, f)], f) # {}

\* Version j has a digest, and the entry is written when its folder is closed.
WithDigest(e, j, md5) ==
  [e EXCEPT !.versions[j].md5 = md5, !.modified = TRUE]

FileCloseOut(fid, flushed) ==
  /\ attached
  /\ fid \in DOMAIN files
  /\ files[fid].mode = "out"
  /\ LET f == files[fid]
         closed == [files EXCEPT ![fid].mode = "closed"]
     IN \/ /\ ~flushed
           /\ files' = closed
           /\ UNCHANGED <<data, folders>>
        \/ /\ flushed
           /\ data' = [data EXCEPT ![f.path] = f.written]
           /\ \/ /\ f.did \notin DOMAIN folders
                 /\ files' = Without(files, fid)
                 /\ UNCHANGED folders
              \/ /\ f.did \in DOMAIN folders
                 /\ Owned(folders[f.did], f)
                 /\ LET i == OwnerEntry(folders[f.did], f)
                        j == OwnerVersion(folders[f.did], f)
                        e == folders[f.did].entries[i]
                    IN folders' = WithEntry(f.did, i, WithDigest(e, j, f.written))
                 /\ files' = Without(files, fid)
              \/ /\ f.did \in DOMAIN folders
                 /\ ~Owned(folders[f.did], f)
                 /\ files' = closed
                 /\ UNCHANGED folders
  /\ UNCHANGED <<attached, loaded, nextFileId, nextFolderId, nextFileRuntimeId,
                 savedFileId, entryFiles, world>>

\* FileOpenIn opens the data file of the version as of "when".
FileOpenIn(did, name, when) ==
  /\ attached
  /\ "restore" \in Jobs
  /\ did \in DOMAIN folders
  /\ nextFileRuntimeId < MaxFiles
  /\ LET d == folders[did]
         found == GetEntry(d, name)
         e == d.entries[FirstOf(found)]
         v == e.versions[dup_date(e, when)]
     IN /\ found # {}
        /\ Candidates(e, when) # {}
        /\ v.storeName \in DOMAIN data
        /\ files' = Put(files, nextFileRuntimeId + 1,
             [did |-> did, fileId |-> e.id, fileRevision |-> v.revision,
              path |-> v.storeName, written |-> <<>>, mode |-> "in"])
  /\ nextFileRuntimeId' = nextFileRuntimeId + 1
  /\ UNCHANGED <<attached, loaded, nextFileId, nextFolderId, folders, disk, world>>

FileCloseIn(fid) ==
  /\ attached
  /\ fid \in DOMAIN files
  /\ files[fid].mode = "in"
  /\ files' = Without(files, fid)
  /\ UNCHANGED <<attached, loaded, nextFileId, nextFolderId, nextFileRuntimeId,
                 folders, disk, world>>

-----------------------------------------------------------------------------
\* The process ends, between calls or where a call would have failed, and a
\* new one is started.
Restart ==
  /\ restarts < MaxRestarts
  /\ restarts' = restarts + 1
  /\ idsLost' = (idsLost \/ (loaded /\ nextFileId # savedFileId))
  /\ attached' = FALSE
  /\ loaded' = FALSE
  /\ Forget
  /\ UNCHANGED <<disk, clock>>

Tick ==
  /\ clock < MaxClock
  /\ clock' = clock + 1
  /\ UNCHANGED <<attached, loaded, memory, disk, restarts, idsLost>>

Next ==
  \/ OpenRepository
  \/ \E forgotten \in BOOLEAN : CloseRepository(forgotten)
  \/ \E path \in Paths : OpenDir(path)
  \/ \E did \in 1..MaxFolders :
       \/ \E failed \in IF Failures THEN SUBSET Names ELSE {{}} : CloseDir(did, failed)
       \/ GetEntries(did)
       \/ \E name \in Names :
            \/ \E deleteIt, keepDigest \in BOOLEAN,
                  ok \in IF Failures THEN BOOLEAN ELSE {TRUE} :
                 SetEntry(did, name, deleteIt, keepDigest, ok)
            \/ \E stage \in IF Failures THEN Stages ELSE {"created"} :
                 FileOpenOut(did, name, stage)
            \/ \E when \in 0..MaxClock : FileOpenIn(did, name, when)
  \/ \E fid \in 1..MaxFiles :
       \/ \E chunk \in Chunks, flushed \in BOOLEAN : FileWrite(fid, chunk, flushed)
       \/ \E flushed \in IF Failures THEN BOOLEAN ELSE {TRUE} : FileCloseOut(fid, flushed)
       \/ FileCloseIn(fid)
  \/ Restart
  \/ Tick

Spec == Init /\ [][Next]_vars

-----------------------------------------------------------------------------
(* Properties                                                              *)

Keys == Paths \X Names

\* Every variable has its type; ids and revisions stay below their counters.
TypeOK ==
  /\ {attached, loaded, idsLost} \subseteq BOOLEAN
  /\ {nextFileId, savedFileId} \subseteq 0..MaxFileId
  /\ nextFolderId \in 0..MaxFolders
  /\ nextFileRuntimeId \in 0..MaxFiles
  /\ folders \in [DOMAIN folders -> Folder]
  /\ DOMAIN folders \subseteq 1..nextFolderId
  /\ files \in [DOMAIN files -> File]
  /\ DOMAIN files \subseteq 1..nextFileRuntimeId
  /\ entryFiles \in [DOMAIN entryFiles -> Entry]
  /\ DOMAIN entryFiles \subseteq Keys
  /\ data \in [DOMAIN data -> Content]
  /\ DOMAIN data \subseteq Store
  /\ clock \in 1..(MaxClock + 1)
  /\ restarts \in 0..MaxRestarts

\* The entries of key k the program knows, on disk and in open folders.
Known(k) ==
  {entryFiles[j] : j \in {k} \cap DOMAIN entryFiles} \cup
  UNION {{folders[d].entries[i] :
            i \in {p \in Positions(folders[d].entries, k[2]) : folders[d].path = k[1]}} :
         d \in DOMAIN folders}

\* The handles whose data file is being written.
Writing(p) == {h \in DOMAIN files : files[h].mode = "out" /\ files[h].path = p}

\* Two entries never have the same file id, in whatever directories they are
\* and whichever sessions created them, as long as no process ended with ids
\* it had given out and not saved: SetEntry gives out ids without saving.
IdsAreUnique ==
  ~idsLost =>
    \A k, l \in Keys : \A e \in Known(k), f \in Known(l) : e.id = f.id => k = l

\* FileCloseOut finds the version its handle belongs to whenever the folder is
\* still open, under the same condition.
OwnerIsFound ==
  ~idsLost =>
    \A h \in DOMAIN files :
      files[h].mode = "out" /\ files[h].did \in DOMAIN folders =>
        Owned(folders[files[h].did], files[h])

\* The digest of a version is the one of the data file the version names, in
\* memory and on disk, although SetEntry takes the one from the caller and the
\* other from the last version, and FileCloseOut sets the digest afterwards.
DigestIsContent ==
  ~idsLost =>
    \A k \in Keys : \A e \in Known(k) : \A i \in DOMAIN e.versions :
      LET v == e.versions[i]
      IN v.md5 # NoDigest => v.storeName \in DOMAIN data /\ data[v.storeName] = v.md5

\* Every data file is named by a version in an entry file, wherever a call
\* fails or the process ends: nothing is stored that no restore can find.
DataIsListed ==
  \A p \in DOMAIN data : \E k \in DOMAIN entryFiles :
    \E i \in DOMAIN entryFiles[k].versions :
      entryFiles[k].versions[i].storeName = p

\* A data file changes only through the handle it was created with: no later
\* version, of this or another entry, reuses its name, even after file ids
\* were given out twice.
DataFileStays ==
  [][\A p \in DOMAIN data :
       Writing(p) = {} => p \in DOMAIN data' /\ data'[p] = data[p]]_vars

\* An entry file only ever gets longer: no version is dropped or renumbered,
\* except that its digest is filled in.
HistoryIsKept ==
  [][\A k \in DOMAIN entryFiles :
       /\ k \in DOMAIN entryFiles'
       /\ entryFiles[k].id = entryFiles'[k].id
       /\ \A i \in DOMAIN entryFiles[k].versions :
            /\ i \in DOMAIN entryFiles'[k].versions
            /\ LET v == entryFiles[k].versions[i]
                   w == entryFiles'[k].versions[i]
               IN v = [w EXCEPT !.md5 = v.md5]]_vars

\* Asking for the state of a moment that has passed gives the same version of
\* an entry today and after every later backup.
RestorePointStays ==
  [][\A k \in DOMAIN entryFiles : \A when \in 1..clock :
       Candidates(entryFiles'[k], when) # {} =>
         /\ Candidates(entryFiles[k], when) # {}
         /\ entryFiles'[k].versions[dup_date(entryFiles'[k], when)].revision =
              entryFiles[k].versions[dup_date(entryFiles[k], when)].revision]_vars
=============================================================================

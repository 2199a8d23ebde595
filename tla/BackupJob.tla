----------------------------- MODULE BackupJob ------------------------------
(***************************************************************************)
(* The jobs of backup/aqbackup.c: AQBackup_HandleDir walks a tree of       *)
(* directories and stores it, restores it (in place or elsewhere, as of a  *)
(* date) or shows the differences, while its owner goes on working in it.  *)
(*                                                                         *)
(* The scan of one directory is one step; so is every call to the client   *)
(* after it, and a file takes two: the call that opens it and the          *)
(* transfer.  The repository is seen through what the calls do to it       *)
(* (module EntryStore is their other side): a version is on disk when      *)
(* SetEntry, DeleteEntry or FileOpenOut return, and the digest that        *)
(* FileCloseOut gives a version when the directory is closed.              *)
(*                                                                         *)
(* Abstractions: a file is what it contains, and that is its own digest;   *)
(* the size of every content is a constant; a node keeps its kind; "owner" *)
(* stands for user and group, of which only the group can differ.  The     *)
(* program runs as root and may change all it restores.                    *)
(***************************************************************************)
EXTENDS Naturals, Sequences, FiniteSets, SequencesExt

CONSTANTS
  Root,        \* the directory the job starts in
  Nodes,       \* the files, directories and links below it
  Parent,      \* node -> the directory it is in
  Kind,        \* node -> "file", "dir" or "link"
  Contents,    \* what a file contains, or where a link leads
  Size,        \* content -> its size
  Trigger,     \* AQBACKUP_COMPRESS_TRIGGER_SIZE
  Modes,       \* access rights
  DefaultMode, \* the rights Path_Create gives a directory
  Settings,    \* flags of the job, lists of the repository and the bounds on
               \* the jobs, edits and faults of a behaviour
  MaxClock     \* bound on the clock

ASSUME TreeAssumption ==
  /\ IsFiniteSet(Nodes) /\ Root \notin Nodes
  /\ Parent \in [Nodes -> Nodes \cup {Root}]
  /\ Kind \in [Nodes -> {"file", "dir", "link"}]
  /\ \A n \in Nodes : Parent[n] # Root => Kind[Parent[n]] = "dir"
  /\ \A S \in SUBSET Nodes : S # {} => \E n \in S : Parent[n] \notin S
  /\ Size \in [Contents -> Nat]
  /\ DefaultMode \in Modes
  /\ Trigger \in Nat /\ MaxClock \in Nat \ {0}

VARIABLES
  setting,  \* the flags and lists of this run; no step changes them
  trees,    \* place -> the tree there: node -> its state
  repo,     \* node -> its versions
  pending,  \* digests that CloseDir has yet to write: node -> digest
  session,  \* AQBACKUP.currClient and currRepository
  job,      \* the job HandleDir does: its kind and date
  pc,       \* where HandleDir is
  dirs,     \* the directories still to be handled
  here,     \* the directory being handled
  todo,     \* the lists of StoreDir and RestoreDir, without what they ignore
  sending,  \* the file being transferred, and its version
  later,    \* chmodEntries, the last one first
  bad,      \* workResult
  result,   \* what HandleDir returned
  clock, jobs, edits, faults,   \* time, and the bounded counters
  asOf,     \* history: date -> the tree a complete store saw
  missing,  \* history: what was not at home when the job began
  dirty,    \* history: nodes edited since the job began
  hidden,   \* history: edited within the second the repository or a scan knows
  broken,   \* history: transfer or digest of the last version did not get done
  failed,   \* history: nodes the job failed on
  untold,   \* history: nodes it failed on in a place that does not tell
  settled   \* history: nothing happened since a complete store

work    == <<dirs, here, todo, sending, later, bad>>
counts  == <<clock, jobs, edits, faults>>
history == <<asOf, missing, dirty, hidden, broken, failed, untold, settled>>
vars    == <<setting, trees, repo, pending, session, job, pc, work, result, counts,
             history>>

Owner    == "owner"
Nothing  == "nothing"
Half     == "half"
NoFile   == [node |-> Root]
NoTree   == [tree |-> [x \in {} |-> x], sure |-> {}]
home     == trees["home"]
Target   == IF setting.elsewhere THEN "away" ELSE "home"

IsFile(n)   == Kind[n] = "file"
IsDir(n)    == Kind[n] = "dir"
IsLink(n)   == Kind[n] = "link"
SizeOf(c)   == IF c \in Contents THEN Size[c] ELSE 0
Bytes       == Contents \cup {Nothing, Half}
In(dir)     == {n \in Nodes : Parent[n] = dir}

\* The directories on the way from n up to Root: every set that has the parent of n and,
\* with a node, the parent of it, has them.
Above == [n \in Nodes |->
  {a \in Nodes : \A S \in SUBSET Nodes :
     (\A m \in S \cup {n} : Parent[m] \in S \cup {Root}) => a \in S}]

Put(f, k, v)  == [x \in DOMAIN f \cup {k} |-> IF x = k THEN v ELSE f[x]]
Without(f, S) == [x \in DOMAIN f \ S |-> f[x]]
Empty         == [x \in {} |-> x]

Node    == [mode: Modes, group: {Owner, "staff"}, mtime: 0..MaxClock,
            ctime: 0..MaxClock, content: Bytes]
Version == [status: {"used", "deleted"}, btime: 0..MaxClock, mode: Modes,
            group: {Owner, "staff"}, mtime: 0..MaxClock, ctime: 0..MaxClock,
            size: Nat, target: Bytes, digest: Bytes, bytes: Bytes,
            stream: BOOLEAN, zipped: BOOLEAN]
Item    == [op: {"set", "delete", "store", "modify", "create", "fetch"},
            node: Nodes, entry: Version]

\* What a job may be told, and what there is to begin with.
Setting == [names: SUBSET Nodes, excludes: SUBSET (Nodes \cup {Root}),
            ignores: SUBSET Nodes, nozips: SUBSET Nodes, keep: SUBSET {"owner", "rights", "times"},
            force: BOOLEAN, overwrite: BOOLEAN, ignoreErrors: BOOLEAN,
            recursive: BOOLEAN, deepFirst: BOOLEAN, elsewhere: BOOLEAN, asks: BOOLEAN,
            kinds: SUBSET {"store", "restore", "diff"}, group: {Owner, "staff"},
            content: Contents, budget: [jobs: Nat, edits: Nat, faults: Nat]]

ASSUME SettingsAssumption ==
  \A s \in Settings : s \in Setting /\ \A n \in s.names : Above[n] \subseteq s.names

-----------------------------------------------------------------------------
(* What GetEntries and FileOpenIn hand out.                                *)

Seen(n, when) == {i \in DOMAIN repo[n] : when = 0 \/ repo[n][i].btime < when}
VersionAt(n, when) == repo[n][CHOOSE i \in Seen(n, when) : \A j \in Seen(n, when) : j <= i]
Entries(dir, when) == {n \in In(dir) : Seen(n, when) # {}}
Used(n, when) == Seen(n, when) # {} /\ VersionAt(n, when).status = "used"
PresentAt(n, when) == \A m \in {n} \cup Above[n] : Used(m, when)

\* File2Entry: lstat, and readlink for a link.
File2Entry(n) ==
  [status |-> "used", btime |-> 0, mode |-> home[n].mode, group |-> home[n].group,
   mtime |-> home[n].mtime, ctime |-> home[n].ctime, size |-> SizeOf(home[n].content),
   target |-> IF IsLink(n) THEN home[n].content ELSE Nothing,
   digest |-> Nothing, bytes |-> Nothing, stream |-> FALSE, zipped |-> FALSE]

\* Mutant of VersionDup: the group is not copied.
VersionDupLost(v) == [v EXCEPT !.group = Nothing]

\* AQBEntryVersion_dup, through which every version goes that is stored.
VersionDup(v) == [v EXCEPT !.group = Owner]

TimesDiffer(l, r, mode) ==
  IF mode = "diff" THEN l.mtime # r.mtime \/ l.ctime # r.ctime
                   ELSE r.mtime > l.mtime \/ r.ctime > l.ctime

Changed(n, l, r, mode) ==
  \/ r.status = "deleted" /\ ~IsFile(n)
  \/ ~IsLink(n) /\ TimesDiffer(l, r, mode)
  \/ l.mode # r.mode
  \/ l.group # r.group
  \/ l.target # r.target

\* CompareEntries returns 2.  The digest is looked at when something else of
\* the entry changed.
ContentChanged(n, l, r, mode) ==
  /\ IsFile(n)
  /\ \/ r.status = "deleted"
     \/ l.size # r.size
     \/ Changed(n, l, r, mode) /\ home[n].content # r.digest

\* The local entry after CompareEntries: with a digest if it needed one.
Compared(n, l, r, mode) ==
  IF IsFile(n) /\ Changed(n, l, r, mode) THEN [l EXCEPT !.digest = home[n].content]
                                         ELSE l

Work(op, n, entry) == [op |-> op, node |-> n, entry |-> entry]

\* GetDiffEntriesForBackup: what is new or changed ...
Modified(dir, when) ==
  LET local == In(dir) \cap DOMAIN home
      known == Entries(dir, when)
      Send(n, l) == Work(IF IsFile(n) THEN "store" ELSE "set", n, l)
  IN {Send(n, File2Entry(n)) : n \in {m \in local : m \notin known \/ setting.force}}
     \cup {LET l == File2Entry(n)
               r == VersionAt(n, when)
           IN Work(IF ContentChanged(n, l, r, "diff") THEN "store" ELSE "set", n,
                   Compared(n, l, r, "diff"))
           : n \in {m \in local \cap known :
                      /\ ~setting.force
                      /\ \/ Changed(m, File2Entry(m), VersionAt(m, when), "diff")
                         \/ ContentChanged(m, File2Entry(m), VersionAt(m, when), "diff")}}

\* Mutant of Deleted: what is marked deleted already is listed again.
DeletedAgain(dir, when) ==
  {Work("delete", n, VersionAt(n, when)) : n \in Entries(dir, when) \ DOMAIN home}

\* ... and what is gone.
Deleted(dir, when) ==
  {Work("delete", n, VersionAt(n, when)) :
     n \in {m \in Entries(dir, when) \ DOMAIN home : Used(m, when)}}

\* GetDiffEntriesForRestore compares with the tree at home, wherever it
\* restores to.  A file that changed is fetched, also if FORCE asks for it;
\* the rest is modified if it is there and created if it is not.
Differing(dir, when) ==
  LET remote == {n \in Entries(dir, when) : Used(n, when)}
      Whole(n) == \/ n \notin DOMAIN home
                  \/ setting.force
                  \/ ContentChanged(n, File2Entry(n), VersionAt(n, when), "newer")
      Some(n) == Changed(n, File2Entry(n), VersionAt(n, when), "newer")
  IN {Work(IF IsFile(n) THEN "fetch" ELSE "create", n, VersionAt(n, when)) :
        n \in {m \in remote : Whole(m)}}
     \cup {Work("modify", n, VersionAt(n, when)) :
             n \in {m \in remote : ~Whole(m) /\ Some(m)}}

\* The directories to be handled next: for a backup those that are there, for
\* a restore those that were stored.
SubDirs(dir) ==
  {n \in In(dir) : IsDir(n) /\ IF job.kind = "restore" THEN Used(n, job.when)
                                                       ELSE n \in DOMAIN home}

-----------------------------------------------------------------------------
Init ==
  /\ setting \in Settings
  /\ trees = [home |-> [n \in setting.names |->
                [mode |-> DefaultMode, group |-> setting.group, mtime |-> 0, ctime |-> 0,
                 content |-> IF IsDir(n) THEN Nothing ELSE setting.content]],
              away |-> Empty]
  /\ repo = [n \in Nodes |-> <<>>]
  /\ pending = Empty
  /\ session = "closed"
  /\ job = [kind |-> "none", when |-> 0]
  /\ pc = "idle"
  /\ dirs = <<>> /\ here = Root /\ todo = {} /\ sending = NoFile /\ later = <<>>
  /\ bad = FALSE
  /\ result = "none"
  /\ clock = 1 /\ jobs = 0 /\ edits = 0 /\ faults = 0
  /\ asOf = [w \in 0..MaxClock |-> NoTree]
  /\ missing = {} /\ dirty = {} /\ hidden = {} /\ broken = {} /\ failed = {}
  /\ untold = {}
  /\ settled = FALSE

Fault == faults < setting.budget.faults /\ faults' = faults + 1
Fine  == UNCHANGED faults

-----------------------------------------------------------------------------
(* The session: AQBackup_Open, AQBackup_Close, AQBackup_Abandon.           *)

\* Open leaves the client in place when it cannot register or when the
\* repository cannot be opened; only Abandon gets rid of it.
Open ==
  /\ session = "closed"
  /\ \/ session' = "open" /\ Fine
     \/ session' = "half" /\ Fault
  /\ UNCHANGED <<setting, trees, repo, pending, job, pc, work, result, clock, jobs,
                 edits, history>>

Close ==
  /\ session = "open" /\ pc = "idle"
  /\ \/ session' = "closed" /\ Fine
     \/ session' = "half" /\ Fault    \* CloseRepository worked, Unregister failed
  /\ UNCHANGED <<setting, trees, repo, pending, job, pc, work, result, clock, jobs,
                 edits, history>>

Abandon ==
  /\ session = "half" /\ pc = "idle"
  /\ session' = "closed"
  /\ UNCHANGED <<setting, trees, repo, pending, job, pc, work, result, counts, history>>

-----------------------------------------------------------------------------
(* AQBackup_HandleDir.                                                     *)

\* What the repository keeps of the tree, and can give back.
Kept(n) ==
  /\ n \notin setting.ignores
  /\ ({Root} \cup Above[n]) \cap (setting.ignores \cup setting.excludes) = {}
  /\ setting.recursive \/ Parent[n] = Root

\* A store makes what is later than now uncertain until it is complete.
\* Time is told apart where the owner acts and where a job begins.
Time == clock' \in {clock, clock + 1} /\ clock' <= MaxClock

StartJob(kind, when) ==
  /\ session = "open" /\ pc = "idle"
  /\ jobs < setting.budget.jobs
  /\ Time
  /\ jobs' = jobs + 1
  /\ when <= clock /\ (kind = "store" => when = 0)
  /\ job' = [kind |-> kind, when |-> when]
  /\ pc' = "enter"
  /\ dirs' = <<Root>>
  /\ bad' = FALSE
  /\ result' = "none"
  /\ asOf' = IF kind = "store"
             THEN [w \in DOMAIN asOf |-> IF w = 0 \/ w > clock' THEN NoTree ELSE asOf[w]]
             ELSE asOf
  /\ missing' = IF kind = "store" THEN {} ELSE Nodes \ (DOMAIN home \cup DOMAIN trees[Target])
  /\ dirty' = {}
  /\ failed' = {}
  /\ untold' = {}
  /\ settled' = (settled /\ kind # "restore")
  /\ UNCHANGED <<setting, trees, repo, pending, session, here, todo, sending, later,
                 edits, faults, hidden, broken>>

\* The tree of a complete store: nothing failed, nobody worked in it.
Complete == job.kind = "store" /\ dirty = {} /\ failed = {}

EndJob(res) ==
  /\ pc' = "idle"
  /\ result' = res
  /\ dirs' = <<>> /\ here' = Root /\ todo' = {} /\ sending' = NoFile /\ later' = <<>>
  /\ bad' = FALSE
  /\ IF res = "ok" /\ Complete
     THEN /\ asOf' = [w \in DOMAIN asOf |->
                        IF w = 0 \/ w > clock
                        THEN [tree |-> home,
                              sure |-> {n \in Nodes : Kept(n)} \ (hidden \cup broken)]
                        ELSE asOf[w]]
          /\ settled' = TRUE
     ELSE UNCHANGED <<asOf, settled>>
  /\ UNCHANGED <<setting, job, clock, jobs, edits, missing, dirty, hidden>>

\* What the steps of a job leave alone.
Steady == UNCHANGED <<setting, session, job, result, clock, jobs, edits, asOf, missing,
                      dirty, settled>>

\* Mutant of Remaining: the directory stays in the list.
RemainingAll(ds) == ds

\* The list without the directory that is handled, its first.
Remaining(ds) == Tail(ds)

\* The next directory, if it is not excluded, the interactor agrees and the
\* repository opens it.  Skip ends the whole job, and well.
EnterDir ==
  /\ pc = "enter"
  /\ \/ /\ dirs = <<>>
        /\ pc' = "final"
        /\ Steady /\ Fine
        /\ UNCHANGED <<trees, repo, pending, work, hidden, broken, failed, untold>>
     \/ /\ dirs # <<>> /\ Head(dirs) \in setting.excludes
        /\ dirs' = Remaining(dirs)
        /\ pc' = IF setting.recursive THEN "enter" ELSE "final"
        /\ Steady /\ Fine
        /\ UNCHANGED <<trees, repo, pending, here, todo, sending, later, bad, hidden,
                       broken, failed, untold>>
     \/ /\ dirs # <<>> /\ Head(dirs) \notin setting.excludes
        /\ dirs' = Remaining(dirs)
        /\ here' = Head(dirs)
        /\ pc' = "scan"
        /\ Steady /\ Fine
        /\ UNCHANGED <<trees, repo, pending, todo, sending, later, bad, hidden, broken,
                       failed, untold>>
     \/ /\ dirs # <<>> /\ Head(dirs) \notin setting.excludes
        /\ \/ setting.asks /\ EndJob("skipped") /\ Fine
           \/ setting.asks /\ EndJob("error") /\ Fine
           \/ EndJob("error") /\ Fault
        /\ UNCHANGED <<trees, repo, pending, session, broken, failed, untold>>

\* The lists of one directory, without what the repository ignores.
Listed(dir) ==
  LET all == IF job.kind = "restore" THEN Differing(dir, job.when)
             ELSE Modified(dir, job.when) \cup Deleted(dir, job.when)
  IN {i \in all : i.node \notin setting.ignores}

\* DEEP_FIRST puts the new directories before the others.
Scanned(order) == IF setting.deepFirst THEN order \o dirs ELSE dirs \o order

(***************************************************************************)
(* GetDiffEntriesForBackup and GetDiffEntriesForRestore.  A backup fails   *)
(* when the directory is gone.  A file that cannot be read for its digest  *)
(* fails a backup, is left out with IGNORE_ERRORS, and counts as unchanged *)
(* in a restore.                                                           *)
(***************************************************************************)
ScanDir ==
  /\ pc = "scan"
  /\ pc' = "work"
  /\ \/ /\ job.kind = "restore" \/ here \in DOMAIN home \cup {Root}
        /\ \E order \in SetToSeqs(SubDirs(here)) : dirs' = Scanned(order)
        /\ \/ todo' = Listed(here) /\ Fine /\ UNCHANGED <<failed, untold>>
           \/ \E i \in Listed(here) :
                /\ IsFile(i.node) /\ i.node \in DOMAIN home
                /\ job.kind = "restore" \/ setting.ignoreErrors
                /\ todo' = Listed(here) \ {i}
                /\ IF job.kind = "restore" THEN untold' = untold \cup {i.node} /\ UNCHANGED failed
                                           ELSE failed' = failed \cup {i.node} /\ UNCHANGED untold
                /\ Fault
        /\ bad' = FALSE
     \/ /\ \/ job.kind # "restore" /\ here \notin DOMAIN home \cup {Root} /\ Fine
           \/ Fault
        /\ bad' = TRUE /\ todo' = {}
        /\ failed' = failed \cup (IF here = Root THEN Nodes ELSE {here})
        /\ UNCHANGED <<dirs, untold>>
  /\ Steady
  /\ UNCHANGED <<trees, repo, pending, here, sending, later, hidden, broken>>

-----------------------------------------------------------------------------
(* Working off the lists.                                                  *)

Phase == [set |-> 1, delete |-> 2, store |-> 3, modify |-> 1, create |-> 2, fetch |-> 3]

Due(op) ==
  {i \in todo : /\ pc = "work" /\ sending = NoFile /\ job.kind # "diff"
                /\ i.op = op
                /\ \A j \in todo : Phase[i.op] <= Phase[j.op]}

Succeeds(i) == todo' = todo \ {i} /\ UNCHANGED <<bad, failed>>

\* A failure ends the work on the directory, unless errors are ignored.
Fails(i) ==
  /\ failed' = failed \cup {i.node}
  /\ IF setting.ignoreErrors THEN todo' = todo \ {i} /\ UNCHANGED bad
                             ELSE todo' = {} /\ bad' = TRUE

Working == Steady /\ UNCHANGED <<pc, dirs, here, untold>>

\* ShowDiffs prints the lists.
ShowDiffs ==
  /\ pc = "work" /\ job.kind = "diff" /\ todo # {}
  /\ todo' = {}
  /\ Working /\ Fine
  /\ UNCHANGED <<trees, repo, pending, sending, later, bad, hidden, broken, failed>>

LastOf(n) == repo[n][Len(repo[n])]
WithVersion(n, v) == [repo EXCEPT ![n] = Append(@, v)]

\* Mutant of SetVersion: the flags are those of the caller's entry.
SetVersionFlags(n, e, status) ==
  LET v == VersionDup([e EXCEPT !.status = status, !.btime = clock])
  IN IF repo[n] = <<>> THEN v
     ELSE [v EXCEPT !.bytes = LastOf(n).bytes, !.stream = LastOf(n).stream]

\* SetEntry: a version that goes on using the data of the last one.
SetVersion(n, e, status) ==
  LET v == VersionDup([e EXCEPT !.status = status, !.btime = clock])
  IN IF repo[n] = <<>> THEN v
     ELSE [v EXCEPT !.bytes = LastOf(n).bytes, !.stream = LastOf(n).stream,
                    !.zipped = LastOf(n).zipped]

SetEntry ==
  /\ \E op \in {"set", "delete"} : \E i \in Due(op) :
       \/ /\ repo' = WithVersion(i.node, SetVersion(i.node, i.entry,
                                                IF op = "set" THEN "used" ELSE "deleted"))
          /\ Succeeds(i) /\ Fine
       \/ Fails(i) /\ Fault /\ UNCHANGED repo
  /\ Working
  /\ UNCHANGED <<trees, pending, sending, later, hidden, broken>>

Zips(n, e) == n \notin setting.nozips /\ e.size > Trigger

\* StoreFile up to FileOpenOut, which may also fail when the version is on
\* disk already.
StoreOpen ==
  /\ \E i \in Due("store") :
       LET n == i.node
           v == VersionDup([i.entry EXCEPT !.btime = clock, !.zipped = Zips(n, i.entry)])
       IN \/ /\ n \in DOMAIN home
             /\ repo' = WithVersion(n, v)
             /\ sending' = [node |-> n, entry |-> v, item |-> i]
             /\ broken' = broken \ {n}
             /\ Fine
             /\ UNCHANGED <<todo, bad, failed>>
          \/ /\ n \notin DOMAIN home
             /\ Fails(i) /\ Fine
             /\ UNCHANGED <<repo, sending, broken>>
          \/ /\ n \in DOMAIN home
             /\ Fails(i) /\ Fault
             /\ \/ UNCHANGED <<repo, broken>>
                \/ repo' = WithVersion(n, v) /\ broken' = broken \cup {n}
             /\ UNCHANGED sending
  /\ Working
  /\ UNCHANGED <<trees, pending, later, hidden>>

Filled(n, bytes) ==
  [repo EXCEPT ![n][Len(repo[n])].bytes = bytes,
               ![n][Len(repo[n])].stream = sending.entry.zipped]

\* The rest of StoreFile: what is in the file now goes through the converters
\* to the repository, and its digest with FileCloseOut.
StoreTransfer ==
  /\ job.kind = "store" /\ sending # NoFile
  /\ sending' = NoFile
  /\ LET n == sending.node
     IN \/ /\ n \in DOMAIN home
           /\ repo' = Filled(n, home[n].content)
           /\ pending' = Put(pending, n, home[n].content)
           /\ Succeeds(sending.item) /\ Fine
           /\ UNCHANGED broken
        \/ /\ n \in DOMAIN home
           /\ \E bytes \in {Half, home[n].content} : repo' = Filled(n, bytes)
           /\ broken' = broken \cup {n}
           /\ Fails(sending.item) /\ Fault
           /\ UNCHANGED pending
        \/ /\ n \notin DOMAIN home
           /\ broken' = broken \cup {n}
           /\ Fails(sending.item) /\ Fine
           /\ UNCHANGED <<repo, pending>>
  /\ Working
  /\ UNCHANGED <<trees, later, hidden>>

-----------------------------------------------------------------------------
(* Changing the local tree: the user does, and so does a restore.  Here    *)
(* clock' is the second in which the step is made.                         *)

Stamped(T, n) == IF n \in DOMAIN T
                 THEN [T EXCEPT ![n].mtime = clock', ![n].ctime = clock']
                 ELSE T

\* A directory entry that appears or goes stamps the directory it is in.
Placed(T, n, v) == Stamped(Put(T, n, v), Parent[n])
Taken(T, n)     == Stamped(Without(T, {n}), Parent[n])

\* Nobody can tell from its times that x changes now: it, its version or the
\* scan of a running job is of the same second.
SameSecond(x) ==
  \/ x \in DOMAIN home /\ home[x].ctime = clock'
  \/ repo[x] # <<>> /\ LastOf(x).ctime = clock'
  \/ x \notin DOMAIN home /\ pc # "idle"

Hidden(S) == (hidden \ S) \cup {x \in S \cap Nodes : SameSecond(x)}

\* A restore's changes, and who hides what if they are made at home.
Local(T, S) ==
  /\ trees' = [trees EXCEPT ![Target] = T]
  /\ hidden' = IF setting.elsewhere THEN hidden ELSE Hidden(S)

New(mode, content) ==
  [mode |-> mode, group |-> Owner, mtime |-> clock', ctime |-> clock', content |-> content]

\* Path_Create: the directories above n, with default rights.
PathCreate(T, n) ==
  [x \in DOMAIN T \cup Above[n] |-> IF x \in DOMAIN T THEN T[x]
                                                  ELSE New(DefaultMode, Nothing)]

(***************************************************************************)
(* ModifyDirEnt: owner, rights and times, unless a flag asks to keep them. *)
(* A link has only an owner.                                               *)
(***************************************************************************)
ModifyDirEnt(T, n, v) ==
  [T EXCEPT
     ![n].group = IF "owner" \in setting.keep THEN @ ELSE v.group,
     ![n].mode  = IF IsLink(n) \/ "rights" \in setting.keep THEN @ ELSE v.mode,
     ![n].mtime = IF IsLink(n) \/ "times" \in setting.keep THEN @ ELSE v.mtime,
     ![n].ctime = clock']

\* CreateDirEnt: a directory or a link; files are not created by it.
CreateDirEnt(T, n, v) ==
  ModifyDirEnt(Placed(PathCreate(T, n), n,
                      New(v.mode, IF IsLink(n) THEN v.target ELSE Nothing)), n, v)

Deferred(i) == <<[node |-> i.node, entry |-> i.entry]>> \o later

\* The entries that differ in more than content; directories wait.
Modify ==
  /\ Working
  /\ \E i \in Due("modify") :
       LET n == i.node
           T == trees[Target]
       IN \/ /\ IsDir(n)
             /\ later' = Deferred(i)
             /\ Succeeds(i) /\ Fine
             /\ UNCHANGED <<trees, hidden>>
          \/ /\ ~IsDir(n) /\ n \in DOMAIN T
             /\ Local(ModifyDirEnt(T, n, i.entry), {n})
             /\ Succeeds(i) /\ Fine
             /\ UNCHANGED later
          \/ /\ ~IsDir(n)
             /\ Fails(i)
             /\ IF n \in DOMAIN T THEN Fault ELSE Fine
             /\ UNCHANGED <<trees, later, hidden>>
  /\ UNCHANGED <<repo, pending, sending, broken>>

\* The entries that are not there, which is an error if they are.
Create ==
  /\ Working
  /\ \E i \in Due("create") :
       LET n == i.node
           T == trees[Target]
       IN \/ /\ n \notin DOMAIN T
             /\ Local(CreateDirEnt(T, n, i.entry), {n, Parent[n]})
             /\ later' = IF IsDir(n) THEN Deferred(i) ELSE later
             /\ Succeeds(i) /\ Fine
          \/ /\ IF n \notin DOMAIN T THEN Fault ELSE Fine
             /\ Fails(i)
             /\ later' = IF IsDir(n) /\ setting.ignoreErrors THEN Deferred(i) ELSE later
             /\ UNCHANGED <<trees, hidden>>
  /\ UNCHANGED <<repo, pending, sending, broken>>

\* RestoreFile up to the first byte: the file there is truncated.
FetchOpen ==
  /\ Working
  /\ \E i \in Due("fetch") :
       LET n == i.node
           T == PathCreate(trees[Target], n)
           v == VersionAt(n, job.when)
       IN \/ /\ n \notin DOMAIN T \/ setting.overwrite
             /\ Local(IF n \in DOMAIN T
                      THEN [Stamped(T, n) EXCEPT ![n].content = Nothing]
                      ELSE Placed(T, n, New(DefaultMode, Nothing)), {n, Parent[n]})
             /\ sending' = [node |-> n, entry |-> v, item |-> i]
             /\ Fine
             /\ UNCHANGED <<todo, bad, failed>>
          \/ /\ IF n \in DOMAIN T /\ ~setting.overwrite THEN Fine ELSE Fault
             /\ Local(T, {})
             /\ Fails(i)
             /\ UNCHANGED sending
  /\ UNCHANGED <<repo, pending, later, broken>>

\* What comes out of the converters, if the flag of the version fits.
Received(v) == IF v.zipped = v.stream THEN v.bytes ELSE Half

\* Mutant of Verified: the digest is not compared.
VerifiedSize(v) == v.zipped = v.stream /\ SizeOf(v.bytes) = v.size

\* RestoreFile compares size and digest when the file is written already.
Verified(v) == /\ v.zipped = v.stream
               /\ SizeOf(v.bytes) = v.size
               /\ v.bytes = v.digest

FetchFill ==
  /\ Working
  /\ job.kind = "restore" /\ sending # NoFile
  /\ sending' = NoFile
  /\ LET n == sending.node
         v == sending.entry
         T == trees[Target]
         With(bytes) == IF n \in DOMAIN T
                        THEN [Stamped(T, n) EXCEPT ![n].content = bytes]
                        ELSE T
     IN \/ /\ n \in DOMAIN T /\ Verified(v)
           /\ Local(ModifyDirEnt(With(Received(v)), n, v), {n})
           /\ Succeeds(sending.item) /\ Fine
        \/ /\ ~(n \in DOMAIN T /\ Verified(v))
           /\ Local(With(Received(v)), {n} \cap DOMAIN T)
           /\ Fails(sending.item) /\ Fine
        \/ /\ Local(With(Half), {n} \cap DOMAIN T)
           /\ Fails(sending.item) /\ Fault
  /\ UNCHANGED <<repo, pending, later, broken>>

-----------------------------------------------------------------------------
WithDigests ==
  [n \in Nodes |-> IF n \in DOMAIN pending
                   THEN [repo[n] EXCEPT ![Len(repo[n])].digest = pending[n]]
                   ELSE repo[n]]

\* Mutant of LeaveDir: workResult is not looked at.
LeaveDirUnevaluated ==
  /\ pc = "work" /\ todo = {} /\ sending = NoFile
  /\ pending' = Empty
  /\ repo' = WithDigests
  /\ pc' = IF setting.recursive THEN "enter" ELSE "final"
  /\ bad' = FALSE
  /\ Steady /\ Fine
  /\ UNCHANGED <<trees, dirs, here, todo, sending, later, hidden, broken, failed, untold>>

\* CloseDir writes the digests; then workResult counts.
LeaveDir ==
  /\ pc = "work" /\ todo = {} /\ sending = NoFile
  /\ pending' = Empty
  /\ \/ /\ repo' = WithDigests
        /\ Fine
        /\ \/ /\ bad /\ ~setting.ignoreErrors
              /\ EndJob("error")
              /\ UNCHANGED session
           \/ /\ ~bad \/ setting.ignoreErrors
              /\ pc' = IF setting.recursive THEN "enter" ELSE "final"
              /\ bad' = FALSE
              /\ Steady
              /\ UNCHANGED <<dirs, here, todo, sending, later, hidden>>
        /\ UNCHANGED broken
     \/ /\ Fault
        /\ broken' = broken \cup DOMAIN pending
        /\ EndJob("error")
        /\ UNCHANGED <<repo, session>>
  /\ UNCHANGED <<trees, failed, untold>>

\* The directories that waited.  A failure ends this loop and frees the list,
\* which is freed again after it: the process may end there; HandleDir
\* returns 0 if it does not.
ModifyLater ==
  /\ Steady
  /\ pc = "final" /\ later # <<>>
  /\ LET x == Head(later)
         T == trees[Target]
     IN \/ /\ x.node \in DOMAIN T
           /\ Local(ModifyDirEnt(T, x.node, x.entry), {x.node})
           /\ later' = Tail(later)
           /\ Fine
           /\ UNCHANGED untold
        \/ /\ IF x.node \in DOMAIN T THEN Fault ELSE Fine
           /\ untold' = untold \cup IF setting.ignoreErrors THEN {x.node}
                                    ELSE {later[i].node : i \in DOMAIN later}
           /\ later' = IF setting.ignoreErrors THEN Tail(later) ELSE <<>>
           /\ UNCHANGED <<trees, hidden>>
  /\ UNCHANGED <<repo, pending, pc, dirs, here, todo, sending, bad, broken, failed>>

Finish ==
  /\ pc = "final" /\ later = <<>>
  /\ EndJob("ok") /\ Fine
  /\ UNCHANGED <<trees, repo, pending, session, broken, failed, untold>>

\* The program ends; the repository has what is on its disk.
Crash ==
  /\ pc # "idle"
  /\ Fault
  /\ session' = "closed"
  /\ pending' = Empty
  /\ broken' = broken \cup DOMAIN pending \cup
               (IF job.kind = "store" /\ sending # NoFile THEN {sending.node} ELSE {})
  /\ settled' = FALSE
  /\ pc' = "idle" /\ result' = "crashed"
  /\ dirs' = <<>> /\ here' = Root /\ todo' = {} /\ sending' = NoFile /\ later' = <<>>
  /\ bad' = FALSE
  /\ UNCHANGED <<setting, trees, repo, job, clock, jobs, edits, asOf, missing, dirty,
                 hidden, failed, untold>>

-----------------------------------------------------------------------------
(* The owner of the tree.                                                  *)

Edited(T, S) ==
  /\ edits < setting.budget.edits
  /\ edits' = edits + 1
  /\ trees' = [trees EXCEPT !["home"] = T]
  /\ dirty' = dirty \cup S
  /\ hidden' = Hidden(S)
  /\ settled' = FALSE
  /\ UNCHANGED <<setting, repo, pending, session, job, pc, work, result, jobs, faults,
                 asOf, missing, broken, failed, untold>>

UserCreates(n, c) ==
  /\ n \in setting.names \ DOMAIN home /\ Above[n] \subseteq DOMAIN home
  /\ Edited(Placed(home, n, [New(DefaultMode, IF IsDir(n) THEN Nothing ELSE c)
                             EXCEPT !.group = setting.group]), {n, Parent[n]})

UserWrites(n, c) ==
  /\ n \in DOMAIN home /\ IsFile(n) /\ home[n].content # c
  /\ Edited([Stamped(home, n) EXCEPT ![n].content = c], {n})

UserChmods(n, m) ==
  /\ n \in DOMAIN home /\ ~IsLink(n) /\ home[n].mode # m
  /\ Edited([home EXCEPT ![n].mode = m, ![n].ctime = clock'], {n})

UserRemoves(n) ==
  /\ n \in DOMAIN home /\ \A m \in DOMAIN home : n \notin Above[m]
  /\ Edited(Taken(home, n), {n, Parent[n]})

Edit ==
  /\ Time
  /\ \E n \in Nodes : \/ \E c \in Contents : UserCreates(n, c) \/ UserWrites(n, c)
                      \/ \E m \in Modes : UserChmods(n, m)
                      \/ UserRemoves(n)

JobStep ==
  \/ EnterDir \/ ScanDir \/ ShowDiffs \/ SetEntry \/ StoreOpen \/ StoreTransfer
  \/ Modify \/ Create \/ FetchOpen \/ FetchFill \/ LeaveDir \/ ModifyLater \/ Finish

Next ==
  \/ Open \/ Close \/ Abandon
  \/ \E kind \in setting.kinds, when \in 0..MaxClock : StartJob(kind, when)
  \/ JobStep \/ Crash \/ Edit

\* HandleDir runs until it returns.
Spec == Init /\ [][Next]_vars /\ WF_vars(JobStep)

-----------------------------------------------------------------------------
TypeOK ==
  /\ setting \in Settings
  /\ \A T \in {home, trees["away"]} :
       DOMAIN T \subseteq Nodes /\ \A n \in DOMAIN T : T[n] \in Node
  /\ repo \in [Nodes -> Seq(Version)]
  /\ DOMAIN pending \subseteq Nodes
  /\ session \in {"closed", "half", "open"}
  /\ job \in [kind: {"none", "store", "restore", "diff"}, when: 0..MaxClock]
  /\ pc \in {"idle", "enter", "scan", "work", "final"}
  /\ dirs \in Seq(Nodes \cup {Root}) /\ here \in Nodes \cup {Root}
  /\ todo \subseteq Item
  /\ bad \in BOOLEAN
  /\ result \in {"none", "ok", "error", "skipped", "crashed"}
  /\ clock \in 1..MaxClock /\ jobs \in 0..setting.budget.jobs
  /\ edits \in 0..setting.budget.edits /\ faults \in 0..setting.budget.faults
  /\ UNION {missing, dirty \ {Root}, hidden, broken, failed, untold} \subseteq Nodes

Alike(n, node, v) ==
  /\ ~IsLink(n) => node.mode = v.mode /\ node.mtime = v.mtime
  /\ setting.group = Owner => node.group = v.group
  /\ IsLink(n) => node.content = v.target
  /\ IsFile(n) => /\ node.content = v.digest
                  /\ node.content = v.bytes
                  /\ SizeOf(node.content) = v.size
                  /\ v.zipped = v.stream

(***************************************************************************)
(* Once a store is complete, the repository has the tree it saw for every  *)
(* later date up to the next store, and goes on having it: later jobs,     *)
(* edits, failures and crashes do not change what it has of the past.      *)
(* Left out are nodes that were edited within the second of their version, *)
(* and those an earlier job left broken (README).                          *)
(***************************************************************************)
RepositoryKeepsThePast ==
  \A w \in DOMAIN asOf : \A n \in asOf[w].sure :
    /\ PresentAt(n, w) <=> n \in DOMAIN asOf[w].tree
    /\ PresentAt(n, w) => Alike(n, asOf[w].tree[n], VersionAt(n, w))

\* A restore that returns 0 brought back every node that was not there, and
\* every file with FORCE, as the version of the date says: whole, with its
\* digest, its rights and (directories too) its time; and nothing else came.
RestoreIsExact ==
  (pc = "idle" /\ result = "ok" /\ job.kind = "restore" /\ dirty = {}) =>
    \A n \in {m \in Nodes : Kept(m) /\ ({m} \cup Above[m]) \cap (failed \cup untold) = {}} :
      LET T == trees[Target] IN
      IF PresentAt(n, job.when)
      THEN n \in missing \/ (setting.force /\ IsFile(n)) =>
             /\ n \in DOMAIN T
             /\ setting.keep = {} => Alike(n, T[n], VersionAt(n, job.when))
      ELSE n \in missing => n \notin DOMAIN T

\* After a complete store of a tree nobody has touched since, a store without
\* FORCE finds nothing to do and a comparison shows nothing, if every group
\* has the name of the owner: a version that SetEntry copies gets the owner as
\* its group (backup/entry.c:87), and the node is listed again and again.
UnchangedIsQuiet ==
  (settled /\ pc = "work" /\ job.when = 0 /\ ~setting.force /\ setting.group = Owner)
     => todo = {}

\* Without IGNORE_ERRORS a job that failed on a node does not return 0.
ErrorsAreTold == (result = "ok" /\ ~setting.ignoreErrors) => failed = {}

\* A job ends, whatever fails and whoever edits the tree.
JobEnds == (pc # "idle") ~> (pc = "idle")
=============================================================================

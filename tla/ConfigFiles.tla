----------------------------- MODULE ConfigFiles -----------------------------
(***************************************************************************)
(* What the suite keeps in configuration files, and what is left of it     *)
(* when the next process reads them: the entry of a file with its versions *)
(* (backup/entry.c, one "e." file), the configuration of the client        *)
(* (backup/aqbackup.c, progs/aqbackup) and the configuration of a          *)
(* repository of the server (backup/server.c, repository.conf).            *)
(*                                                                         *)
(* A behaviour is the life of one such file: processes read it, change     *)
(* what they read, write it and end, or end without having written, or in  *)
(* the middle of it.  The client's file and repository.conf may have been  *)
(* written by hand first.                                                  *)
(***************************************************************************)
EXTENDS Conf

CONSTANTS
  Kinds,       \* the documents: of "entry", "client" and "server"
  FileNames,   \* names of files that are backed up
  Stats,       \* what File2Entry finds out about a file
  Clock,       \* values of time(0)
  BaseDirs,    \* directories repositories are created for
  Dirs,        \* directories asked for
  Patterns,    \* patterns for files to ignore and not to compress
  Passwords,   \* values of the option passwd
  HandWritten, \* kind -> the files there may be at first
  NameMax,     \* buffer for an escaped name
  DirMax,      \* buffer for the escaped path of a directory
  BufferSize,  \* characters that reach the disk together
  MaxEdits     \* kind -> bound on the changes made to the document

VARIABLES
  kind,   \* which document the file is
  name,   \* the name of the entry
  file,   \* the characters on disk; Null: no file
  run,    \* of the document in memory: "none", "read" or "changed" since
  doc,    \* the document in memory; Null: none, or not readable
  saved,  \* history: the document last written; Null: none, or by hand
  torn,   \* history: not all of it has got into the file
  edits   \* changes made and writes cut short so far

disk == <<file, saved, torn>>
vars == <<kind, name, disk, run, doc, edits>>

ReadModes == {"REMOVE_STARTING_BLANKS", "REMOVE_TRAILING_BLANKS", "REMOVE_QUOTES",
              "ALLOW_GROUPS"}
Create    == {"VARIABLE", "NAMECREATE_VARIABLE", "OVERWRITE_VARS"}

\* A run of Config_Set...Value(group, Create, name, value): each of them makes a
\* variable, which has no value if there is none.
SetFields(cfg, g, fields) ==
  LET Made(f) == [Variable(f[1]) EXCEPT !.values = IF f[2] = Null THEN <<>> ELSE <<f[2]>>]
  IN [cfg EXCEPT ![g].variables = @ \o [i \in DOMAIN fields |-> Made(fields[i])]]

Get(cfg, g, var) == Config_GetValue(cfg, g, <<var>>, Null, 1)

-----------------------------------------------------------------------------
(***************************************************************************)
(* Entries.  Statuses are 1, used, and 2, deleted.                         *)
(***************************************************************************)
Version_ToConfig(v, cfg, g) ==
  SetFields(cfg, g,
    << << <<"status">>, IntText(v.status)>>, << <<"revision">>, IntText(v.revision)>>,
       << <<"md5">>, v.md5>>, << <<"storename">>, v.storeName>>,
       << <<"flags">>, IntText(v.flags)>>, << <<"mode">>, IntText(v.mode)>>,
       << <<"owner">>, v.owner>>, << <<"group">>, v.group>>,
       << <<"dstname">>, v.dstname>>, << <<"device">>, IntText(v.device)>>,
       << <<"size">>, IntText(v.size)>>, << <<"mtime">>, Stamp(v.mtime)>>,
       << <<"ctime">>, Stamp(v.ctime)>>, << <<"btime">>, Stamp(v.btime)>> >>)

Version_FromConfig(cfg, g, later) ==
  LET I(var) == Config_GetIntValue(cfg, g, <<var>>, 0)
      S(var) == Config_GetValue(cfg, g, <<var>>, <<>>, 1)
      T(var) == Config_GetTimeValue(cfg, g, <<var>>, 0, later)
  IN [status |-> I("status"), revision |-> I("revision"), md5 |-> S("md5"),
      storeName |-> S("storename"), flags |-> I("flags"), mode |-> I("mode"),
      owner |-> S("owner"), group |-> S("group"), dstname |-> S("dstname"),
      device |-> I("device"), size |-> I("size"), mtime |-> T("mtime"),
      ctime |-> T("ctime"), btime |-> T("btime")]

Entry_WriteFile(e) ==
  LET top == Config_GetGroup(Config_new, 1, e.name, {"NAMECREATE_GROUP"})
      AddVersion(c, v) ==
        LET new == Config_GetGroup(c, top.group, <<"version">>, {"NAMECREATE_GROUP"})
        IN Version_ToConfig(v, new.cfg, new.group)
      fields == << << <<"nextrevision">>, IntText(e.nextRevision)>>,
                   << <<"fileid">>, IntText(e.id)>> >>
  IN Config_WriteFile(
       FoldLeft(AddVersion, SetFields(top.cfg, top.group, fields), e.versions), ReadModes)

Entry_ReadFile(text, later) ==
  LET EntryOf(cfg, g) ==
        [name |-> cfg[g].name, id |-> Config_GetIntValue(cfg, g, <<"fileid">>, 0),
         nextRevision |-> Config_GetIntValue(cfg, g, <<"nextrevision">>, 0),
         versions |-> [i \in DOMAIN Groups(cfg, g) |->
                         Version_FromConfig(cfg, Groups(cfg, g)[i], later)]]
      FirstEntry(cfg) ==
        IF Groups(cfg, 1) = <<>> THEN Null ELSE EntryOf(cfg, Head(Groups(cfg, 1)))
      Loaded(cfg) == IF cfg = Null THEN Null ELSE FirstEntry(cfg)
  IN Loaded(Config_ReadFile(text, ReadModes \cup {"OVERWRITE_VARS", "NAMECREATE_GROUP"}))

\* What the client knows of a file; a link has its target.
Version_FromStat(st) ==
  [status |-> 1, revision |-> 0, md5 |-> Null, storeName |-> Null, flags |-> 0,
   mode |-> st.mode, owner |-> st.owner, group |-> st.group, dstname |-> st.link,
   device |-> st.device, size |-> st.size, mtime |-> st.mtime, ctime |-> st.mtime,
   btime |-> 0]

\* The copy gets the owner as its group (a file without an owner is left out).
Version_dup(v) == [v EXCEPT !.group = IF @ = Null THEN Null ELSE v.owner]

-----------------------------------------------------------------------------
(***************************************************************************)
(* The client's configuration and the repositories in it.                  *)
(***************************************************************************)
Types == {"direct", "local", "net"}

Repository_fromConfig(cfg, g) ==
  LET client == FindGroup(cfg, g, <<"client">>)
      typ    == Config_GetValue(cfg, g, <<"type">>, <<"direct">>, 1)
  IN IF (\E var \in {"basedir", "name", "user"} : Get(cfg, g, var) = Null)
        \/ \A t \in Types : ~Config_Compare(typ, <<t>>)
     THEN Null
     ELSE [baseDir |-> Get(cfg, g, "basedir"), name |-> Get(cfg, g, "name"),
           user |-> Get(cfg, g, "user"), passwd |-> Get(cfg, g, "passwd"),
           zipLevel |-> Config_GetIntValue(cfg, g, <<"ziplevel">>, 6), typ |-> typ,
           excludes |-> GetValues(cfg, g, <<"exclude">>),
           ignores |-> GetValues(cfg, g, <<"ignore">>),
           nozips |-> GetValues(cfg, g, <<"nozip">>),
           config |-> IF client = 0 THEN <<>> ELSE cfg[client].variables]

\* What is written for the files not to compress is the list of those to ignore.
Repository_toConfig(r, cfg, g) ==
  LET AddAll(c, var, list) == Config_SetValue(c, g, {"VARIABLE"}, <<var>>, list)
      plain  == SetFields(cfg, g,
                  << << <<"basedir">>, r.baseDir>>, << <<"name">>, r.name>>,
                     << <<"user">>, r.user>>, << <<"passwd">>, r.passwd>>,
                     << <<"ziplevel">>, IntText(r.zipLevel)>>, << <<"type">>, r.typ>> >>)
      lists  == AddAll(AddAll(AddAll(plain, "exclude", r.excludes),
                              "ignore", r.ignores), "nozip", r.ignores)
      client == Config_GetGroup(lists, g, <<"client">>, {"OVERWRITE_GROUPS"})
  IN [client.cfg EXCEPT ![client.group].variables = @ \o r.config]

AQBackup_Init(cfg) ==
  LET top   == FindGroup(cfg, 1, <<"repositories">>)
      below == IF top = 0 THEN <<>> ELSE Groups(cfg, top)
      With(repos) ==
        IF \E i \in DOMAIN repos : repos[i] = Null THEN Null
        ELSE [hostName |-> Config_GetValue(cfg, 1, <<"hostname">>, <<"host">>, 1),
              repositories |-> repos]
  IN With([i \in DOMAIN below |-> Repository_fromConfig(cfg, below[i])])

AQBackup_Fini(b) ==
  LET host == SetFields(Config_new, 1, << << <<"hostname">>, b.hostName>> >>)
      top  == Config_GetGroup(host, 1, <<"repositories">>, {})
      AddRepository(c, i) ==
        LET new == Config_GetGroup(c, top.group, Number(i), {})
        IN Repository_toConfig(b.repositories[i], new.cfg, new.group)
  IN FoldLeft(AddRepository, top.cfg, [i \in DOMAIN b.repositories |-> i])

\* Mutant of Matches: "/ab" counts as a directory below "/a".
MatchesStart(dir, base) == IF IsPrefix(base, dir) THEN Len(base) ELSE 0

\* Characters of dir that are its way to the base directory; 0: it is not below.
Matches(dir, base) ==
  IF /\ IsPrefix(base, dir)
     /\ \/ Len(dir) = Len(base)
        \/ dir[Len(base) + 1] = "/"
        \/ base = <<"/">>
  THEN Len(base) ELSE 0

\* AQBackup__FindMatchingRepository: its number, 0 if there is none.
FindMatchingRepository(repos, dir) ==
  LET M(i) == Matches(dir, repos[i].baseDir)
  IN First({i \in DOMAIN repos : M(i) > 0 /\ \A j \in DOMAIN repos : M(j) <= M(i)})

\* Where the client keeps a directory: AQBackup_HandleDir's relative path ...
RelativePath(dir, base) ==
  IF Len(dir) > Len(base) THEN SubSeq(dir, Len(base) + 1, Len(dir)) ELSE <<"/">>

\* ... which AQBServer__EscapePath turns into the folders of the repository.
RECURSIVE EscapeFrom(_, _)
EscapeFrom(path, out) ==
  IF path = <<>> THEN out
  ELSE IF Head(path) = "/" THEN EscapeFrom(Tail(path), out)
  ELSE LET got == Text_GetWord(path, {"/", "\\"}, NameMax)
           esc == IF got = Null THEN Null ELSE Text_Escape(got.word, NameMax)
       IN IF esc = Null THEN Null
          ELSE IF Len(out) + Len(esc) + 10 > DirMax THEN Null
          ELSE EscapeFrom(got.next, out \o <<"/", "d.">> \o esc)

EscapePath(path) == EscapeFrom(path, <<>>)

-----------------------------------------------------------------------------
(***************************************************************************)
(* A repository of the server.                                             *)
(***************************************************************************)
LoadRepository(cfg) ==
  [nextFileId |-> Config_GetIntValue(cfg, 1, <<"nextfileid">>, 0),
   readers |-> GetValues(cfg, 1, <<"reader">>),
   writers |-> GetValues(cfg, 1, <<"writer">>)]

SaveRepository(r) ==
  LET Each(var, list) == [i \in DOMAIN list |-> << <<var>>, list[i]>>]
  IN SetFields(Config_new, 1,
       << << <<"nextfileid">>, IntText(r.nextFileId)>> >>
       \o Each("reader", r.readers) \o Each("writer", r.writers))

-----------------------------------------------------------------------------
Init ==
  /\ kind \in Kinds
  /\ name \in (IF kind = "entry" THEN FileNames ELSE {<<>>})
  /\ file \in (IF kind = "entry" THEN {Null} ELSE HandWritten[kind])
  /\ run = "none"
  /\ doc = Null
  /\ saved = Null
  /\ torn = FALSE
  /\ edits = 0

\* What a process that starts gets out of the file.
Read(later) ==
  IF kind = "entry" THEN Entry_ReadFile(file, later)
  ELSE LET DocumentOf(cfg) ==
             CASE cfg = Null -> Null
               [] cfg # Null /\ kind = "client" -> AQBackup_Init(cfg)
               [] OTHER -> LoadRepository(cfg)
       IN DocumentOf(Config_ReadFile(file,
                       IF kind = "server" THEN ReadModes \cup {"NAMECREATE_GROUP"}
                       ELSE ReadModes))

Load ==
  /\ run = "none"
  /\ file # Null
  /\ \E later \in (IF kind = "entry" THEN BOOLEAN ELSE {TRUE}) : doc' = Read(later)
  /\ run' = "read"
  /\ UNCHANGED <<kind, name, disk, edits>>

\* The file is written anew; the rest of it is missing if a path is too long.
Write(new, written) ==
  /\ file' = written.text
  /\ saved' = new
  /\ torn' = ~written.ok

\* The process ends while it writes: some full buffers are all there is.
WriteCut(new, written) ==
  /\ \E n \in 0..Len(written.text) :
       /\ n % BufferSize = 0 /\ n < Len(written.text)
       /\ file' = SubSeq(written.text, 1, n)
  /\ saved' = new
  /\ torn' = TRUE
  /\ run' = "none"
  /\ doc' = Null

\* The process ends, by a crash, an error or a command that saves nothing.
End ==
  /\ run # "none"
  /\ run' = "none"
  /\ doc' = Null
  /\ UNCHANGED <<kind, name, disk, edits>>

Edit(k) ==
  /\ kind = k
  /\ edits < MaxEdits[k]
  /\ edits' = edits + 1
  /\ UNCHANGED <<kind, name>>

\* What is in memory is changed.
Change(k, new) ==
  /\ Edit(k)
  /\ run' = "changed"
  /\ doc' = new
  /\ UNCHANGED disk

\* The document is written, which is the end of it in memory.
WriteAndFree(new, written) ==
  /\ UNCHANGED <<kind, name>>
  /\ \/ Write(new, written) /\ run' = "none" /\ doc' = Null /\ UNCHANGED edits
     \/ WriteCut(new, written) /\ edits < MaxEdits[kind] /\ edits' = edits + 1

(***************************************************************************)
(* AQBServer_SetEntry, AQBServer_DeleteEntry and AQBServer_FileOpenOut, as *)
(* far as the entry goes (module EntryStore has the rest): a version is    *)
(* made and the entry file written.  The first one makes the entry anew if *)
(* there is no file, or none that can be read.  An entry without versions, *)
(* which a file cut short leaves, fails the assertion of AQBEntry_dup_date *)
(* as soon as the client lists the folder: the process ends.               *)
(***************************************************************************)
StoragePath(id, revision) == <<"data", "/", ToString(id), "-", ToString(revision)>>

Known == doc # Null

NewVersion(v, call, now) ==
  LET revision == IF Known THEN doc.nextRevision + 1 ELSE 1
      last     == IF Known THEN Last(doc.versions) ELSE v
      stamped  == [Version_dup(v) EXCEPT !.revision = revision, !.btime = now]
  IN CASE call = "open" -> [stamped EXCEPT !.storeName = StoragePath(1, revision)]
       [] call # "open" /\ ~Known -> stamped
       [] OTHER -> [stamped EXCEPT !.storeName = last.storeName, !.flags = last.flags,
                                   !.status = IF call = "delete" THEN 2 ELSE 1]

SetEntry(st, call, now) ==
  LET escaped == Text_Escape(name, NameMax)
      v   == NewVersion(Version_FromStat(st), call, now)
      new == IF Known
             THEN [doc EXCEPT !.nextRevision = v.revision, !.versions = Append(@, v)]
             ELSE [name |-> escaped, id |-> 1, nextRevision |-> 1, versions |-> <<v>>]
  IN /\ Edit("entry")
     /\ file = Null \/ run # "none"
     /\ escaped # Null
     /\ Known => doc.versions # <<>>
     /\ call = "delete" => Known /\ Last(doc.versions).status # 2
     /\ \E d \in {new}, w \in {Entry_WriteFile(new)} :
          \/ Write(d, w) /\ run' = "changed" /\ doc' = d
          \/ WriteCut(d, w)

-----------------------------------------------------------------------------
\* Changes to the client's configuration need one that could be read.
Configured == run # "none" /\ doc # Null

\* createbak and AQBackup_Create, when the new repository could be opened.
CreateRepository(base, passwd) ==
  LET escaped == Text_Escape(base, NameMax)
      fields  == SetFields(Config_new, 1,
                   << << <<"basedir">>, base>>, << <<"name">>, escaped>>,
                      << <<"user">>, <<"u">> >>, << <<"passwd">>, passwd>>,
                      << <<"ziplevel">>, IntText(6)>>, << <<"type">>, <<"direct">> >> >>)
      group   == Config_SetValue(fields, 1, Create, <<"client", "/", "servercfg">>,
                                 << <<"c">> >>)
  IN /\ kind = "client" /\ Configured
     /\ base # <<>> /\ escaped # Null
     /\ FindMatchingRepository(doc.repositories, base) = 0
     /\ Change("client",
          [doc EXCEPT !.repositories = Append(@, Repository_fromConfig(group, 1))])

\* One more, or one less, in a list of the repository a directory belongs to.
AddString(d, list, s) ==
  /\ kind = "client" /\ Configured
  /\ \E i \in {FindMatchingRepository(doc.repositories, d)} :
       i # 0 /\ Change("client", [doc EXCEPT !.repositories[i][list] =
                                   StringList_AppendString(@, s)])

RemoveString(d, list, s) ==
  /\ kind = "client" /\ Configured
  /\ \E i \in {FindMatchingRepository(doc.repositories, d)} :
       i # 0 /\ Change("client", [doc EXCEPT !.repositories[i][list] =
                                   StringList_RemoveString(@, s)])

AddExclude(d)    == AddString(d, "excludes", d)
RemoveExclude(d) == RemoveString(d, "excludes", d)
AddIgnore(d, s)  == AddString(d, "ignores", s)
AddNozip(d, s)   == AddString(d, "nozips", s)

\* What is looked for in the lists is the directory, not the pattern.
RemoveIgnore(d, s) == RemoveString(d, "ignores", d)
RemoveNozip(d, s)  == RemoveString(d, "nozips", d)

\* The end of main: the configuration goes back into the file.
Finish ==
  /\ kind = "client" /\ Configured
  /\ \E w \in {Config_WriteFile(AQBackup_Fini(doc), ReadModes)} : WriteAndFree(doc, w)

-----------------------------------------------------------------------------
\* A new file gets an id of the repository.
NextFileId ==
  /\ kind = "server" /\ Configured
  /\ Change("server", [doc EXCEPT !.nextFileId = @ + 1])

\* The last client closes the repository.
CloseRepository ==
  /\ kind = "server" /\ Configured
  /\ \E w \in {Config_WriteFile(SaveRepository(doc), ReadModes)} : WriteAndFree(doc, w)

Next ==
  \/ Load
  \/ End
  \/ \E st \in Stats, call \in {"set", "open", "delete"}, now \in Clock :
       SetEntry(st, call, now)
  \/ \E base \in BaseDirs, passwd \in Passwords : CreateRepository(base, passwd)
  \/ \E d \in Dirs : AddExclude(d) \/ RemoveExclude(d)
  \/ \E d \in Dirs, s \in Patterns :
       AddIgnore(d, s) \/ RemoveIgnore(d, s) \/ AddNozip(d, s) \/ RemoveNozip(d, s)
  \/ Finish
  \/ NextFileId
  \/ CloseRepository

Spec == Init /\ [][Next]_vars

-----------------------------------------------------------------------------
(***************************************************************************)
(* Values the file format keeps: they are written as they are, so a quote, *)
(* a backslash or the end of a line in one changes what is read; numbers   *)
(* are ints; the time in the hour that local time repeats is ambiguous; a  *)
(* line is read in pieces of LineMax.  A torn file may end within a line.  *)
(***************************************************************************)
Plain(s) == \A c \in {"\"", "\\", "\n", "\t"} : ~Contains(Compared(s), c)

KeptVersion(v) ==
  /\ \A s \in {v.md5, v.storeName, v.owner, v.group, v.dstname} : Plain(s)
  /\ {v.mode, v.device, v.size} \subseteq Ints
  /\ \A t \in {v.mtime, v.ctime, v.btime} : t \notin {ClockBack - 1, ClockBack}

LinesFit ==
  \E lines \in {Pieces(file)} :
    \A i \in DOMAIN lines : Last(lines[i]) = "\n" \/ (torn /\ i = Len(lines))

Kept(d) ==
  /\ LinesFit
  /\ CASE kind = "entry" -> \A i \in DOMAIN d.versions : KeptVersion(d.versions[i])
       [] kind = "client" ->
            \A i \in DOMAIN d.repositories :
              LET r == d.repositories[i]
              IN \A s \in {r.baseDir, r.user, r.passwd} \cup
                          ToSet(r.excludes) \cup ToSet(r.ignores) : Plain(s)
       [] kind = "server" -> \A s \in ToSet(d.readers) \cup ToSet(d.writers) : Plain(s)

\* A missing text of a version comes back as an empty one.
CleanVersion(v) ==
  [v EXCEPT !.md5 = Compared(@), !.storeName = Compared(@), !.owner = Compared(@),
            !.group = Compared(@), !.dstname = Compared(@)]

\* What there was, as far as the functions that write the document want to keep it.
Meant(d) ==
  CASE kind = "entry" -> [d EXCEPT !.versions = [i \in DOMAIN @ |-> CleanVersion(@[i])]]
    [] kind = "client" -> [d EXCEPT !.repositories =
                             [i \in DOMAIN @ |-> [@[i] EXCEPT !.nozips = d.repositories[i].ignores]]]
    [] kind = "server" -> d

\* A list that was cut short: all but its last element are as they were.
Cut(list, whole) ==
  /\ Len(list) <= Len(whole)
  /\ \A i \in 1..(Len(list) - 1) : list[i] = whole[i]

\* What is left of a document when not all of it has got into the file.
Beginning(d, whole) ==
  CASE kind = "entry" ->
         /\ d.name = whole.name /\ Cut(d.versions, whole.versions)
         /\ d.versions # <<>> => d.id = whole.id /\ d.nextRevision = whole.nextRevision
    [] kind = "client" ->
         /\ Cut(d.repositories, whole.repositories)
         /\ d.repositories # <<>> => d.hostName = whole.hostName
    [] kind = "server" ->
         /\ Cut(d.readers, whole.readers) /\ Cut(d.writers, whole.writers)
         /\ d.writers # <<>> => d.readers = whole.readers
         /\ d.readers # <<>> => d.nextFileId = whole.nextFileId

(***************************************************************************)
(* What a process reads is what the last one wrote: every version of an    *)
(* entry in its order, every repository with its lists, every right; and   *)
(* the name of the entry leads back to that of the file.  Of a file that   *)
(* was cut short it reads the beginning, or it sees that something is      *)
(* wrong.  This holds for values the format keeps, and but for the list of *)
(* files not to compress, which toConfig replaces.                         *)
(***************************************************************************)
ReadBack ==
  run = "read" /\ saved # Null /\ Kept(saved) =>
    IF torn THEN doc = Null \/ Beginning(doc, Meant(saved))
    ELSE /\ doc = Meant(saved)
         /\ kind = "entry" => Text_Unescape(doc.name, NameMax) = name

\* Shell patterns: what the lists of excludes, ignores and nozips stand for.
RECURSIVE Glob(_, _)
Glob(w, p) ==
  IF p = <<>> THEN w = <<>>
  ELSE IF Head(p) = "*" THEN \E k \in 0..Len(w) : Glob(SubSeq(w, k + 1, Len(w)), Tail(p))
  ELSE /\ w # <<>>
       /\ Head(p) \in {"?", Head(w)}
       /\ Glob(Tail(w), Tail(p))

NoDoubleStar(p) == \A i \in 1..(Len(p) - 1) : p[i] # "*" \/ p[i + 1] # "*"

\* A file is skipped exactly if one of the patterns fits its name, whatever
\* the lists have been through (two stars in a row are not understood).
SkipsAgree ==
  kind = "client" /\ doc # Null =>
    \A i \in DOMAIN doc.repositories :
      \A sl \in {doc.repositories[i].ignores, doc.repositories[i].nozips} :
        (\A k \in DOMAIN sl : NoDoubleStar(sl[k])) =>
          \A w \in FileNames :
            AQBackup__FindInStringList(sl, w) <=> \E k \in DOMAIN sl : Glob(w, sl[k])

Components(path) == SelectSeq(Split(path, "/"), LAMBDA s : s # <<>>)
Below(dir, base) == IsPrefix(Components(base), Components(dir))
CleanPath(path)  == path = <<"/">> \/ Last(path) # "/"

Place(repos, d) ==
  LET i == FindMatchingRepository(repos, d)
  IN [repository |-> repos[i].name,
      path |-> EscapePath(RelativePath(d, repos[i].baseDir))]

(***************************************************************************)
(* A directory belongs to the repository with the deepest base directory   *)
(* above it (a base with a slash at its end is not recognised), and no two *)
(* directories share a place, on whatever repositories they are kept.      *)
(***************************************************************************)
RightPlace ==
  kind = "client" /\ doc # Null /\ (\A i \in DOMAIN doc.repositories :
                                      CleanPath(doc.repositories[i].baseDir)) =>
    LET repos == doc.repositories
        Homes(d) == {i \in DOMAIN repos : Below(d, repos[i].baseDir)}
        stored == {d \in Dirs : Homes(d) # {}}
    IN /\ \A d \in Dirs :
            LET found == FindMatchingRepository(repos, d)
            IN IF Homes(d) = {} THEN found = 0
               ELSE found \in Homes(d) /\ \A i \in Homes(d) :
                      Below(repos[found].baseDir, repos[i].baseDir)
       /\ \A d, e \in stored :
            Components(d) # Components(e) =>
              \/ Place(repos, d).path = Null
              \/ Place(repos, d) # Place(repos, e)
=============================================================================

----------------------------- MODULE AQBServer -----------------------------
(***************************************************************************)
(* The session side of the repository server of backup/server.c: which     *)
(* clients are registered, which repositories are in memory, who holds the *)
(* write lock of a repository, how often it is in use, and what of it is   *)
(* on disk.  Every exported function is one action; a call that returns an *)
(* error before it changes anything is a stuttering step.                  *)
(*                                                                         *)
(* Left out: the authentication level (AQBACKUP_MINIMUM_AUTHLEVEL is 0 and *)
(* every client has level 0, so the test never fails), the readOk/writeOk  *)
(* flags of a client (written and read inside OpenRepository only), and    *)
(* the folders, files and entries of a repository (module EntryStore).     *)
(***************************************************************************)
EXTENDS Naturals, Sequences, FiniteSets

CONSTANTS
  Users,           \* the users of the server's configuration
  Creators,        \* the users with "maycreate"
  Names,           \* repositories, each a pair hostname:repository
  NoOne,           \* a name that is not a user
  AccessLists,     \* access lists a repository.conf on disk may start with
  MaxClients,      \* bound on client ids handed out by one server process
  MaxRepositories, \* bound on repository ids handed out by one server process
  MaxUsage,        \* bound on the usage counter of a repository
  MaxRestarts      \* bound on how often the server process ends and restarts

\* The reader and writer lists of a repository, and the right to use it.
Access == [writers: Seq(Users), readers: Seq(Users)]

ASSUME UsersAssumption ==
  /\ Creators \subseteq Users
  /\ NoOne \notin Users
  /\ AccessLists \subseteq Access

ASSUME BoundsAssumption ==
  /\ MaxClients \in Nat
  /\ MaxRepositories \in Nat
  /\ MaxUsage \in Nat
  /\ MaxRestarts \in Nat

VARIABLES
  server,           \* "running", or "looping" once a call never returns
  clients,          \* AQB_SERVER.clients: client id -> client
  nextClientId,     \* AQB_SERVER.nextClientId
  repositories,     \* AQB_SERVER.repositories: repository id -> repository
  nextRepositoryId, \* AQB_SERVER.nextRepositoryId
  dirs,             \* names whose repository directory exists on disk
  conf,             \* name -> access lists in its repository.conf, if it has one
  restarts,         \* how often the process ended and was started again
  writing           \* history: the write accesses granted and not yet returned

memory == <<clients, nextClientId, repositories, nextRepositoryId>>
disk   == <<dirs, conf>>
vars   == <<server, memory, disk, restarts, writing>>

ClientIds     == 1..MaxClients
RepositoryIds == 1..MaxRepositories

\* 0 stands for "no client" and "no repository" in every id field.
Client     == [name: Users, repositoryId: Nat]
Repository == [name: Names, writeLockedBy: Nat, usageCounter: Nat,
               access: Access]
Grant      == [client: Nat, repository: Nat, name: Names]

-----------------------------------------------------------------------------
(* The singly linked lists of the server, as functions from ids.           *)

Empty         == [x \in {} |-> x]
Put(f, k, v)  == [x \in DOMAIN f \cup {k} |-> IF x = k THEN v ELSE f[x]]
Without(f, k) == [x \in DOMAIN f \ {k} |-> f[x]]

\* Mutant of ListedNames: repositories nobody uses are overlooked.
ListedNamesInUse ==
  {repositories[r].name : r \in {q \in DOMAIN repositories :
                                   repositories[q].usageCounter > 0}}

ListedNames == {repositories[r].name : r \in DOMAIN repositories}

\* The user named first in a list of StringList entries.
First(list) == IF list = <<>> THEN NoOne ELSE list[1]

(***************************************************************************)
(* AQBServer__CheckRepositoryUser.  Neither of its two loops advances the  *)
(* list pointer: it compares the first writer for ever when there is one   *)
(* and it is somebody else, and likewise the first reader.                 *)
(***************************************************************************)
CheckRepositoryUser(access, user) ==
  IF access.writers # <<>>
    THEN IF First(access.writers) = user THEN "write" ELSE "never returns"
  ELSE IF access.readers # <<>>
    THEN IF First(access.readers) = user THEN "read" ELSE "never returns"
  ELSE "none"

-----------------------------------------------------------------------------
Init ==
  /\ server = "running"
  /\ clients = Empty
  /\ nextClientId = 0
  /\ repositories = Empty
  /\ nextRepositoryId = 0
  /\ dirs \in SUBSET Names
  /\ conf \in [dirs -> AccessLists]
  /\ restarts = 0
  /\ writing = {}

ClientRegister(user) ==
  /\ nextClientId < MaxClients
  /\ nextClientId' = nextClientId + 1
  /\ clients' = Put(clients, nextClientId + 1,
                    [name |-> user, repositoryId |-> 0])
  /\ UNCHANGED <<server, repositories, nextRepositoryId, disk, restarts, writing>>

(***************************************************************************)
(* CreateRepository.  The repository enters the list, locked and in use,   *)
(* before its admin and data directories are made: when one of those two   *)
(* mkdirs fails (ok = FALSE) the call returns 0 and the client is not      *)
(* attached, but the repository stays listed and locked.  Nothing writes   *)
(* repository.conf here.                                                   *)
(***************************************************************************)
CreateRepository(cid, name, ok) ==
  /\ cid \in DOMAIN clients
  /\ clients[cid].name \in Creators
  /\ name \notin ListedNames
  /\ name \notin dirs
  /\ nextRepositoryId < MaxRepositories
  /\ nextRepositoryId' = nextRepositoryId + 1
  /\ dirs' = dirs \cup {name}
  /\ repositories' = Put(repositories, nextRepositoryId + 1,
       [name |-> name, writeLockedBy |-> cid, usageCounter |-> 1,
        access |-> [writers |-> <<clients[cid].name>>, readers |-> <<>>]])
  /\ clients' = IF ok
                THEN [clients EXCEPT ![cid].repositoryId = nextRepositoryId + 1]
                ELSE clients
  /\ writing' = IF ok THEN writing \cup
                             {[client |-> cid, repository |-> nextRepositoryId + 1,
                               name |-> name]}
                       ELSE writing
  /\ UNCHANGED <<server, nextClientId, conf, restarts>>

-----------------------------------------------------------------------------
(* OpenRepository finds the repository in the list or loads it from disk.  *)

FreshlyLoaded(name) ==
  [name |-> name, writeLockedBy |-> 0, usageCounter |-> 0, access |-> conf[name]]

\* What the list holds once AQBServer__LoadRepository has done its part.
Found(rid, name) ==
  IF name \in ListedNames THEN repositories
                          ELSE Put(repositories, rid, FreshlyLoaded(name))

Locate(rid, name) ==
  \/ /\ rid \in DOMAIN repositories
     /\ repositories[rid].name = name
     /\ UNCHANGED nextRepositoryId
  \/ /\ name \notin ListedNames
     /\ name \in DOMAIN conf
     /\ nextRepositoryId < MaxRepositories
     /\ rid = nextRepositoryId + 1
     /\ nextRepositoryId' = rid

\* Mutant of Permitted: the write lock is not looked at.
PermittedUnlocked(right, repository, writeAccess) ==
  IF writeAccess THEN right = "write" ELSE right \in {"write", "read"}

Permitted(right, repository, writeAccess) ==
  IF writeAccess THEN right = "write" /\ repository.writeLockedBy = 0
                 ELSE right \in {"write", "read"}

OpenRepository(cid, rid, name, writeAccess) ==
  /\ cid \in DOMAIN clients
  /\ Locate(rid, name)
  /\ LET list == Found(rid, name)
         r == list[rid]
         right == CheckRepositoryUser(r.access, clients[cid].name)
     IN \/ /\ right = "never returns"
           /\ server' = "looping"
           /\ repositories' = list
           /\ UNCHANGED <<clients, writing>>
        \/ /\ right # "never returns"
           /\ ~Permitted(right, r, writeAccess)
           /\ repositories' = list
           /\ UNCHANGED <<server, clients, writing>>
        \/ /\ Permitted(right, r, writeAccess)
           /\ r.usageCounter < MaxUsage
           /\ repositories' = [list EXCEPT
                ![rid].writeLockedBy = IF writeAccess THEN cid ELSE @,
                ![rid].usageCounter = @ + 1]
           /\ clients' = [clients EXCEPT ![cid].repositoryId = rid]
           /\ writing' = IF writeAccess
                         THEN writing \cup {[client |-> cid, repository |-> rid,
                                             name |-> name]}
                         ELSE writing
           /\ UNCHANGED server
  /\ UNCHANGED <<nextClientId, disk, restarts>>

-----------------------------------------------------------------------------
(***************************************************************************)
(* CloseRepository.  The lock is given up before the client is looked up,  *)
(* so even an id that is no longer registered can give it up.  The use     *)
(* count only falls when the client is attached to this repository, and    *)
(* the repository is saved and forgotten when nobody uses it any more;     *)
(* when saving fails it stays in the list.                                 *)
(***************************************************************************)
Attached(cid, rid) == cid \in DOMAIN clients /\ clients[cid].repositoryId = rid

\* Mutant of Released: the use count falls whoever closes the repository.
ReleasedByAnyone(cid, rid) ==
  [repositories[rid] EXCEPT
     !.writeLockedBy = IF @ = cid THEN 0 ELSE @,
     !.usageCounter = IF @ > 0 THEN @ - 1 ELSE @]

Released(cid, rid) ==
  [repositories[rid] EXCEPT
     !.writeLockedBy = IF @ = cid THEN 0 ELSE @,
     !.usageCounter = IF Attached(cid, rid) /\ @ > 0 THEN @ - 1 ELSE @]

\* Mutants of Forgotten: the use count is not looked at, or off by one.
ForgottenInUse(cid, rid, saved) == cid \in DOMAIN clients /\ saved

ForgottenEarly(cid, rid, saved) ==
  /\ cid \in DOMAIN clients
  /\ Released(cid, rid).usageCounter < 2
  /\ saved

Forgotten(cid, rid, saved) ==
  /\ cid \in DOMAIN clients
  /\ Released(cid, rid).usageCounter < 1
  /\ saved

\* Mutant of CloseStep: the repository leaves the list when saving it failed.
CloseStepUnsaved(cid, rid, saved) ==
  /\ repositories' = IF Forgotten(cid, rid, TRUE)
                     THEN Without(repositories, rid)
                     ELSE [repositories EXCEPT ![rid] = Released(cid, rid)]
  /\ conf' = IF Forgotten(cid, rid, saved)
             THEN Put(conf, repositories[rid].name, repositories[rid].access)
             ELSE conf

CloseStep(cid, rid, saved) ==
  /\ repositories' = IF Forgotten(cid, rid, saved)
                     THEN Without(repositories, rid)
                     ELSE [repositories EXCEPT ![rid] = Released(cid, rid)]
  /\ conf' = IF Forgotten(cid, rid, saved)
             THEN Put(conf, repositories[rid].name, repositories[rid].access)
             ELSE conf

CloseRepository(cid, rid, saved) ==
  /\ rid \in DOMAIN repositories
  /\ CloseStep(cid, rid, saved)
  /\ clients' = IF Attached(cid, rid)
                THEN [clients EXCEPT ![cid].repositoryId = 0]
                ELSE clients
  /\ writing' = {g \in writing : g.client # cid \/ g.repository # rid}
  /\ UNCHANGED <<server, nextClientId, nextRepositoryId, dirs, restarts>>

\* ClientUnregister closes the repository the client is attached to, whatever
\* comes of that, and removes the client.  A lock the client holds on another
\* repository stays.
ClientUnregister(cid, saved) ==
  /\ cid \in DOMAIN clients
  /\ LET rid == clients[cid].repositoryId
     IN IF rid \in DOMAIN repositories
        THEN CloseStep(cid, rid, saved)
        ELSE UNCHANGED <<repositories, conf>>
  /\ clients' = Without(clients, cid)
  /\ writing' = {g \in writing : g.client # cid}
  /\ UNCHANGED <<server, nextClientId, nextRepositoryId, dirs, restarts>>

-----------------------------------------------------------------------------
\* Mutant of Restart: the new process still knows the clients.
RestartKeepingClients ==
  /\ restarts < MaxRestarts
  /\ restarts' = restarts + 1
  /\ server' = "running"
  /\ UNCHANGED clients
  /\ nextClientId' = 0
  /\ repositories' = Empty
  /\ nextRepositoryId' = 0
  /\ writing' = {}
  /\ UNCHANGED disk

\* The process ends (a signal, or AQBServer_free after an error, which frees
\* the lists and saves nothing) and a new one starts with AQBServer_new.
Restart ==
  /\ restarts < MaxRestarts
  /\ restarts' = restarts + 1
  /\ server' = "running"
  /\ clients' = Empty
  /\ nextClientId' = 0
  /\ repositories' = Empty
  /\ nextRepositoryId' = 0
  /\ writing' = {}
  /\ UNCHANGED disk

Call ==
  \/ \E user \in Users : ClientRegister(user)
  \/ \E cid \in ClientIds :
       \/ \E name \in Names, ok \in BOOLEAN : CreateRepository(cid, name, ok)
       \/ \E rid \in RepositoryIds, name \in Names, writeAccess \in BOOLEAN :
            OpenRepository(cid, rid, name, writeAccess)
       \/ \E rid \in RepositoryIds, saved \in BOOLEAN :
            CloseRepository(cid, rid, saved)
       \/ \E saved \in BOOLEAN : ClientUnregister(cid, saved)

Next == (server = "running" /\ Call) \/ Restart

Spec == Init /\ [][Next]_vars

-----------------------------------------------------------------------------
(* Properties                                                              *)

\* Every variable has its type; ids in the lists were handed out by this
\* process, and a repository.conf lies in a repository directory.
TypeOK ==
  /\ server \in {"running", "looping"}
  /\ nextClientId \in 0..MaxClients
  /\ nextRepositoryId \in 0..MaxRepositories
  /\ restarts \in 0..MaxRestarts
  /\ clients \in [DOMAIN clients -> Client]
  /\ DOMAIN clients \subseteq 1..nextClientId
  /\ repositories \in [DOMAIN repositories -> Repository]
  /\ DOMAIN repositories \subseteq 1..nextRepositoryId
  /\ dirs \subseteq Names
  /\ conf \in [DOMAIN conf -> Access]
  /\ DOMAIN conf \subseteq dirs
  /\ writing \subseteq Grant

AttachedTo(rid) == {c \in DOMAIN clients : clients[c].repositoryId = rid}

LockOwner(rid) == {c \in {repositories[rid].writeLockedBy} : c # 0}

\* Who counts on a listed repository: the clients attached to it and the
\* owner of its write lock, who may be attached elsewhere or gone.
Holders(rid) == AttachedTo(rid) \cup LockOwner(rid)

\* CloseRepository frees a repository when its use count reaches 0, so the
\* count may never be smaller than the number of its holders, whatever order
\* clients open, re-open, switch and close repositories in, and whichever of
\* these calls fail halfway.
UsageCoversHolders ==
  \A r \in DOMAIN repositories :
    Cardinality(Holders(r)) <= repositories[r].usageCounter

\* The id a client keeps is never left pointing at a repository that was
\* freed: every later call of the client finds its repository.
AttachedIsListed ==
  \A c \in DOMAIN clients :
    clients[c].repositoryId \in DOMAIN repositories \cup {0}

\* A repository directory is never loaded twice: two lists entries for it
\* would hand out the same file ids, and each would have a lock of its own.
OneListingPerName ==
  \A r, s \in DOMAIN repositories :
    repositories[r].name = repositories[s].name => r = s

\* Two clients never hold write access to the same repository directory at
\* the same time.
OneWriter ==
  \A g, h \in writing : g.name = h.name => g.client = h.client

\* As long as the process lives, a repository directory that has no
\* repository.conf yet is still in the list, so it can still be saved: a
\* directory without the file can neither be opened nor created again.
UnsavedIsListed ==
  restarts = 0 => dirs \ DOMAIN conf \subseteq ListedNames

\* Only a repository with no other holder than the client that closes it is
\* freed by a running server, and nobody stays attached to it.
ForgottenOnlyUnused ==
  [][restarts' = restarts =>
       \A r \in DOMAIN repositories \ DOMAIN repositories' :
         Cardinality(Holders(r)) <= 1 /\ AttachedTo(r)' = {}]_vars

\* What the error message of OpenRepository promises (server.c:828, "User
\* has no rigths for repository"): a user without rights is turned away, so
\* no call keeps the server for ever.
RightsAreDecided == server = "running"
=============================================================================

-------------------------- MODULE AQBServerProofs --------------------------
(***************************************************************************)
(* Proofs about the sessions of the repository server.  The inductive      *)
(* invariant IInv says, besides the types, that every grant of write       *)
(* access is backed by the lock of a listed repository, that the use count *)
(* of a repository covers its holders, and that ids and names in the list  *)
(* are consistent.  The use count is what makes the other parts inductive: *)
(* CloseRepository forgets a repository when the count reaches 0, and only *)
(* the bound on the number of holders excludes that somebody else still    *)
(* has it open or locked.                                                  *)
(***************************************************************************)
EXTENDS AQBServer, FiniteSetTheorems, TLAPS

\* A granted write access is the write lock of a repository in the list.
GrantIsLock ==
  \A g \in writing :
    /\ g.repository \in DOMAIN repositories
    /\ repositories[g.repository].name = g.name
    /\ repositories[g.repository].writeLockedBy = g.client
    /\ g.client # 0

\* A repository in the list has a directory on disk.
ListedHasDir == \A r \in DOMAIN repositories : repositories[r].name \in dirs

IInv == TypeOK /\ AttachedIsListed /\ UsageCoversHolders /\ OneListingPerName
               /\ GrantIsLock /\ ListedHasDir

-----------------------------------------------------------------------------
\* The holders of a repository are finitely many.
LEMMA HoldersFinite ==
  ASSUME TypeOK, NEW r \in DOMAIN repositories
  PROVE  IsFiniteSet(Holders(r)) /\ Cardinality(Holders(r)) \in Nat
<1>1. IsFiniteSet(1..nextClientId)
  <2>1. nextClientId \in Int /\ 1 \in Int
    BY BoundsAssumption DEF TypeOK
  <2> QED
    BY <2>1, FS_Interval
<1>2. IsFiniteSet(AttachedTo(r))
  BY <1>1, FS_Subset DEF AttachedTo, TypeOK
<1>3. Holders(r) \in {AttachedTo(r),
                      AttachedTo(r) \cup {repositories[r].writeLockedBy}}
  BY DEF Holders, LockOwner
<1>4. IsFiniteSet(Holders(r))
  BY <1>2, <1>3, FS_AddElement
<1> QED
  BY <1>4, FS_CardinalityType

\* A set within a finite one is finite and no larger.
LEMMA Smaller ==
  ASSUME NEW S, IsFiniteSet(S), NEW T, T \subseteq S
  PROVE  /\ IsFiniteSet(T)
         /\ Cardinality(T) \in Nat
         /\ Cardinality(T) <= Cardinality(S)
BY FS_Subset, FS_CardinalityType

LEMMA InitInv == Init => IInv
<1> SUFFICES ASSUME Init PROVE IInv
  OBVIOUS
<1>1. TypeOK
  BY UsersAssumption, BoundsAssumption DEF Init, TypeOK, Empty
<1>2. AttachedIsListed /\ UsageCoversHolders /\ OneListingPerName /\ GrantIsLock
  BY DEF Init, Empty, AttachedIsListed, UsageCoversHolders, OneListingPerName,
         GrantIsLock
<1>3. ListedHasDir
  BY DEF Init, Empty, ListedHasDir
<1> QED
  BY <1>1, <1>2, <1>3 DEF IInv

-----------------------------------------------------------------------------
LEMMA RegisterInv ==
  ASSUME IInv, NEW user \in Users, ClientRegister(user)
  PROVE  IInv'
<1> USE DEF IInv, ClientRegister
<1>1. TypeOK'
  BY BoundsAssumption DEF TypeOK, Put, Client, disk
<1>2. AttachedIsListed'
  BY DEF TypeOK, AttachedIsListed, Put
<1>3. UsageCoversHolders'
  <2> SUFFICES ASSUME NEW r \in DOMAIN repositories
               PROVE  Holders(r)' = Holders(r)
    BY DEF UsageCoversHolders
  <2>1. r # 0
    BY DEF TypeOK
  <2> QED
    BY <2>1 DEF TypeOK, Holders, AttachedTo, LockOwner, Put
<1>4. OneListingPerName' /\ GrantIsLock' /\ ListedHasDir'
  BY DEF OneListingPerName, GrantIsLock, ListedHasDir, disk
<1> QED
  BY <1>1, <1>2, <1>3, <1>4

LEMMA CreateInv ==
  ASSUME IInv, NEW cid \in ClientIds, NEW name \in Names, NEW ok \in BOOLEAN,
         CreateRepository(cid, name, ok)
  PROVE  IInv'
<1> DEFINE new == nextRepositoryId + 1
<1> USE DEF IInv
<1>0. /\ new \in Nat /\ new # 0 /\ new \notin DOMAIN repositories
      /\ cid \in Nat /\ cid # 0 /\ clients[cid].name \in Users
  BY DEF CreateRepository, TypeOK, ClientIds, Client
<1>1. TypeOK'
  <2>1. /\ server' \in {"running", "looping"}
        /\ nextClientId' \in 0..MaxClients
        /\ nextRepositoryId' \in 0..MaxRepositories
        /\ restarts' \in 0..MaxRestarts
        /\ dirs' \subseteq Names
        /\ conf' \in [DOMAIN conf' -> Access]
        /\ DOMAIN conf' \subseteq dirs'
    BY <1>0, BoundsAssumption DEF CreateRepository, TypeOK
  <2>2. /\ clients' \in [DOMAIN clients' -> Client]
        /\ DOMAIN clients' \subseteq 1..nextClientId'
    BY <1>0 DEF CreateRepository, TypeOK, Client
  <2>3. [name |-> name, writeLockedBy |-> cid, usageCounter |-> 1,
         access |-> [writers |-> <<clients[cid].name>>, readers |-> <<>>]]
          \in Repository
    BY <1>0 DEF Repository, Access
  <2>4. /\ repositories' \in [DOMAIN repositories' -> Repository]
        /\ DOMAIN repositories' \subseteq 1..nextRepositoryId'
    BY <1>0, <2>3 DEF CreateRepository, TypeOK, Put
  <2>5. writing' \subseteq Grant
    BY <1>0 DEF CreateRepository, TypeOK, Grant
  <2> QED
    BY <2>1, <2>2, <2>4, <2>5 DEF TypeOK
<1>2. AttachedIsListed'
  BY <1>0 DEF CreateRepository, AttachedIsListed, TypeOK, Put, Client
<1>3. UsageCoversHolders'
  <2> SUFFICES ASSUME NEW r \in DOMAIN repositories'
               PROVE  Cardinality(Holders(r)') <= repositories'[r].usageCounter
    BY DEF UsageCoversHolders
  <2>1. CASE r = new
    <3>1. Holders(r)' = {cid}
      BY <2>1, <1>0
      DEF CreateRepository, Holders, AttachedTo, LockOwner, Put, TypeOK, Client,
          AttachedIsListed
    <3>2. repositories'[r].usageCounter = 1
      BY <2>1 DEF CreateRepository, Put
    <3>3. Cardinality({cid}) = 1
      BY FS_Singleton
    <3> QED
      BY <3>1, <3>2, <3>3
  <2>2. CASE r # new
    <3>1. r \in DOMAIN repositories /\ repositories'[r] = repositories[r]
      BY <2>2 DEF CreateRepository, Put
    <3>2. Holders(r)' \subseteq Holders(r)
      BY <2>2, <3>1 DEF CreateRepository, Holders, AttachedTo, LockOwner, TypeOK,
                         Client
    <3> QED
      BY <3>1, <3>2, HoldersFinite, Smaller DEF UsageCoversHolders, TypeOK, Repository
  <2> QED
    BY <2>1, <2>2
<1>4. OneListingPerName'
  BY <1>0 DEF CreateRepository, OneListingPerName, ListedNames, Put
<1>5. GrantIsLock' /\ ListedHasDir'
  BY <1>0 DEF CreateRepository, GrantIsLock, ListedHasDir, Put
<1> QED
  BY <1>1, <1>2, <1>3, <1>4, <1>5

-----------------------------------------------------------------------------
\* What CheckRepositoryUser is asked about after Locate: a repository of the
\* list, or one just loaded, which nobody holds yet.
LEMMA LocatedInv ==
  ASSUME IInv, NEW rid \in RepositoryIds, NEW name \in Names, Locate(rid, name)
  PROVE  /\ rid \in DOMAIN Found(rid, name)
         /\ DOMAIN Found(rid, name) = DOMAIN repositories \cup {rid}
         /\ Found(rid, name)[rid].name = name
         /\ Found(rid, name) \in [DOMAIN Found(rid, name) -> Repository]
         /\ nextRepositoryId' \in 0..MaxRepositories
         /\ DOMAIN Found(rid, name) \subseteq 1..nextRepositoryId'
         /\ \A r \in DOMAIN repositories : Found(rid, name)[r] = repositories[r]
         /\ name \in dirs
         /\ rid \notin DOMAIN repositories =>
              /\ Found(rid, name)[rid].writeLockedBy = 0
              /\ Found(rid, name)[rid].usageCounter = 0
              /\ name \notin ListedNames
<1> USE DEF IInv
<1>1. CASE name \in ListedNames
  <2>1. rid \in DOMAIN repositories /\ repositories[rid].name = name
    BY <1>1 DEF Locate
  <2>2. Found(rid, name) = repositories /\ nextRepositoryId' = nextRepositoryId
    BY <1>1, <2>1 DEF Locate, Found
  <2> QED
    BY <2>1, <2>2 DEF TypeOK, ListedHasDir
<1>2. CASE name \notin ListedNames
  <2>1. /\ name \in DOMAIN conf
        /\ nextRepositoryId < MaxRepositories
        /\ rid = nextRepositoryId + 1
        /\ nextRepositoryId' = rid
    BY <1>2 DEF Locate, ListedNames
  <2>2. rid \notin DOMAIN repositories
    BY <2>1 DEF TypeOK
  <2>3. FreshlyLoaded(name) \in Repository
    BY <2>1 DEF FreshlyLoaded, Repository, TypeOK
  <2>4. Found(rid, name) = Put(repositories, rid, FreshlyLoaded(name))
    BY <1>2 DEF Found
  <2>5. /\ Found(rid, name) \in [DOMAIN repositories \cup {rid} -> Repository]
        /\ Found(rid, name)[rid] = FreshlyLoaded(name)
        /\ \A r \in DOMAIN repositories : Found(rid, name)[r] = repositories[r]
    BY <2>2, <2>3, <2>4 DEF Put, TypeOK
  <2>6. /\ nextRepositoryId' \in 0..MaxRepositories
        /\ DOMAIN repositories \cup {rid} \subseteq 1..nextRepositoryId'
    BY <2>1, BoundsAssumption DEF TypeOK
  <2>7. name \in dirs
    BY <2>1 DEF TypeOK
  <2> QED
    BY <1>2, <2>2, <2>5, <2>6, <2>7 DEF FreshlyLoaded
<1> QED
  BY <1>1, <1>2

\* Adding a holder to a finite set raises its cardinality by at most one.
LEMMA OneMore ==
  ASSUME NEW S, IsFiniteSet(S), NEW x, NEW T, T \subseteq S \cup {x}
  PROVE  Cardinality(T) \in Nat /\ Cardinality(T) <= Cardinality(S) + 1
<1>1. /\ IsFiniteSet(S \cup {x})
      /\ Cardinality(S \cup {x}) = IF x \in S THEN Cardinality(S)
                                              ELSE Cardinality(S) + 1
  BY FS_AddElement
<1>2. Cardinality(T) \in Nat /\ Cardinality(T) <= Cardinality(S \cup {x})
  BY <1>1, Smaller
<1> QED
  BY <1>1, <1>2, FS_CardinalityType

\* The list after Locate satisfies the invariant, when nothing else changes.
LEMMA TurnedAwayInv ==
  ASSUME IInv, NEW rid \in RepositoryIds, NEW name \in Names, Locate(rid, name),
         repositories' = Found(rid, name), server' \in {"running", "looping"},
         UNCHANGED <<clients, writing, nextClientId, disk, restarts>>
  PROVE  IInv'
<1> DEFINE list == Found(rid, name)
<1>l. /\ rid \in DOMAIN list
      /\ DOMAIN list = DOMAIN repositories \cup {rid}
      /\ list[rid].name = name
      /\ list \in [DOMAIN list -> Repository]
      /\ nextRepositoryId' \in 0..MaxRepositories
      /\ DOMAIN list \subseteq 1..nextRepositoryId'
      /\ \A r \in DOMAIN repositories : list[r] = repositories[r]
      /\ name \in dirs
      /\ rid \notin DOMAIN repositories =>
           /\ list[rid].writeLockedBy = 0
           /\ list[rid].usageCounter = 0
           /\ name \notin ListedNames
  BY LocatedInv
<1> HIDE DEF list
<1>0. rid # 0 /\ repositories' = list
  BY DEF RepositoryIds, list
<1> USE DEF IInv
<1>1. TypeOK'
  BY <1>l, <1>0 DEF TypeOK, disk
<1>2. AttachedIsListed'
  BY <1>l, <1>0 DEF AttachedIsListed
<1>3. UsageCoversHolders'
  <2> SUFFICES ASSUME NEW r \in DOMAIN list
               PROVE  Cardinality(Holders(r)') <= list[r].usageCounter
    BY <1>0 DEF UsageCoversHolders
  <2>1. CASE r \in DOMAIN repositories
    <3>1. list[r] = repositories[r]
      BY <2>1, <1>l
    <3>2. Holders(r)' = Holders(r)
      BY <3>1, <1>0 DEF Holders, AttachedTo, LockOwner
    <3> QED
      BY <2>1, <3>1, <3>2 DEF UsageCoversHolders
  <2>2. CASE r \notin DOMAIN repositories
    <3>1. r = rid /\ list[r].writeLockedBy = 0 /\ list[r].usageCounter = 0
      BY <2>2, <1>l
    <3>2. Holders(r)' = {}
      BY <1>0, <2>2, <3>1, <1>0 DEF Holders, AttachedTo, LockOwner, AttachedIsListed
    <3>3. Cardinality({}) = 0
      BY FS_EmptySet
    <3> QED
      BY <3>1, <3>2, <3>3
  <2> QED
    BY <2>1, <2>2
<1>4. OneListingPerName'
  BY <1>l, <1>0 DEF OneListingPerName, ListedNames
<1>5. GrantIsLock' /\ ListedHasDir'
  BY <1>l, <1>0 DEF GrantIsLock, ListedHasDir, disk
<1> QED
  BY <1>1, <1>2, <1>3, <1>4, <1>5

LEMMA OpenInv ==
  ASSUME IInv, NEW cid \in ClientIds, NEW rid \in RepositoryIds,
         NEW name \in Names, NEW writeAccess \in BOOLEAN,
         OpenRepository(cid, rid, name, writeAccess)
  PROVE  IInv'
<1> DEFINE list == Found(rid, name)
           right == CheckRepositoryUser(list[rid].access, clients[cid].name)
<1>0. /\ cid \in DOMAIN clients
      /\ Locate(rid, name)
      /\ UNCHANGED <<nextClientId, disk, restarts>>
      /\ rid # 0 /\ cid # 0 /\ rid \in Nat /\ cid \in Nat
  <2>1. rid # 0 /\ cid # 0 /\ rid \in Nat /\ cid \in Nat
    BY BoundsAssumption DEF RepositoryIds, ClientIds
  <2>2. /\ cid \in DOMAIN clients
        /\ Locate(rid, name)
        /\ UNCHANGED <<nextClientId, disk, restarts>>
    BY Zenon DEF OpenRepository
  <2> QED
    BY <2>1, <2>2
<1>a. Locate(rid, name)
  BY <1>0
<1>l. /\ rid \in DOMAIN list
      /\ DOMAIN list = DOMAIN repositories \cup {rid}
      /\ list[rid].name = name
      /\ list \in [DOMAIN list -> Repository]
      /\ nextRepositoryId' \in 0..MaxRepositories
      /\ DOMAIN list \subseteq 1..nextRepositoryId'
      /\ \A r \in DOMAIN repositories : list[r] = repositories[r]
      /\ name \in dirs
      /\ rid \notin DOMAIN repositories =>
           /\ list[rid].writeLockedBy = 0
           /\ list[rid].usageCounter = 0
           /\ name \notin ListedNames
  BY <1>a, LocatedInv
<1>1. CASE repositories' = list /\ UNCHANGED <<clients, writing>>
           /\ server' \in {"running", "looping"}
  BY <1>0, <1>1, TurnedAwayInv
<1> USE DEF IInv
<1>2. CASE /\ Permitted(right, list[rid], writeAccess)
           /\ repositories' = [list EXCEPT
                ![rid].writeLockedBy = IF writeAccess THEN cid ELSE @,
                ![rid].usageCounter = @ + 1]
           /\ clients' = [clients EXCEPT ![cid].repositoryId = rid]
           /\ writing' = IF writeAccess
                         THEN writing \cup {[client |-> cid, repository |-> rid,
                                             name |-> name]}
                         ELSE writing
           /\ UNCHANGED server
  <2> HIDE DEF list
  <2>0. /\ list[rid] \in Repository
        /\ writeAccess => list[rid].writeLockedBy = 0
    BY <1>0, <1>2, <1>l DEF Permitted
  <2>1. /\ DOMAIN repositories' = DOMAIN repositories \cup {rid}
        /\ repositories'[rid] \in Repository
        /\ repositories'[rid].name = name
        /\ repositories'[rid].usageCounter = list[rid].usageCounter + 1
        /\ repositories'[rid].writeLockedBy =
             IF writeAccess THEN cid ELSE list[rid].writeLockedBy
        /\ \A r \in DOMAIN repositories' \ {rid} :
             r \in DOMAIN repositories /\ repositories'[r] = repositories[r]
    BY <1>0, <1>2, <2>0, <1>l DEF Repository
  <2>2. /\ DOMAIN clients' = DOMAIN clients
        /\ clients' \in [DOMAIN clients' -> Client]
        /\ clients'[cid].repositoryId = rid
        /\ \A c \in DOMAIN clients \ {cid} : clients'[c] = clients[c]
    BY <1>0, <1>2 DEF TypeOK, Client
  <2>3. TypeOK'
    <3>1. /\ repositories' \in [DOMAIN repositories' -> Repository]
          /\ DOMAIN repositories' \subseteq 1..nextRepositoryId'
          /\ nextRepositoryId' \in 0..MaxRepositories
      <4>1. DOMAIN repositories' = DOMAIN list
        BY <1>2
      <4> QED
        BY <1>0, <1>2, <2>1, <4>1, <1>l DEF TypeOK
    <3>2. writing' \subseteq Grant
      BY <1>0, <1>2 DEF Grant, TypeOK
    <3> QED
      BY <1>0, <1>2, <2>2, <3>1, <3>2 DEF TypeOK, disk
  <2>4. AttachedIsListed'
    BY <2>1, <2>2 DEF AttachedIsListed
  <2>5. UsageCoversHolders'
    <3> SUFFICES ASSUME NEW r \in DOMAIN repositories'
                 PROVE  Cardinality(Holders(r)') <= repositories'[r].usageCounter
      BY DEF UsageCoversHolders
    <3>1. CASE r # rid
      <4>1. r \in DOMAIN repositories /\ repositories'[r] = repositories[r]
        BY <2>1, <3>1
      <4>2. Holders(r)' \subseteq Holders(r)
        BY <2>2, <3>1, <4>1 DEF Holders, AttachedTo, LockOwner
      <4> QED
        BY <4>1, <4>2, HoldersFinite, Smaller
        DEF UsageCoversHolders, TypeOK, Repository
    <3>2. CASE r = rid /\ rid \in DOMAIN repositories
      <4>1. list[rid] = repositories[rid]
        BY <1>0, <3>2, <1>l
      <4>2. Holders(r)' \subseteq Holders(r) \cup {cid}
        BY <2>1, <2>2, <3>2, <4>1 DEF Holders, AttachedTo, LockOwner
      <4>3. IsFiniteSet(Holders(r)) /\ Cardinality(Holders(r)) \in Nat
        BY <3>2, HoldersFinite
      <4>4. /\ Cardinality(Holders(r)') \in Nat
            /\ Cardinality(Holders(r)') <= Cardinality(Holders(r)) + 1
        BY <4>2, <4>3, OneMore
      <4>5. Cardinality(Holders(r)) <= repositories[r].usageCounter
        BY <3>2 DEF UsageCoversHolders
      <4>6. repositories[r].usageCounter \in Nat
        BY <3>2 DEF TypeOK, Repository
      <4>7. repositories'[r].usageCounter = repositories[r].usageCounter + 1
        BY <2>1, <3>2, <4>1
      <4> QED
        BY <4>3, <4>4, <4>5, <4>6, <4>7
    <3>3. CASE r = rid /\ rid \notin DOMAIN repositories
      <4>1. list[rid].writeLockedBy = 0 /\ list[rid].usageCounter = 0
        BY <1>0, <3>3, <1>l
      <4>2. Holders(r)' \subseteq {cid}
        BY <1>0, <2>1, <2>2, <3>3, <4>1
        DEF Holders, AttachedTo, LockOwner, AttachedIsListed
      <4>3. IsFiniteSet({cid}) /\ Cardinality({cid}) = 1
        BY FS_Singleton
      <4>4. Cardinality(Holders(r)') <= 1
        BY <4>2, <4>3, Smaller
      <4> QED
        BY <2>1, <3>3, <4>1, <4>4
    <3> QED
      BY <3>1, <3>2, <3>3
  <2>6. OneListingPerName'
    <3>1. rid \in DOMAIN repositories =>
            repositories[rid].name = name
      BY <1>0, <1>l
    <3>2. rid \notin DOMAIN repositories => name \notin ListedNames
      BY <1>0, <1>l
    <3> QED
      BY <2>1, <3>1, <3>2 DEF OneListingPerName, ListedNames
  <2>7. GrantIsLock'
    <3> SUFFICES ASSUME NEW g \in writing'
                 PROVE  /\ g.repository \in DOMAIN repositories'
                        /\ repositories'[g.repository].name = g.name
                        /\ repositories'[g.repository].writeLockedBy = g.client
                        /\ g.client # 0
      BY DEF GrantIsLock
    <3>1. CASE g \in writing
      <4>1. /\ g.repository \in DOMAIN repositories
            /\ repositories[g.repository].name = g.name
            /\ repositories[g.repository].writeLockedBy = g.client
            /\ g.client # 0
        BY <3>1 DEF GrantIsLock
      <4>2. CASE g.repository # rid
        BY <2>1, <4>1, <4>2
      <4>3. CASE g.repository = rid
        <5>1. list[rid] = repositories[rid]
          BY <1>0, <4>1, <4>3, <1>l
        <5>2. writeAccess = FALSE
          BY <2>0, <4>1, <4>3, <5>1
        <5> QED
          BY <1>0, <2>1, <4>1, <4>3, <5>1, <5>2, <1>l
      <4> QED
        BY <4>2, <4>3
    <3>2. CASE g \notin writing
      <4>1. writeAccess /\ g = [client |-> cid, repository |-> rid, name |-> name]
        BY <1>2, <3>2
      <4> QED
        BY <1>0, <2>1, <4>1
    <3> QED
      BY <3>1, <3>2
  <2>8. ListedHasDir'
    BY <1>0, <1>l, <2>1 DEF ListedHasDir, disk
  <2> QED
    BY <2>3, <2>4, <2>5, <2>6, <2>7, <2>8
<1> QED
  BY <1>0, <1>1, <1>2 DEF OpenRepository, TypeOK

-----------------------------------------------------------------------------
\* A client that makes the server forget a repository is its last holder.
LEMMA ForgottenAlone ==
  ASSUME IInv, NEW cid, NEW rid \in DOMAIN repositories, NEW saved \in BOOLEAN,
         Forgotten(cid, rid, saved)
  PROVE  Holders(rid) \subseteq {cid}
<1> USE DEF IInv
<1>1. /\ IsFiniteSet(Holders(rid)) /\ Cardinality(Holders(rid)) \in Nat
      /\ Cardinality(Holders(rid)) <= repositories[rid].usageCounter
      /\ repositories[rid].usageCounter \in Nat
  BY HoldersFinite DEF UsageCoversHolders, TypeOK, Repository
<1>2. /\ Attached(cid, rid) => repositories[rid].usageCounter <= 1
      /\ ~Attached(cid, rid) => repositories[rid].usageCounter = 0
  BY <1>1 DEF Forgotten, Released, TypeOK, Repository
<1>3. CASE Attached(cid, rid)
  <2>1. cid \in Holders(rid)
    BY <1>3 DEF Attached, Holders, AttachedTo
  <2>2. Cardinality(Holders(rid) \ {cid}) = Cardinality(Holders(rid)) - 1
    BY <1>1, <2>1, FS_RemoveElement
  <2>3. IsFiniteSet(Holders(rid) \ {cid})
    BY <1>1, FS_RemoveElement
  <2>4. Cardinality(Holders(rid) \ {cid}) \in Nat
    BY <2>3, FS_CardinalityType
  <2>5. Cardinality(Holders(rid) \ {cid}) = 0
    BY <1>1, <1>2, <1>3, <2>2, <2>4
  <2>6. Holders(rid) \ {cid} = {}
    BY <2>3, <2>5, FS_EmptySet
  <2> QED
    BY <2>6
<1>4. CASE ~Attached(cid, rid)
  <2>1. Cardinality(Holders(rid)) = 0
    BY <1>1, <1>2, <1>4
  <2> QED
    BY <1>1, <2>1, FS_EmptySet
<1> QED
  BY <1>3, <1>4

\* Giving a repository up: what CloseRepository and ClientUnregister share.
LEMMA CloseStepInv ==
  ASSUME IInv, NEW cid \in ClientIds, NEW rid \in DOMAIN repositories,
         NEW saved \in BOOLEAN, CloseStep(cid, rid, saved),
         clients' \in [DOMAIN clients' -> Client],
         DOMAIN clients' \subseteq DOMAIN clients,
         \A c \in DOMAIN clients' \ {cid} : clients'[c] = clients[c],
         \/ cid \notin DOMAIN clients'
         \/ clients'[cid].repositoryId =
              IF Attached(cid, rid) THEN 0 ELSE clients[cid].repositoryId,
         writing' \subseteq writing,
         \A g \in writing' : g.repository = rid => g.client # cid,
         UNCHANGED <<server, nextClientId, nextRepositoryId, dirs, restarts>>
  PROVE  IInv'
<1> DEFINE gone == Forgotten(cid, rid, saved)
<1>g. gone => Holders(rid) \subseteq {cid}
  BY ForgottenAlone
<1> HIDE DEF gone
<1> USE DEF IInv
<1>0. rid # 0 /\ 0 \notin DOMAIN repositories /\ cid # 0
  BY DEF TypeOK, ClientIds
<1>1. /\ Released(cid, rid) \in Repository
      /\ Released(cid, rid).name = repositories[rid].name
      /\ Released(cid, rid).writeLockedBy =
           IF repositories[rid].writeLockedBy = cid
           THEN 0 ELSE repositories[rid].writeLockedBy
      /\ Released(cid, rid).usageCounter =
           IF Attached(cid, rid) /\ repositories[rid].usageCounter > 0
           THEN repositories[rid].usageCounter - 1
           ELSE repositories[rid].usageCounter
  <2>1. repositories[rid] \in Repository
    BY DEF TypeOK
  <2>2. cid \in Nat
    BY BoundsAssumption DEF ClientIds
  <2> DEFINE repository == repositories[rid]
             lock == IF repository.writeLockedBy = cid
                     THEN 0 ELSE repository.writeLockedBy
             count == IF Attached(cid, rid) /\ repository.usageCounter > 0
                      THEN repository.usageCounter - 1
                      ELSE repository.usageCounter
  <2>3. Released(cid, rid) = [name |-> repository.name, writeLockedBy |-> lock,
                              usageCounter |-> count,
                              access |-> repository.access]
    <3>1. Released(cid, rid) =
            [repository EXCEPT !.writeLockedBy = lock, !.usageCounter = count]
      BY Zenon DEF Released
    <3> HIDE DEF lock, count, repository
    <3>2. repository \in Repository
      BY <2>1 DEF repository
    <3> QED
      BY <3>1, <3>2 DEF Repository
  <2>4. lock \in Nat /\ count \in Nat
    BY <2>1 DEF Repository
  <2>5. repository.name \in Names /\ repository.access \in Access
    BY <2>1 DEF Repository
  <2> HIDE DEF lock, count
  <2>6. Released(cid, rid) \in Repository
    BY <2>3, <2>4, <2>5 DEF Repository
  <2> QED
    BY <2>3, <2>6 DEF lock, count
<1>2. /\ DOMAIN repositories' = IF gone THEN DOMAIN repositories \ {rid}
                                        ELSE DOMAIN repositories
      /\ \A r \in DOMAIN repositories' \ {rid} : repositories'[r] = repositories[r]
      /\ rid \in DOMAIN repositories' => repositories'[rid] = Released(cid, rid)
  BY DEF CloseStep, Without, gone, TypeOK
<1>3. /\ \A r : r # 0 => AttachedTo(r)' \subseteq AttachedTo(r)
      /\ cid \notin AttachedTo(rid)'
  <2>1. SUFFICES ASSUME NEW r, r # 0, NEW c \in AttachedTo(r)'
                 PROVE  c \in AttachedTo(r) /\ (r = rid => c # cid)
    BY <1>0
  <2>2. c \in DOMAIN clients' /\ c \in DOMAIN clients /\ clients'[c].repositoryId = r
    BY <2>1 DEF AttachedTo
  <2>3. CASE c = cid
    BY <1>0, <2>1, <2>2, <2>3 DEF Attached, AttachedTo
  <2>4. CASE c # cid
    BY <2>1, <2>2, <2>4 DEF AttachedTo
  <2> QED
    BY <2>3, <2>4
<1>4. TypeOK'
  <2>1. conf' \in [DOMAIN conf' -> Access] /\ DOMAIN conf' \subseteq dirs
    <3>1. repositories[rid].access \in Access
      BY DEF TypeOK, Repository
    <3>2. CASE gone
      <4>1. conf' = Put(conf, repositories[rid].name, repositories[rid].access)
        BY <3>2 DEF CloseStep, gone
      <4>2. repositories[rid].name \in dirs
        BY DEF ListedHasDir
      <4>3. DOMAIN conf' = DOMAIN conf \cup {repositories[rid].name}
        BY <4>1 DEF Put
      <4> QED
        BY <3>1, <4>1, <4>2, <4>3 DEF Put, TypeOK
    <3>3. CASE ~gone
      <4>1. conf' = conf
        BY <3>3 DEF CloseStep, gone
      <4> QED
        BY <4>1 DEF TypeOK
    <3> QED
      BY <3>2, <3>3
  <2>2. /\ repositories' \in [DOMAIN repositories' -> Repository]
        /\ DOMAIN repositories' \subseteq 1..nextRepositoryId'
    <3>1. repositories' = IF gone THEN Without(repositories, rid)
                          ELSE [repositories EXCEPT ![rid] = Released(cid, rid)]
      BY DEF CloseStep, gone
    <3>2. CASE gone
      BY <3>1, <3>2 DEF TypeOK, Without
    <3>3. CASE ~gone
      BY <1>1, <3>1, <3>3 DEF TypeOK
    <3> QED
      BY <3>2, <3>3
  <2>3. DOMAIN clients' \subseteq 1..nextClientId
    BY DEF TypeOK
  <2> QED
    BY <2>1, <2>2, <2>3 DEF TypeOK
<1>5. AttachedIsListed'
  <2> SUFFICES ASSUME NEW c \in DOMAIN clients', NEW r,
                      clients'[c].repositoryId = r, r # 0
               PROVE  r \in DOMAIN repositories'
    BY DEF AttachedIsListed
  <2>1. c \in AttachedTo(r)'
    BY DEF AttachedTo
  <2>2. c \in AttachedTo(r)
    BY <1>3, <2>1
  <2>3. r \in DOMAIN repositories
    BY <2>2 DEF AttachedTo, AttachedIsListed
  <2>4. CASE r = rid
    <3>1. c # cid /\ c \in Holders(rid)
      BY <1>3, <2>1, <2>2, <2>4 DEF Holders
    <3> QED
      BY <1>g, <1>2, <2>4, <3>1
  <2> QED
    BY <1>2, <2>3, <2>4
<1>6. UsageCoversHolders'
  <2> SUFFICES ASSUME NEW r \in DOMAIN repositories'
               PROVE  Cardinality(Holders(r)') <= repositories'[r].usageCounter
    BY DEF UsageCoversHolders
  <2>1. /\ r \in DOMAIN repositories /\ r # 0
        /\ IsFiniteSet(Holders(r)) /\ Cardinality(Holders(r)) \in Nat
        /\ Cardinality(Holders(r)) <= repositories[r].usageCounter
        /\ repositories[r].usageCounter \in Nat
    <3>1. r \in DOMAIN repositories
      BY <1>2
    <3> QED
      BY <1>0, <3>1, HoldersFinite DEF UsageCoversHolders, TypeOK, Repository
  <2>2. Holders(r)' \subseteq Holders(r)
    BY <1>1, <1>2, <1>3, <2>1 DEF Holders, LockOwner
  <2>3. CASE r = rid /\ Attached(cid, rid)
    <3>1. cid \in Holders(rid)
      BY <2>3 DEF Attached, Holders, AttachedTo
    <3>2. cid \notin Holders(rid)'
      BY <1>0, <1>1, <1>2, <1>3, <2>3 DEF Holders, LockOwner
    <3>3. /\ IsFiniteSet(Holders(rid) \ {cid})
          /\ Cardinality(Holders(rid) \ {cid}) = Cardinality(Holders(rid)) - 1
      BY <2>1, <2>3, <3>1, FS_RemoveElement
    <3>4. /\ Cardinality(Holders(rid)') \in Nat
          /\ Cardinality(Holders(rid)') <= Cardinality(Holders(rid) \ {cid})
      BY <2>2, <2>3, <3>2, <3>3, Smaller
    <3>5. repositories'[r].usageCounter = IF repositories[r].usageCounter > 0
                                          THEN repositories[r].usageCounter - 1
                                          ELSE repositories[r].usageCounter
      BY <1>1, <1>2, <2>3
    <3> QED
      BY <2>1, <2>3, <3>3, <3>4, <3>5
  <2>4. CASE ~(r = rid /\ Attached(cid, rid))
    <3>1. repositories'[r].usageCounter = repositories[r].usageCounter
      BY <1>1, <1>2, <2>4
    <3>2. /\ Cardinality(Holders(r)') \in Nat
          /\ Cardinality(Holders(r)') <= Cardinality(Holders(r))
      BY <2>1, <2>2, Smaller
    <3> QED
      BY <2>1, <3>1, <3>2
  <2> QED
    BY <2>3, <2>4
<1>7. OneListingPerName' /\ ListedHasDir'
  BY <1>1, <1>2 DEF OneListingPerName, ListedHasDir
<1>8. GrantIsLock'
  <2> SUFFICES ASSUME NEW g \in writing'
               PROVE  /\ g.repository \in DOMAIN repositories'
                      /\ repositories'[g.repository].name = g.name
                      /\ repositories'[g.repository].writeLockedBy = g.client
                      /\ g.client # 0
    BY DEF GrantIsLock
  <2>1. /\ g.repository \in DOMAIN repositories
        /\ repositories[g.repository].name = g.name
        /\ repositories[g.repository].writeLockedBy = g.client
        /\ g.client # 0
        /\ g.repository = rid => g.client # cid
    BY DEF GrantIsLock
  <2>2. CASE g.repository = rid
    <3>1. g.client \in Holders(rid)
      BY <2>1, <2>2 DEF Holders, LockOwner
    <3>2. ~gone
      BY <1>g, <2>1, <2>2, <3>1
    <3> QED
      BY <1>1, <1>2, <2>1, <2>2, <3>2
  <2> QED
    BY <1>2, <2>1, <2>2
<1> QED
  BY <1>4, <1>5, <1>6, <1>7, <1>8

LEMMA CloseInv ==
  ASSUME IInv, NEW cid \in ClientIds, NEW rid \in RepositoryIds,
         NEW saved \in BOOLEAN, CloseRepository(cid, rid, saved)
  PROVE  IInv'
<1>1. /\ rid \in DOMAIN repositories
      /\ CloseStep(cid, rid, saved)
      /\ UNCHANGED <<server, nextClientId, nextRepositoryId, dirs, restarts>>
      /\ writing' \subseteq writing
      /\ \A g \in writing' : g.repository = rid => g.client # cid
  BY DEF CloseRepository
<1>2. clients' = IF Attached(cid, rid)
                 THEN [clients EXCEPT ![cid].repositoryId = 0]
                 ELSE clients
  BY DEF CloseRepository
<1>3. clients \in [DOMAIN clients -> Client]
  BY DEF IInv, TypeOK
<1>4. /\ clients' \in [DOMAIN clients' -> Client]
      /\ DOMAIN clients' = DOMAIN clients
      /\ \A c \in DOMAIN clients' \ {cid} : clients'[c] = clients[c]
      /\ \/ cid \notin DOMAIN clients'
         \/ clients'[cid].repositoryId =
              IF Attached(cid, rid) THEN 0 ELSE clients[cid].repositoryId
  BY <1>2, <1>3 DEF Client, Attached
<1> QED
  BY <1>1, <1>4, CloseStepInv

LEMMA UnregisterInv ==
  ASSUME IInv, NEW cid \in ClientIds, NEW saved \in BOOLEAN,
         ClientUnregister(cid, saved)
  PROVE  IInv'
<1> DEFINE rid == clients[cid].repositoryId
<1>1. /\ UNCHANGED <<server, nextClientId, nextRepositoryId, dirs, restarts>>
      /\ writing' = {g \in writing : g.client # cid}
      /\ clients' = Without(clients, cid)
  BY DEF ClientUnregister
<1>2. clients \in [DOMAIN clients -> Client]
  BY DEF IInv, TypeOK
<1>3. /\ clients' \in [DOMAIN clients' -> Client]
      /\ DOMAIN clients' = DOMAIN clients \ {cid}
      /\ \A c \in DOMAIN clients' : clients'[c] = clients[c]
  BY <1>1, <1>2 DEF Without
<1>4. CASE rid \in DOMAIN repositories
  <2>1. CloseStep(cid, rid, saved)
    BY <1>4 DEF ClientUnregister
  <2>2. \A g \in writing' : g.repository = rid => g.client # cid
    BY <1>1
  <2> QED
    BY <1>1, <1>3, <1>4, <2>1, <2>2, CloseStepInv
<1>5. CASE rid \notin DOMAIN repositories
  <2>1. UNCHANGED <<repositories, conf>>
    BY <1>5 DEF ClientUnregister
  <2> USE DEF IInv
  <2>2. TypeOK'
    BY <1>1, <1>3, <2>1 DEF TypeOK
  <2>3. AttachedIsListed'
    BY <1>3, <2>1 DEF AttachedIsListed
  <2>4. UsageCoversHolders'
    <3> SUFFICES ASSUME NEW r \in DOMAIN repositories
                 PROVE  Cardinality(Holders(r)') <= repositories[r].usageCounter
      BY <2>1 DEF UsageCoversHolders
    <3>1. Holders(r)' \subseteq Holders(r)
      BY <1>3, <2>1 DEF Holders, AttachedTo, LockOwner
    <3> QED
      BY <3>1, HoldersFinite, Smaller DEF UsageCoversHolders, TypeOK, Repository
  <2>5. OneListingPerName' /\ GrantIsLock' /\ ListedHasDir'
    BY <1>1, <2>1 DEF OneListingPerName, GrantIsLock, ListedHasDir
  <2> QED
    BY <2>2, <2>3, <2>4, <2>5
<1> QED
  BY <1>4, <1>5

LEMMA RestartInv ==
  ASSUME IInv, Restart
  PROVE  IInv'
<1>1. TypeOK'
  BY BoundsAssumption DEF IInv, TypeOK, Restart, Empty, disk
<1>2. /\ AttachedIsListed' /\ UsageCoversHolders' /\ OneListingPerName'
      /\ GrantIsLock' /\ ListedHasDir'
  BY DEF Restart, Empty, AttachedIsListed, UsageCoversHolders,
         OneListingPerName, GrantIsLock, ListedHasDir
<1> QED
  BY <1>1, <1>2 DEF IInv

LEMMA NextInv == IInv /\ [Next]_vars => IInv'
<1> SUFFICES ASSUME IInv, [Next]_vars PROVE IInv'
  OBVIOUS
<1>1. ASSUME NEW user \in Users, ClientRegister(user) PROVE IInv'
  BY <1>1, RegisterInv
<1>2. ASSUME NEW cid \in ClientIds, NEW name \in Names, NEW ok \in BOOLEAN,
             CreateRepository(cid, name, ok)
      PROVE  IInv'
  BY <1>2, CreateInv
<1>3. ASSUME NEW cid \in ClientIds, NEW rid \in RepositoryIds, NEW name \in Names,
             NEW writeAccess \in BOOLEAN,
             OpenRepository(cid, rid, name, writeAccess)
      PROVE  IInv'
  BY <1>3, OpenInv
<1>4. ASSUME NEW cid \in ClientIds, NEW rid \in RepositoryIds,
             NEW saved \in BOOLEAN, CloseRepository(cid, rid, saved)
      PROVE  IInv'
  BY <1>4, CloseInv
<1>5. ASSUME NEW cid \in ClientIds, NEW saved \in BOOLEAN,
             ClientUnregister(cid, saved)
      PROVE  IInv'
  BY <1>5, UnregisterInv
<1>6. CASE Restart
  BY <1>6, RestartInv
<1>7. CASE UNCHANGED vars
  BY <1>7 DEF vars, memory, disk, IInv, TypeOK, AttachedIsListed,
     UsageCoversHolders, Holders, AttachedTo, LockOwner, OneListingPerName,
     GrantIsLock, ListedHasDir
<1> QED
  BY <1>1, <1>2, <1>3, <1>4, <1>5, <1>6, <1>7 DEF Next, Call

\* The inductive invariant holds in every state of the server.
THEOREM Inductive == Spec => []IInv
<1>1. Init => IInv
  BY InitInv
<1>2. IInv /\ [Next]_vars => IInv'
  BY NextInv
<1> QED
  BY <1>1, <1>2, PTL DEF Spec

-----------------------------------------------------------------------------
\* Every variable of the server keeps its type, for every set of users and
\* repositories and every bound.
THEOREM TypeCorrect == Spec => []TypeOK
<1>1. IInv => TypeOK
  BY DEF IInv
<1> QED
  BY <1>1, Inductive, PTL

\* The use count that decides when CloseRepository frees a repository is never
\* smaller than the number of clients that are attached to it or own its lock.
THEOREM UsageCountIsSafe == Spec => []UsageCoversHolders
<1>1. IInv => UsageCoversHolders
  BY DEF IInv
<1> QED
  BY <1>1, Inductive, PTL

\* No client of the server keeps the id of a repository that was freed.
THEOREM NoDanglingRepository == Spec => []AttachedIsListed
<1>1. IInv => AttachedIsListed
  BY DEF IInv
<1> QED
  BY <1>1, Inductive, PTL

\* No repository directory is loaded twice.
THEOREM LoadedOnce == Spec => []OneListingPerName
<1>1. IInv => OneListingPerName
  BY DEF IInv
<1> QED
  BY <1>1, Inductive, PTL

\* Mutual exclusion: write access to a repository directory is granted to one
\* client at a time.  Two grants for a name are backed by the locks of two
\* listed repositories of that name, which are one and the same.
THEOREM MutualExclusion == Spec => []OneWriter
<1>1. IInv => OneWriter
  BY DEF IInv, GrantIsLock, OneListingPerName, OneWriter
<1> QED
  BY <1>1, Inductive, PTL

\* What CloseStep frees was held by the closing client alone.
LEMMA FreedAlone ==
  ASSUME IInv, Next, restarts' = restarts,
         NEW r \in DOMAIN repositories \ DOMAIN repositories'
  PROVE  \E cid : Holders(r) \subseteq {cid}
<1>1. ASSUME NEW cid, NEW rid \in DOMAIN repositories, NEW saved \in BOOLEAN,
             CloseStep(cid, rid, saved)
      PROVE  Holders(r) \subseteq {cid}
  <2>1. r = rid /\ Forgotten(cid, rid, saved)
    BY <1>1 DEF CloseStep, Without
  <2> QED
    BY <2>1, ForgottenAlone
<1>2. ASSUME NEW user \in Users, ClientRegister(user) PROVE FALSE
  BY <1>2 DEF ClientRegister
<1>3. ASSUME NEW cid \in ClientIds, NEW name \in Names, NEW ok \in BOOLEAN,
             CreateRepository(cid, name, ok)
      PROVE  FALSE
  BY <1>3 DEF CreateRepository, Put
<1>4. ASSUME NEW cid \in ClientIds, NEW rid \in RepositoryIds, NEW name \in Names,
             NEW writeAccess \in BOOLEAN,
             OpenRepository(cid, rid, name, writeAccess)
      PROVE  FALSE
  <2>1. Locate(rid, name)
    BY <1>4, Zenon DEF OpenRepository
  <2>2. DOMAIN Found(rid, name) = DOMAIN repositories \cup {rid}
    BY <2>1, LocatedInv
  <2>3. DOMAIN repositories' = DOMAIN Found(rid, name)
    BY <1>4 DEF OpenRepository
  <2> QED
    BY <2>2, <2>3
<1>5. ASSUME NEW cid \in ClientIds, NEW rid \in RepositoryIds,
             NEW saved \in BOOLEAN, CloseRepository(cid, rid, saved)
      PROVE  Holders(r) \subseteq {cid}
  BY <1>1, <1>5 DEF CloseRepository
<1>6. ASSUME NEW cid \in ClientIds, NEW saved \in BOOLEAN,
             ClientUnregister(cid, saved)
      PROVE  Holders(r) \subseteq {cid}
  BY <1>1, <1>6 DEF ClientUnregister
<1>7. ~Restart
  BY DEF Restart, IInv, TypeOK
<1> QED
  BY <1>2, <1>3, <1>4, <1>5, <1>6, <1>7 DEF Next, Call

\* A running server frees a repository only when the closing client is its last
\* holder, and leaves nobody attached to it.
THEOREM FreedWhenUnused == Spec => ForgottenOnlyUnused
<1> DEFINE Freed ==
      restarts' = restarts =>
        \A r \in DOMAIN repositories \ DOMAIN repositories' :
          Cardinality(Holders(r)) <= 1 /\ AttachedTo(r)' = {}
<1>1. IInv /\ IInv' /\ [Next]_vars => [Freed]_vars
  <2> SUFFICES ASSUME IInv, IInv', Next, restarts' = restarts,
                      NEW r \in DOMAIN repositories \ DOMAIN repositories'
               PROVE  Cardinality(Holders(r)) <= 1 /\ AttachedTo(r)' = {}
    OBVIOUS
  <2>1. PICK cid : Holders(r) \subseteq {cid}
    BY FreedAlone
  <2>2. IsFiniteSet({cid}) /\ Cardinality({cid}) = 1
    BY FS_Singleton
  <2>3. Cardinality(Holders(r)) <= 1
    BY <2>1, <2>2, Smaller
  <2>4. AttachedTo(r)' = {}
    BY DEF IInv, TypeOK, AttachedIsListed, AttachedTo
  <2> QED
    BY <2>3, <2>4
<1> QED
  BY <1>1, Inductive, PTL DEF Spec, ForgottenOnlyUnused

-----------------------------------------------------------------------------
\* Giving a repository up writes its repository.conf or keeps it listed.
LEMMA CloseStepKeepsUnsaved ==
  ASSUME IInv, UnsavedIsListed, NEW cid, NEW rid \in DOMAIN repositories,
         NEW saved \in BOOLEAN, CloseStep(cid, rid, saved),
         UNCHANGED <<dirs, restarts>>
  PROVE  UnsavedIsListed'
<1> SUFFICES ASSUME restarts = 0, NEW name \in dirs \ DOMAIN conf',
                    UnsavedIsListed
             PROVE  \E r \in DOMAIN repositories' : repositories'[r].name = name
  BY DEF UnsavedIsListed, ListedNames
<1>1. CASE Forgotten(cid, rid, saved)
  <2>1. /\ repositories' = Without(repositories, rid)
        /\ conf' = Put(conf, repositories[rid].name, repositories[rid].access)
    BY <1>1 DEF CloseStep
  <2>2. name \notin DOMAIN conf /\ name # repositories[rid].name
    BY <2>1 DEF Put
  <2> QED
    BY <2>1, <2>2 DEF UnsavedIsListed, ListedNames, Without
<1>2. CASE ~Forgotten(cid, rid, saved)
  <2>1. /\ repositories' = [repositories EXCEPT ![rid] = Released(cid, rid)]
        /\ conf' = conf
    BY <1>2 DEF CloseStep
  <2>2. repositories[rid] \in Repository
    BY DEF IInv, TypeOK
  <2>3. Released(cid, rid).name = repositories[rid].name
    BY <2>2 DEF Released, Repository
  <2> QED
    BY <2>1, <2>3 DEF UnsavedIsListed, ListedNames
<1> QED
  BY <1>1, <1>2

LEMMA UnsavedStep ==
  IInv /\ UnsavedIsListed /\ [Next]_vars => UnsavedIsListed'
<1> SUFFICES ASSUME IInv, UnsavedIsListed, [Next]_vars PROVE UnsavedIsListed'
  OBVIOUS
<1>1. ASSUME NEW user \in Users, ClientRegister(user) PROVE UnsavedIsListed'
  BY <1>1 DEF ClientRegister, UnsavedIsListed, ListedNames, disk
<1>2. ASSUME NEW cid \in ClientIds, NEW name \in Names, NEW ok \in BOOLEAN,
             CreateRepository(cid, name, ok)
      PROVE  UnsavedIsListed'
  <2>1. nextRepositoryId + 1 \notin DOMAIN repositories
    BY DEF IInv, TypeOK
  <2> QED
    BY <1>2, <2>1 DEF CreateRepository, UnsavedIsListed, ListedNames, Put
<1>3. ASSUME NEW cid \in ClientIds, NEW rid \in RepositoryIds, NEW name \in Names,
             NEW writeAccess \in BOOLEAN,
             OpenRepository(cid, rid, name, writeAccess)
      PROVE  UnsavedIsListed'
  <2>1. Locate(rid, name)
    BY <1>3, Zenon DEF OpenRepository
  <2>2. /\ DOMAIN Found(rid, name) = DOMAIN repositories \cup {rid}
        /\ Found(rid, name) \in [DOMAIN Found(rid, name) -> Repository]
        /\ \A r \in DOMAIN repositories : Found(rid, name)[r] = repositories[r]
    BY <2>1, LocatedInv
  <2>3. UNCHANGED <<disk, restarts>>
    BY <1>3, Zenon DEF OpenRepository
  <2>4. /\ DOMAIN repositories' = DOMAIN Found(rid, name)
        /\ \A r \in DOMAIN repositories :
             repositories'[r].name = Found(rid, name)[r].name
    <3> DEFINE list == Found(rid, name)
               count == list[rid].usageCounter + 1
    <3>1. \/ repositories' = list
          \/ \E lock : repositories' = [list EXCEPT ![rid].writeLockedBy = lock,
                                                  ![rid].usageCounter = count]
      BY <1>3, Zenon DEF OpenRepository
    <3> HIDE DEF list, count
    <3>2. /\ list \in [DOMAIN list -> Repository]
          /\ DOMAIN repositories \subseteq DOMAIN list
      BY <2>2 DEF list
    <3>3. ASSUME NEW lock,
                 repositories' = [list EXCEPT ![rid].writeLockedBy = lock,
                                              ![rid].usageCounter = count]
          PROVE  /\ DOMAIN repositories' = DOMAIN list
                 /\ \A r \in DOMAIN list : repositories'[r].name = list[r].name
      <4>1. DOMAIN repositories' = DOMAIN list
        BY <3>3, Zenon
      <4>2. ASSUME NEW r \in DOMAIN list
            PROVE  repositories'[r].name = list[r].name
        <5>1. list[r] \in Repository
          BY <3>2
        <5> QED
          BY <3>3, <5>1 DEF Repository
      <4> QED
        BY <4>1, <4>2
    <3> QED
      BY <3>1, <3>2, <3>3 DEF list
  <2> QED
    BY <2>2, <2>3, <2>4 DEF UnsavedIsListed, ListedNames, disk
<1>4. ASSUME NEW cid \in ClientIds, NEW rid \in RepositoryIds,
             NEW saved \in BOOLEAN, CloseRepository(cid, rid, saved)
      PROVE  UnsavedIsListed'
  BY <1>4, CloseStepKeepsUnsaved DEF CloseRepository
<1>5. ASSUME NEW cid \in ClientIds, NEW saved \in BOOLEAN,
             ClientUnregister(cid, saved)
      PROVE  UnsavedIsListed'
  <2>1. CASE clients[cid].repositoryId \in DOMAIN repositories
    BY <1>5, <2>1, CloseStepKeepsUnsaved DEF ClientUnregister
  <2>2. CASE clients[cid].repositoryId \notin DOMAIN repositories
    BY <1>5, <2>2 DEF ClientUnregister, UnsavedIsListed, ListedNames
  <2> QED
    BY <2>1, <2>2
<1>6. CASE Restart
  BY <1>6 DEF Restart, UnsavedIsListed, IInv, TypeOK
<1>7. CASE UNCHANGED vars
  BY <1>7 DEF vars, memory, disk, UnsavedIsListed, ListedNames
<1> QED
  BY <1>1, <1>2, <1>3, <1>4, <1>5, <1>6, <1>7 DEF Next, Call

\* Until the process ends, a repository without a repository.conf is listed.
THEOREM UnsavedStaysListed == Spec => []UnsavedIsListed
<1>1. Init => UnsavedIsListed
  BY DEF Init, UnsavedIsListed
<1> QED
  BY <1>1, Inductive, UnsavedStep, PTL DEF Spec
=============================================================================

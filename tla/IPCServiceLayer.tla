-------------------------- MODULE IPCServiceLayer --------------------------
(***************************************************************************)
(* The service layer of the IPC library: the list of message layers of one *)
(* process, with the loop of CTServer_Work or CTClient_Work around it.     *)
(*                                                                         *)
(* A layer is the memory it lives in; memory is not used again, so that a  *)
(* pointer to a freed layer can be told from one to its successor.  The    *)
(* process reads its list and its cursor again and again; what it does     *)
(* once one of them leads to freed memory is undefined: the model stops    *)
(* there.                                                                  *)
(***************************************************************************)
EXTENDS Integers, FiniteSets, FiniteSetsExt

CONSTANTS
    MaxLayers,  \* how many layers are made after the listening one
    MaxInbox,   \* how many messages a layer holds for the loop
    Settings    \* the kinds of process, of which a behaviour has one

ASSUME BoundsAssumption == {MaxLayers, MaxInbox} \subseteq Nat

\* role: a server listens and sweeps, a client adds and removes servers;
\* maxmsg: the parameter of the loop; maxEnds: how many connections end
\* between two sweeps; removeFirst: whether the client removes the first server
\* of its list.
ASSUME SettingsAssumption ==
    Settings \subseteq [role : {"server", "client"}, maxmsg : Nat, maxEnds : Nat,
                        removeFirst : BOOLEAN]

Layers == 0 .. MaxLayers
Listener == 0
NoLayer == -1
NoId == -1

VARIABLES
    setting,           \* how the process is set up; it never changes
    next,              \* the links of the list
    messageLayers,     \* its head
    nextMessageLayer,  \* where the search for a message goes on
    status,            \* of every layer
    id,                \* of every layer, NoId until its first message
    inbox,             \* how many messages every layer holds for the loop
    lastId,            \* nextClientId of the server, nextPeerId of the client
    phase,             \* what the loop is about to do
    worked,            \* the layers this call of IPCServiceLayer_Work served
    ends,              \* how many connections ended since the last sweep
    msgcount,          \* the messages handled in this round
    handled            \* history: the layer of the last message handled

list == <<next, messageLayers>>
loop == <<phase, worked, msgcount>>
vars == <<setting, list, nextMessageLayer, status, id, inbox, lastId, loop, ends, handled>>

\* A server starts with its listening layer, a client with no layer.
Init ==
    /\ setting \in Settings
    /\ next = [l \in Layers |-> NoLayer]
    /\ messageLayers = IF setting.role = "server" THEN Listener ELSE NoLayer
    /\ nextMessageLayer = NoLayer
    /\ status = [l \in Layers |->
                   IF l = Listener /\ setting.role = "server" THEN "Listening" ELSE "Unused"]
    /\ id = [l \in Layers |-> NoId]
    /\ inbox = [l \in Layers |-> 0]
    /\ lastId = 0
    /\ phase = "work" /\ worked = {} /\ msgcount = 0
    /\ ends = 0
    /\ handled = NoLayer

----------------------------------------------------------------------------
(* Walking along the list.                                                 *)

\* The layer n links behind "from".
Nth(from) ==
    LET f[n \in 0 .. MaxLayers + 1] ==
            IF n = 0 THEN from
            ELSE IF f[n - 1] = NoLayer THEN NoLayer ELSE next[f[n - 1]]
    IN  f

Reached(from) == {Nth(from)[n] : n \in 0 .. MaxLayers + 1} \ {NoLayer}
Listed == Reached(messageLayers)
Freed == {l \in Layers : status[l] = "Freed"}

\* The list or the cursor leads to a layer that is freed.
Dangling == Listed \cap Freed # {} \/ nextMessageLayer \in Freed

\* The list with a layer behind its last one.
AddMessageLayer(l) ==
    IF messageLayers = NoLayer
    THEN messageLayers' = l /\ UNCHANGED next
    ELSE LET last == CHOOSE k \in Listed : next[k] = NoLayer
         IN  next' = [next EXCEPT ![last] = l] /\ UNCHANGED messageLayers

Unused == {l \in Layers \ {Listener} : status[l] = "Unused"}

----------------------------------------------------------------------------
(* IPCServiceLayer_Work: it serves every layer whose socket is ready once. *)

Working(l) ==
    /\ ~Dangling
    /\ phase = "work"
    /\ l \in Listed \ worked
    /\ worked' = worked \cup {l}
    /\ UNCHANGED <<phase, msgcount>>

\* A layer has read the last byte of a message.
Receive(l) ==
    /\ Working(l)
    /\ status[l] = "Connected" /\ inbox[l] < MaxInbox
    /\ inbox' = [inbox EXCEPT ![l] = @ + 1]
    /\ UNCHANGED <<list, nextMessageLayer, status, id, lastId, ends, handled>>

\* The connection of a layer has ended.
Disconnect(l) ==
    /\ Working(l)
    /\ status[l] = "Connected" /\ ends < setting.maxEnds
    /\ status' = [status EXCEPT ![l] = "Disconnected"]
    /\ ends' = ends + 1
    /\ UNCHANGED <<list, nextMessageLayer, id, inbox, lastId, handled>>

\* The listening layer accepts a connection and makes a layer for it.
Accept ==
    /\ Working(Listener)
    /\ Unused # {}
    /\ LET l == Min(Unused) IN
        /\ AddMessageLayer(l)
        /\ status' = [status EXCEPT ![l] = "Connected"]
    /\ UNCHANGED <<nextMessageLayer, id, inbox, lastId, ends, handled>>

\* The layers whose socket was ready had their turn.
WorkDone ==
    /\ ~Dangling
    /\ phase = "work"
    /\ phase' = IF setting.role = "server" THEN "sweep" ELSE "handle"
    /\ msgcount' = 0
    /\ UNCHANGED <<list, nextMessageLayer, status, id, inbox, lastId, worked, ends,
                   handled>>

----------------------------------------------------------------------------
(* CTServer_RemoveDisconnected.                                            *)

\* The layers that a sweep frees.
Swept == {l \in Listed : status[l] = "Disconnected"}

\* Mutant of LinkBehind: the layer behind is not skipped.
LinkKept(l) == next[l]

\* The link that closes the gap behind a layer.  "prev" is the layer before,
\* freed or not: of two neighbours that are freed the second is written into
\* the first, and the layer before both goes on pointing to the second.
LinkBehind(l) ==
    IF next[l] \in Swept THEN next[next[l]] ELSE next[l]

Sweep ==
    /\ ~Dangling
    /\ phase = "sweep"
    /\ phase' = "handle"
    /\ next' = [l \in Layers |-> IF l \in Listed \ Swept THEN LinkBehind(l) ELSE next[l]]
    /\ messageLayers' = IF messageLayers \in Swept THEN next[messageLayers]
                        ELSE messageLayers
    /\ status' = [l \in Layers |-> IF l \in Swept THEN "Freed" ELSE status[l]]
    /\ id' = [l \in Layers |-> IF l \in Swept THEN NoId ELSE id[l]]
    /\ ends' = 0
    /\ UNCHANGED <<nextMessageLayer, inbox, lastId, worked, msgcount, handled>>

----------------------------------------------------------------------------
(* IPCServiceLayer_NextMessage and the handling of what it returns.        *)

Start == IF nextMessageLayer = NoLayer THEN messageLayers ELSE nextMessageLayer

\* How many links the search goes, if there is a message.
Holding == {n \in 0 .. MaxLayers : Nth(Start)[n] # NoLayer /\ inbox[Nth(Start)[n]] > 0}

\* Mutant of CursorAtEnd: the cursor moves only with a message.
CursorKept == nextMessageLayer

\* Where the cursor is after a search without a message.
CursorAtEnd == NoLayer

RoundDone == phase' = "work" /\ worked' = {} /\ UNCHANGED msgcount

NoMessage ==
    /\ phase = "handle" /\ msgcount < setting.maxmsg
    /\ Holding = {}
    /\ nextMessageLayer' = CursorAtEnd
    /\ RoundDone
    /\ UNCHANGED <<list, status, id, inbox, lastId, ends, handled>>

\* Mutant of CursorBehind: the next search starts at the same layer.
CursorAt(l) == l

\* The search goes on behind the layer it found a message at.
CursorBehind(l) == next[l]

\* The first message of a server's layer gives it an id.  A handler may shut
\* the layer down.
HandleMessage ==
    LET n == Min(Holding)
        l == Nth(Start)[n]
        isNew == id[l] = NoId IN
    /\ phase = "handle" /\ msgcount < setting.maxmsg
    /\ Holding # {}
    /\ inbox' = [inbox EXCEPT ![l] = @ - 1]
    /\ nextMessageLayer' = CursorBehind(l)
    /\ handled' = l
    /\ lastId' = IF isNew THEN lastId + 1 ELSE lastId
    /\ id' = IF isNew THEN [id EXCEPT ![l] = lastId + 1] ELSE id
    /\ \/ UNCHANGED <<status, ends>>
       \/ /\ status[l] = "Connected" /\ ends < setting.maxEnds
          /\ status' = [status EXCEPT ![l] = "Disconnected"]
          /\ ends' = ends + 1
    /\ msgcount' = msgcount + 1
    /\ UNCHANGED <<list, phase, worked>>

LimitReached ==
    /\ phase = "handle" /\ msgcount = setting.maxmsg
    /\ RoundDone
    /\ UNCHANGED <<list, nextMessageLayer, status, id, inbox, lastId, ends, handled>>

Handle == ~Dangling /\ (NoMessage \/ HandleMessage \/ LimitReached)

----------------------------------------------------------------------------
(* What the application calls of CTClient between two calls of the loop.   *)

Idle == ~Dangling /\ setting.role = "client" /\ phase = "work" /\ worked = {}

AddServer ==
    /\ Idle
    /\ Unused # {}
    /\ LET l == Min(Unused) IN
        /\ AddMessageLayer(l)
        /\ status' = [status EXCEPT ![l] = "Disconnected"]
        /\ id' = [id EXCEPT ![l] = lastId + 1]
    /\ lastId' = lastId + 1
    /\ UNCHANGED <<nextMessageLayer, inbox, loop, ends, handled>>

\* A request is sent to a server there is no connection to.
Open(l) ==
    /\ Idle
    /\ l \in Listed /\ status[l] = "Disconnected"
    /\ status' = [status EXCEPT ![l] = "Connected"]
    /\ ends' = 0
    /\ UNCHANGED <<list, nextMessageLayer, id, inbox, lastId, loop, handled>>

\* IPCServiceLayer_UnlinkMessageLayer looks for the layer before this one; the
\* head of the list has none and stays the head.
Unlinked(l) ==
    [k \in Layers |->
        CASE k = l -> NoLayer
          [] k # l /\ k \in Listed /\ next[k] = l -> next[l]
          [] OTHER -> next[k]]

RemoveServer(l) ==
    /\ Idle
    /\ l \in Listed
    /\ l # messageLayers \/ setting.removeFirst
    /\ next' = Unlinked(l)
    /\ status' = [status EXCEPT ![l] = "Freed"]
    /\ UNCHANGED <<messageLayers, nextMessageLayer, id, inbox, lastId, loop, ends,
                   handled>>

Step ==
    \/ \E l \in Layers : Receive(l) \/ Disconnect(l) \/ Open(l) \/ RemoveServer(l)
    \/ Accept
    \/ AddServer
    \/ WorkDone
    \/ Sweep
    \/ Handle

Next == Step /\ UNCHANGED setting

Spec == Init /\ [][Next]_vars

\* One thread runs the loop; select returns after its timeout at the latest.
FairSpec ==
    /\ Spec
    /\ WF_vars(WorkDone /\ UNCHANGED setting)
    /\ WF_vars(Sweep /\ UNCHANGED setting)
    /\ WF_vars(Handle /\ UNCHANGED setting)

----------------------------------------------------------------------------
(* Properties.                                                             *)

\* Whatever the sweep or CTClient_RemoveServer takes off around it, a layer in
\* use stays on the list, to be served, swept and found by its id; and one that
\* is freed is off it: the walks of the loop never read freed memory.
ListedAreLive == Listed = {l \in Layers : status[l] \notin {"Unused", "Freed"}}

\* The search for a message never goes on at a layer that was freed since the
\* last search.
CursorIsLive == nextMessageLayer \in (Layers \cup {NoLayer}) \ Freed

\* No layer keeps the loop to itself: each one with a message has it handled,
\* or is freed before, even if the loop handles one message in a round.
EveryLayerIsServed ==
    \A l \in Layers : (inbox[l] > 0) ~> (handled = l \/ status[l] = "Freed")

============================================================================

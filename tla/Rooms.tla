-------------------------------- MODULE Rooms --------------------------------
(***************************************************************************)
(* The rooms of one WireTalk process: joined_rooms and current_room of     *)
(* src-tauri/src/lib.rs, the topics src-tauri/src/p2p_network.rs is        *)
(* subscribed to, and the rooms saved in the vault.                        *)
(*                                                                         *)
(* A handler locks one field of AppState after the other, and other        *)
(* handlers run between two locks; it leaves a command in a channel for    *)
(* the network loop, which subscribes later.  So a handler is written here *)
(* as the list of its remaining steps, one step to each lock it takes.     *)
(***************************************************************************)
EXTENDS Naturals, Sequences, FiniteSets, Functions, Lists

CONSTANTS
    Commands,    \* slots for concurrently running Tauri commands
    Events,      \* the one task that handles P2P events
    RoomIds,     \* room identifiers
    None,
    MaxRestarts, \* bound on process restarts
    MaxCalls     \* bound on the handlers begun

Tasks == Commands \cup {Events}

ASSUME RoomAssumption ==
    /\ Events \notin Commands
    /\ None \notin RoomIds
    /\ MaxRestarts \in Nat
    /\ MaxCalls \in Nat

VARIABLES
    joined,     \* joined_rooms, a list
    current,    \* current_room
    network,    \* the P2P network runs
    queue,      \* JoinRoom and LeaveRoom commands for the network loop
    subscribed, \* subscribed_rooms of the loop
    unlocked,   \* the vault is unlocked
    saved,      \* the rooms in the vault
    todo,       \* the steps each task still has to take
    arg,        \* the room its handler is about
    buf,        \* the rooms it saves or loads
    used,       \* identifiers already in use here or elsewhere
    calls, restarts, \* counters against the bounds
    overlapped, \* history: two handlers have run at the same time
    reloaded    \* history: rooms were dropped or loaded while the loop ran

state == <<joined, current, network, queue, subscribed, unlocked, saved>>
history == <<calls, restarts, overlapped, reloaded>>
vars == <<joined, current, network, queue, subscribed, unlocked, saved,
          todo, arg, buf, used, calls, restarts, overlapped, reloaded>>

RoomOrNone == RoomIds \cup {None}
NoRooms == [joined |-> << >>, current |-> None]

Idle(t) == todo[t] = << >>
AllIdle == \A t \in Tasks : Idle(t)

Init ==
    /\ joined = << >>
    /\ current = None
    /\ network = FALSE
    /\ queue = << >>
    /\ subscribed = {}
    /\ unlocked = FALSE
    /\ saved = NoRooms
    /\ todo = [t \in Tasks |-> << >>]
    /\ arg = [t \in Tasks |-> None]
    /\ buf = [t \in Tasks |-> NoRooms]
    /\ used = {}
    /\ calls = 0
    /\ restarts = 0
    /\ overlapped = FALSE
    /\ reloaded = FALSE

-----------------------------------------------------------------------------
(* The handlers, as the steps they take. *)

\* persist_secure_vault: one field after the other, then the file.
Save == <<"saveJoined", "saveCurrent", "write">>

CreateRoom == <<"add", "focus", "subscribe">> \o Save
JoinRoom == <<"check", "add", "focus", "subscribe">> \o Save
LeaveRoom == <<"remove", "unfocus", "unsubscribe">> \o Save
SwitchRoom == <<"require", "focus">> \o Save
StartNetwork == <<"launch">> \o Save
Invitation == <<"addAbsent", "focus", "subscribe">>

\* Mutant: the rooms are saved after they have been cleared.
LockVaultLate == <<"clearJoined", "clearCurrent">> \o Save \o <<"seal">>

LockVault == Save \o <<"seal", "clearJoined", "clearCurrent">>
UnlockVault == <<"read", "loadJoined", "loadCurrent", "unseal">>

\* A call of a command, or the event task taking up an event.
Begin(t, steps, r) ==
    /\ calls < MaxCalls
    /\ calls' = calls + 1
    /\ Idle(t)
    /\ todo' = [todo EXCEPT ![t] = steps]
    /\ arg' = [arg EXCEPT ![t] = r]
    /\ used' = used \cup ({r} \ {None})
    /\ overlapped' = (overlapped \/ \E u \in Tasks \ {t} : ~Idle(u))
    /\ UNCHANGED <<state, buf, restarts, reloaded>>

\* The frontend creates and joins rooms once it is connected.
CallCreate(t) ==
    \E r \in RoomIds \ used : network /\ Begin(t, CreateRoom, r)

CallJoin(t) == \E r \in RoomIds : network /\ Begin(t, JoinRoom, r)

\* The buttons of the room list, which the page keeps when the vault is locked
\* and the rooms are cleared: any room it has come across.
CallLeave(t) ==
    \E r \in used : Begin(t, LeaveRoom, r)

CallSwitch(t) ==
    \E r \in used : Begin(t, SwitchRoom, r)

CallLock(t) == unlocked /\ Begin(t, LockVault, None)

CallUnlock(t) == ~unlocked /\ Begin(t, UnlockVault, None)

ReceiveInvitation ==
    \E r \in RoomIds : network /\ Begin(Events, Invitation, r)

\* The frontend starts the network once, on an unlocked vault.
CallStart(t) ==
    /\ unlocked
    /\ ~network
    /\ \A u \in Tasks : "launch" \notin Range(todo[u])
    /\ Begin(t, StartNetwork, None)

\* The other commands and events that save: messages, usernames, peers.
CallSave(t) == network /\ Begin(t, Save, None)

-----------------------------------------------------------------------------
(* The steps. *)

\* t takes the step label and goes on to the next one.
Take(t, label) ==
    /\ ~Idle(t)
    /\ Head(todo[t]) = label
    /\ todo' = [todo EXCEPT ![t] = Tail(@)]
    /\ UNCHANGED <<arg, used, calls, restarts, overlapped>>

\* t takes the step label and leaves out the n steps after it.
TakeAndSkip(t, label, n) ==
    /\ ~Idle(t)
    /\ Head(todo[t]) = label
    /\ todo' = [todo EXCEPT ![t] = SubSeq(@, n + 2, Len(@))]
    /\ UNCHANGED <<arg, used, calls, restarts, overlapped>>

IsJoined(r) == r \in Range(joined)

Add(t) ==
    /\ Take(t, "add")
    /\ joined' = Append(joined, arg[t])
    /\ UNCHANGED <<current, network, queue, subscribed, unlocked, saved, buf,
                   reloaded>>

\* Mutant: the room is taken for a new one.
CheckForgotten(t) ==
    /\ Take(t, "check")
    /\ UNCHANGED <<state, buf, reloaded>>

\* join_room looks the room up, and lets go of the list before it adds it.
Check(t) ==
    /\ \/ ~IsJoined(arg[t]) /\ Take(t, "check")
       \/ IsJoined(arg[t]) /\ TakeAndSkip(t, "check", 1)
    /\ UNCHANGED <<state, buf, reloaded>>

\* The handler of an invitation keeps the list locked.
AddAbsent(t) ==
    /\ Take(t, "addAbsent")
    /\ joined' = IF IsJoined(arg[t]) THEN joined ELSE Append(joined, arg[t])
    /\ UNCHANGED <<current, network, queue, subscribed, unlocked, saved, buf,
                   reloaded>>

\* switch_room fails on a room that is not joined.
Require(t) ==
    /\ \/ IsJoined(arg[t]) /\ Take(t, "require")
       \/ ~IsJoined(arg[t]) /\ TakeAndSkip(t, "require", Len(todo[t]) - 1)
    /\ UNCHANGED <<state, buf, reloaded>>

Focus(t) ==
    /\ Take(t, "focus")
    /\ current' = arg[t]
    /\ UNCHANGED <<joined, network, queue, subscribed, unlocked, saved, buf,
                   reloaded>>

Remove(t) ==
    /\ Take(t, "remove")
    /\ joined' = Retain(joined, RoomIds \ {arg[t]})
    /\ UNCHANGED <<current, network, queue, subscribed, unlocked, saved, buf,
                   reloaded>>

Unfocus(t) ==
    /\ Take(t, "unfocus")
    /\ current' = IF current = arg[t] THEN None ELSE current
    /\ UNCHANGED <<joined, network, queue, subscribed, unlocked, saved, buf,
                   reloaded>>

\* The command goes into the channel of the network loop, if there is one.
Enqueue(t, label, type) ==
    /\ Take(t, label)
    /\ queue' = IF network THEN Append(queue, [type |-> type, room |-> arg[t]])
                           ELSE queue
    /\ UNCHANGED <<joined, current, network, subscribed, unlocked, saved, buf,
                   reloaded>>

Subscribe(t) == Enqueue(t, "subscribe", "join")

\* Mutant: the room's topic is not left.
UnsubscribeForgotten(t) ==
    /\ Take(t, "unsubscribe")
    /\ UNCHANGED <<state, buf, reloaded>>

Unsubscribe(t) == Enqueue(t, "unsubscribe", "leave")

\* The new network loop is subscribed to no room.
Launch(t) ==
    /\ Take(t, "launch")
    /\ network' = TRUE
    /\ reloaded' = (reloaded \/ joined # << >>)
    /\ UNCHANGED <<joined, current, queue, subscribed, unlocked, saved, buf>>

\* A locked vault ends the save before it begins.
SaveJoined(t) ==
    /\ \/ /\ unlocked
          /\ Take(t, "saveJoined")
          /\ buf' = [buf EXCEPT ![t].joined = joined]
       \/ /\ ~unlocked
          /\ TakeAndSkip(t, "saveJoined", 2)
          /\ UNCHANGED buf
    /\ UNCHANGED <<state, reloaded>>

SaveCurrent(t) ==
    /\ Take(t, "saveCurrent")
    /\ buf' = [buf EXCEPT ![t].current = current]
    /\ UNCHANGED <<state, reloaded>>

\* Mutant: the current room is not written.
WriteJoinedOnly(t) ==
    /\ Take(t, "write")
    /\ saved' = [joined |-> buf[t].joined]
    /\ UNCHANGED <<joined, current, network, queue, subscribed, unlocked, buf,
                   reloaded>>

Write(t) ==
    /\ Take(t, "write")
    /\ saved' = buf[t]
    /\ UNCHANGED <<joined, current, network, queue, subscribed, unlocked, buf,
                   reloaded>>

\* lock_secure_storage after its save; the topics stay subscribed.
Seal(t) ==
    /\ Take(t, "seal")
    /\ unlocked' = FALSE
    /\ UNCHANGED <<joined, current, network, queue, subscribed, saved, buf,
                   reloaded>>

ClearJoined(t) ==
    /\ Take(t, "clearJoined")
    /\ joined' = << >>
    /\ reloaded' = (reloaded \/ network)
    /\ UNCHANGED <<current, network, queue, subscribed, unlocked, saved, buf>>

ClearCurrent(t) ==
    /\ Take(t, "clearCurrent")
    /\ current' = None
    /\ UNCHANGED <<joined, network, queue, subscribed, unlocked, saved, buf,
                   reloaded>>

\* unlock_secure_storage; nothing is subscribed for the rooms loaded.
Read(t) ==
    /\ Take(t, "read")
    /\ buf' = [buf EXCEPT ![t] = saved]
    /\ UNCHANGED <<state, reloaded>>

LoadJoined(t) ==
    /\ Take(t, "loadJoined")
    /\ joined' = buf[t].joined
    /\ reloaded' = (reloaded \/ network)
    /\ UNCHANGED <<current, network, queue, subscribed, unlocked, saved, buf>>

LoadCurrent(t) ==
    /\ Take(t, "loadCurrent")
    /\ current' = buf[t].current
    /\ UNCHANGED <<joined, network, queue, subscribed, unlocked, saved, buf,
                   reloaded>>

Unseal(t) ==
    /\ Take(t, "unseal")
    /\ unlocked' = TRUE
    /\ UNCHANGED <<joined, current, network, queue, subscribed, saved, buf,
                   reloaded>>

-----------------------------------------------------------------------------
(* The network loop, and the process. *)

RunCommand ==
    /\ queue # << >>
    /\ queue' = Tail(queue)
    /\ LET r == Head(queue).room
       IN  subscribed' = IF Head(queue).type = "join"
                         THEN subscribed \cup {r} ELSE subscribed \ {r}
    /\ UNCHANGED <<joined, current, network, unlocked, saved, todo, arg, buf,
                   used, history>>

Restart ==
    /\ restarts < MaxRestarts
    /\ restarts' = restarts + 1
    /\ joined' = << >>
    /\ current' = None
    /\ network' = FALSE
    /\ queue' = << >>
    /\ subscribed' = {}
    /\ unlocked' = FALSE
    /\ todo' = [t \in Tasks |-> << >>]
    /\ arg' = [t \in Tasks |-> None]
    /\ buf' = [t \in Tasks |-> NoRooms]
    /\ reloaded' = FALSE
    /\ UNCHANGED <<saved, used, calls, overlapped>>

-----------------------------------------------------------------------------

Call(t) ==
    \/ CallCreate(t) \/ CallJoin(t) \/ CallLeave(t) \/ CallSwitch(t)
    \/ CallStart(t) \/ CallLock(t) \/ CallUnlock(t)

Step(t) ==
    \/ Add(t) \/ Check(t) \/ AddAbsent(t) \/ Require(t) \/ Focus(t)
    \/ Remove(t) \/ Unfocus(t) \/ Subscribe(t) \/ Unsubscribe(t)
    \/ Launch(t)
    \/ SaveJoined(t) \/ SaveCurrent(t) \/ Write(t)
    \/ Seal(t) \/ ClearJoined(t) \/ ClearCurrent(t)
    \/ Read(t) \/ LoadJoined(t) \/ LoadCurrent(t) \/ Unseal(t)

Next ==
    \/ \E t \in Commands : Call(t)
    \/ \E t \in Tasks : CallSave(t) \/ Step(t)
    \/ ReceiveInvitation \/ RunCommand \/ Restart

Spec == Init /\ [][Next]_vars

-----------------------------------------------------------------------------
(* Properties. *)

Steps == {"add", "check", "addAbsent", "require", "focus", "remove",
          "unfocus", "subscribe", "unsubscribe", "launch", "saveJoined",
          "saveCurrent", "write", "seal", "clearJoined", "clearCurrent",
          "read", "loadJoined", "loadCurrent", "unseal"}
RoomData == [joined : Seq(RoomIds), current : RoomOrNone]

\* The type invariant.
TypeOK ==
    /\ joined \in Seq(RoomIds)
    /\ current \in RoomOrNone
    /\ queue \in Seq([type : {"join", "leave"}, room : RoomIds])
    /\ subscribed \in SUBSET RoomIds
    /\ network \in BOOLEAN /\ unlocked \in BOOLEAN
    /\ saved \in RoomData
    /\ todo \in [Tasks -> Seq(Steps)]
    /\ arg \in [Tasks -> RoomOrNone]
    /\ buf \in [Tasks -> RoomData]
    /\ used \in SUBSET RoomIds
    /\ calls \in 0..MaxCalls /\ restarts \in 0..MaxRestarts
    /\ overlapped \in BOOLEAN /\ reloaded \in BOOLEAN

NoDuplicates(list) == Len(list) = Cardinality(Range(list))

\* As long as handlers run one at a time: no room is listed twice, the
\* current room is a joined one, in memory and in the vault, whatever is
\* joined, left, invited to, locked, unlocked and restarted (lib.rs:650-667,
\* 954-1124).
RoomsConsistent ==
    ~overlapped =>
        /\ NoDuplicates(joined) /\ NoDuplicates(saved.joined)
        /\ saved.current \in Range(saved.joined) \cup {None}
        /\ AllIdle => current \in Range(joined) \cup {None}

\* As long as handlers run one at a time and the loop was started with no
\* room and the vault neither locked nor unlocked since: when everything is
\* done, the topics subscribed are those of the joined rooms (lib.rs:972-979,
\* 1025-1032, 1064-1071, p2p_network.rs:226-247).
TopicsFollowRooms ==
    (~overlapped /\ ~reloaded /\ network /\ AllIdle /\ queue = << >>)
        => subscribed = Range(joined)

\* As long as handlers run one at a time, a save that drops a room from the
\* vault is that of a handler about this room, after the room was taken off
\* the list in memory: only leaving it does so (lib.rs:381-405, 1043-1082).
SavedUntilLeft ==
    [][~overlapped =>
         \A r \in Range(saved.joined) \ Range(saved'.joined) :
            \E t \in Tasks : ~Idle(t) /\ arg[t] = r /\ ~IsJoined(r)]_vars
=============================================================================

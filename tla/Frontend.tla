------------------------------ MODULE Frontend ------------------------------
(***************************************************************************)
(* What the page of src/main.ts shows: the messages of the current room    *)
(* and the encryption switch, with the commands and the event task of      *)
(* src-tauri/src/lib.rs they depend on.                                    *)
(*                                                                         *)
(* The page calls a command and goes on; the command runs in the           *)
(* background, one step between two awaits, and its answer comes back      *)
(* whenever it does.  Events reach the page in the order they are emitted, *)
(* before or after the answers.  The page itself runs one handler at a     *)
(* time.  Rooms are modelled in Rooms, the vault in SecureVault and        *)
(* envelopes in Messaging: here a room command succeeds or fails, a save   *)
(* is one step, and a message is published or not.                         *)
(***************************************************************************)
EXTENDS Naturals, Sequences, SequencesExt

CONSTANTS
    Rooms,
    None,
    Starts,       \* which of the initial states below
    MaxMessages,  \* bound on the messages sent and received
    MaxClicks,    \* bound on the user's clicks and the invitations
    MaxToggles,   \* bound on the clicks on the encryption switch
    MaxFaults     \* bound on the saves that fail

ASSUME FrontendAssumption ==
    /\ None \notin Rooms
    /\ Starts \subseteq {"new", "running"}
    /\ {MaxMessages, MaxClicks, MaxToggles, MaxFaults} \subseteq Nat

VARIABLES
    history,   \* messages in memory
    enabled,   \* encryption_enabled in memory
    unlocked,  \* the vault is open
    vault,     \* what is in the vault, or None
    connected, \* the network is started, and the page knows
    task,      \* the message the event task handles, or None
    calls,     \* commands whose answers the page waits for
    events,    \* emitted and not yet handled by the page
    room,      \* currentRoom of the page
    pane,      \* messages the page shows
    showsOn,   \* encryptionEnabled of the page: "Messages are encrypted"
    checkbox,  \* encryptionToggle of the page
    count, clicks, toggles, faults,
    failed,    \* history: messages whose send failed
    unsettled, \* history: the last toggle overlapped with another one, or a
               \* vault was loaded since
    exposed    \* history: messages sent in the clear by a click on a page
               \* that showed encryption to be on

memory == <<history, enabled, unlocked>>
page == <<room, pane, showsOn, checkbox>>
counters == <<count, clicks, toggles, faults>>
ghosts == <<failed, unsettled, exposed>>
vars == <<memory, vault, connected, task, calls, events, page, counters, ghosts>>

Messages == [id : 0..MaxMessages, room : Rooms]
ASSUME NoneAssumption == None \notin Messages

Vaults == [messages : SUBSET Messages, enabled : BOOLEAN]
InRoom(messages, r) == {m \in messages : m.room = r}

\* A command: the room it is about, the messages it carries, whether the
\* switch is to be on, or was for its message, and what the page showed.
Call(what) == [what |-> what, step |-> "start", room |-> None, got |-> {},
               on |-> FALSE, shown |-> FALSE]
Event(what, r, messages, on) ==
    [what |-> what, room |-> r, got |-> messages, on |-> on]

OldMessages == {[id |-> 0, room |-> r] : r \in Rooms}

\* A new process, with the vault an earlier one left, if there was one.
NewProcess ==
    /\ history = {}
    /\ unlocked = FALSE
    /\ \/ vault = None
       \/ \E on \in BOOLEAN :
             vault = [messages |-> OldMessages, enabled |-> on]
    /\ connected = FALSE
    /\ room = None
    /\ pane = {}

\* A process that has opened a vault with encryption on and joined the
\* network, and shows a room.
RunningProcess ==
    /\ history = OldMessages
    /\ unlocked = TRUE
    /\ vault = [messages |-> OldMessages, enabled |-> TRUE]
    /\ connected = TRUE
    /\ room \in Rooms
    /\ pane = InRoom(history, room)

Init ==
    /\ \/ "new" \in Starts /\ NewProcess
       \/ "running" \in Starts /\ RunningProcess
    /\ enabled = TRUE
    /\ task = None
    /\ calls = << >>
    /\ events = << >>
    /\ showsOn = TRUE
    /\ checkbox = TRUE
    /\ count = 0
    /\ clicks = 0
    /\ toggles = 0
    /\ faults = 0
    /\ failed = {}
    /\ unsettled = FALSE
    /\ exposed = {}

At(i, what, step) == calls[i].what = what /\ calls[i].step = step
UnderWay(whats) == \E i \in DOMAIN calls : calls[i].what \in whats
Goto(i, step) == calls' = [calls EXCEPT ![i].step = step]
Ends(i) == calls' = RemoveAt(calls, i)
Emit(e) == events' = Append(events, e)

-----------------------------------------------------------------------------
(* Clicks. *)

Click(c) ==
    /\ clicks < MaxClicks
    /\ clicks' = clicks + 1
    /\ calls' = Append(calls, c)
    /\ UNCHANGED <<memory, vault, connected, task, events, room, pane, showsOn,
                   faults, failed, exposed>>

\* Mutant: a message can be sent without a room.
ClickSendAnywhere ==
    /\ connected
    /\ count < MaxMessages
    /\ count' = count + 1
    /\ Click([Call("send") EXCEPT
                !.got = {[id |-> count', room |-> room]}, !.shown = showsOn])
    /\ UNCHANGED <<checkbox, toggles, unsettled>>

ClickSend ==
    /\ connected
    /\ room # None
    /\ count < MaxMessages
    /\ count' = count + 1
    /\ Click([Call("send") EXCEPT
                !.got = {[id |-> count', room |-> room]}, !.shown = showsOn])
    /\ UNCHANGED <<checkbox, toggles, unsettled>>

\* create_room and join_room, or switch_room for a room on the list.
ClickEnter(r) ==
    /\ Click([Call("enter") EXCEPT !.room = r])
    /\ UNCHANGED <<checkbox, count, toggles, unsettled>>

ClickLeave(r) ==
    /\ Click([Call("leave") EXCEPT !.room = r])
    /\ UNCHANGED <<checkbox, count, toggles, unsettled>>

ClickToggle ==
    /\ connected
    /\ toggles < MaxToggles
    /\ toggles' = toggles + 1
    /\ checkbox' = ~checkbox
    /\ unsettled' = UnderWay({"toggle"})
    /\ Click([Call("toggle") EXCEPT !.on = checkbox'])
    /\ UNCHANGED count

Emitted(what) == \E k \in DOMAIN events : events[k].what = what

\* One of the two buttons is enabled.  The page has been told how the last
\* command ended before the user has typed a password again.
ClickVault ==
    /\ ~UnderWay({"unlock", "lock"})
    /\ ~Emitted("locked")
    /\ Click(Call(IF unlocked THEN "lock" ELSE "unlock"))
    /\ UNCHANGED <<checkbox, count, toggles, unsettled>>

ClickConnect ==
    /\ unlocked
    /\ ~connected
    /\ ~UnderWay({"connect"})
    /\ Click(Call("connect"))
    /\ UNCHANGED <<checkbox, count, toggles, unsettled>>

-----------------------------------------------------------------------------
(* Saving. *)

Saved == IF unlocked THEN [messages |-> history, enabled |-> enabled] ELSE vault

\* persist_secure_vault, which leaves a locked vault alone.
Save == vault' = Saved /\ UNCHANGED faults
SaveFails ==
    /\ unlocked
    /\ faults < MaxFaults
    /\ faults' = faults + 1
    /\ UNCHANGED vault

-----------------------------------------------------------------------------
(* The commands. *)

\* Most commands end with a save, of whose success the page makes nothing.
StartNetwork(i) ==
    /\ At(i, "connect", "start")
    /\ \/ connected' = TRUE /\ (Save \/ SaveFails)
       \/ UNCHANGED <<connected, vault, faults>>
    /\ Ends(i)
    /\ UNCHANGED <<memory, task, events, page, count, clicks, toggles, ghosts>>

\* send_p2p_message looks at the switch and keeps the message,
Keep(i) ==
    /\ At(i, "send", "start")
    /\ history' = history \cup calls[i].got
    /\ calls' = [calls EXCEPT ![i].step = "publish", ![i].on = enabled]
    /\ UNCHANGED <<enabled, unlocked, vault, connected, task, events, page,
                   counters, ghosts>>

\* and then publishes it, and tells the page,
Publish(i) ==
    LET c == calls[i]
    IN  /\ At(i, "send", "publish")
        /\ Emit(Event("message", None, c.got, FALSE))
        /\ Goto(i, "save")
        /\ exposed' = IF c.shown /\ ~c.on THEN exposed \cup c.got ELSE exposed
        /\ UNCHANGED <<memory, vault, connected, task, page, counters, failed,
                       unsettled>>

\* or fails: no peer's key, or no peer.
PublishFails(i) ==
    /\ At(i, "send", "publish")
    /\ Ends(i)
    /\ failed' = failed \cup calls[i].got
    /\ UNCHANGED <<memory, vault, connected, task, events, page, counters,
                   unsettled, exposed>>

SendSaves(i) ==
    /\ At(i, "send", "save")
    /\ Save \/ SaveFails
    /\ Ends(i)
    /\ UNCHANGED <<memory, connected, task, events, page, count, clicks,
                   toggles, ghosts>>

\* A room command tells the page and saves, or fails before it does.
RoomCommand(i) ==
    /\ calls[i].what \in {"enter", "leave"}
    /\ \/ /\ Emit(Event(calls[i].what, calls[i].room, {}, FALSE))
          /\ Save \/ SaveFails
       \/ UNCHANGED <<events, vault, faults>>
    /\ Ends(i)
    /\ UNCHANGED <<memory, connected, task, page, count, clicks, toggles, ghosts>>

\* Mutant: the page is told once the switch is saved, and not before.
ToggleUntold(i) ==
    /\ At(i, "toggle", "start")
    /\ enabled' = calls[i].on
    /\ Goto(i, "save")
    /\ UNCHANGED <<history, unlocked, vault, connected, task, events, page,
                   counters, ghosts>>

Toggle(i) ==
    /\ At(i, "toggle", "start")
    /\ enabled' = calls[i].on
    /\ Emit(Event("toggled", None, {}, calls[i].on))
    /\ Goto(i, "save")
    /\ UNCHANGED <<history, unlocked, vault, connected, task, page, counters,
                   ghosts>>

\* The page is told how the save went.
ToggleSaved(i) ==
    /\ At(i, "toggle", "save")
    /\ \/ Save /\ Goto(i, "saved")
       \/ SaveFails /\ Goto(i, "refused")
    /\ UNCHANGED <<memory, connected, task, events, page, count, clicks,
                   toggles, ghosts>>

GetMessages(i) ==
    /\ At(i, "load", "start")
    /\ calls' = [calls EXCEPT ![i].step = "done",
                              ![i].got = InRoom(history, calls[i].room)]
    /\ UNCHANGED <<memory, vault, connected, task, events, page, counters, ghosts>>

-----------------------------------------------------------------------------
(* Unlocking and locking. *)

\* The wrong password, or no vault and none could be written.
UnlockFails(i) ==
    /\ At(i, "unlock", "start")
    /\ Ends(i)
    /\ UNCHANGED <<memory, vault, connected, task, events, page, counters, ghosts>>

CreateVault(i) ==
    /\ At(i, "unlock", "start")
    /\ vault = None
    /\ vault' = [messages |-> history, enabled |-> enabled]
    /\ unlocked' = TRUE
    /\ Goto(i, "done")
    /\ UNCHANGED <<history, enabled, connected, task, events, page, counters,
                   ghosts>>

LoadMessages(i) ==
    /\ At(i, "unlock", "start")
    /\ vault # None
    /\ history' = vault.messages
    /\ calls' = [calls EXCEPT ![i].step = "switch", ![i].on = vault.enabled]
    /\ UNCHANGED <<enabled, unlocked, vault, connected, task, events, page,
                   counters, ghosts>>

\* The switch and the rest, and the vault is open.
LoadSwitch(i) ==
    /\ At(i, "unlock", "switch")
    /\ enabled' = calls[i].on
    /\ unlocked' = TRUE
    /\ unsettled' = TRUE
    /\ Goto(i, "done")
    /\ UNCHANGED <<history, vault, connected, task, events, page, counters,
                   failed, exposed>>

LockSaves(i) ==
    /\ At(i, "lock", "start")
    /\ \/ Save /\ Goto(i, "shut")
       \/ SaveFails /\ Ends(i)
    /\ UNCHANGED <<memory, connected, task, events, page, count, clicks,
                   toggles, ghosts>>

Shut(i) ==
    /\ At(i, "lock", "shut")
    /\ unlocked' = FALSE
    /\ Goto(i, "clear")
    /\ UNCHANGED <<history, enabled, vault, connected, task, events, page,
                   counters, ghosts>>

ClearHistory(i) ==
    /\ At(i, "lock", "clear")
    /\ history' = {}
    /\ Emit(Event("locked", None, {}, FALSE))
    /\ Goto(i, "done")
    /\ UNCHANGED <<enabled, unlocked, vault, connected, task, page, counters,
                   ghosts>>

-----------------------------------------------------------------------------
(* The event task. *)

Receive(r) ==
    /\ connected
    /\ task = None
    /\ count < MaxMessages
    /\ count' = count + 1
    /\ task' = [id |-> count', room |-> r]
    /\ history' = history \cup {task'}
    /\ UNCHANGED <<enabled, unlocked, vault, connected, calls, events, page,
                   clicks, toggles, faults, ghosts>>

\* The message is saved, or not, and then shown.
TellReceived ==
    /\ task # None
    /\ Save \/ SaveFails
    /\ Emit(Event("message", None, {task}, FALSE))
    /\ task' = None
    /\ UNCHANGED <<memory, connected, calls, page, count, clicks, toggles, ghosts>>

Invited(r) ==
    /\ connected
    /\ task = None
    /\ clicks < MaxClicks
    /\ clicks' = clicks + 1
    /\ Emit(Event("enter", r, {}, FALSE))
    /\ UNCHANGED <<memory, vault, connected, task, calls, page, count, toggles,
                   faults, ghosts>>

-----------------------------------------------------------------------------
(* The page. *)

\* Mutant: a message is shown whatever its room.
DisplayAnywhere(messages) == pane' = pane \cup messages

\* displayMessage drops the messages of other rooms.
Display(messages) == pane' = pane \cup InRoom(messages, room)

\* Mutant: the messages are asked for before the room is changed.
ClearAndLoadLate(r, waiting) ==
    /\ pane' = {}
    /\ calls' = IF room = None THEN waiting
                ELSE Append(waiting, [Call("load") EXCEPT !.room = room])

\* clearAndLoadMessages, with r as the current room and other calls waiting.
ClearAndLoad(r, waiting) ==
    /\ pane' = {}
    /\ calls' = IF r = None THEN waiting
                ELSE Append(waiting, [Call("load") EXCEPT !.room = r])

\* The listeners.
OnEnter(e) ==
    /\ e.what = "enter"
    /\ room' = e.room
    /\ ClearAndLoad(e.room, calls)
    /\ UNCHANGED <<showsOn, checkbox>>

OnLeave(e) ==
    /\ e.what = "leave"
    /\ IF room = e.room THEN room' = None /\ pane' = {}
                        ELSE UNCHANGED <<room, pane>>
    /\ UNCHANGED <<calls, showsOn, checkbox>>

OnMessage(e) ==
    /\ e.what = "message"
    /\ Display(e.got)
    /\ UNCHANGED <<calls, room, showsOn, checkbox>>

OnToggled(e) ==
    /\ e.what = "toggled"
    /\ showsOn' = e.on
    /\ UNCHANGED <<calls, room, pane, checkbox>>

OnLocked(e) ==
    /\ e.what = "locked"
    /\ pane' = {}
    /\ UNCHANGED <<calls, room, showsOn, checkbox>>

Listen ==
    /\ events # << >>
    /\ LET e == Head(events)
       IN  OnEnter(e) \/ OnLeave(e) \/ OnMessage(e) \/ OnToggled(e) \/ OnLocked(e)
    /\ events' = Tail(events)
    /\ UNCHANGED <<memory, vault, connected, task, counters, ghosts>>

\* The answers.
Loaded(i) ==
    /\ At(i, "load", "done")
    /\ Display(calls[i].got)
    /\ Ends(i)
    /\ UNCHANGED <<room, showsOn, checkbox>>

\* The list of rooms comes in between, and changes nothing here.
Unlocked(i) ==
    /\ At(i, "unlock", "done")
    /\ ClearAndLoad(room, RemoveAt(calls, i))
    /\ UNCHANGED <<room, showsOn, checkbox>>

Locked(i) ==
    /\ At(i, "lock", "done")
    /\ pane' = {}
    /\ Ends(i)
    /\ UNCHANGED <<room, showsOn, checkbox>>

\* A switch that could not be saved is put back to what the page shows.
Toggled(i) ==
    /\ \/ At(i, "toggle", "saved") /\ showsOn' = calls[i].on /\ UNCHANGED checkbox
       \/ At(i, "toggle", "refused") /\ checkbox' = showsOn /\ UNCHANGED showsOn
    /\ Ends(i)
    /\ UNCHANGED <<room, pane>>

Answered(i) ==
    /\ Loaded(i) \/ Unlocked(i) \/ Locked(i) \/ Toggled(i)
    /\ UNCHANGED <<memory, vault, connected, task, events, counters, ghosts>>

-----------------------------------------------------------------------------

UserClicks ==
    \/ ClickSend \/ ClickToggle \/ ClickVault \/ ClickConnect
    \/ \E r \in Rooms : ClickEnter(r) \/ ClickLeave(r)

Run(i) ==
    \/ StartNetwork(i) \/ Keep(i) \/ Publish(i) \/ PublishFails(i) \/ SendSaves(i)
    \/ RoomCommand(i) \/ Toggle(i) \/ ToggleSaved(i) \/ GetMessages(i)
    \/ UnlockFails(i) \/ CreateVault(i) \/ LoadMessages(i) \/ LoadSwitch(i)
    \/ LockSaves(i) \/ Shut(i) \/ ClearHistory(i)

Next ==
    \/ UserClicks
    \/ \E i \in DOMAIN calls : Run(i) \/ Answered(i)
    \/ \E r \in Rooms : Receive(r) \/ Invited(r)
    \/ TellReceived
    \/ Listen

Spec == Init /\ [][Next]_vars

-----------------------------------------------------------------------------
(* Properties. *)

Calls ==
    [what : {"send", "enter", "leave", "toggle", "unlock", "lock", "connect",
             "load"},
     step : {"start", "save", "publish", "switch", "shut", "clear", "done",
             "saved", "refused"},
     room : Rooms \cup {None}, got : SUBSET Messages, on : BOOLEAN,
     shown : BOOLEAN]
Events ==
    [what : {"enter", "leave", "message", "toggled", "locked"},
     room : Rooms \cup {None}, got : SUBSET Messages, on : BOOLEAN]

\* The type invariant; every message is one of a room.
TypeOK ==
    /\ history \subseteq Messages
    /\ enabled \in BOOLEAN
    /\ unlocked \in BOOLEAN
    /\ vault \in Vaults \cup {None}
    /\ connected \in BOOLEAN
    /\ task \in Messages \cup {None}
    /\ calls \in Seq(Calls)
    /\ events \in Seq(Events)
    /\ room \in Rooms \cup {None}
    /\ pane \subseteq Messages
    /\ showsOn \in BOOLEAN
    /\ checkbox \in BOOLEAN
    /\ <<count, clicks, toggles, faults>> \in Nat \X Nat \X Nat \X Nat
    /\ failed \subseteq Messages
    /\ unsettled \in BOOLEAN
    /\ exposed \subseteq Messages

\* The page shows no message of another room than the current one, however
\* late the answer to a request made for an earlier room (main.ts:712-714,
\* 823-833).
PaneInRoom == pane \subseteq InRoom(pane, room)

\* The message is in an event, with the event task, with its send, or in the
\* answer to a request for the room.
OnItsWay(m) ==
    \/ task = m
    \/ \E k \in DOMAIN events : events[k].what = "message" /\ m \in events[k].got
    \/ \E i \in DOMAIN calls :
          \/ At(i, "send", "publish") /\ m \in calls[i].got
          \/ At(i, "load", "start") /\ m.room = calls[i].room
          \/ At(i, "load", "done") /\ m \in calls[i].got

\* While the vault is open, a message of the current room is shown or on its
\* way to be shown, unless its send failed: none falls between the clearing
\* of the page, the request for the history and the events of new messages
\* (lib.rs:553-567, 865-945, main.ts:294-300, 823-833).
NothingHidden ==
    (unlocked /\ ~UnderWay({"lock", "unlock"})) =>
        \A m \in InRoom(history, room) \ failed : m \in pane \/ OnItsWay(m)

\* Once the toggles are over, and the last did not overlap with another and
\* no vault was loaded since, the page shows whether messages are encrypted;
\* and so does the checkbox if every save succeeded (lib.rs:774-791,
\* main.ts:276-281, 944-955).
SwitchShown ==
    (/\ ~unsettled
     /\ ~UnderWay({"toggle"})
     /\ ~Emitted("toggled")) =>
        /\ showsOn = enabled
        /\ faults = 0 => checkbox = enabled

-----------------------------------------------------------------------------
(* What the page says and the code does not do. *)

\* "Messages are encrypted" (main.ts:957): no message is sent in the clear by
\* a click on a page that says so.
SentAsShown == exposed = {}
=============================================================================

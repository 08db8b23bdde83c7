# WireTalk in TLA+

TLA+ modules for WireTalk, a peer-to-peer chat application: a TypeScript
frontend (`src/main.ts`), a Tauri backend in Rust (`src-tauri/src/lib.rs`), a
libp2p network (`p2p_network.rs`), an encrypted vault (`secure_storage.rs`,
`encryption.rs`) and a WireGuard manager (`wireguard.rs`). Each module is
translated from the code; the runs check it with TLC on small instances, and
the proof modules prove with TLAPS what holds for every size.

## 1. The system

| Component | State | Operations | Interacts with |
|---|---|---|---|
| Application state, encrypted vault (`lib.rs`, `secure_storage.rs`) | `AppState`: a record of tokio mutexes (messages, rooms, current room, identity, known users, user name, encryption switch, storage key and salt); `secure_vault.json` | `unlock_secure_storage`, `lock_secure_storage`, `persist_secure_vault` at the end of nearly every command and event | every command, the event task, the file system |
| P2P network (`p2p_network.rs`) | the swarm, `connected_peers`, `subscribed_rooms`, two channels | swarm events, `P2PCommand`s | libp2p; events to the event task, commands from the handlers |
| Event task (`start_p2p_network` in `lib.rs`) | none of its own | one handler for each `P2PEvent` | takes the same mutexes as the commands, emits to the frontend |
| Key exchange (`lib.rs`, `p2p_network.rs`, `encryption.rs`) | `message_crypto`: identity, peer keys and secrets | `PeerSubscribed`, `KeyExchangeReceived`, `SendKeyExchange` | the other nodes, over gossipsub |
| Rooms (`lib.rs`, `p2p_network.rs`) | `joined_rooms`, `current_room`, the topics of the loop, the rooms in the vault | create, join, leave, switch, invite | the loop's command channel, the vault |
| Chat messages (`lib.rs`, `encryption.rs`) | history, replay cache (`seen_encrypted_messages`), the messages in the channels | `send_p2p_message`, `MessageReceived` | identity and peer keys, peer list, rooms, vault, the other nodes |
| WireGuard (`wireguard.rs`) | `WireGuardManager`: configuration and path; the file; the kernel's interface | setup, teardown, startup cleanup, add and remove a peer, status | `wg`, `wg-quick`, `ip`; the panel of the frontend |
| Frontend (`main.ts`) | `isUnlocked`, `currentRoom`, `encryptionEnabled`, `wgActive`, the messages, rooms and peers it shows | buttons, event listeners, the answers to its calls | Tauri commands and events |

**What is hard.** Tauri runs commands concurrently with each other and with the
event task. No lock covers a handler: it takes one mutex after the other, so
two handlers interleave at each lock and at each await. Every handler that
changes something saves the whole vault, from a copy taken field by field, and
overwrites the only file in place. `message_crypto` alone is held across
awaits. The process may stop anywhere. Peers may have several connections at
once; links go down with messages on them; gossipsub forwards; a publication
fails without neighbours. Room state is kept in four places by hand. The page
calls commands without waiting for one before calling the next, and the answers
come in any order, between events. An interface in the kernel outlives the process.
The list
of hazards in `PROJECT.json` gives each one its line.

**What correctness means.**
- Vault: what was saved can be opened, with the password, and is still there;
  unlocking precedes no save that could lose it; handlers return.
- Peer list: it lists connected peers and what the frontend sees follows it.
- Keys: neighbours come to hold each other's keys, and the exchange ends.
- Rooms: the list, the current room, the topics and the vault agree.
- Messages: read once, by those they were encrypted for, and an envelope reaches a
  node that can read it.
- WireGuard: the file is the configuration, the interface has no peers but the
  configuration's, and one left from a previous run is shown, so that it can be torn down.
- Frontend: it shows the messages of its room, all of them, and whether they are
  encrypted.

## 2. The modules

| Module | Models | Runs |
|---|---|---|
| `SecureVault` (`MCSecureVault`) | vault, mutexes, handlers as far as they touch messages, identity and file | `vault_*` |
| `SecureVault_proofs` | theorems about `SecureVault` | TLAPS |
| `PeerConnections` (`MCPeerConnections`) | the peer list and its two ways to the page: events, and the page's own requests | `peer_*` |
| `PeerConnections_proofs` | theorems about `PeerConnections` | TLAPS |
| `KeyAgreement` | what the key exchange promises: an abstract specification | by refinement |
| `KeyExchange` (`MCKeyExchange`) | the exchange between nodes; implements `KeyAgreement` | `keys_*` |
| `KeyExchange_proofs` | theorems about `KeyExchange` | TLAPS |
| `Lists`, `Lists_proofs` | `Vec::retain`, used by `Rooms` and `Messaging`; lemmas about it, about induction and counting | TLAPS |
| `Rooms` (`MCRooms`) | rooms in memory, loop, vault | `rooms_consistent` |
| `Rooms_proofs` | theorems about `Rooms` | TLAPS |
| `Mailbox` | what encrypted chat promises: an abstract specification | by refinement |
| `Messaging` (`MCMessaging`) | chat between nodes, over `KeyExchange`, which it extends; implements `Mailbox` | `messaging` |
| `Messaging_proofs` | theorems about `Messaging`, over `KeyExchange_proofs` | TLAPS |
| `WireGuard` (`MCWireGuard`) | the manager, its commands, the panel | `wireguard` |
| `WireGuard_proofs` | theorems about `WireGuard` | TLAPS |
| `Frontend` (`MCFrontend`) | the page's room, messages and encryption switch | `frontend`, `encryption_shown` |
| `Frontend_proofs` | theorems about `Frontend` | TLAPS |

### SecureVault

One process. `messages`, `crypto` and `storage` are fields of `AppState`,
`cryptoOwner` says which task holds `message_crypto` across an await, `file` is
`secure_vault.json`. Tasks are the slots of `Commands` and the one event task
`Events`. `pc`, `op` and `buf` are a handler's position, name and locals. An
action is what a handler does between two points where another task may run:

- `SendMessage`, `SendEncrypted` / `SendPlain`, `Publish`: `send_p2p_message`;
- `ReceivePlain`, `ReceiveEncrypted`, `DecryptMessage`: `MessageReceived`;
- `ReceiveKeyExchange`, `AddPeerKey`, `ReplyKey`: `KeyExchangeReceived`;
- `StartNetwork`, `TakeIdentity`: `start_p2p_network`;
- `SaveOther`: handlers that change only fields left out and save;
- `CloneStorage`, `SnapshotMessages`, `SnapshotCrypto`, `OpenVaultFile`,
  `WriteVaultFile`, `PersistFails`: `persist_secure_vault`, `build_vault_data`
  and `write_file`;
- `UnlockExisting`, `ReadVault`, `LoadMessages`, `LoadCrypto`, `StoreKey`:
  unlocking; `CreateVault` goes through the save and `StoreKey`;
- `LockVault`, then the save, `DropKey`, `ClearMessages`, `ClearCrypto`,
  `LockReturns`: locking;
- `Restart`: the process ends anywhere and begins anew.

Of the eight fields of the vault the model keeps the history (a field that
grows) and the identity (one that must not change); the others are saved and
loaded by the same statements. A key is the pair of password and salt. A file
is absent, empty (truncated), intact or corrupt. Two overlapping writes leave
what overwriting from offset 0 leaves: the tail of the longer content survives
behind a shorter one. `Fits` orders contents by size only where that is
certain; where it is not, both outcomes are possible.

The user acts through the frontend, so calls are guarded by what its buttons
allow (`uiUnlocked`). History variables: `written` is all an intact file has
ever held, `overlapped` that two tasks were between taking a copy and writing
it (or loading or clearing) at the same time, `torn` that a write stopped half
way.

### PeerConnections

The loop's `connected_peers` with a count of open connections for each peer,
the unbounded channel of events, and what comes of them on the page: `announced` is whom
the user was last told of, `view` the last list an event brought, `shown` the list on the
page. After `peer_joined`, `peer_left`, `key_exchange_received` and the start of the network
the page also asks the loop for the list (`updatePeersList`): `EmitEvent` and `AskList` send
the question, `AnswerRequest` answers it, and `ShowAnswer` shows the answer, in any order
with other answers and events, over whatever is shown. `late` remembers that the page shows
an answer that was no longer the list when it came: only the next event or answer puts that
right. Events are taken to be shown as they are emitted. The event task may come to wait for
itself in the handler of a key exchange (see below), after which it emits nothing
(`blocked`).

### KeyAgreement and KeyExchange

`KeyAgreement`: nodes meet; a key is learnt only of a node that can be reached
through meetings, is lost only with all others when a vault is locked, and under
fairness everyone learns the keys of those met. `KeyExchange` has, for each node,
the network loop (`ReceiveSubscription`, `ReceiveKey`, `PublishKey`,
`PublishFails`), the event task (`HandleSubscribed`, `HandleKey`), the steps of
locking and unlocking, and the two channels between loop and task; between nodes it
has links that come up (`Connect`) and go down (`Disconnect`). Messages of a link arrive in order; each
key message is signed and numbered by its source and delivered once; a node may
forward it to any of its neighbours. The refinement maps `known` to the pairs of
a node and a key it holds. Keys stand for their owners: fingerprints and
signatures, which bind the two, are not modelled.

`phase` says where a node's vault stands, since that decides what the handlers
do. With the vault unlocked the handler of the first key blocks in its save. A
lock saves the keys (`SealVault`) and then clears `message_crypto`
(`ClearCrypto`); without it keys and subscriptions are dropped; unlocking loads the
saved keys (`LoadVault`) before it stores the vault's key (`StoreKey`). A node in
phase "late" holds an identity with its vault locked, which happens when a lock
races with `start_p2p_network`; its exchange works, and it is
for such nodes that the liveness of the agreement is checked. Unlocking one of
those, which may bring back an older identity, is not modelled, and neither is a
change of identity in general. A node that is started again has a new libp2p
peer id and is another node.
`HandleSubscribed` is one step, though the code has let go of `message_crypto`
(`lib.rs:701`) before it puts the key into the channel: the task handles nothing else in
between, and only a lock could come there, after which the key in the channel is sent just
the same.

### Rooms

A handler is the list of its remaining steps (`todo`), one step to each mutex it
takes, so `JoinRoom`, `LeaveRoom`, `LockVault` and the others read like the
functions they model. `joined` is a list, as in the code: duplicates are possible.
The loop subscribes later than the handler returns (`queue`, `RunCommand`). The page keeps
its rooms when the vault is locked and the list in memory cleared, so it may leave, or switch
to, any room it has come across (`CallLeave`, `CallSwitch`).

`join_room` cuts eight bytes off the identifier for the room's name (`lib.rs:1011`) and would
panic on a shorter one; the page only passes UUIDs (`main.ts:640-652`), so this is not
modelled. A save looks at the storage, then at the first of the fields (`lib.rs:191`, `153`);
`SaveJoined` is both, which differs only if a lock runs in between, and what is stated of
saves is stated for handlers that do not overlap.

### Mailbox and Messaging

`Mailbox`: a message is posted, in the clear or to be sealed; it is sealed at most
once, for others; only those it is sealed for read it, each once at most.
`Messaging` extends `KeyExchange`: its steps stay as they are, on the same channels,
wires and event tasks, and chat is added beside them.

- `SendPlain`, `SendSecret`, `AskPeers`, `Seal`: `send_p2p_message`. A secret send
  takes `message_crypto`, asks the loop for the peers over the command channel and
  waits for the answer with the lock held, then puts one envelope into the channel for
  each listed peer with a key, and none when there is none.
- `AnswerPeers`, `PublishChat`, `ReceiveChat`: the loop.
- `HandlePlain`, `HandleDropped`, `HandleEnvelope`: `MessageReceived`, with the replay
  cache; an envelope that cannot be decrypted leaves a placeholder in the history and
  its message is lost for good. A message that is not encrypted takes no
  `message_crypto` and is shown even while a send holds it.
- `Redeliver`: gossipsub delivering once more what its own cache has forgotten.

A send that holds `message_crypto` keeps the event task and the lock of the vault
waiting (`Holds`): the composition with `KeyExchange` is about this. The instance
begins with two friends whose exchange is over. Membership of the room is fixed for a
behaviour (joining is in `Rooms`), the replay cache keeps what it has (its thirty
minutes do not pass), and a node whose vault is unlocked blocks at the first key, as
in `KeyExchange`. The refinement maps `read` to the posts a node shows other than as
placeholders.

### WireGuard

`config` is `WireGuardManager.config`, `file` what is at its path, `iface` the
kernel's interface of the name `INTERFACE_NAME`, with the peers `wg set` gave it. The
manager is behind one mutex. The page calls commands without waiting, and nothing orders
them on their way: `waiting` counts how many of each are under way, `Acquire` lets any one of
them have the mutex, and `step` is between which programs it stands. Each of `Setup`,
`BringUp`, `QuickDown`, `Delete`, `AddPeer`, `SavePeers` and so on runs one program or file
operation, with its failures (`Fault`). The process may end between two and be started again
(`Restart`), which leaves the interface where it was. What sets the panel (the answers
of the status, the answer and the event of a teardown) goes into `shows` and comes out in any
order (`Show`). The page calls the cleanup twice when it loads and the status after each
(`Startup`, `Return`). `stale` remembers that the interface was there before the process.

wg-quick takes the name of the interface from the name of the file it is given, and refuses
one of more than 15 characters. The manager's path is `wiretalk-wg-<uuid>.conf`
(`wireguard.rs:58`), whose stem has 48. So `BringUp` always fails, `QuickDown` never takes
anything down, and only the `ip link delete` after it does (`Delete`); the code after a
setup that succeeds is never reached and not in the model. An interface called
`INTERFACE_NAME`, which is what the manager asks about, is there only if it is made
otherwise, by hand or by another version of the program (`MadeOutside`, `Init`); it is what
the startup cleanup looks for, and peers can be added to it. It may also be deleted from
outside (`RemovedOutside`).

Abstractions: `ip` can be run; one instance of the application; the check for a stale
interface inside `WireGuardManager::setup` comes right after the command's own and is not
reached; `get_shareable_config` and `get_config` only read; a page that is loaded again in
a running process. Dialling the peer after `add_wireguard_peer` is a connection, which
`KeyExchange` has.

### Frontend

`room`, `pane`, `showsOn` and `checkbox` are the page; `history`, `enabled`,
`unlocked` and `vault` the backend as far as the page depends on it. `calls` are the
commands under way with their steps between awaits, in no order; `events` the emitted
events, in order. A click starts a command; `Answered` (with `Loaded`, `Unlocked`,
`Locked`, `Toggled`) is the code after the page's `await`, `Listen` (with `OnEnter`,
`OnLeave`, `OnMessage`, `OnToggled`, `OnLocked`) its listeners. Failures are saves that fail, room
commands that fail and messages that are not published; of the latter it is left open
when, as it depends on keys and peers (`Messaging`). A room
command is one step that tells the page and saves, or fails (`RoomCommand`); its own
interleavings are in `Rooms`.
`unsettled`, `failed` and `exposed` are history.

Loading the page again is not modelled: the vault stays open and the page returns to
its login, its room forgotten. Neither is an event that says "locked" still under
way when the user has already typed the password again.

## 3. The runs

Passing runs:

| Run | Question | Instance |
|---|---|---|
| `vault_restart` | Does the vault open with a password and the salt stored in it, two creations at once included, and is anything lost by locks, restarts, wrong passwords and a failed write as long as handlers do not overlap? `TypeOK`, `OpensWithItsSalt`, `SavedStaysSaved`, `MemoryCoversVault` | a command, or two that create the vault, and the event task; 2 messages, identities, passwords and salts, 1 restart, 1 failure; 761 000 states |
| `vault_returns` | Does each handler return? `HandlersReturn` | 1 command and the event task, fair; 83 000 states |
| `peer_list` | Is the list right, are announcements in turn, does the page come to show the list? `ListedIsConnected`, `AnnouncementsAlternate`, `LastSnapshotIsCurrent`, `ViewCatchesUp` | 2 peers, 2 connections to each, 2 names, 5 swarm events, 1 request of the page besides those after joining and leaving, fair; 2 121 000 states |
| `keys_kept` | Does the exchange stop, and does it keep and rightly obtain keys, with faults? `TypeOK`, `NoExchangeLoop`, `KeysKept` | 3 nodes, their vaults unlocked or "late" at first, 2 connections made, 1 fault (a link lost, a publication refused, a message passed on, a vault locked); 989 000 states |
| `keys_agreed` | Do neighbours get each other's keys when links stay up? Only among nodes that started "late": an unlocked one blocks at its first key. `NoKeyLost`, `KeysAgreed` | 3 nodes, all "late", 2 connections, no fault, fair; 75 000 states |
| `rooms_consistent` | Do list, current room, topics and vault agree? `RoomsConsistent`, `TopicsFollowRooms`, `SavedUntilLeft` | 1 command and the event task, 2 rooms, 6 calls, 1 restart; 463 000 states |
| `messaging` | Is a message read once, by those it is for, and can whoever gets an envelope open it? `MessagingTypeOK`, `ReadableOnArrival`, `EnvelopesTravel`, `ImplementsMailbox` | 3 nodes, 2 of them friends, connections and messages 3 in all, 1 fault, 1 message delivered again; 544 000 states |
| `wireguard` | Is the file the configuration, has the interface only its peers, and is one left from a previous run shown? `FileIsConfig`, `PeersAreConfigured`, `StaleTunnelShown` | 2 peers, 2 addresses, 2 key pairs, 2 faults, 2 processes, 3 clicks; 126 000 states |
| `frontend` | Does the page show the messages of its room, all of them, and the state of encryption? `PaneInRoom`, `NothingHidden`, `SwitchShown` | 2 rooms, 1 message besides the old ones, 3 clicks, 2 toggles, 1 failed save, from a new process or a running one; 583 000 states |

Why these bounds: two tasks are the least for a command to
meet an event; every vault property relates one earlier value to one
later value, so two of each kind tell them apart. Two commands are under way at
once only if both create the vault (`OnlyCreationsOverlap`, a constraint of the run), each
with a password and a salt of its own; any other two would multiply the states beyond
TLC's reach, and the theorem about `OpensWithItsSalt` is for any number of tasks. Five changes of
the swarm are two connections to one peer, a name, and both closed again. A peer with two connections is
the case the peer list gets wrong, and one more would only repeat it. The third
node is what makes forwarding and reachability matter in the key exchange; one
fault with two connections covers losing a link and making it again, and locking a
vault between two keys. Six calls fill the two rooms, leave one, lock, restart and
unlock. In `messaging` the third node connects while the friends write, so that a
message meets the exchange of keys on the same channels; three of connections and
messages are two messages after one connection or a message between two. In
`wireguard` two processes are an interface left from one that the other finds, two faults are
both its cleanups failing, and two addresses are what it takes for one peer to take the
other's. In `frontend` two rooms and three clicks are a request for one room that is
answered in the other, and the room entered again; two toggles overlap.

Runs in which TLC finds the program doing what a comment, a message or the README
denies:

| Run | What happens |
|---|---|
| `vault_key_exchange` | With the vault unlocked, `KeyExchangeReceived` saves while it holds `message_crypto`, and the save locks `message_crypto` again: the event task waits for itself for ever. |
| `peer_unlisted` | Closing one of two connections takes the peer off the list. |
| `encryption_shown` | A vault saved with encryption off is opened by a page that goes on showing encryption as on, and a message is sent in the clear. |

More was met while modelling and has no run of its own.

- Vault. A network started while a lock is under way finds no identity in memory and
  generates one, although the vault holds one (`lib.rs:424`). Two saves truncate and
  overwrite the file together, and the tail of the longer stays behind the shorter: the
  file no longer parses (`secure_storage.rs:119`). A save that took its copy early and
  writes late drops a message already saved (`lib.rs:212`). A message that arrives
  during a lock stays in memory (`lib.rs:397`).
- Peers and keys. A peer taken off the list with a connection left is announced as new
  at its next connection (`p2p_network.rs:434`). A key lost with a link is not sent
  again when the link is back: the node holding the other's key answers neither the
  subscription nor the key (`lib.rs:690`). Keys and subscriptions that arrive while the
  vault is locked are dropped, and nothing exchanges them after it is unlocked
  (`lib.rs:571`).
- Vault and rooms. A room joined or left while a save copies field by field gives a vault
  whose current room is not among its rooms (`lib.rs:152`).
- Rooms. Two handlers joining the same room list it twice (`lib.rs:1014`). A room left
  while `switch_room` runs becomes the current one (`lib.rs:1109`).
- Tunnel. "Generate keys, write the config file, and bring up the WireGuard interface"
  (`wireguard.rs:133`): wg-quick refuses the name of the file (`wireguard.rs:58`), so no setup
  brings the interface up. In the model this is what `BringUp` says, so a run would show
  nothing more. After each setup, which fails, the file with the private key stays (`wireguard.rs:158`)
  and the page, whose panel says "Not configured", has no button that removes it; after the
  process has ended nothing reads it again. An interface made or deleted from outside
  while a status is on its way leaves the panel with the old answer (`main.ts:1004`).
- Page. Of two toggles under way the answers may come in either order, and the page
  keeps the later answer. A toggle that is refused while its event is still to
  come leaves the checkbox other than the status. A load under way when the vault is locked
  fills the page after it was cleared. Two loads of the same room show its messages
  twice (here a set). After a lock the rooms stay in the page. An answer to
  `updatePeersList` that comes late replaces a newer list, and stays if nothing more happens
  (`main.ts:878`; `late` in `PeerConnections`).

### Fairness

- `SecureVault`: strong fairness for what a running handler does next
  (`Continue`). The runtime polls every task that can run, and tokio's mutex is a
  first-in-first-out queue, so a handler waiting for a mutex that is freed again and
  again gets it. No call, event, restart or failure is promised.
- `PeerConnections`: weak fairness of the event task when it can take an event. Nothing
  is assumed of the page's own requests: an answer may never come.
- `KeyExchange`: weak fairness of the event task and of the loop for its channel
  and for each link. Connections and faults are not promised.
- `Messaging`, `Rooms`, `WireGuard` and `Frontend` are checked for safety and state no
  fairness: `EnvelopesTravel` and `NothingHidden` say where a message is that has not
  arrived.

## 4. The proofs

`SecureVault_proofs` proves, for any sets of commands, messages, identities,
passwords and salts and any bounds:

- `TypeCorrect`: `Spec => []TypeOK`.
- `VaultOpensWithItsSalt`: `Spec => []OpensWithItsSalt`.

`OpensWithItsSalt` is not inductive: a file is written from a handler's locals,
these are copied from `storage`, and `storage` is filled from the locals of a
handler that opened or created the vault. The invariant `KeysMatchSalts` says of all
of these at once that a key held there was derived from a password with the salt
held beside it. A handler's locals are only bound to this while it stands between
the copy and the end of the write, or between the read or creation and the store
(`Holding`); everywhere else (`Before`) they may be blank. The proof has a step for
each action; most change neither the file nor a key, and the ones that do
(`CloneStorage`, `WriteVaultFile`, `CreateVault`, `ReadVault`, `StoreKey`, `DropKey`,
`Restart`) pass on a matching pair or a blank one. The only assumption used is
`VaultAssumption`.

- `NothingSavedIsLost`: `Spec => []SavedStaysSaved`.
- `MemoryHoldsVault`: `Spec => []MemoryCoversVault`.

Both come from one invariant, `NothingLost`: as long as no two vault sections have
overlapped and no write has stopped half way, everything ever written is in the file
between two saves (`FileHolds`), in memory while the vault is open (`InMemory`), and in
what the one handler in its section has copied or loaded so far (`Place`, which says for
each place in the handler what it holds there). `SectionsApart` is why one handler is all
there is to look at. What changes the file or the memory has a lemma of its own: a save
writes a copy in which everything is (`LostNothingOnWrite`); an unlock opens the vault only
after the last field is loaded, and a lock clears memory only once the vault is shut. Any
step inside a section only has to show the memory, the file and its own place
(`LostNothingInside`). That overlapping saves do lose a message is among what was met
while modelling (section 3): the theorem does not hold without its condition.

`PeerConnections_proofs` proves every safety property of the peer list, for any sets
of peers and names, any bounds and a channel of any length, from `PeerAssumption`:

- `TypeCorrect`: `Spec => []TypeOK`.
- `ListedPeersAreConnected`: `Spec => []ListedIsConnected`. With the types it is
  inductive: a closing connection takes its own peer off the list and no other.
- `SnapshotIsCurrent`: `Spec => []LastSnapshotIsCurrent`. Each change of the list puts
  the new list last in the channel (`ListSent`); emitting moves every event up by one
  (`SnapshotEmitted`).
- `AnnouncementsInTurn`: `Spec => []AnnouncementsAlternate`. The property is restated
  for an arbitrary set of peers told and an arbitrary channel (`ToldOf`, `InTurn`),
  so that the channel before and after a step can be compared. `ToldNext` says what one
  more event tells, `ToldPrefix` that later events do not matter to earlier ones,
  `ToldRest` that telling the first event and then the rest is telling them all. With
  these the swarm's steps, which only append, and the event task's, which only takes
  the first off, each keep it (`AnnouncedInTurn`, `RenamedInTurn`, `EmittedInTurn`). The
  page's requests touch none of it (`PageOnly`).

`WireGuard_proofs` proves every property of the tunnel, for any peers and addresses,
any bounds and any number of commands, answers and events under way, from
`TunnelAssumption` and `NoneAssumption` (`None` is no interface, command or configuration):

- `TypeCorrect`: `Spec => []TypeOK`. The types include that wg-quick up is run for a
  setup, with a configuration.
- `FileIsConfiguration`: `Spec => []FileIsConfig`. The invariant `FileFollows` adds what holds
  inside a command: the file is gone once wg-quick down is past, though the configuration is
  still there, and while peers are still to be saved there is a file only if there is a
  configuration. `FaultsCounted` is why the condition, once lost, does not come back.
- `PeersOfInterface`: `Spec => []PeersAreConfigured`. `PeersCovered` adds that all commands
  under way add peers with an address. `CoveredServed` has the case that matters: the kernel takes an address from
  the peer that had it, the configuration leaves it to both.
- `StaleTunnelIsShown`: `Spec => []StaleTunnelShown`. `ShownLater`: while an interface of a
  previous run is there, nothing under way says "inactive", and unless the panel shows it, a
  cleanup or a status is still to run, or an answer that says "active" is on its way. A
  cleanup that returns leaves a status behind it (`Returned`), and a status says what it
  finds.

`Returned`, `Served` and `Clicked` sum up what a step does to the commands under way.

`KeyExchange_proofs` proves every safety property of the exchange, for any finite set of
nodes and any bounds, from `ExchangeAssumption`:

- `TypeCorrect`: `Spec => []TypeOK`, with what it says of links that are down.
- `ExchangeKeepsAgreement`: `Spec => KeysKept`, the safety of the refinement. A step that
  learns a key reads it off an event, which was read off a link, where a neighbour put
  it that had it from another link. `InReach` therefore says of every key on a link
  (`WiresInReach`), in a channel (`EventsInReach`), in memory and in the vault
  (`KeysInReach`) that its owner can be reached over pairs that have met from the node
  it is with or on its way to. `ReachOver` carries this over a link, `ReachMore` over a
  new one. Each step is then a step of `KeyAgreement` (`Connect` meets, `HandleKey`
  learns, `ClearCrypto` forgets, `LoadVault` recalls) or a stutter (`AgreementSteps`).
- `ExchangeEnds`: `Spec => []NoExchangeLoop`. What bounds the keys sent is a sum (`Due`):
  to those sent and queued are added the subscriptions a node has still to hear of (on its
  links, `Awaits`; in its channel, `Heard`), since each may be answered, the other
  nodes whose key it does not hold (`Unknown`), since each of these may come and be
  answered, and those a lock about to clear will make it forget (`Forgotten`). No step
  makes the sum grow by more than the allowance grows (`Budget`): a connection adds one
  subscription for each end, a lock at most all other nodes, and every other step moves
  one from one summand to the next. `SubscriptionsFirst` is needed for a link to
  count once: a subscription is the first thing on its link.
- `KeysArrive`: `Spec => []NoKeyLost`. `OnTheWay`: as long as nothing is lost, a neighbour is
  a subscriber or its subscription is at the head of the link (`LinksGreet`), those of
  whom a node has a greeting or a key are its subscribers, so that an answer
  reaches them (`FromSubscribers`), and a key message seen before left its key
  (`SeenHere`), so that dropping its duplicate loses nothing. Each step then moves the key
  that is coming one place on: command, link, event, memory.

The types of links and channels are stated over any set of messages and events
(`LinksOver`, `NodesOver`), so that `Messaging_proofs` uses the lemmas on them for
channels that carry chat as well.

`Rooms_proofs` proves every property of the rooms, for any rooms and number of tasks and
any bounds, from `RoomAssumption`:

- `TypeCorrect`: `Spec => []TypeOK`.
- `RoomsAreConsistent`: `Spec => []RoomsConsistent`.
- `TopicsAreFollowed`: `Spec => []TopicsFollowRooms`.
- `SavedRoomsStay`: `Spec => SavedUntilLeft`.

A handler is a list of steps, so the invariant first needs to know which lists there
are: `Scripts` are the pieces of the code's handlers, from any of their steps to the end, and a
step of a handler moves it from a place (`Place`) to a place that may follow (`Places`,
`Moved`). The invariant has four parts. `Typed` and `InUse` (a room listed anywhere
has its identifier in use, so that a new room is a new one) hold always. `OneHandler`
holds until two handlers overlap: `Standing` says for each place what the list, the
current room and the handler's copy are like there, `Covered` that the rooms in the vault are
listed in memory, but for one being left. `Topics` compares the list with the
topics there will be when the loop has run its commands (`WillSubscribe`: the last
command about the room decides), for all rooms but the one the handler has yet to tell the loop
of.

`Messaging_proofs` proves, for any finite set of nodes, any bounds and any friendships, from
`ExchangeAssumption`, `PostAssumption` and `NameAssumption` (`None` is no send, and
`Everyone` no node):

- `MessagingTypeCorrect`: `MessagingSpec => []MessagingTypeOK`.
- `MailboxImplemented`: `MessagingSpec => ImplementsMailbox`.
- `EnvelopesReadable`: `MessagingSpec => []ReadableOnArrival`.
- `EnvelopesArrive`: `MessagingSpec => []EnvelopesTravel`.

`Sealed` is what makes a step of the code a step of `Mailbox`: whatever is
on a link, in a channel or known to gossipsub stands for a post, in the clear only if the
post is, else for one of its readers (`AllGenuine`); a send under way is of a post of its own
that is not sealed yet (`SendsOK`), and what was sealed and shown is in the replay
cache (`ReplaysOK`), so that a message delivered again is not read again. That the question
for the peers is in the command channel exactly once while its send waits (`AsksOnce`)
is why an answer finds a send to answer. `ReadPostsAppend` says that showing one more
entry reads one more post or none; it rests on the lemmas about `Retain`.

The last two theorems need `Steady`, which holds while no fault has been counted. Neither
property is inductive: that an envelope can be read depends on what is ahead of it. `Order`
says for a sender and a reader that in each of the lists on the way (the commands of the
sender, the link, the events of the reader) the sender's key comes before the first envelope
or notice of one, unless the key has got further already; `Led` is this for one list, with a
lemma for each way a list changes (`LedAppend`, `LedConcat`, `LedTail`). `KeysAnswered` says
where the key of a node is that holds another's: it is why a send finds its key ahead of its
envelopes. It fails for a node whose event task waits for itself, which took a key and
never answered; `Running` says that no such node holds `message_crypto`, so that none of them
gets to encrypt anything. `KeysSubscribe` (whoever's key has come is a subscriber) is why an
envelope finds its reader in the room, and rests on `Greeted`: the subscription of a
neighbour is the first thing on its link. `SeenTold` and `ReplaysShown` say that what
gossipsub takes for a duplicate has been told, and what the replay cache drops has been shown;
`AllTravel` is `EnvelopesTravel` in these terms. The lemmas `SteadyReceived`,
`SteadyPublished`, `SteadyOrdered`, `SteadyHandled` and `SteadyShown` each treat the
actions of one shape, and those after them only show which shape an action has. `Steady` was
checked by TLC on the instance of the run `messaging` before it was proved.

`Lists_proofs` has what the others say of lists. The library's induction takes a
predicate as a parameter, which is out of the provers' reach; `Induction` states it for a
set of numbers instead and comes from the well-foundedness of inclusion on finite
sets. From it follow what `Retain` keeps (`RetainHas`), what it does to an entry
appended (`RetainAppend`), and how appending and taking change a count
(`CountAppend`, `CountTail`).

`Frontend_proofs` proves every property of the page, for any rooms, any bounds and any
number of commands, answers and events under way, from `FrontendAssumption` and
`NoneAssumption` (`None` is no message):

- `TypeCorrect`: `Spec => []TypeOK`.
- `OneRoomShown`: `Spec => []PaneInRoom`, inductive as it stands.
- `NothingFallsBetween`: `Spec => []NothingHidden`. The page is cleared when it is told of
  an open or a lock, long after either, so the property needs to know which commands
  may still be under way. `VaultOrder` says that there is one unlock or lock at a time,
  that its step agrees with the vault (`Agrees`), and that the vault stays locked and no
  unlock begins until the page has been told of the lock. `AllShown` is the property
  without its exception for a lock. `StillComing` and `ShownAside` settle the steps that
  neither clear the page nor add a message; the proofs of the others show where the message
  went (the send, the event, the request, the answer, the page).
- `SwitchSettles`: `Spec => []SwitchShown`. `Told` is what the page will show once it has
  handled the events there are; `SwitchFollows` says that a toggle alone carries the
  checkbox's value, which is the memory's and the one told from its first step on.

A command is the whole record of a call, and lists of them lose entries in the middle:
`ReplacedHas`, `AppendedHas`, `RemovedHas` and `ShortenedHas` say what a list still has, and
that at most one entry of a kind stays at most one (`Lone`); `Turned`, `Began` and `Over`
say the same of a step.

Model-checked only, and out of the prover's reach: liveness (`HandlersReturn`,
`ViewCatchesUp`, and the fairness part of `KeysAgreed`). Every invariant and every
action property of the passing runs is stated by a theorem.

## 5. What is not modelled

- The other fields of the vault (user name, known users): saved and loaded by the same
  statements as those modelled in `SecureVault` (history and identity), `Rooms` (rooms)
  and `Frontend` (encryption switch).
- Cryptography: a key, an identity or a fingerprint is a value; decryption is
  equality of keys.
- mDNS, identify, transport and gossipsub's own control traffic: a link is there
  or not.
- The shell (`run`, `main.rs`), which keeps no state; rendering; the static HTML and
  styles.
- The passing of time: the thirty minutes of the replay cache.
- The sections of the page and the rooms it lists, the list of known users, and a page
  that is loaded again in a running process.
- A change of a node's identity while its peers hold the old key, and a second instance
  of the application on the same machine.

## 6. Plan

1. Done: `SecureVault`, `PeerConnections`, `KeyAgreement`, `KeyExchange`, `Rooms`,
   `Mailbox`, `Messaging`, `WireGuard`, `Frontend`; all their safety properties
   proved, and both refinements.
2. Models: joining and leaving a room in `Messaging`; a replay cache that forgets; a page
   that is loaded again in `Frontend` and `WireGuard`.

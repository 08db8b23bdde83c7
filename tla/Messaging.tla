------------------------------ MODULE Messaging ------------------------------
(***************************************************************************)
(* Chat messages over the key exchange: send_p2p_message and the           *)
(* MessageReceived handler of src-tauri/src/lib.rs, the room messages of   *)
(* src-tauri/src/p2p_network.rs, and what src-tauri/src/encryption.rs makes *)
(* of them.                                                                *)
(*                                                                         *)
(* A message is encrypted once for each listed peer whose key is held, and *)
(* published in as many envelopes on the topic of its room, through the    *)
(* channel of commands that also carries the keys.  The sender holds       *)
(* message_crypto from its look at the keys to the last envelope, so that  *)
(* at its node no key comes in and no vault is locked in between.          *)
(***************************************************************************)
EXTENDS KeyExchange, Lists

CONSTANTS
    None,
    Friends,       \* pairs that have exchanged their keys before
    Outsiders,     \* bound on the nodes that are not in the room
    MaxTotal,      \* bound on the connections made and the messages sent
    MaxRedeliver   \* bound on the messages gossipsub delivers again

ASSUME PostAssumption ==
    /\ Friends \subseteq Pairs
    /\ \A pair, other \in Friends : pair # other => pair \cap other = {}
    /\ Outsiders \in Nat
    /\ MaxTotal \in Nat
    /\ MaxRedeliver \in Nat

VARIABLES
    members, \* the nodes subscribed to the room
    posted,  \* messages sent so far, see Post
    sending, \* each node's send_p2p_message, if one is under way
    replay,  \* seen_encrypted_messages of each node
    inbox,   \* messages each node has received and how it shows them
    redelivered

chat == <<members, posted, sending, replay, inbox, redelivered>>
allVars == <<vars, chat>>

Memberships ==
    {room \in SUBSET Nodes : Cardinality(Nodes \ room) <= Outsiders}

\* The topic message of post i: encrypted for reader, or for everyone to
\* read.  Sender and post stand for sender_peer_id and content, and the
\* message itself for its id, which is new with every publication.
Everyone == "everyone"
ChatMessage(source, i, reader) ==
    [type |-> "chat", source |-> source, post |-> i, reader |-> reader]
MessageReceived(m) == [type |-> "chat", message |-> m]
PeersCommand == [type |-> "peers"]
SendMessageToRoom(i, reader) ==
    [type |-> "room", post |-> i, reader |-> reader]

\* KeyExchange!Init, but that friends, who have an identity, are connected:
\* each has sent its key when the other subscribed and again when the other's
\* key came, and nothing is on its way.
FriendsOf(n) == {m \in Nodes : {n, m} \in Friends}
MessagingInit ==
    /\ linked = Friends
    /\ wire = [a \in Nodes |-> [b \in Nodes |-> << >>]]
    /\ subscribers = [n \in Nodes |-> FriendsOf(n)]
    /\ seen = [n \in Nodes |->
                 {KeyMessage(m, i) : m \in FriendsOf(n), i \in {0, 1}}]
    /\ events = [n \in Nodes |-> << >>]
    /\ commands = [n \in Nodes |-> << >>]
    /\ keys = [n \in Nodes |-> FriendsOf(n)]
    /\ phase \in [Nodes -> Starts]
    /\ \A n \in Nodes : FriendsOf(n) # {} => phase[n] = "late"
    /\ stored = [n \in Nodes |-> {}]
    /\ blocked = {}
    /\ sent = [n \in Nodes |-> 2 * Cardinality(FriendsOf(n))]
    /\ met = Friends
    /\ connects = Cardinality(Friends)
    /\ faults = 0
    /\ locks = 0
    /\ members \in Memberships
    /\ posted = << >>
    /\ sending = [n \in Nodes |-> None]
    /\ replay = [n \in Nodes |-> {}]
    /\ inbox = [n \in Nodes |-> << >>]
    /\ redelivered = 0

\* A send_p2p_message under way: its post, how far it is, and the peers it has
\* been told of.
Sends == [post : Nat, stage : {"lock", "asked", "answered"}, peers : SUBSET Nodes]

ASSUME NameAssumption ==
    /\ None \notin Sends
    /\ Everyone \notin Nodes

\* A send holds message_crypto.
Holds(n) == sending[n] # None /\ sending[n].stage # "lock"

-----------------------------------------------------------------------------
(* send_p2p_message. *)

Post(n, secret) == [from |-> n, secret |-> secret, readers |-> {}]

CanSend(n) ==
    /\ n \in members
    /\ sending[n] = None
    /\ Len(posted) + connects < MaxTotal

\* Encryption is off: the message goes into the channel as it is.
SendPlain(n) ==
    /\ CanSend(n)
    /\ posted' = Append(posted, Post(n, FALSE))
    /\ commands' = [commands EXCEPT ![n] =
                      Append(@, SendMessageToRoom(Len(posted'), Everyone))]
    /\ UNCHANGED <<network, events, keys, vaults, blocked, sent, counters,
                   members, sending, replay, inbox, redelivered>>

\* Encryption is on: wait for message_crypto.
SendSecret(n) ==
    /\ CanSend(n)
    /\ posted' = Append(posted, Post(n, TRUE))
    /\ sending' = [sending EXCEPT ![n] =
                     [post |-> Len(posted'), stage |-> "lock", peers |-> {}]]
    /\ UNCHANGED <<vars, members, replay, inbox, redelivered>>

\* Mutant: the send goes on before the peers are known.
AskPeersOnly(n) ==
    /\ sending[n] # None
    /\ sending[n].stage = "lock"
    /\ n \notin blocked
    /\ sending' = [sending EXCEPT ![n].stage = "answered"]
    /\ commands' = [commands EXCEPT ![n] = Append(@, PeersCommand)]
    /\ UNCHANGED <<network, events, keys, vaults, blocked, sent, counters,
                   members, posted, replay, inbox, redelivered>>

\* With message_crypto locked, ask the loop for the peers; without an
\* identity the message is not sent.
AskPeers(n) ==
    /\ sending[n] # None
    /\ sending[n].stage = "lock"
    /\ n \notin blocked
    /\ IF HasIdentity(n)
       THEN /\ sending' = [sending EXCEPT ![n].stage = "asked"]
            /\ commands' = [commands EXCEPT ![n] = Append(@, PeersCommand)]
       ELSE /\ sending' = [sending EXCEPT ![n] = None]
            /\ UNCHANGED commands
    /\ UNCHANGED <<network, events, keys, vaults, blocked, sent, counters,
                   members, posted, replay, inbox, redelivered>>

Neighbours(n) == {m \in Nodes : {n, m} \in linked}

\* GetPeers: the list of peers, in which a connected one may be missing
\* (PeerConnections).
AnswerPeers(n) ==
    /\ NextCommand(n, "peers")
    /\ \E peers \in SUBSET Neighbours(n) :
          /\ faults' = faults + Cardinality(Neighbours(n) \ peers)
          /\ faults' <= MaxFaults
          /\ sending' = [sending EXCEPT ![n] =
                           [@ EXCEPT !.stage = "answered", !.peers = peers]]
    /\ UNCHANGED <<network, events, keys, vaults, blocked, sent, met, connects,
                   locks, members, posted, replay, inbox, redelivered>>

\* One envelope for each peer with a key, in the order of the list.
Envelopes(i, readers) ==
    {s \in [1..Cardinality(readers) -> {SendMessageToRoom(i, p) : p \in readers}] :
        \A p \in readers : Occurs(SendMessageToRoom(i, p), s)}

\* encrypt_message needs the secret shared with the peer.
Encrypts(n, p) == p \in keys[n]

\* Without such a peer the message is not sent: never in the clear.
Seal(n) ==
    LET i == sending[n].post
        readers == {p \in sending[n].peers : Encrypts(n, p)}
    IN  /\ sending[n] # None
        /\ sending[n].stage = "answered"
        /\ sending' = [sending EXCEPT ![n] = None]
        /\ \E envelopes \in Envelopes(i, readers) :
              commands' = [commands EXCEPT ![n] = @ \o envelopes]
        /\ posted' = [posted EXCEPT ![i].readers = readers]
        /\ UNCHANGED <<network, events, keys, vaults, blocked, sent, counters,
                       members, replay, inbox, redelivered>>

-----------------------------------------------------------------------------
(* The network loop. *)

\* The neighbours a room message is published to.
InMesh(n) == subscribers[n] \cap members

\* publish needs a neighbour in the room; the error is only logged, and
\* gossipsub may refuse as well.
PublishChat(n) ==
    LET send == Head(commands[n])
        m == ChatMessage(n, send.post, send.reader)
    IN  /\ NextCommand(n, "room")
        /\ \/ /\ InMesh(n) # {}
              /\ wire' = Broadcast(wire, n, InMesh(n), m)
              /\ UNCHANGED faults
           \/ /\ IF InMesh(n) = {} THEN UNCHANGED faults
                 ELSE faults < MaxFaults /\ faults' = faults + 1
              /\ UNCHANGED wire
        /\ UNCHANGED <<linked, subscribers, seen, events, keys, vaults,
                       blocked, sent, met, connects, locks, chat>>

\* A room message not seen before goes to the event task, and perhaps on.
ReceiveChat(a, b) ==
    LET m == Head(wire[a][b])
        taken == [wire EXCEPT ![a][b] = Tail(@)]
    IN  /\ wire[a][b] # << >>
        /\ m.type = "chat"
        /\ \/ /\ m \in seen[b] \/ m.source = b
              /\ wire' = taken
              /\ UNCHANGED <<seen, events, faults>>
           \/ /\ m \notin seen[b] /\ m.source # b
              /\ seen' = [seen EXCEPT ![b] = @ \cup {m}]
              /\ events' = [events EXCEPT ![b] = Append(@, MessageReceived(m))]
              /\ \E targets \in SUBSET (InMesh(b) \ {a, m.source}) :
                    /\ faults' = faults + Cardinality(targets)
                    /\ faults' <= MaxFaults
                    /\ wire' = Broadcast(taken, b, targets, m)
        /\ UNCHANGED <<linked, subscribers, commands, keys, vaults, blocked,
                       sent, met, connects, locks, chat>>

\* gossipsub forgets what it has seen after a while and delivers it again.
Redeliver(n) ==
    /\ redelivered < MaxRedeliver
    /\ redelivered' = redelivered + 1
    /\ \E m \in seen[n] :
          /\ m.type = "chat"
          /\ events' = [events EXCEPT ![n] = Append(@, MessageReceived(m))]
    /\ UNCHANGED <<network, commands, keys, vaults, blocked, sent, counters,
                   members, posted, sending, replay, inbox>>

-----------------------------------------------------------------------------
(* The event task: MessageReceived. *)

\* decrypt_message needs the key the content was encrypted with, which the
\* sender and the reader share.
Decrypts(n, m) == m.source \in keys[n] /\ m.reader = n

Show(n, m, how) ==
    inbox' = [inbox EXCEPT ![n] = Append(@, [post |-> m.post, how |-> how])]

\* What was not encrypted is shown, however often it comes, and needs no
\* message_crypto.
HandlePlain(n) ==
    LET m == Head(events[n]).message
    IN  /\ NextEvent(n, "chat")
        /\ m.reader = Everyone
        /\ Show(n, m, "plain")
        /\ UNCHANGED <<network, commands, keys, vaults, blocked, sent, counters,
                       members, posted, sending, replay, redelivered>>

\* Mutant: an envelope is dropped when message_crypto cannot be had at once.
HandleDroppedWhileSending(n) ==
    LET m == Head(events[n]).message
    IN  /\ NextEvent(n, "chat")
        /\ m.reader # Everyone
        /\ m \in replay[n] \/ m.reader # n \/ Holds(n)
        /\ replay' = [replay EXCEPT ![n] = @ \cup {m}]
        /\ UNCHANGED <<network, commands, keys, vaults, blocked, sent, counters,
                       members, posted, sending, inbox, redelivered>>

\* An envelope is dropped if it was seen before or is for another node.
HandleDropped(n) ==
    LET m == Head(events[n]).message
    IN  /\ NextEvent(n, "chat")
        /\ m.reader # Everyone
        /\ m \in replay[n] \/ m.reader # n
        /\ replay' = [replay EXCEPT ![n] = @ \cup {m}]
        /\ UNCHANGED <<network, commands, keys, vaults, blocked, sent, counters,
                       members, posted, sending, inbox, redelivered>>

\* Mutant: a message is shown whether it was seen before or not.
HandleEnvelopeAgain(n) ==
    LET m == Head(events[n]).message
    IN  /\ NextEvent(n, "chat")
        /\ ~Holds(n)
        /\ m.reader = n
        /\ Show(n, m, IF HasIdentity(n) /\ Decrypts(n, m) THEN "read"
                                                          ELSE "placeholder")
        /\ UNCHANGED <<network, commands, keys, vaults, blocked, sent, counters,
                       members, posted, sending, replay, redelivered>>

\* Otherwise it is decrypted, or a placeholder is shown and kept for it.
HandleEnvelope(n) ==
    LET m == Head(events[n]).message
    IN  /\ NextEvent(n, "chat")
        /\ ~Holds(n)
        /\ m.reader = n
        /\ m \notin replay[n]
        /\ replay' = [replay EXCEPT ![n] = @ \cup {m}]
        /\ Show(n, m, IF HasIdentity(n) /\ Decrypts(n, m) THEN "read"
                                                          ELSE "placeholder")
        /\ UNCHANGED <<network, commands, keys, vaults, blocked, sent, counters,
                       members, posted, sending, redelivered>>

-----------------------------------------------------------------------------

Send(n) == SendPlain(n) \/ SendSecret(n)
Sending(n) == AskPeers(n) \/ Seal(n)
ChatLoop(n) ==
    AnswerPeers(n) \/ PublishChat(n) \/ \E a \in Nodes : ReceiveChat(a, n)
ChatTask(n) == HandlePlain(n) \/ HandleDropped(n) \/ HandleEnvelope(n)

\* The steps of the key exchange; those that take message_crypto wait for a
\* send that holds it.
Exchange ==
    /\ \/ \E a, b \in Nodes : Connect(a, b) \/ Disconnect(a, b)
       \/ \E n \in Nodes :
             \/ Loop(n) \/ StoreKey(n)
             \/ ~Holds(n) /\ (EventTask(n) \/ SealVault(n) \/ ClearCrypto(n)
                              \/ LoadVault(n))
    /\ connects' + Len(posted) <= MaxTotal
    /\ UNCHANGED chat

MessagingNext ==
    \/ Exchange
    \/ \E n \in Nodes :
          Send(n) \/ Sending(n) \/ ChatLoop(n) \/ Redeliver(n) \/ ChatTask(n)

MessagingSpec == MessagingInit /\ [][MessagingNext]_allVars

-----------------------------------------------------------------------------
(* Properties. *)

\* The type invariant of what this module adds; while a send waits for the
\* peers its question is in the channel, once.
MessagingTypeOK ==
    /\ members \in Memberships
    /\ posted \in Seq([from : Nodes, secret : BOOLEAN, readers : SUBSET Nodes])
    /\ \A n \in Nodes :
          /\ sending[n] # None =>
                /\ sending[n].post \in 1..Len(posted)
                /\ posted[sending[n].post].from = n
                /\ sending[n].stage \in {"lock", "asked", "answered"}
                /\ sending[n].peers \subseteq Nodes \ {n}
          /\ Cardinality({i \in 1..Len(commands[n]) :
                            commands[n][i] = PeersCommand})
                = IF sending[n] # None /\ sending[n].stage = "asked"
                  THEN 1 ELSE 0
          /\ \A m \in replay[n] : m.type = "chat" /\ m.reader # Everyone
          /\ inbox[n] \in Seq([post : 1..Len(posted),
                               how : {"plain", "read", "placeholder"}])

\* While no link and no publication is lost, nothing is forwarded and no
\* vault is locked, every envelope can be read when it arrives: a node that
\* encrypts for another one has put its own key into the channel before the
\* envelope (lib.rs:569-625, 867-906).
ReadableOnArrival ==
    faults = 0 =>
        \A n \in Nodes : \A i \in 1..Len(inbox[n]) :
            inbox[n][i].how # "placeholder"

\* In the same conditions, whoever in the room a message is encrypted for has
\* it or it is on its way: published before the reader is known to listen, or
\* taken for a replay, it would be lost though the sender is told it was sent
\* (lib.rs:464-495, 917; p2p_network.rs:189).
EnvelopesTravel ==
    faults = 0 =>
        \A i \in 1..Len(posted) : \A n \in posted[i].readers \cap members :
            LET from == posted[i].from
                m == ChatMessage(from, i, n)
            IN  \/ \E j \in 1..Len(inbox[n]) : inbox[n][j].post = i
                \/ Occurs(MessageReceived(m), events[n])
                \/ Occurs(m, wire[from][n])
                \/ Occurs(SendMessageToRoom(i, n), commands[from])
                   /\ n \in InMesh(from)

\* Messages are read by those they are encrypted for, once.
ReadPosts(n) ==
    LET shown == Retain(inbox[n], [post : Nat, how : {"plain", "read"}])
    IN  [j \in 1..Len(shown) |-> shown[j].post]

Box == INSTANCE Mailbox WITH read <- [n \in Nodes |-> ReadPosts(n)]

ImplementsMailbox == Box!Spec
=============================================================================

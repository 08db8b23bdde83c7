----------------------------- MODULE KeyExchange -----------------------------
(***************************************************************************)
(* How WireTalk nodes exchange public keys over gossipsub: the subscription *)
(* and key messages handled in src-tauri/src/p2p_network.rs, and the       *)
(* PeerSubscribed and KeyExchangeReceived handlers of src-tauri/src/lib.rs. *)
(*                                                                         *)
(* In each node the network loop takes messages off the links and puts     *)
(* events into a channel; the event task drains it and puts commands into  *)
(* another channel; the loop takes them out and publishes.  A key message  *)
(* is published on the default topic: every subscribed neighbour gets it,  *)
(* and may forward it.                                                     *)
(*                                                                         *)
(* Every node here has started its network, which generates its libp2p     *)
(* peer id: a node started again is another node.  While the vault of a    *)
(* node is unlocked the handler of a key never gets past its save          *)
(* (SecureVault!SelfBlocked); while it is locked it does, if it still has  *)
(* message_crypto.                                                         *)
(***************************************************************************)
EXTENDS Naturals, Sequences, FiniteSets

CONSTANTS
    Nodes,
    Starts,         \* phases in which a node's vault may be at first
    MaxConnects,    \* bound on the connections made
    MaxFaults       \* bound on the connections lost, the publications refused,
                    \* the messages passed on and the vaults locked, together

ASSUME ExchangeAssumption ==
    /\ IsFiniteSet(Nodes)
    /\ Starts \subseteq {"unlocked", "late"}
    /\ MaxConnects \in Nat
    /\ MaxFaults \in Nat

VARIABLES
    linked,      \* the pairs of connected nodes
    wire,        \* wire[a][b]: messages on their way from a to b
    subscribers, \* the neighbours a node knows to be subscribed
    seen,        \* the messages gossipsub has already delivered to a node
    events,      \* each node's channel of P2PEvents
    commands,    \* each node's channel of P2PCommands
    keys,        \* the peers whose key a node holds: get_peer_identities()
    phase,       \* where each node's vault stands, see Phases
    stored,      \* the keys in a vault when it was last locked
    blocked,     \* nodes whose event task waits for itself
    sent,        \* key messages a node has published, also their numbers
    met,         \* history: the pairs that have been connected
    connects, faults, \* counters against the bounds
    locks        \* vaults locked so far

network == <<linked, wire, subscribers, seen>>
vaults == <<phase, stored>>
counters == <<met, connects, faults, locks>>
vars == <<linked, wire, subscribers, seen, events, commands, keys, phase,
          stored, blocked, sent, met, connects, faults, locks>>

\* message_crypto is there in all phases but "cleared".  lock_secure_storage
\* saves and drops the key of the vault ("sealed") before it clears;
\* unlock_secure_storage loads ("loaded") before it stores the key.  "late"
\* is a node whose network started while its vault was being locked, and
\* which has an identity though the vault is locked.
Phases == {"unlocked", "sealed", "cleared", "loaded", "late"}

Pairs == {pair \in SUBSET Nodes : Cardinality(pair) = 2}

\* What travels on a link: a subscription to the default topic, or a key
\* message, which its source signs and numbers.
Subscription == [type |-> "subscription"]
KeyMessage(source, number) ==
    [type |-> "key", source |-> source, number |-> number]

\* The P2PCommand and the P2PEvents of this protocol.
KeyCommand == [type |-> "key"]
PeerSubscribed(p) == [type |-> "subscribed", peer |-> p]
KeyExchangeReceived(p) == [type |-> "key", peer |-> p]

Init ==
    /\ linked = {}
    /\ wire = [a \in Nodes |-> [b \in Nodes |-> << >>]]
    /\ subscribers = [n \in Nodes |-> {}]
    /\ seen = [n \in Nodes |-> {}]
    /\ events = [n \in Nodes |-> << >>]
    /\ commands = [n \in Nodes |-> << >>]
    /\ keys = [n \in Nodes |-> {}]
    /\ phase \in [Nodes -> Starts]
    /\ stored = [n \in Nodes |-> {}]
    /\ blocked = {}
    /\ sent = [n \in Nodes |-> 0]
    /\ met = {}
    /\ connects = 0
    /\ faults = 0
    /\ locks = 0

-----------------------------------------------------------------------------
(* Connections. *)

\* Two nodes connect, by mDNS or by dialling, and tell each other of their
\* subscription.
Connect(a, b) ==
    /\ connects < MaxConnects
    /\ a # b
    /\ {a, b} \notin linked
    /\ linked' = linked \cup {{a, b}}
    /\ wire' = [wire EXCEPT ![a][b] = <<Subscription>>,
                            ![b][a] = <<Subscription>>]
    /\ met' = met \cup {{a, b}}
    /\ connects' = connects + 1
    /\ UNCHANGED <<subscribers, seen, events, commands, keys, vaults, blocked,
                   sent, faults, locks>>

\* The last connection closes: what was on the way is lost.  No event tells
\* the key exchange of it.
Disconnect(a, b) ==
    /\ faults < MaxFaults
    /\ {a, b} \in linked
    /\ linked' = linked \ {{a, b}}
    /\ wire' = [wire EXCEPT ![a][b] = << >>, ![b][a] = << >>]
    /\ subscribers' = [subscribers EXCEPT ![a] = @ \ {b}, ![b] = @ \ {a}]
    /\ faults' = faults + 1
    /\ UNCHANGED <<seen, events, commands, keys, vaults, blocked, sent, met,
                   connects, locks>>

-----------------------------------------------------------------------------
(* The network loop. *)

\* A message comes off the link from a to b.
Take(a, b) ==
    /\ wire[a][b] # << >>
    /\ wire' = [wire EXCEPT ![a][b] = Tail(@)]

ReceiveSubscription(a, b) ==
    /\ Take(a, b)
    /\ Head(wire[a][b]).type = "subscription"
    /\ subscribers' = [subscribers EXCEPT ![b] = @ \cup {a}]
    /\ events' = [events EXCEPT ![b] = Append(@, PeerSubscribed(a))]
    /\ UNCHANGED <<linked, seen, commands, keys, vaults, blocked, sent,
                   counters>>

\* wires with one more message from n to each node of targets.
Broadcast(wires, n, targets, message) ==
    [wires EXCEPT ![n] = [m \in Nodes |->
        IF m \in targets THEN Append(wires[n][m], message) ELSE wires[n][m]]]

\* A key message not seen before: tell the event task who signed it, and
\* perhaps forward it.
ReceiveKey(a, b) ==
    LET m == Head(wire[a][b])
        taken == [wire EXCEPT ![a][b] = Tail(@)]
    IN  /\ wire[a][b] # << >>
        /\ m.type = "key"
        /\ \/ /\ m \in seen[b] \/ m.source = b
              /\ wire' = taken
              /\ UNCHANGED <<seen, events, faults>>
           \/ /\ m \notin seen[b] /\ m.source # b
              /\ seen' = [seen EXCEPT ![b] = @ \cup {m}]
              /\ events' = [events EXCEPT
                              ![b] = Append(@, KeyExchangeReceived(m.source))]
              /\ \E targets \in SUBSET (subscribers[b] \ {a, m.source}) :
                    /\ faults' = faults + Cardinality(targets)
                    /\ faults' <= MaxFaults
                    /\ wire' = Broadcast(taken, b, targets, m)
        /\ UNCHANGED <<linked, subscribers, commands, keys, vaults, blocked,
                       sent, met, connects, locks>>

\* The loop takes the next command of n.
NextCommand(n, type) ==
    /\ commands[n] # << >>
    /\ Head(commands[n]).type = type
    /\ commands' = [commands EXCEPT ![n] = Tail(@)]

\* Mutant: publish to those whose key is known.
PublishKeyToKnown(n) ==
    /\ NextCommand(n, "key")
    /\ subscribers[n] # {}
    /\ sent' = [sent EXCEPT ![n] = @ + 1]
    /\ wire' = Broadcast(wire, n, subscribers[n] \cup keys[n],
                         KeyMessage(n, sent[n]))
    /\ UNCHANGED <<linked, subscribers, seen, events, keys, vaults, blocked,
                   counters>>

\* Mutant: leave out those whose key has come in since the command was sent.
PublishKeyToStrangers(n) ==
    /\ NextCommand(n, "key")
    /\ subscribers[n] # {}
    /\ sent' = [sent EXCEPT ![n] = @ + 1]
    /\ wire' = Broadcast(wire, n, subscribers[n] \ keys[n],
                         KeyMessage(n, sent[n]))
    /\ UNCHANGED <<linked, subscribers, seen, events, keys, vaults, blocked,
                   counters>>

\* SendKeyExchange: publish to every subscribed neighbour.
PublishKey(n) ==
    /\ NextCommand(n, "key")
    /\ subscribers[n] # {}
    /\ sent' = [sent EXCEPT ![n] = @ + 1]
    /\ wire' = Broadcast(wire, n, subscribers[n], KeyMessage(n, sent[n]))
    /\ UNCHANGED <<linked, subscribers, seen, events, keys, vaults, blocked,
                   counters>>

\* Without neighbours, or when gossipsub refuses, publish fails: the error
\* is logged and the key is not sent again.
PublishFails(n) ==
    /\ NextCommand(n, "key")
    /\ \/ subscribers[n] = {} /\ UNCHANGED faults
       \/ /\ subscribers[n] # {}
          /\ faults < MaxFaults
          /\ faults' = faults + 1
    /\ UNCHANGED <<network, events, keys, vaults, blocked, sent, met, connects,
                   locks>>

-----------------------------------------------------------------------------
(* The event task. *)

\* The next event of n, if its task still runs.
NextEvent(n, type) ==
    /\ n \notin blocked
    /\ events[n] # << >>
    /\ Head(events[n]).type = type
    /\ events' = [events EXCEPT ![n] = Tail(@)]

SendKeyExchange(n) ==
    commands' = [commands EXCEPT ![n] = Append(@, KeyCommand)]

\* Mutant: a subscription is answered only when the key is already there.
HandleSubscribedInverted(n) ==
    LET p == Head(events[n]).peer
    IN  /\ NextEvent(n, "subscribed")
        /\ IF p \in keys[n] THEN SendKeyExchange(n) ELSE UNCHANGED commands
        /\ UNCHANGED <<network, keys, vaults, blocked, sent, counters>>

HasIdentity(n) == phase[n] # "cleared"

\* PeerSubscribed: send our key unless we hold the peer's or have none.
HandleSubscribed(n) ==
    LET p == Head(events[n]).peer
    IN  /\ NextEvent(n, "subscribed")
        /\ IF HasIdentity(n) /\ p \notin keys[n] THEN SendKeyExchange(n)
                                                 ELSE UNCHANGED commands
        /\ UNCHANGED <<network, keys, vaults, blocked, sent, counters>>

\* Mutant: every key is answered, known or not.
HandleKeyAlwaysReply(n) ==
    LET p == Head(events[n]).peer
    IN  /\ NextEvent(n, "key")
        /\ keys' = [keys EXCEPT ![n] = @ \cup {p}]
        /\ SendKeyExchange(n)
        /\ UNCHANGED <<network, vaults, blocked, sent, counters>>

\* Mutant: the new key takes the place of those held before.
HandleKeyForgets(n) ==
    LET p == Head(events[n]).peer
    IN  /\ NextEvent(n, "key")
        /\ keys' = [keys EXCEPT ![n] = {p}]
        /\ IF p \notin keys[n] THEN SendKeyExchange(n) ELSE UNCHANGED commands
        /\ UNCHANGED <<network, vaults, blocked, sent, counters>>

\* add_peer_key: from now on messages from and to p can be read and encrypted.
AddPeerKey(n, p) == keys' = [keys EXCEPT ![n] = @ \cup {p}]

\* KeyExchangeReceived: add the key, save (which blocks the task if the
\* vault is unlocked), and send ours back if the key is new.  Without an
\* identity of our own the key is dropped.
HandleKey(n) ==
    LET p == Head(events[n]).peer
    IN  /\ NextEvent(n, "key")
        /\ \/ /\ ~HasIdentity(n)
              /\ UNCHANGED <<keys, commands, blocked>>
           \/ /\ phase[n] = "unlocked"
              /\ AddPeerKey(n, p)
              /\ blocked' = blocked \cup {n}
              /\ UNCHANGED commands
           \/ /\ HasIdentity(n)
              /\ phase[n] # "unlocked"
              /\ AddPeerKey(n, p)
              /\ IF p \notin keys[n] THEN SendKeyExchange(n)
                                     ELSE UNCHANGED commands
              /\ UNCHANGED blocked
        /\ UNCHANGED <<network, vaults, sent, counters>>

-----------------------------------------------------------------------------
(* Locking and unlocking the vault, as far as they touch message_crypto.    *)
(* Each step waits for its mutex, for ever if the event task has kept it.   *)

Advance(n, from, to) ==
    /\ n \notin blocked
    /\ phase[n] = from
    /\ phase' = [phase EXCEPT ![n] = to]
    /\ UNCHANGED <<network, events, commands, blocked, sent, met, connects>>

\* lock_secure_storage saves, and drops the vault's key ...
SealVault(n) ==
    /\ Advance(n, "unlocked", "sealed")
    /\ stored' = [stored EXCEPT ![n] = keys[n]]
    /\ faults < MaxFaults
    /\ faults' = faults + 1
    /\ locks' = locks + 1
    /\ UNCHANGED keys

\* ... then message_crypto, with the keys that came in after the save.
ClearCrypto(n) ==
    /\ Advance(n, "sealed", "cleared")
    /\ keys' = [keys EXCEPT ![n] = {}]
    /\ UNCHANGED <<stored, faults, locks>>

\* unlock_secure_storage puts back the keys of the vault ...
LoadVault(n) ==
    /\ Advance(n, "cleared", "loaded")
    /\ keys' = [keys EXCEPT ![n] = stored[n]]
    /\ UNCHANGED <<stored, faults, locks>>

\* ... and stores the vault's key.
StoreKey(n) ==
    /\ Advance(n, "loaded", "unlocked")
    /\ UNCHANGED <<keys, stored, faults, locks>>

-----------------------------------------------------------------------------

Loop(n) ==
    \/ PublishKey(n) \/ PublishFails(n)
    \/ \E a \in Nodes : ReceiveSubscription(a, n) \/ ReceiveKey(a, n)

EventTask(n) == HandleSubscribed(n) \/ HandleKey(n)

Vault(n) == SealVault(n) \/ ClearCrypto(n) \/ LoadVault(n) \/ StoreKey(n)

Next ==
    \/ \E a, b \in Nodes : Connect(a, b) \/ Disconnect(a, b)
    \/ \E n \in Nodes : Loop(n) \/ EventTask(n) \/ Vault(n)

Spec == Init /\ [][Next]_vars

\* The loop serves the links and its channel, the event task its channel;
\* connections come and go, and publications fail, as they like.
FairSpec ==
    /\ Spec
    /\ \A n \in Nodes :
          /\ WF_vars(EventTask(n))
          /\ WF_vars(PublishKey(n))
          /\ \A a \in Nodes :
                WF_vars(ReceiveSubscription(a, n) \/ ReceiveKey(a, n))

-----------------------------------------------------------------------------
(* Properties. *)

WireMessages ==
    {Subscription} \cup [type : {"key"}, source : Nodes, number : Nat]
NodeEvents == [type : {"subscribed", "key"}, peer : Nodes]

\* The type invariant; nothing travels on a link that is down, and only a
\* linked node is taken for a subscriber.
TypeOK ==
    /\ linked \in SUBSET Pairs
    /\ wire \in [Nodes -> [Nodes -> Seq(WireMessages)]]
    /\ subscribers \in [Nodes -> SUBSET Nodes]
    /\ events \in [Nodes -> Seq(NodeEvents)]
    /\ commands \in [Nodes -> Seq({KeyCommand})]
    /\ keys \in [Nodes -> SUBSET Nodes]
    /\ phase \in [Nodes -> Phases]
    /\ stored \in [Nodes -> SUBSET Nodes]
    /\ blocked \in SUBSET Nodes
    /\ sent \in [Nodes -> Nat]
    /\ met \in SUBSET Pairs
    /\ linked \subseteq met
    /\ \A a, b \in Nodes :
          {a, b} \notin linked => wire[a][b] = << >> /\ a \notin subscribers[b]

Occurs(x, s) == \E i \in 1..Len(s) : s[i] = x

\* b's key has reached a, is on its way to a, or will be sent to a.
KeyComing(b, a) ==
    \/ b \in keys[a]
    \/ Occurs(KeyExchangeReceived(b), events[a])
    \/ \E i \in 1..Len(wire[b][a]) :
          wire[b][a][i].type = "key" /\ wire[b][a][i].source = b
    \/ Occurs(KeyCommand, commands[b]) /\ a \in subscribers[b]
    \/ /\ a \notin keys[b]
       /\ \/ Occurs(PeerSubscribed(a), events[b])
          \/ Occurs(Subscription, wire[a][b])

\* While no link and no publication is lost, nothing is forwarded, no vault
\* is locked and no event task waits for itself, a neighbour's key is here or
\* on its way: a node that does not answer a subscription or a key has sent
\* its own key already (lib.rs:610, 689).
NoKeyLost ==
    (faults = 0 /\ blocked = {}) =>
      \A a, b \in Nodes :
          {a, b} \in linked => KeyComing(b, a) /\ KeyComing(a, b)

\* A node sends its key at most once for every connection and once for every
\* other node, and for the latter again after a lock, lost links, lost
\* messages and forwarding or not: the answers of two nodes do not call for
\* each other for ever (lib.rs:608-610).
NoExchangeLoop ==
    \A n \in Nodes :
        sent[n] + Len(commands[n])
            <= connects + (1 + locks) * (Cardinality(Nodes) - 1)

\* The exchange implements KeyAgreement: its safety in all conditions, its
\* liveness under the conditions of NoKeyLost.
Agreement == INSTANCE KeyAgreement WITH
    known <- {pair \in Nodes \X Nodes : pair[2] \in keys[pair[1]]}

KeysKept == Agreement!Spec
KeysAgreed == Agreement!FairSpec
=============================================================================

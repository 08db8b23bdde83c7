-------------------------- MODULE KeyExchange_proofs --------------------------
(***************************************************************************)
(* Theorems about KeyExchange, for any nodes and any bounds.               *)
(***************************************************************************)
EXTENDS KeyExchange, Lists_proofs

-----------------------------------------------------------------------------
(* Links and wires. *)

LEMMA TwoNodes ==
    ASSUME NEW a \in Nodes, NEW b \in Nodes, a # b
    PROVE  {a, b} \in Pairs
  <1>1. IsFiniteSet({a}) /\ Cardinality({a}) = 1
    BY FS_Singleton
  <1>2. Cardinality({a} \cup {b}) = 2
    BY <1>1, FS_AddElement
  <1>3. {a} \cup {b} = {a, b}
    OBVIOUS
  <1> QED
    BY <1>2, <1>3 DEF Pairs

\* Wires that carry messages of the set M.  The lemmas on links and channels
\* are about any messages, events and commands that include those of the key
\* exchange: chat messages use the same ones (Messaging).
Wires(M) == [Nodes -> [Nodes -> Seq(M)]]

\* wires with value on the wire from a to b.
Rewired(wires, a, b, value) ==
    [x \in Nodes |-> [y \in Nodes |-> IF x = a /\ y = b THEN value
                                      ELSE wires[x][y]]]

LEMMA WireReplaced ==
    ASSUME NEW M, NEW w \in Wires(M), NEW a \in Nodes, NEW b \in Nodes, NEW v
    PROVE  [w EXCEPT ![a][b] = v] = Rewired(w, a, b, v)
  BY DEF Rewired, Wires

LEMMA TypedRewired ==
    ASSUME NEW M, NEW w \in Wires(M), NEW a, NEW b, NEW v \in Seq(M),
           NEW u, u = Rewired(w, a, b, v)
    PROVE  /\ u \in Wires(M)
           /\ \A x, y \in Nodes : u[x][y] = IF x = a /\ y = b THEN v ELSE w[x][y]
  <1>1. \A x, y \in Nodes : w[x][y] \in Seq(M)
    BY DEF Wires
  <1> QED
    BY <1>1 DEF Rewired, Wires

\* A broadcast, one wire at a time.
LEMMA BroadcastWires ==
    ASSUME NEW M, NEW w \in Wires(M), NEW n \in Nodes, NEW targets, NEW m
    PROVE  \A x, y \in Nodes :
              Broadcast(w, n, targets, m)[x][y]
                 = IF x = n /\ y \in targets THEN Append(w[x][y], m) ELSE w[x][y]
  BY DEF Broadcast, Wires

LEMMA TypedBroadcast ==
    ASSUME NEW M, NEW w \in Wires(M), NEW n \in Nodes, NEW targets, NEW m \in M
    PROVE  Broadcast(w, n, targets, m) \in Wires(M)
  <1> DEFINE row == [y \in Nodes |-> IF y \in targets THEN Append(w[n][y], m)
                                     ELSE w[n][y]]
  <1>1. \A y \in Nodes : /\ w[n][y] \in Seq(M)
                         /\ Append(w[n][y], m) \in Seq(M)
    BY AppendProperties DEF Wires
  <1>2. row \in [Nodes -> Seq(M)]
    BY <1>1
  <1>3. Broadcast(w, n, targets, m) = [w EXCEPT ![n] = row]
    BY DEF Broadcast
  <1> HIDE DEF row
  <1> QED
    BY <1>2, <1>3 DEF Wires

-----------------------------------------------------------------------------
(* Types. *)

LEMMA MessageTypes ==
    /\ Subscription \in WireMessages
    /\ \A n \in Nodes, k \in Nat : KeyMessage(n, k) \in WireMessages
    /\ \A m \in WireMessages : m.type = "key" => m.source \in Nodes
    /\ \A p \in Nodes : /\ PeerSubscribed(p) \in NodeEvents
                        /\ KeyExchangeReceived(p) \in NodeEvents
    /\ \A e \in NodeEvents : e.peer \in Nodes
  BY DEF WireMessages, Subscription, KeyMessage, PeerSubscribed,
         KeyExchangeReceived, NodeEvents

\* The messages M and the events E include those of the key exchange, and no
\* others of their types.
Carries(M) ==
    /\ WireMessages \subseteq M
    /\ \A m \in M : m.type = "key" => m \in WireMessages
Tells(E) ==
    /\ NodeEvents \subseteq E
    /\ \A e \in E : e.type \in {"subscribed", "key"} => e \in NodeEvents

LEMMA ExchangeCarries == Carries(WireMessages) /\ Tells(NodeEvents)
  BY DEF Carries, Tells

\* The links and what may be on them, when they carry messages of M.
LinksOver(M) ==
    /\ linked \in SUBSET Pairs
    /\ wire \in Wires(M)
    /\ subscribers \in [Nodes -> SUBSET Nodes]
    /\ met \in SUBSET Pairs
    /\ linked \subseteq met
    /\ \A a, b \in Nodes :
          {a, b} \notin linked => wire[a][b] = << >> /\ a \notin subscribers[b]

\* Each node by itself, when its channels hold events of E and commands of C.
NodesOver(E, C) ==
    /\ events \in [Nodes -> Seq(E)]
    /\ commands \in [Nodes -> Seq(C)]
    /\ keys \in [Nodes -> SUBSET Nodes]
    /\ phase \in [Nodes -> Phases]
    /\ stored \in [Nodes -> SUBSET Nodes]
    /\ blocked \in SUBSET Nodes
    /\ sent \in [Nodes -> Nat]

LEMMA WiresConnect ==
    ASSUME NEW M, Carries(M),
           LinksOver(M), NEW a \in Nodes, NEW b \in Nodes, Connect(a, b)
    PROVE  /\ LinksOver(M)'
           /\ \A x, y \in Nodes : wire'[x][y] \in {wire[x][y], <<Subscription>>}
  <1> DEFINE new == <<Subscription>>
             half == Rewired(wire, a, b, new)
  <1>1. new \in Seq(M)
    BY MessageTypes DEF Carries
  <1> HIDE DEF new
  <1>2. /\ half \in Wires(M)
        /\ \A x, y \in Nodes :
              half[x][y] = IF x = a /\ y = b THEN new ELSE wire[x][y]
    BY <1>1, TypedRewired DEF LinksOver
  <1>3. wire' = Rewired(half, b, a, new)
    <2>1. wire' = [[wire EXCEPT ![a][b] = new] EXCEPT ![b][a] = new]
      BY DEF Connect, new
    <2>2. [wire EXCEPT ![a][b] = new] = half
      BY WireReplaced DEF LinksOver
    <2> HIDE DEF half
    <2> QED
      BY <1>2, <2>1, <2>2, WireReplaced
  <1> HIDE DEF half
  <1>4. /\ wire' \in Wires(M)
        /\ \A x, y \in Nodes : wire'[x][y] = IF x = b /\ y = a THEN new
                                                               ELSE half[x][y]
    BY <1>1, <1>2, <1>3, TypedRewired
  <1>5. /\ linked' = linked \cup {{a, b}} /\ met' = met \cup {{a, b}}
        /\ subscribers' = subscribers /\ {a, b} \in Pairs
    BY TwoNodes DEF Connect
  <1>6. ASSUME NEW x \in Nodes, NEW y \in Nodes, {x, y} \notin linked'
        PROVE  wire'[x][y] = << >> /\ x \notin subscribers'[y]
    <2>1. {x, y} \notin linked /\ ~(x = a /\ y = b) /\ ~(x = b /\ y = a)
      BY <1>5, <1>6
    <2> QED
      BY <1>2, <1>4, <1>5, <2>1 DEF LinksOver
  <1>7. \A x, y \in Nodes : wire'[x][y] \in {wire[x][y], new}
    BY <1>2, <1>4
  <1> QED
    BY <1>4, <1>5, <1>6, <1>7 DEF LinksOver, new

LEMMA WiresDisconnect ==
    ASSUME NEW M,
           LinksOver(M), NEW a \in Nodes, NEW b \in Nodes, Disconnect(a, b)
    PROVE  /\ LinksOver(M)'
           /\ \A x, y \in Nodes : wire'[x][y] \in {wire[x][y], << >>}
  <1> DEFINE none == << >>
             half == Rewired(wire, a, b, none)
  <1>1. none \in Seq(M)
    BY EmptySeq
  <1> HIDE DEF none
  <1>2. /\ half \in Wires(M)
        /\ \A x, y \in Nodes :
              half[x][y] = IF x = a /\ y = b THEN none ELSE wire[x][y]
    BY <1>1, TypedRewired DEF LinksOver
  <1>3. wire' = Rewired(half, b, a, none)
    <2>1. wire' = [[wire EXCEPT ![a][b] = none] EXCEPT ![b][a] = none]
      BY DEF Disconnect, none
    <2>2. [wire EXCEPT ![a][b] = none] = half
      BY WireReplaced DEF LinksOver
    <2> HIDE DEF half
    <2> QED
      BY <1>2, <2>1, <2>2, WireReplaced
  <1> HIDE DEF half
  <1>4. /\ wire' \in Wires(M)
        /\ \A x, y \in Nodes : wire'[x][y] = IF x = b /\ y = a THEN none
                                                               ELSE half[x][y]
    BY <1>1, <1>2, <1>3, TypedRewired
  <1>5. linked' = linked \ {{a, b}} /\ met' = met
    BY DEF Disconnect
  <1>6. /\ subscribers' \in [Nodes -> SUBSET Nodes]
        /\ \A x, y \in Nodes :
              x \in subscribers'[y] <=> /\ x \in subscribers[y]
                                        /\ ~(y = a /\ x = b) /\ ~(y = b /\ x = a)
    BY DEF Disconnect, LinksOver
  <1>7. ASSUME NEW x \in Nodes, NEW y \in Nodes, {x, y} \notin linked'
        PROVE  wire'[x][y] = << >> /\ x \notin subscribers'[y]
    <2>1. CASE {x, y} = {a, b}
      <3>1. (x = a /\ y = b) \/ (x = b /\ y = a)
        BY <2>1
      <3> QED
        BY <1>2, <1>4, <1>6, <3>1 DEF none
    <2>2. CASE {x, y} # {a, b}
      <3>1. {x, y} \notin linked
        BY <1>5, <1>7, <2>2
      <3>2. wire[x][y] = none /\ x \notin subscribers[y]
        BY <3>1 DEF LinksOver, none
      <3>3. wire'[x][y] = none
        BY <1>2, <1>4, <3>2
      <3> QED
        BY <1>6, <3>2, <3>3 DEF none
    <2> QED
      BY <2>1, <2>2
  <1>8. \A x, y \in Nodes : wire'[x][y] \in {wire[x][y], none}
    BY <1>2, <1>4
  <1> QED
    BY <1>4, <1>5, <1>6, <1>7, <1>8 DEF LinksOver, none

\* A wire with a message on it is one of a link.
LEMMA WiresTake ==
    ASSUME NEW M,
           LinksOver(M), NEW a \in Nodes, NEW b \in Nodes, wire[a][b] # << >>
    PROVE  /\ {a, b} \in linked
           /\ Head(wire[a][b]) \in M
           /\ Tail(wire[a][b]) \in Seq(M)
  <1>1. wire[a][b] \in Seq(M) /\ {a, b} \in linked
    BY DEF LinksOver, Wires
  <1> QED
    BY <1>1, HeadTailProperties

LEMMA WiresReceiveSubscription ==
    ASSUME NEW M,
           LinksOver(M), NEW a \in Nodes, NEW b \in Nodes, ReceiveSubscription(a, b)
    PROVE  /\ LinksOver(M)'
           /\ \A x, y \in Nodes : wire'[x][y] = IF x = a /\ y = b
                                                THEN Tail(wire[a][b])
                                                ELSE wire[x][y]
  <1> DEFINE rest == Tail(wire[a][b])
  <1>1. wire' = [wire EXCEPT ![a][b] = rest]
    BY DEF ReceiveSubscription, Take
  <1>2. {a, b} \in linked /\ rest \in Seq(M)
    BY WiresTake DEF ReceiveSubscription, Take
  <1> HIDE DEF rest
  <1>3. /\ wire' \in Wires(M)
        /\ \A x, y \in Nodes : wire'[x][y] = IF x = a /\ y = b THEN rest
                                             ELSE wire[x][y]
        /\ \A x, y \in Nodes : {x, y} \notin linked => wire'[x][y] = << >>
    <2>1. wire' = Rewired(wire, a, b, rest)
      BY <1>1, WireReplaced DEF LinksOver
    <2>2. wire \in Wires(M)
      BY DEF LinksOver
    <2>3. /\ wire' \in Wires(M)
          /\ \A x, y \in Nodes : wire'[x][y] = IF x = a /\ y = b THEN rest
                                               ELSE wire[x][y]
      BY <1>2, <2>1, <2>2, TypedRewired
    <2>4. ASSUME NEW x \in Nodes, NEW y \in Nodes, {x, y} \notin linked
          PROVE  wire'[x][y] = << >>
      <3>1. ~(x = a /\ y = b) /\ wire[x][y] = << >>
        BY <1>2, <2>4 DEF LinksOver
      <3> QED
        BY <2>3, <3>1
    <2> QED
      BY <2>3, <2>4
  <1>4. /\ subscribers' \in [Nodes -> SUBSET Nodes]
        /\ \A x, y \in Nodes :
              x \in subscribers'[y] <=> (x \in subscribers[y] \/ (x = a /\ y = b))
    BY DEF ReceiveSubscription, LinksOver
  <1>5. linked' = linked /\ met' = met
    BY DEF ReceiveSubscription, counters
  <1> QED
    BY <1>2, <1>3, <1>4, <1>5 DEF LinksOver, rest

\* A broadcast to subscribers travels on links.
LEMMA WiresBroadcast ==
    ASSUME NEW M,
           LinksOver(M), NEW w \in Wires(M),
           \A x, y \in Nodes : {x, y} \notin linked => w[x][y] = << >>,
           NEW n \in Nodes, NEW targets \in SUBSET subscribers[n],
           NEW m \in M,
           wire' = Broadcast(w, n, targets, m),
           UNCHANGED <<linked, subscribers, met>>
    PROVE  LinksOver(M)'
  <1>1. wire' \in Wires(M)
    BY TypedBroadcast
  <1>2. ASSUME NEW x \in Nodes, NEW y \in Nodes, {x, y} \notin linked
        PROVE  wire'[x][y] = << >>
    <2>1. wire'[x][y] = IF x = n /\ y \in targets THEN Append(w[x][y], m)
                                                  ELSE w[x][y]
      BY BroadcastWires
    <2>2. ~(x = n /\ y \in targets)
      <3>1. {y, x} = {x, y}
        OBVIOUS
      <3> QED
        BY <1>2, <3>1 DEF LinksOver
    <2> QED
      BY <1>2, <2>1, <2>2
  <1> QED
    BY <1>1, <1>2 DEF LinksOver

\* A message taken off the link from a to b, and perhaps passed on by b.
LEMMA WiresPassedOn ==
    ASSUME NEW M, LinksOver(M), NEW a \in Nodes, NEW b \in Nodes,
           wire[a][b] # << >>,
           LET taken == [wire EXCEPT ![a][b] = Tail(@)]
           IN  \/ wire' = taken
               \/ \E targets \in SUBSET subscribers[b] :
                     wire' = Broadcast(taken, b, targets, Head(wire[a][b])),
           UNCHANGED <<linked, subscribers, met>>
    PROVE  /\ LinksOver(M)'
           /\ \A x, y \in Nodes :
                 LET s == IF x = a /\ y = b THEN Tail(wire[a][b]) ELSE wire[x][y]
                 IN  \/ wire'[x][y] = s
                     \/ /\ x = b /\ y \in subscribers[b]
                        /\ wire'[x][y] = Append(s, Head(wire[a][b]))
  <1> DEFINE m == Head(wire[a][b])
             rest == Tail(wire[a][b])
             taken == [wire EXCEPT ![a][b] = rest]
  <1>1. /\ \/ wire' = taken
           \/ \E targets \in SUBSET subscribers[b] :
                 wire' = Broadcast(taken, b, targets, m)
        /\ UNCHANGED <<linked, subscribers, met>>
    OBVIOUS
  <1>2. {a, b} \in linked /\ m \in M /\ rest \in Seq(M)
    BY WiresTake
  <1> HIDE DEF m, rest
  <1>3. /\ taken \in Wires(M)
        /\ \A x, y \in Nodes : taken[x][y] = IF x = a /\ y = b THEN rest
                                             ELSE wire[x][y]
        /\ \A x, y \in Nodes : {x, y} \notin linked => taken[x][y] = << >>
    <2>1. taken = Rewired(wire, a, b, rest)
      BY WireReplaced DEF LinksOver
    <2> HIDE DEF taken
    <2>2. wire \in Wires(M)
      BY DEF LinksOver
    <2>3. /\ taken \in Wires(M)
          /\ \A x, y \in Nodes : taken[x][y] = IF x = a /\ y = b THEN rest
                                               ELSE wire[x][y]
      BY <1>2, <2>1, <2>2, TypedRewired
    <2>4. ASSUME NEW x \in Nodes, NEW y \in Nodes, {x, y} \notin linked
          PROVE  taken[x][y] = << >>
      <3>1. ~(x = a /\ y = b) /\ wire[x][y] = << >>
        BY <1>2, <2>4 DEF LinksOver
      <3> QED
        BY <2>3, <3>1
    <2> QED
      BY <2>3, <2>4
  <1> HIDE DEF taken
  <1>4. CASE wire' = taken
    <2>1. LinksOver(M)'
      BY <1>1, <1>3, <1>4 DEF LinksOver
    <2> QED
      BY <1>3, <1>4, <2>1 DEF rest
  <1>5. ASSUME NEW targets \in SUBSET subscribers[b],
               wire' = Broadcast(taken, b, targets, m)
        PROVE  /\ LinksOver(M)'
               /\ \A x, y \in Nodes :
                     LET s == IF x = a /\ y = b THEN rest ELSE wire[x][y]
                     IN  \/ wire'[x][y] = s
                         \/ /\ x = b /\ y \in subscribers[b]
                            /\ wire'[x][y] = Append(s, m)
    <2>1. LinksOver(M)'
      BY <1>1, <1>2, <1>3, <1>5, WiresBroadcast
    <2>2. \A x, y \in Nodes :
             wire'[x][y] = IF x = b /\ y \in targets THEN Append(taken[x][y], m)
                                                    ELSE taken[x][y]
      BY <1>3, <1>5, BroadcastWires
    <2>3. ASSUME NEW x \in Nodes, NEW y \in Nodes
          PROVE  LET s == IF x = a /\ y = b THEN rest ELSE wire[x][y]
                 IN  \/ wire'[x][y] = s
                     \/ /\ x = b /\ y \in subscribers[b]
                        /\ wire'[x][y] = Append(s, m)
      <3> DEFINE s == IF x = a /\ y = b THEN rest ELSE wire[x][y]
      <3>1. taken[x][y] = s
        BY <1>3
      <3>2. y \in targets => y \in subscribers[b]
        BY <1>5
      <3> HIDE DEF s
      <3>3. \/ wire'[x][y] = s
            \/ /\ x = b /\ y \in subscribers[b]
               /\ wire'[x][y] = Append(s, m)
        BY <2>2, <3>1, <3>2
      <3> QED
        BY <3>3 DEF s
    <2> QED
      BY <2>1, <2>3
  <1> QED
    BY <1>1, <1>4, <1>5 DEF m, rest

LEMMA WiresReceiveKey ==
    ASSUME NEW M, LinksOver(M), NEW a \in Nodes, NEW b \in Nodes,
           ReceiveKey(a, b)
    PROVE  /\ LinksOver(M)'
           /\ \A x, y \in Nodes :
                 LET s == IF x = a /\ y = b THEN Tail(wire[a][b]) ELSE wire[x][y]
                 IN  \/ wire'[x][y] = s
                     \/ /\ x = b /\ y \in subscribers[b]
                        /\ wire'[x][y] = Append(s, Head(wire[a][b]))
  <1> DEFINE taken == [wire EXCEPT ![a][b] = Tail(@)]
             m == Head(wire[a][b])
  <1>1. /\ wire[a][b] # << >>
        /\ \/ wire' = taken
           \/ \E targets \in SUBSET (subscribers[b] \ {a, m.source}) :
                 wire' = Broadcast(taken, b, targets, m)
        /\ UNCHANGED <<linked, subscribers, met>>
    BY DEF ReceiveKey
  <1>2. \/ wire' = taken
        \/ \E targets \in SUBSET subscribers[b] :
              wire' = Broadcast(taken, b, targets, m)
    BY <1>1
  <1> QED
    BY <1>1, <1>2, WiresPassedOn

\* A message sent to some subscribers of n.
LEMMA WiresPublish ==
    ASSUME NEW M, LinksOver(M), NEW n \in Nodes, NEW m \in M,
           NEW targets \in SUBSET subscribers[n],
           wire' = Broadcast(wire, n, targets, m),
           UNCHANGED <<linked, subscribers, met>>
    PROVE  /\ LinksOver(M)'
           /\ \A x, y \in Nodes :
                 wire'[x][y] = IF x = n /\ y \in targets
                               THEN Append(wire[x][y], m) ELSE wire[x][y]
  <1>1. /\ wire \in Wires(M)
        /\ \A x, y \in Nodes : {x, y} \notin linked => wire[x][y] = << >>
    BY DEF LinksOver
  <1>2. LinksOver(M)'
    BY <1>1, WiresBroadcast
  <1> QED
    BY <1>1, <1>2, BroadcastWires

LEMMA WiresPublishKey ==
    ASSUME NEW M, NEW E, NEW C, Carries(M), LinksOver(M), NodesOver(E, C),
           NEW n \in Nodes, PublishKey(n)
    PROVE  /\ LinksOver(M)'
           /\ \A x, y \in Nodes :
                 \/ wire'[x][y] = wire[x][y]
                 \/ /\ x = n /\ y \in subscribers[n]
                    /\ wire'[x][y] = Append(wire[x][y], KeyMessage(n, sent[n]))
  <1> DEFINE m == KeyMessage(n, sent[n])
  <1>1. m \in M
    BY MessageTypes DEF NodesOver, Carries
  <1>2. /\ wire' = Broadcast(wire, n, subscribers[n], m)
        /\ UNCHANGED <<linked, subscribers, met>>
    BY DEF PublishKey, counters
  <1> HIDE DEF m
  <1>3. /\ LinksOver(M)'
        /\ \A x, y \in Nodes :
              wire'[x][y] = IF x = n /\ y \in subscribers[n]
                            THEN Append(wire[x][y], m) ELSE wire[x][y]
    BY <1>1, <1>2, WiresPublish
  <1> QED
    BY <1>3 DEF m

\* The channels of a node.
LEMMA EventAdded ==
    ASSUME NEW E, NEW C,
           NodesOver(E, C), NEW n \in Nodes, NEW e \in E,
           events' = [events EXCEPT ![n] = Append(@, e)]
    PROVE  events' \in [Nodes -> Seq(E)]
  <1> DEFINE longer == Append(events[n], e)
  <1>1. longer \in Seq(E)
    BY AppendProperties DEF NodesOver
  <1>2. events' = [events EXCEPT ![n] = longer]
    OBVIOUS
  <1> HIDE DEF longer
  <1> QED
    BY <1>1, <1>2 DEF NodesOver

LEMMA EventTaken ==
    ASSUME NEW E, NEW C,
           NodesOver(E, C), NEW n \in Nodes, NEW type, NextEvent(n, type)
    PROVE  /\ events' \in [Nodes -> Seq(E)]
           /\ Head(events[n]) \in E /\ Head(events[n]).type = type
  <1> DEFINE rest == Tail(events[n])
  <1>1. events[n] \in Seq(E) /\ events[n] # << >>
    BY DEF NodesOver, NextEvent
  <1>2. rest \in Seq(E) /\ Head(events[n]) \in E
    BY <1>1, HeadTailProperties
  <1>3. events' = [events EXCEPT ![n] = rest]
    BY DEF NextEvent
  <1>4. Head(events[n]).type = type
    BY DEF NextEvent
  <1> HIDE DEF rest
  <1> QED
    BY <1>2, <1>3, <1>4 DEF NodesOver

LEMMA CommandAdded ==
    ASSUME NEW E, NEW C, KeyCommand \in C,
           NodesOver(E, C), NEW n \in Nodes, SendKeyExchange(n) \/ UNCHANGED commands
    PROVE  commands' \in [Nodes -> Seq(C)]
  <1> DEFINE longer == Append(commands[n], KeyCommand)
  <1>1. longer \in Seq(C)
    BY AppendProperties DEF NodesOver
  <1>2. commands' = [commands EXCEPT ![n] = longer] \/ commands' = commands
    BY DEF SendKeyExchange
  <1> HIDE DEF longer
  <1> QED
    BY <1>1, <1>2 DEF NodesOver

LEMMA CommandTaken ==
    ASSUME NEW E, NEW C,
           NodesOver(E, C), NEW n \in Nodes, NEW type, NextCommand(n, type)
    PROVE  commands' \in [Nodes -> Seq(C)]
  <1> DEFINE rest == Tail(commands[n])
  <1>1. commands[n] \in Seq(C) /\ commands[n] # << >>
    BY DEF NodesOver, NextCommand
  <1>2. rest \in Seq(C)
    BY <1>1, HeadTailProperties
  <1>3. commands' = [commands EXCEPT ![n] = rest]
    BY DEF NextCommand
  <1> HIDE DEF rest
  <1> QED
    BY <1>2, <1>3 DEF NodesOver

LEMMA ChannelsLoop ==
    ASSUME NEW M, NEW E, NEW C, Carries(M), Tells(E),
           LinksOver(M), NodesOver(E, C), NEW n \in Nodes, Loop(n)
    PROVE  NodesOver(E, C)'
  <1>1. CASE PublishKey(n)
    <2>1. commands' \in [Nodes -> Seq(C)]
      BY <1>1, CommandTaken DEF PublishKey
    <2>2. /\ sent' \in [Nodes -> Nat]
          /\ UNCHANGED <<events, keys, phase, stored, blocked>>
      BY <1>1 DEF PublishKey, vaults, NodesOver
    <2> QED
      BY <2>1, <2>2 DEF NodesOver
  <1>2. CASE PublishFails(n)
    <2>1. /\ commands' \in [Nodes -> Seq(C)]
          /\ UNCHANGED <<events, keys, phase, stored, blocked, sent>>
      BY <1>2, CommandTaken DEF PublishFails, vaults
    <2> QED
      BY <2>1 DEF NodesOver
  <1>3. ASSUME NEW a \in Nodes, ReceiveSubscription(a, n)
        PROVE  NodesOver(E, C)'
    <2>1. /\ events' = [events EXCEPT ![n] = Append(@, PeerSubscribed(a))]
          /\ UNCHANGED <<commands, keys, phase, stored, blocked, sent>>
      BY <1>3 DEF ReceiveSubscription, vaults
    <2>2. events' \in [Nodes -> Seq(E)]
      BY <2>1, MessageTypes, EventAdded DEF Tells
    <2> QED
      BY <2>1, <2>2 DEF NodesOver
  <1>4. ASSUME NEW a \in Nodes, ReceiveKey(a, n)
        PROVE  NodesOver(E, C)'
    <2> DEFINE p == Head(wire[a][n]).source
    <2>1. /\ \/ events' = events
             \/ events' = [events EXCEPT ![n] = Append(@, KeyExchangeReceived(p))]
          /\ UNCHANGED <<commands, keys, phase, stored, blocked, sent>>
      BY <1>4 DEF ReceiveKey, vaults
    <2>2. p \in Nodes
      BY <1>4, WiresTake, MessageTypes DEF ReceiveKey, Carries
    <2> HIDE DEF p
    <2>3. events' \in [Nodes -> Seq(E)]
      <3>1. CASE events' = events
        BY <3>1 DEF NodesOver
      <3>2. CASE events' = [events EXCEPT ![n] = Append(@, KeyExchangeReceived(p))]
        BY <2>2, <3>2, MessageTypes, EventAdded DEF Tells
      <3> QED
        BY <2>1, <3>1, <3>2
    <2> QED
      BY <2>1, <2>3 DEF NodesOver
  <1> QED
    BY <1>1, <1>2, <1>3, <1>4 DEF Loop

LEMMA ChannelsEventTask ==
    ASSUME NEW E, NEW C, Tells(E), KeyCommand \in C,
           NodesOver(E, C), NEW n \in Nodes, EventTask(n)
    PROVE  NodesOver(E, C)'
  <1> DEFINE p == Head(events[n]).peer
  <1>1. CASE HandleSubscribed(n)
    <2>1. events' \in [Nodes -> Seq(E)]
      BY <1>1, EventTaken DEF HandleSubscribed
    <2>2. commands' \in [Nodes -> Seq(C)]
      BY <1>1, CommandAdded DEF HandleSubscribed
    <2>3. UNCHANGED <<keys, phase, stored, blocked, sent>>
      BY <1>1 DEF HandleSubscribed, vaults
    <2> QED
      BY <2>1, <2>2, <2>3 DEF NodesOver
  <1>2. CASE HandleKey(n)
    <2>1. events' \in [Nodes -> Seq(E)] /\ p \in Nodes
      <3>1. NextEvent(n, "key")
        BY <1>2 DEF HandleKey
      <3>2. events' \in [Nodes -> Seq(E)] /\ Head(events[n]) \in NodeEvents
        BY <3>1, EventTaken DEF Tells
      <3> QED
        BY <3>2, MessageTypes
    <2>2. commands' \in [Nodes -> Seq(C)]
      BY <1>2, CommandAdded DEF HandleKey
    <2>3. UNCHANGED <<phase, stored, sent>>
      BY <1>2 DEF HandleKey, vaults
    <2> DEFINE more == keys[n] \cup {p}
    <2>4. keys' = [keys EXCEPT ![n] = more] \/ keys' = keys
      BY <1>2 DEF HandleKey, AddPeerKey
    <2>5. blocked' = blocked \cup {n} \/ blocked' = blocked
      BY <1>2 DEF HandleKey
    <2>6. more \in SUBSET Nodes
      BY <2>1 DEF NodesOver
    <2> HIDE DEF p, more
    <2>7. keys' \in [Nodes -> SUBSET Nodes]
      <3>1. keys \in [Nodes -> SUBSET Nodes]
        BY DEF NodesOver
      <3> QED
        BY <2>4, <2>6, <3>1
    <2>8. blocked' \in SUBSET Nodes
      BY <2>5 DEF NodesOver
    <2> QED
      BY <2>1, <2>2, <2>3, <2>7, <2>8 DEF NodesOver
  <1> QED
    BY <1>1, <1>2 DEF EventTask

LEMMA ChannelsVault ==
    ASSUME NEW E, NEW C,
           NodesOver(E, C), NEW n \in Nodes, Vault(n)
    PROVE  /\ NodesOver(E, C)'
           /\ UNCHANGED <<linked, wire, subscribers, met>>
  <1>1. /\ UNCHANGED <<linked, wire, subscribers, met>>
        /\ UNCHANGED <<events, commands, blocked, sent>>
        /\ phase' \in [Nodes -> Phases]
    BY DEF Vault, SealVault, ClearCrypto, LoadVault, StoreKey, Advance, network,
           NodesOver, Phases
  <1>2. keys' \in [Nodes -> SUBSET Nodes] /\ stored' \in [Nodes -> SUBSET Nodes]
    BY DEF Vault, SealVault, ClearCrypto, LoadVault, StoreKey, NodesOver
  <1> QED
    BY <1>1, <1>2 DEF NodesOver

LEMMA NextKeepsTypes ==
    ASSUME NEW M, NEW E, NEW C, Carries(M), Tells(E), KeyCommand \in C,
           LinksOver(M), NodesOver(E, C), Next
    PROVE  LinksOver(M)' /\ NodesOver(E, C)'
  <1>1. ASSUME NEW a \in Nodes, NEW b \in Nodes, Connect(a, b)
        PROVE  LinksOver(M)' /\ NodesOver(E, C)'
    <2>1. NodesOver(E, C)'
      BY <1>1 DEF Connect, vaults, NodesOver
    <2> QED
      BY <1>1, <2>1, WiresConnect
  <1>2. ASSUME NEW a \in Nodes, NEW b \in Nodes, Disconnect(a, b)
        PROVE  LinksOver(M)' /\ NodesOver(E, C)'
    <2>1. NodesOver(E, C)'
      BY <1>2 DEF Disconnect, vaults, NodesOver
    <2> QED
      BY <1>2, <2>1, WiresDisconnect
  <1>3. ASSUME NEW n \in Nodes, Loop(n)
        PROVE  LinksOver(M)' /\ NodesOver(E, C)'
    <2>1. NodesOver(E, C)'
      BY <1>3, ChannelsLoop
    <2>2. CASE PublishFails(n)
      BY <2>1, <2>2 DEF PublishFails, network, counters, LinksOver
    <2> QED
      BY <1>3, <2>1, <2>2, WiresPublishKey, WiresReceiveSubscription,
         WiresReceiveKey DEF Loop
  <1>4. ASSUME NEW n \in Nodes, EventTask(n)
        PROVE  LinksOver(M)' /\ NodesOver(E, C)'
    <2>1. UNCHANGED <<linked, wire, subscribers, met>>
      BY <1>4 DEF EventTask, HandleSubscribed, HandleKey, network, counters
    <2> QED
      BY <1>4, <2>1, ChannelsEventTask DEF LinksOver
  <1>5. ASSUME NEW n \in Nodes, Vault(n)
        PROVE  LinksOver(M)' /\ NodesOver(E, C)'
    BY <1>5, ChannelsVault DEF LinksOver
  <1> QED
    BY <1>1, <1>2, <1>3, <1>4, <1>5 DEF Next

-----------------------------------------------------------------------------
(* The same for the key exchange alone. *)

LinksOK == LinksOver(WireMessages)
NodesOK == NodesOver(NodeEvents, {KeyCommand})

LEMMA TypeParts == TypeOK <=> LinksOK /\ NodesOK
  BY DEF TypeOK, LinksOK, LinksOver, NodesOK, NodesOver, Wires

LEMMA LinksConnect ==
    ASSUME LinksOK, NEW a \in Nodes, NEW b \in Nodes, Connect(a, b)
    PROVE  /\ LinksOK'
           /\ \A x, y \in Nodes : wire'[x][y] \in {wire[x][y], <<Subscription>>}
  BY WiresConnect, ExchangeCarries DEF LinksOK

LEMMA LinksDisconnect ==
    ASSUME LinksOK, NEW a \in Nodes, NEW b \in Nodes, Disconnect(a, b)
    PROVE  /\ LinksOK'
           /\ \A x, y \in Nodes : wire'[x][y] \in {wire[x][y], << >>}
  BY WiresDisconnect DEF LinksOK

LEMMA LinksTake ==
    ASSUME LinksOK, NEW a \in Nodes, NEW b \in Nodes, wire[a][b] # << >>
    PROVE  /\ {a, b} \in linked
           /\ Head(wire[a][b]) \in WireMessages
           /\ Tail(wire[a][b]) \in Seq(WireMessages)
  BY WiresTake DEF LinksOK

LEMMA LinksReceiveSubscription ==
    ASSUME LinksOK, NEW a \in Nodes, NEW b \in Nodes, ReceiveSubscription(a, b)
    PROVE  /\ LinksOK'
           /\ \A x, y \in Nodes : wire'[x][y] = IF x = a /\ y = b
                                                THEN Tail(wire[a][b])
                                                ELSE wire[x][y]
  BY WiresReceiveSubscription DEF LinksOK

LEMMA LinksReceiveKey ==
    ASSUME LinksOK, NEW a \in Nodes, NEW b \in Nodes, ReceiveKey(a, b)
    PROVE  /\ LinksOK'
           /\ \A x, y \in Nodes :
                 LET s == IF x = a /\ y = b THEN Tail(wire[a][b]) ELSE wire[x][y]
                 IN  \/ wire'[x][y] = s
                     \/ /\ x = b /\ y \in subscribers[b]
                        /\ wire'[x][y] = Append(s, Head(wire[a][b]))
  BY WiresReceiveKey DEF LinksOK

LEMMA LinksPublishKey ==
    ASSUME LinksOK, NodesOK, NEW n \in Nodes, PublishKey(n)
    PROVE  /\ LinksOK'
           /\ \A x, y \in Nodes :
                 \/ wire'[x][y] = wire[x][y]
                 \/ /\ x = n /\ y \in subscribers[n]
                    /\ wire'[x][y] = Append(wire[x][y], KeyMessage(n, sent[n]))
  BY WiresPublishKey, ExchangeCarries DEF LinksOK, NodesOK

LEMMA NodesVault ==
    ASSUME NodesOK, NEW n \in Nodes, Vault(n)
    PROVE  /\ NodesOK'
           /\ UNCHANGED <<linked, wire, subscribers, met>>
  BY ChannelsVault DEF NodesOK

LEMMA EventFirst ==
    ASSUME NodesOK, NEW n \in Nodes, NEW type, NextEvent(n, type)
    PROVE  /\ events' \in [Nodes -> Seq(NodeEvents)]
           /\ Head(events[n]) \in NodeEvents
  BY EventTaken DEF NodesOK

LEMMA TypesInitially == Init => TypeOK
  <1> SUFFICES ASSUME Init PROVE LinksOK /\ NodesOK
    BY TypeParts
  <1>1. /\ << >> \in Seq(WireMessages) /\ << >> \in Seq(NodeEvents)
        /\ << >> \in Seq({KeyCommand})
    BY EmptySeq
  <1>2. wire \in Wires(WireMessages)
    BY <1>1 DEF Init, Wires
  <1>3. LinksOK
    BY <1>2 DEF Init, LinksOK, LinksOver
  <1>4. phase \in [Nodes -> Phases]
    BY ExchangeAssumption DEF Init, Phases
  <1>5. NodesOK
    BY <1>1, <1>4 DEF Init, NodesOK, NodesOver
  <1> QED
    BY <1>3, <1>5

LEMMA TypesKept == TypeOK /\ [Next]_vars => TypeOK'
  <1> SUFFICES ASSUME LinksOK, NodesOK, [Next]_vars PROVE LinksOK' /\ NodesOK'
    BY TypeParts DEF TypeOK, LinksOK, LinksOver, NodesOK, NodesOver, Wires
  <1>1. CASE Next
    <2>1. /\ LinksOver(WireMessages)
          /\ NodesOver(NodeEvents, {KeyCommand})
          /\ KeyCommand \in {KeyCommand}
      BY DEF LinksOK, NodesOK
    <2> QED
      BY <1>1, <2>1, ExchangeCarries, NextKeepsTypes DEF LinksOK, NodesOK
  <1>2. CASE UNCHANGED vars
    BY <1>2 DEF vars, LinksOK, LinksOver, NodesOK, NodesOver
  <1> QED
    BY <1>1, <1>2

\* Links, wires and channels keep their types; nothing travels on a link that
\* is down and only linked nodes are taken for subscribers.
THEOREM TypeCorrect == Spec => []TypeOK
  <1> QED
    BY TypesInitially, TypesKept, PTL DEF Spec
-----------------------------------------------------------------------------
(* Keys come only from nodes that can be reached over pairs that have met. *)

\* KeyAgreement!Reachable with its pairs as a parameter.
Reach(pairs, a, b) ==
    \A side \in SUBSET Nodes :
        (a \in side /\ b \notin side) =>
            \E pair \in pairs : pair \cap side # {} /\ ~(pair \subseteq side)

LEMMA ReachSelf ==
    ASSUME NEW pairs, NEW a
    PROVE  Reach(pairs, a, a)
  BY DEF Reach

LEMMA ReachMore ==
    ASSUME NEW pairs, NEW more, pairs \subseteq more, NEW a, NEW b,
           Reach(pairs, a, b)
    PROVE  Reach(more, a, b)
  BY DEF Reach

\* Whom a neighbour reaches is reached through it.
LEMMA ReachOver ==
    ASSUME NEW pairs, NEW a, NEW b, {a, b} \in pairs, NEW p, Reach(pairs, b, p)
    PROVE  Reach(pairs, a, p)
  <1> SUFFICES ASSUME NEW side \in SUBSET Nodes, a \in side, p \notin side
               PROVE  \E pair \in pairs :
                         pair \cap side # {} /\ ~(pair \subseteq side)
    BY DEF Reach
  <1>1. CASE b \in side
    BY <1>1 DEF Reach
  <1>2. CASE b \notin side
    <2>1. {a, b} \cap side # {} /\ ~({a, b} \subseteq side)
      BY <1>2
    <2> QED
      BY <2>1
  <1> QED
    BY <1>1, <1>2

\* The peers whose key n may have come by, and the messages and events that
\* may bring it one.
Near(pairs, n) == {p \in Nodes \ {n} : Reach(pairs, n, p)}
NearMessages(pairs, n) ==
    {m \in WireMessages : m.type = "key" => Reach(pairs, n, m.source)}
NearEvents(pairs, n) ==
    {e \in NodeEvents : e.type = "key" => e.peer \in Near(pairs, n)}

\* The strengthening: a key comes from a peer in reach wherever it is, on a
\* link, in a channel, in memory or in the vault.
WiresInReach == \A x, y \in Nodes : wire[x][y] \in Seq(NearMessages(met, y))
EventsInReach == \A n \in Nodes : events[n] \in Seq(NearEvents(met, n))
KeysInReach ==
    \A n \in Nodes :
        /\ keys[n] \subseteq Near(met, n)
        /\ stored[n] \subseteq Near(met, n)
        /\ phase[n] = "cleared" => keys[n] = {}
InReach == WiresInReach /\ EventsInReach /\ KeysInReach

LEMMA NearMore ==
    ASSUME NEW pairs, NEW more, pairs \subseteq more, NEW n
    PROVE  /\ Near(pairs, n) \subseteq Near(more, n)
           /\ NearMessages(pairs, n) \subseteq NearMessages(more, n)
           /\ NearEvents(pairs, n) \subseteq NearEvents(more, n)
  <1>1. Near(pairs, n) \subseteq Near(more, n)
    BY ReachMore DEF Near
  <1>2. NearMessages(pairs, n) \subseteq NearMessages(more, n)
    BY ReachMore DEF NearMessages
  <1>3. NearEvents(pairs, n) \subseteq NearEvents(more, n)
    BY <1>1 DEF NearEvents
  <1> QED
    BY <1>1, <1>2, <1>3

LEMMA NearTypes ==
    ASSUME NEW pairs, NEW n \in Nodes
    PROVE  /\ Subscription \in NearMessages(pairs, n)
           /\ \A p \in Nodes : PeerSubscribed(p) \in NearEvents(pairs, n)
           /\ \A p \in Near(pairs, n) :
                 KeyExchangeReceived(p) \in NearEvents(pairs, n)
           /\ \A m \in NearMessages(pairs, n) :
                 (m.type = "key" /\ m.source # n) => m.source \in Near(pairs, n)
  <1>1. Subscription \in NearMessages(pairs, n)
    BY MessageTypes DEF NearMessages, Subscription
  <1>2. \A p \in Nodes : PeerSubscribed(p) \in NearEvents(pairs, n)
    BY MessageTypes DEF NearEvents, PeerSubscribed
  <1>3. \A p \in Near(pairs, n) : KeyExchangeReceived(p) \in NearEvents(pairs, n)
    BY MessageTypes DEF NearEvents, KeyExchangeReceived, Near
  <1>4. \A m \in NearMessages(pairs, n) :
           (m.type = "key" /\ m.source # n) => m.source \in Near(pairs, n)
    BY MessageTypes DEF NearMessages, Near
  <1> QED
    BY <1>1, <1>2, <1>3, <1>4

\* A neighbour known to be subscribed reaches what its neighbour reaches.
LEMMA SubscriberReach ==
    ASSUME LinksOK, NEW n \in Nodes, NEW y \in subscribers[n], NEW p,
           Reach(met, n, p)
    PROVE  Reach(met, y, p)
  <1>1. y \in Nodes
    BY DEF LinksOK, LinksOver
  <1>2. {y, n} \in met
    BY <1>1 DEF LinksOK, LinksOver
  <1> QED
    BY <1>2, ReachOver

LEMMA InReachInitially == Init => InReach
  <1> SUFFICES ASSUME Init PROVE InReach
    OBVIOUS
  <1>1. ASSUME NEW x \in Nodes, NEW y \in Nodes
        PROVE  wire[x][y] \in Seq(NearMessages(met, y))
    BY EmptySeq DEF Init
  <1>2. ASSUME NEW n \in Nodes
        PROVE  events[n] \in Seq(NearEvents(met, n))
    BY EmptySeq DEF Init
  <1>3. KeysInReach
    BY DEF Init, KeysInReach
  <1> QED
    BY <1>1, <1>2, <1>3 DEF InReach, WiresInReach, EventsInReach

\* More links: what was in reach still is.
LEMMA InReachConnect ==
    ASSUME LinksOK, InReach, NEW a \in Nodes, NEW b \in Nodes, Connect(a, b)
    PROVE  InReach'
  <1>1. met \subseteq met' /\ UNCHANGED <<events, keys, stored, phase>>
    BY DEF Connect, vaults
  <1>2. ASSUME NEW x \in Nodes, NEW y \in Nodes
        PROVE  wire'[x][y] \in Seq(NearMessages(met', y))
    <2> DEFINE new == <<Subscription>>
               set == NearMessages(met', y)
    <2>1. new \in Seq(set)
      BY NearTypes
    <2>2. wire[x][y] \in Seq(set)
      BY <1>1, NearMore, SeqMonotonic DEF InReach, WiresInReach
    <2>3. wire'[x][y] = wire[x][y] \/ wire'[x][y] = new
      BY LinksConnect
    <2> HIDE DEF new, set
    <2>4. wire'[x][y] \in Seq(set)
      BY <2>1, <2>2, <2>3
    <2> QED
      BY <2>4 DEF set
  <1>3. ASSUME NEW n \in Nodes
        PROVE  events[n] \in Seq(NearEvents(met', n))
    BY <1>1, NearMore, SeqMonotonic DEF InReach, EventsInReach
  <1>4. ASSUME NEW n \in Nodes
        PROVE  Near(met, n) \subseteq Near(met', n)
    BY <1>1, NearMore
  <1>5. KeysInReach'
    BY <1>1, <1>4 DEF InReach, KeysInReach
  <1> QED
    BY <1>1, <1>2, <1>3, <1>5 DEF InReach, WiresInReach, EventsInReach

LEMMA InReachDisconnect ==
    ASSUME LinksOK, InReach, NEW a \in Nodes, NEW b \in Nodes, Disconnect(a, b)
    PROVE  InReach'
  <1>1. UNCHANGED <<met, events, keys, stored, phase>>
    BY DEF Disconnect, vaults
  <1>2. ASSUME NEW x \in Nodes, NEW y \in Nodes
        PROVE  wire'[x][y] \in Seq(NearMessages(met, y))
    <2> DEFINE set == NearMessages(met, y)
               none == << >>
    <2>1. none \in Seq(set)
      BY EmptySeq
    <2>2. wire[x][y] \in Seq(set)
      BY DEF InReach, WiresInReach
    <2>3. wire'[x][y] = wire[x][y] \/ wire'[x][y] = none
      BY LinksDisconnect
    <2> HIDE DEF set, none
    <2>4. wire'[x][y] \in Seq(set)
      BY <2>1, <2>2, <2>3
    <2> QED
      BY <2>4 DEF set
  <1> QED
    BY <1>1, <1>2 DEF InReach, WiresInReach, EventsInReach, KeysInReach

\* A message taken off a link.
LEMMA TakenInReach ==
    ASSUME WiresInReach, NEW a \in Nodes, NEW b \in Nodes, wire[a][b] # << >>
    PROVE  /\ Head(wire[a][b]) \in NearMessages(met, b)
           /\ Tail(wire[a][b]) \in Seq(NearMessages(met, b))
  <1>1. wire[a][b] \in Seq(NearMessages(met, b))
    BY DEF WiresInReach
  <1> HIDE DEF NearMessages
  <1> QED
    BY <1>1, HeadTailProperties

\* An event put into the channel of a node.
LEMMA EventInReach ==
    ASSUME NodesOK, EventsInReach, met' = met, NEW n \in Nodes,
           NEW e \in NearEvents(met, n),
           events' = [events EXCEPT ![n] = Append(@, e)]
    PROVE  EventsInReach'
  <1> DEFINE longer == Append(events[n], e)
  <1>1. events[n] \in Seq(NearEvents(met, n))
    BY DEF EventsInReach
  <1>2. longer \in Seq(NearEvents(met, n))
    <2> HIDE DEF NearEvents
    <2> QED
      BY <1>1, AppendProperties
  <1>3. events' = [events EXCEPT ![n] = longer]
    OBVIOUS
  <1> HIDE DEF longer
  <1>4. ASSUME NEW x \in Nodes
        PROVE  events'[x] \in Seq(NearEvents(met, x))
    <2>1. events'[x] = IF x = n THEN longer ELSE events[x]
      BY <1>3 DEF NodesOK, NodesOver
    <2>2. events[x] \in Seq(NearEvents(met, x))
      BY DEF EventsInReach
    <2> QED
      BY <1>2, <2>1, <2>2
  <1> QED
    BY <1>4 DEF EventsInReach

\* An event taken out of it.
LEMMA EventTakenInReach ==
    ASSUME NodesOK, EventsInReach, met' = met, NEW n \in Nodes, NEW type,
           NextEvent(n, type)
    PROVE  /\ EventsInReach'
           /\ Head(events[n]) \in NearEvents(met, n)
  <1> DEFINE rest == Tail(events[n])
  <1>1. events[n] \in Seq(NearEvents(met, n)) /\ events[n] # << >>
    BY DEF EventsInReach, NextEvent
  <1>2. rest \in Seq(NearEvents(met, n)) /\ Head(events[n]) \in NearEvents(met, n)
    <2> HIDE DEF NearEvents
    <2> QED
      BY <1>1, HeadTailProperties
  <1>3. events' = [events EXCEPT ![n] = rest]
    BY DEF NextEvent
  <1> HIDE DEF rest
  <1>4. ASSUME NEW x \in Nodes
        PROVE  events'[x] \in Seq(NearEvents(met, x))
    <2>1. events'[x] = IF x = n THEN rest ELSE events[x]
      BY <1>3 DEF NodesOK, NodesOver
    <2>2. events[x] \in Seq(NearEvents(met, x))
      BY DEF EventsInReach
    <2> QED
      BY <1>2, <2>1, <2>2
  <1> QED
    BY <1>2, <1>4 DEF EventsInReach

LEMMA InReachReceiveSubscription ==
    ASSUME LinksOK, NodesOK, InReach, NEW a \in Nodes, NEW b \in Nodes,
           ReceiveSubscription(a, b)
    PROVE  InReach'
  <1>1. UNCHANGED <<met, keys, stored, phase>>
    BY DEF ReceiveSubscription, vaults, counters
  <1>2. Tail(wire[a][b]) \in Seq(NearMessages(met, b))
    BY TakenInReach DEF ReceiveSubscription, Take, InReach
  <1>3. ASSUME NEW x \in Nodes, NEW y \in Nodes
        PROVE  wire'[x][y] \in Seq(NearMessages(met, y))
    <2> DEFINE rest == Tail(wire[a][b])
    <2>1. wire'[x][y] = IF x = a /\ y = b THEN rest ELSE wire[x][y]
      BY LinksReceiveSubscription
    <2>2. wire[x][y] \in Seq(NearMessages(met, y))
      BY DEF InReach, WiresInReach
    <2> HIDE DEF rest
    <2> QED
      BY <1>2, <2>1, <2>2 DEF rest
  <1>4. EventsInReach'
    <2>1. events' = [events EXCEPT ![b] = Append(@, PeerSubscribed(a))]
      BY DEF ReceiveSubscription
    <2>2. PeerSubscribed(a) \in NearEvents(met, b)
      BY NearTypes
    <2> QED
      BY <1>1, <2>1, <2>2, EventInReach DEF InReach
  <1>5. KeysInReach'
    BY <1>1 DEF InReach, KeysInReach
  <1> QED
    BY <1>1, <1>3, <1>4, <1>5 DEF InReach, WiresInReach

LEMMA InReachReceiveKey ==
    ASSUME LinksOK, NodesOK, InReach, NEW a \in Nodes, NEW b \in Nodes,
           ReceiveKey(a, b)
    PROVE  InReach'
  <1> DEFINE m == Head(wire[a][b])
             rest == Tail(wire[a][b])
  <1>1. UNCHANGED <<met, keys, stored, phase>>
    BY DEF ReceiveKey, vaults
  <1>2. /\ m \in NearMessages(met, b) /\ m.type = "key"
        /\ rest \in Seq(NearMessages(met, b))
    BY TakenInReach DEF ReceiveKey, InReach
  <1>3. m \in WireMessages /\ Reach(met, b, m.source)
    BY <1>2 DEF NearMessages
  <1>4. ASSUME NEW x \in Nodes, NEW y \in Nodes
        PROVE  wire'[x][y] \in Seq(NearMessages(met, y))
    <2> DEFINE s == IF x = a /\ y = b THEN rest ELSE wire[x][y]
               set == NearMessages(met, y)
    <2>1. \/ wire'[x][y] = s
          \/ /\ x = b /\ y \in subscribers[b]
             /\ wire'[x][y] = Append(s, m)
      BY LinksReceiveKey
    <2>2. s \in Seq(set)
      <3>1. wire[x][y] \in Seq(set)
        BY DEF InReach, WiresInReach
      <3> HIDE DEF rest
      <3> QED
        BY <1>2, <3>1
    <2>3. y \in subscribers[b] => m \in set
      <3>1. ASSUME y \in subscribers[b]
            PROVE  Reach(met, y, m.source)
        BY <1>3, <3>1, SubscriberReach
      <3> QED
        BY <1>3, <3>1 DEF NearMessages
    <2> HIDE DEF s, set, m
    <2>4. wire'[x][y] \in Seq(set)
      <3>1. m \in set => Append(s, m) \in Seq(set)
        BY <2>2, AppendProperties
      <3> QED
        BY <2>1, <2>2, <2>3, <3>1
    <2> QED
      BY <2>4 DEF set
  <1>5. EventsInReach'
    <2>1. \/ events' = events
          \/ /\ m.source # b
             /\ events' = [events EXCEPT
                              ![b] = Append(@, KeyExchangeReceived(m.source))]
      BY DEF ReceiveKey
    <2>2. CASE events' = events
      BY <1>1, <2>2 DEF InReach, EventsInReach
    <2>3. ASSUME m.source # b,
                 events' = [events EXCEPT
                              ![b] = Append(@, KeyExchangeReceived(m.source))]
          PROVE  EventsInReach'
      <3> DEFINE e == KeyExchangeReceived(m.source)
      <3>1. e \in NearEvents(met, b)
        BY <1>2, <2>3, NearTypes
      <3>2. events' = [events EXCEPT ![b] = Append(@, e)]
        BY <2>3
      <3> HIDE DEF e
      <3> QED
        BY <1>1, <3>1, <3>2, EventInReach DEF InReach
    <2> QED
      BY <2>1, <2>2, <2>3
  <1>6. KeysInReach'
    BY <1>1 DEF InReach, KeysInReach
  <1> QED
    BY <1>1, <1>4, <1>5, <1>6 DEF InReach, WiresInReach

LEMMA InReachPublishKey ==
    ASSUME LinksOK, NodesOK, InReach, NEW n \in Nodes, PublishKey(n)
    PROVE  InReach'
  <1> DEFINE m == KeyMessage(n, sent[n])
  <1>1. UNCHANGED <<met, events, keys, stored, phase>>
    BY DEF PublishKey, vaults, counters
  <1>2. m \in WireMessages /\ m.source = n
    BY MessageTypes DEF NodesOK, NodesOver, KeyMessage
  <1>3. ASSUME NEW x \in Nodes, NEW y \in Nodes
        PROVE  wire'[x][y] \in Seq(NearMessages(met, y))
    <2> DEFINE set == NearMessages(met, y)
    <2>1. \/ wire'[x][y] = wire[x][y]
          \/ /\ y \in subscribers[n]
             /\ wire'[x][y] = Append(wire[x][y], m)
      BY LinksPublishKey
    <2>2. wire[x][y] \in Seq(set)
      BY DEF InReach, WiresInReach
    <2> HIDE DEF m
    <2>3. y \in subscribers[n] => m \in set
      <3>1. ASSUME y \in subscribers[n]
            PROVE  Reach(met, y, n)
        BY <3>1, ReachSelf, SubscriberReach
      <3> QED
        BY <1>2, <3>1 DEF NearMessages
    <2> HIDE DEF set
    <2>4. wire'[x][y] \in Seq(set)
      <3>1. m \in set => Append(wire[x][y], m) \in Seq(set)
        BY <2>2, AppendProperties
      <3> QED
        BY <2>1, <2>2, <2>3, <3>1
    <2> QED
      BY <2>4 DEF set
  <1> QED
    BY <1>1, <1>3 DEF InReach, WiresInReach, EventsInReach, KeysInReach

\* What handling an event does to the keys: nothing, or one more in reach.
LEMMA KeysHandled ==
    ASSUME NodesOK, InReach, NEW n \in Nodes, EventTask(n)
    PROVE  \/ keys' = keys
           \/ \E p \in Near(met, n) :
                 /\ keys' = [keys EXCEPT ![n] = @ \cup {p}]
                 /\ phase[n] # "cleared"
  <1>1. CASE HandleSubscribed(n)
    BY <1>1 DEF HandleSubscribed
  <1>2. CASE HandleKey(n)
    <2> DEFINE e == Head(events[n])
    <2>1. e \in NearEvents(met, n) /\ e.type = "key"
      <3>1. NextEvent(n, "key") /\ met' = met
        BY <1>2 DEF HandleKey, counters
      <3> QED
        BY <3>1, EventTakenInReach DEF InReach, NextEvent
    <2>2. e.peer \in Near(met, n)
      BY <2>1 DEF NearEvents
    <2>3. \/ keys' = keys
          \/ /\ keys' = [keys EXCEPT ![n] = @ \cup {e.peer}]
             /\ phase[n] # "cleared"
      BY <1>2 DEF HandleKey, AddPeerKey, HasIdentity
    <2> QED
      BY <2>2, <2>3
  <1> QED
    BY <1>1, <1>2 DEF EventTask

LEMMA InReachEventTask ==
    ASSUME NodesOK, InReach, NEW n \in Nodes, EventTask(n)
    PROVE  InReach'
  <1>1. UNCHANGED <<met, wire, stored, phase>>
    BY DEF EventTask, HandleSubscribed, HandleKey, network, vaults, counters
  <1>2. EventsInReach'
    <2>1. NextEvent(n, "subscribed") \/ NextEvent(n, "key")
      BY DEF EventTask, HandleSubscribed, HandleKey
    <2> QED
      BY <1>1, <2>1, EventTakenInReach DEF InReach
  <1>3. KeysInReach'
    <2>1. CASE keys' = keys
      BY <1>1, <2>1 DEF InReach, KeysInReach
    <2>2. ASSUME NEW p \in Near(met, n), phase[n] # "cleared",
                 keys' = [keys EXCEPT ![n] = @ \cup {p}]
          PROVE  KeysInReach'
      <3>1. \A x \in Nodes : keys'[x] = IF x = n THEN keys[n] \cup {p}
                                                 ELSE keys[x]
        BY <2>2 DEF NodesOK, NodesOver
      <3>2. ASSUME NEW x \in Nodes
            PROVE  /\ keys'[x] \subseteq Near(met, x)
                   /\ stored[x] \subseteq Near(met, x)
                   /\ phase[x] = "cleared" => keys'[x] = {}
        BY <2>2, <3>1 DEF InReach, KeysInReach
      <3> QED
        BY <1>1, <3>2 DEF KeysInReach
    <2> QED
      BY <2>1, <2>2, KeysHandled
  <1> QED
    BY <1>1, <1>2, <1>3 DEF InReach, WiresInReach

\* What the vault does to the keys of its node.
LEMMA InReachVault ==
    ASSUME NodesOK, InReach, NEW n \in Nodes, Vault(n)
    PROVE  InReach'
  <1>1. UNCHANGED <<met, wire, events>>
    BY DEF Vault, SealVault, ClearCrypto, LoadVault, StoreKey, Advance, network
  <1>2. ASSUME NEW x \in Nodes
        PROVE  /\ keys'[x] \subseteq Near(met, x)
               /\ stored'[x] \subseteq Near(met, x)
               /\ phase'[x] = "cleared" => keys'[x] = {}
    <2>1. /\ keys[x] \subseteq Near(met, x)
          /\ stored[x] \subseteq Near(met, x)
          /\ phase[x] = "cleared" => keys[x] = {}
      BY DEF InReach, KeysInReach
    <2>2. CASE SealVault(n)
      BY <2>1, <2>2 DEF SealVault, Advance, NodesOK, NodesOver
    <2>3. CASE ClearCrypto(n)
      BY <2>1, <2>3 DEF ClearCrypto, Advance, NodesOK, NodesOver
    <2>4. CASE LoadVault(n)
      BY <2>1, <2>4 DEF LoadVault, Advance, NodesOK, NodesOver
    <2>5. CASE StoreKey(n)
      BY <2>1, <2>5 DEF StoreKey, Advance, NodesOK, NodesOver
    <2> QED
      BY <2>2, <2>3, <2>4, <2>5 DEF Vault
  <1> QED
    BY <1>1, <1>2 DEF InReach, WiresInReach, EventsInReach, KeysInReach

LEMMA InReachKept ==
    ASSUME TypeOK, InReach, [Next]_vars
    PROVE  InReach'
  <1> USE TypeParts
  <1>1. ASSUME NEW a \in Nodes, NEW b \in Nodes,
               Connect(a, b) \/ Disconnect(a, b)
        PROVE  InReach'
    BY <1>1, InReachConnect, InReachDisconnect
  <1>2. ASSUME NEW n \in Nodes, Loop(n)
        PROVE  InReach'
    <2>1. CASE PublishFails(n)
      BY <2>1 DEF PublishFails, network, vaults, InReach, WiresInReach,
                  EventsInReach, KeysInReach
    <2> QED
      BY <1>2, <2>1, InReachPublishKey, InReachReceiveSubscription,
         InReachReceiveKey DEF Loop
  <1>3. ASSUME NEW n \in Nodes, EventTask(n) \/ Vault(n)
        PROVE  InReach'
    BY <1>3, InReachEventTask, InReachVault
  <1>4. CASE UNCHANGED vars
    BY <1>4 DEF vars, InReach, WiresInReach, EventsInReach, KeysInReach
  <1> QED
    BY <1>1, <1>2, <1>3, <1>4 DEF Next

-----------------------------------------------------------------------------
(* The refinement. *)

LEMMA AgreementBegins == Init => Agreement!Init
  BY DEF Init, Agreement!Init

\* Handling an event learns a key in reach, or stutters.
LEMMA AgreementEventTask ==
    ASSUME NodesOK, InReach, NEW n \in Nodes, EventTask(n)
    PROVE  [Agreement!Next]_Agreement!vars
  <1>1. met' = met
    BY DEF EventTask, HandleSubscribed, HandleKey, counters
  <1>2. CASE keys' = keys
    BY <1>1, <1>2 DEF Agreement!vars
  <1>3. ASSUME NEW p \in Near(met, n),
               keys' = [keys EXCEPT ![n] = @ \cup {p}]
        PROVE  Agreement!Learn(n, p)
    <2>1. \A x \in Nodes : keys'[x] = IF x = n THEN keys[n] \cup {p}
                                               ELSE keys[x]
      BY <1>3 DEF NodesOK, NodesOver
    <2>2. p \in Nodes /\ p # n /\ Reach(met, n, p)
      BY DEF Near
    <2>3. {pair \in Nodes \X Nodes : pair[2] \in keys'[pair[1]]}
             = {pair \in Nodes \X Nodes : pair[2] \in keys[pair[1]]}
                 \cup {<<n, p>>}
      BY <2>1, <2>2
    <2>4. Agreement!Reachable(n, p)
      BY <2>2 DEF Reach, Agreement!Reachable
    <2> QED
      BY <1>1, <2>2, <2>3, <2>4 DEF Agreement!Learn
  <1> QED
    BY <1>2, <1>3, KeysHandled DEF Agreement!Next, Near

\* Clearing forgets, loading recalls, the rest stutters.
LEMMA AgreementVault ==
    ASSUME NodesOK, InReach, NEW n \in Nodes, Vault(n)
    PROVE  [Agreement!Next]_Agreement!vars
  <1>1. met' = met
    BY DEF Vault, SealVault, ClearCrypto, LoadVault, StoreKey, Advance
  <1>2. CASE SealVault(n) \/ StoreKey(n)
    BY <1>1, <1>2 DEF SealVault, StoreKey, Agreement!vars
  <1>3. CASE ClearCrypto(n)
    <2>1. \A x \in Nodes : keys'[x] = IF x = n THEN {} ELSE keys[x]
      BY <1>3 DEF ClearCrypto, NodesOK, NodesOver
    <2>2. {pair \in Nodes \X Nodes : pair[2] \in keys'[pair[1]]}
             = {pair \in {pair \in Nodes \X Nodes : pair[2] \in keys[pair[1]]} :
                   pair[1] # n}
      BY <2>1
    <2>3. Agreement!Forget(n)
      BY <1>1, <2>2 DEF Agreement!Forget
    <2> QED
      BY <2>3 DEF Agreement!Next
  <1>4. CASE LoadVault(n)
    <2>1. \A x \in Nodes : keys'[x] = IF x = n THEN stored[n] ELSE keys[x]
      BY <1>4 DEF LoadVault, NodesOK, NodesOver
    <2>2. keys[n] = {} /\ stored[n] \subseteq Near(met, n)
      BY <1>4 DEF LoadVault, Advance, InReach, KeysInReach
    <2>3. stored[n] \in SUBSET {b \in Nodes \ {n} : Agreement!Reachable(n, b)}
      BY <2>2 DEF Near, Reach, Agreement!Reachable
    <2>4. {pair \in Nodes \X Nodes : pair[2] \in keys'[pair[1]]}
             = {pair \in Nodes \X Nodes : pair[2] \in keys[pair[1]]}
                 \cup ({n} \X stored[n])
      BY <2>1, <2>2 DEF Near
    <2>5. Agreement!Recall(n)
      BY <1>1, <2>3, <2>4 DEF Agreement!Recall
    <2> QED
      BY <2>5 DEF Agreement!Next
  <1> QED
    BY <1>2, <1>3, <1>4 DEF Vault

LEMMA AgreementSteps ==
    ASSUME TypeOK, InReach, [Next]_vars
    PROVE  [Agreement!Next]_Agreement!vars
  <1>1. ASSUME NEW a \in Nodes, NEW b \in Nodes, Connect(a, b)
        PROVE  Agreement!Next
    <2>1. /\ {a, b} \in Agreement!Pairs
          /\ met' = met \cup {{a, b}} /\ keys' = keys
      BY <1>1 DEF Connect, Agreement!Pairs
    <2>2. Agreement!Meet
      BY <2>1 DEF Agreement!Meet
    <2> QED
      BY <2>2 DEF Agreement!Next
  <1>2. ASSUME NEW a \in Nodes, NEW b \in Nodes, Disconnect(a, b)
        PROVE  UNCHANGED Agreement!vars
    BY <1>2 DEF Disconnect, Agreement!vars
  <1>3. ASSUME NEW n \in Nodes, Loop(n)
        PROVE  UNCHANGED Agreement!vars
    BY <1>3 DEF Loop, PublishKey, PublishFails, ReceiveSubscription, ReceiveKey,
                counters, Agreement!vars
  <1>4. ASSUME NEW n \in Nodes, EventTask(n) \/ Vault(n)
        PROVE  [Agreement!Next]_Agreement!vars
    BY <1>4, TypeParts, AgreementEventTask, AgreementVault
  <1>5. CASE UNCHANGED vars
    BY <1>5 DEF vars, Agreement!vars
  <1> QED
    BY <1>1, <1>2, <1>3, <1>4, <1>5 DEF Next

\* Whatever connections come and go, messages are lost or passed on and vaults
\* are locked in between, a node learns keys only of nodes it can have heard
\* of, and forgets them only by locking its vault.
THEOREM ExchangeKeepsAgreement == Spec => KeysKept
  <1>1. Init => TypeOK /\ InReach
    BY TypesInitially, InReachInitially
  <1>2. TypeOK /\ InReach /\ [Next]_vars => TypeOK' /\ InReach'
    BY TypesKept, InReachKept
  <1>3. TypeOK /\ InReach /\ [Next]_vars => [Agreement!Next]_Agreement!vars
    BY AgreementSteps
  <1> QED
    BY <1>1, <1>2, <1>3, AgreementBegins, PTL DEF Spec, KeysKept, Agreement!Spec

-----------------------------------------------------------------------------
(* Subscriptions come first. *)

\* Only the first message on a link is a subscription.
KeysBehind(s) == \A i \in DOMAIN s : i > 1 => s[i].type = "key"
SubscriptionsFirst == \A x, y \in Nodes : KeysBehind(wire[x][y])

\* The subscription is still on its way.
Waits(s) == s # << >> /\ s[1].type = "subscription"

LEMMA BehindTail ==
    ASSUME NEW s \in Seq(WireMessages), s # << >>, KeysBehind(s)
    PROVE  /\ KeysBehind(Tail(s)) /\ ~Waits(Tail(s))
           /\ Waits(s) <=> Head(s).type = "subscription"
  <1>1. /\ Len(s) \in Nat \ {0} /\ DOMAIN s = 1..Len(s) /\ Head(s) = s[1]
        /\ Tail(s) \in Seq(WireMessages)
        /\ DOMAIN Tail(s) = 1..(Len(s) - 1)
        /\ \A i \in 1..(Len(s) - 1) : Tail(s)[i] = s[i + 1]
    BY TailHas
  <1>2. \A i \in 1..(Len(s) - 1) : i + 1 \in 1..Len(s) /\ i + 1 > 1
    BY <1>1
  <1>3. \A i \in DOMAIN Tail(s) : Tail(s)[i].type = "key"
    BY <1>1, <1>2 DEF KeysBehind
  <1>4. Tail(s) # << >> => 1 \in DOMAIN Tail(s)
    <2> DEFINE t == Tail(s)
    <2>1. t \in Seq(WireMessages)
      BY <1>1
    <2> HIDE DEF t
    <2>2. t # << >> => Len(t) \in Nat \ {0} /\ DOMAIN t = 1..Len(t)
      BY <2>1, EmptySeq, LenProperties
    <2> QED
      BY <2>2 DEF t
  <1> QED
    BY <1>1, <1>3, <1>4 DEF KeysBehind, Waits

LEMMA BehindAppend ==
    ASSUME NEW s \in Seq(WireMessages), NEW m \in WireMessages, m.type = "key"
    PROVE  /\ KeysBehind(s) => KeysBehind(Append(s, m))
           /\ Waits(Append(s, m)) <=> Waits(s)
  <1> DEFINE t == Append(s, m)
  <1>1. /\ Len(s) \in Nat /\ DOMAIN s = 1..Len(s) /\ t # << >>
        /\ DOMAIN t = 1..(Len(s) + 1) /\ t[Len(s) + 1] = m
        /\ \A i \in 1..Len(s) : t[i] = s[i]
        /\ s = << >> <=> Len(s) = 0
    BY AppendHas, AppendProperties, EmptySeq
  <1> HIDE DEF t
  <1>2. KeysBehind(s) => KeysBehind(t)
    BY <1>1 DEF KeysBehind
  <1>3. Waits(t) <=> Waits(s)
    <2>1. CASE s = << >>
      BY <1>1, <2>1 DEF Waits
    <2>2. CASE s # << >>
      <3>1. 1 \in 1..Len(s)
        BY <1>1, <2>2
      <3> QED
        BY <1>1, <2>2, <3>1 DEF Waits
    <2> QED
      BY <2>1, <2>2
  <1> QED
    BY <1>2, <1>3 DEF t

LEMMA BehindOne ==
    /\ KeysBehind(<< >>) /\ ~Waits(<< >>)
    /\ KeysBehind(<<Subscription>>) /\ Waits(<<Subscription>>)
  BY DEF KeysBehind, Waits, Subscription

\* What each action does to the subscriptions on their way.
LEMMA WaitsReceiveSubscription ==
    ASSUME LinksOK, SubscriptionsFirst, NEW a \in Nodes, NEW b \in Nodes,
           ReceiveSubscription(a, b)
    PROVE  /\ SubscriptionsFirst'
           /\ Waits(wire[a][b])
           /\ \A x, y \in Nodes :
                 Waits(wire'[x][y]) <=> Waits(wire[x][y]) /\ ~(x = a /\ y = b)
  <1> DEFINE s == wire[a][b]
  <1>1. /\ s \in Seq(WireMessages) /\ s # << >> /\ Head(s).type = "subscription"
        /\ KeysBehind(s)
    BY DEF ReceiveSubscription, Take, LinksOK, LinksOver, Wires, SubscriptionsFirst
  <1>2. \A x, y \in Nodes : wire'[x][y] = IF x = a /\ y = b THEN Tail(s)
                                                             ELSE wire[x][y]
    BY LinksReceiveSubscription
  <1> HIDE DEF s
  <1>3. KeysBehind(Tail(s)) /\ ~Waits(Tail(s)) /\ Waits(s)
    BY <1>1, BehindTail
  <1>4. ASSUME NEW x \in Nodes, NEW y \in Nodes
        PROVE  /\ KeysBehind(wire'[x][y])
               /\ Waits(wire'[x][y]) <=> Waits(wire[x][y]) /\ ~(x = a /\ y = b)
    <2>1. CASE x = a /\ y = b
      BY <1>2, <1>3, <2>1
    <2>2. CASE ~(x = a /\ y = b)
      BY <1>2, <2>2 DEF SubscriptionsFirst
    <2> QED
      BY <2>1, <2>2
  <1> QED
    BY <1>3, <1>4 DEF SubscriptionsFirst, s

LEMMA WaitsReceiveKey ==
    ASSUME LinksOK, SubscriptionsFirst, NEW a \in Nodes, NEW b \in Nodes,
           ReceiveKey(a, b)
    PROVE  /\ SubscriptionsFirst'
           /\ ~Waits(wire[a][b])
           /\ \A x, y \in Nodes : Waits(wire'[x][y]) <=> Waits(wire[x][y])
  <1> DEFINE w == wire[a][b]
             m == Head(w)
  <1>1. /\ w \in Seq(WireMessages) /\ w # << >> /\ m.type = "key"
        /\ KeysBehind(w) /\ m \in WireMessages /\ Tail(w) \in Seq(WireMessages)
    BY LinksTake DEF ReceiveKey, LinksOK, LinksOver, Wires, SubscriptionsFirst
  <1>2. KeysBehind(Tail(w)) /\ ~Waits(Tail(w)) /\ ~Waits(w)
    BY <1>1, BehindTail
  <1>3. ASSUME NEW x \in Nodes, NEW y \in Nodes
        PROVE  /\ KeysBehind(wire'[x][y])
               /\ Waits(wire'[x][y]) <=> Waits(wire[x][y])
    <2> DEFINE s == IF x = a /\ y = b THEN Tail(w) ELSE wire[x][y]
    <2>1. wire'[x][y] = s \/ wire'[x][y] = Append(s, m)
      BY LinksReceiveKey
    <2> HIDE DEF w, m
    <2>2. s \in Seq(WireMessages) /\ KeysBehind(s)
      BY <1>1, <1>2 DEF LinksOK, LinksOver, Wires, SubscriptionsFirst
    <2>3. Waits(s) <=> Waits(wire[x][y])
      <3>1. CASE x = a /\ y = b
        BY <1>2, <3>1 DEF w
      <3>2. CASE ~(x = a /\ y = b)
        BY <3>2
      <3> QED
        BY <3>1, <3>2
    <2> HIDE DEF s
    <2> QED
      BY <1>1, <2>1, <2>2, <2>3, BehindAppend
  <1> QED
    BY <1>2, <1>3 DEF SubscriptionsFirst

LEMMA WaitsPublishKey ==
    ASSUME LinksOK, NodesOK, SubscriptionsFirst, NEW n \in Nodes, PublishKey(n)
    PROVE  /\ SubscriptionsFirst'
           /\ \A x, y \in Nodes : Waits(wire'[x][y]) <=> Waits(wire[x][y])
  <1> DEFINE m == KeyMessage(n, sent[n])
  <1>1. m \in WireMessages /\ m.type = "key"
    BY MessageTypes DEF NodesOK, NodesOver, KeyMessage
  <1>2. ASSUME NEW x \in Nodes, NEW y \in Nodes
        PROVE  /\ KeysBehind(wire'[x][y])
               /\ Waits(wire'[x][y]) <=> Waits(wire[x][y])
    <2>1. wire'[x][y] = wire[x][y] \/ wire'[x][y] = Append(wire[x][y], m)
      BY LinksPublishKey
    <2>2. wire[x][y] \in Seq(WireMessages) /\ KeysBehind(wire[x][y])
      BY DEF LinksOK, LinksOver, Wires, SubscriptionsFirst
    <2> HIDE DEF m
    <2>3. /\ KeysBehind(Append(wire[x][y], m))
          /\ Waits(Append(wire[x][y], m)) <=> Waits(wire[x][y])
      BY <1>1, <2>2, BehindAppend
    <2> QED
      BY <2>1, <2>2, <2>3
  <1> QED
    BY <1>2 DEF SubscriptionsFirst

LEMMA WaitsConnect ==
    ASSUME LinksOK, SubscriptionsFirst, NEW a \in Nodes, NEW b \in Nodes,
           Connect(a, b)
    PROVE  /\ SubscriptionsFirst'
           /\ \A x, y \in Nodes : Waits(wire'[x][y]) <=>
                 \/ Waits(wire[x][y])
                 \/ (x = a /\ y = b) \/ (x = b /\ y = a)
  <1>1. ASSUME NEW x \in Nodes, NEW y \in Nodes
        PROVE  KeysBehind(wire'[x][y])
    BY LinksConnect, BehindOne DEF SubscriptionsFirst
  <1>2. ASSUME NEW x \in Nodes, NEW y \in Nodes
        PROVE  Waits(wire'[x][y]) <=> \/ Waits(wire[x][y])
                                      \/ (x = a /\ y = b) \/ (x = b /\ y = a)
    <2> DEFINE one == <<Subscription>>
               row == [wire EXCEPT ![a][b] = one]
    <2>1. wire' = [row EXCEPT ![b][a] = one] /\ wire \in Wires(WireMessages)
      BY DEF Connect, LinksOK, LinksOver
    <2> HIDE DEF one
    <2>2. wire'[x][y] = IF (x = a /\ y = b) \/ (x = b /\ y = a) THEN one
                                                               ELSE wire[x][y]
      BY <2>1 DEF Wires
    <2> QED
      BY <2>2, BehindOne DEF one
  <1> QED
    BY <1>1, <1>2 DEF SubscriptionsFirst

LEMMA WaitsDisconnect ==
    ASSUME LinksOK, SubscriptionsFirst, NEW a \in Nodes, NEW b \in Nodes,
           Disconnect(a, b)
    PROVE  /\ SubscriptionsFirst'
           /\ \A x, y \in Nodes : Waits(wire'[x][y]) => Waits(wire[x][y])
  <1>1. ASSUME NEW x \in Nodes, NEW y \in Nodes
        PROVE  /\ KeysBehind(wire'[x][y])
               /\ Waits(wire'[x][y]) => Waits(wire[x][y])
    BY LinksDisconnect, BehindOne DEF SubscriptionsFirst
  <1> QED
    BY <1>1 DEF SubscriptionsFirst

-----------------------------------------------------------------------------
(* The exchange ends. *)

CountersOK == connects \in Nat /\ locks \in Nat /\ faults \in Nat

\* The subscriptions x has yet to hear of, the events that tell it of one,
\* the keys it can still learn, and those it will have to learn again: it may
\* have to answer each of them.
Awaited(x) == {y \in Nodes : Waits(wire[y][x])}
Greetings == {e \in NodeEvents : e.type = "subscribed"}
Others == Cardinality(Nodes) - 1
Sent(x) == sent[x]
Queued(x) == Len(commands[x])
Awaits(x) == Cardinality(Awaited(x))
Heard(x) == Count(events[x], Greetings)
Unknown(x) == Others - Cardinality(keys[x])
Forgotten(x) == IF phase[x] = "sealed" THEN Others ELSE 0

\* What x has sent, is about to send and may have to send.
Due(x) ==
    (Sent(x) + Queued(x))
    + (Awaits(x) + Heard(x))
    + (Unknown(x) + Forgotten(x))
Allowance == connects + (1 + locks) * Others
Budget == \A x \in Nodes : Due(x) <= Allowance

LEMMA OthersNat ==
    ASSUME NEW x \in Nodes
    PROVE  /\ Others \in Nat
           /\ \A set \in SUBSET Nodes : IsFiniteSet(set) /\ Cardinality(set) \in Nat
           /\ \A set \in SUBSET (Nodes \ {x}) : Others - Cardinality(set) \in Nat
  <1>1. /\ IsFiniteSet(Nodes \ {x}) /\ Cardinality(Nodes \ {x}) = Others
    BY FS_RemoveElement, ExchangeAssumption DEF Others
  <1>2. Others \in Nat
    BY <1>1, FS_CardinalityType
  <1>3. ASSUME NEW set \in SUBSET Nodes
        PROVE  IsFiniteSet(set) /\ Cardinality(set) \in Nat
    BY FS_Subset, FS_CardinalityType, ExchangeAssumption
  <1>4. ASSUME NEW set \in SUBSET (Nodes \ {x})
        PROVE  Others - Cardinality(set) \in Nat
    <2>1. Cardinality(set) <= Cardinality(Nodes \ {x}) /\ Cardinality(set) \in Nat
      BY <1>1, <1>3, FS_Subset
    <2> QED
      BY <1>1, <1>2, <2>1
  <1> QED
    BY <1>2, <1>3, <1>4

\* Every part of what is owed is a natural number.
LEMMA OwedParts ==
    ASSUME TypeOK, KeysInReach, NEW x \in Nodes
    PROVE  /\ Sent(x) \in Nat /\ Queued(x) \in Nat
           /\ Awaits(x) \in Nat /\ Heard(x) \in Nat
           /\ Unknown(x) \in Nat /\ Forgotten(x) \in Nat /\ Others \in Nat
  <1>1. Sent(x) \in Nat /\ Queued(x) \in Nat
    BY LenProperties DEF TypeOK, Sent, Queued
  <1>2. Awaits(x) \in Nat /\ Others \in Nat
    BY OthersNat DEF Awaited, Awaits
  <1>3. Heard(x) \in Nat
    BY CountNat DEF TypeOK, Heard
  <1>4. Unknown(x) \in Nat
    <2>1. keys[x] \in SUBSET (Nodes \ {x})
      BY DEF KeysInReach, Near
    <2> QED
      BY <2>1, OthersNat DEF Unknown
  <1> QED
    BY <1>1, <1>2, <1>3, <1>4 DEF Forgotten

\* A node that gained nothing to answer, or answered what it gained.
LEMMA AwaitedFewer ==
    ASSUME NEW x \in Nodes, \A y \in Nodes : Waits(wire'[y][x]) => Waits(wire[y][x])
    PROVE  Awaits(x)' <= Awaits(x)
  <1> USE DEF Awaits
  <1>1. Awaited(x)' \in SUBSET Awaited(x) /\ Awaited(x) \in SUBSET Nodes
    BY DEF Awaited
  <1> QED
    BY <1>1, OthersNat, FS_Subset

LEMMA AwaitedOneLess ==
    ASSUME NEW x \in Nodes, NEW a \in Nodes, Waits(wire[a][x]),
           \A y \in Nodes : Waits(wire'[y][x]) => Waits(wire[y][x]) /\ y # a
    PROVE  Awaits(x)' + 1 <= Awaits(x)
  <1> USE DEF Awaits
  <1>1. /\ Awaited(x)' \in SUBSET (Awaited(x) \ {a}) /\ Awaited(x) \in SUBSET Nodes
        /\ a \in Awaited(x)
    BY DEF Awaited
  <1>2. /\ IsFiniteSet(Awaited(x)) /\ Awaits(x) \in Nat
        /\ Cardinality(Awaited(x) \ {a}) = Awaits(x) - 1
        /\ IsFiniteSet(Awaited(x) \ {a})
    BY <1>1, OthersNat, FS_RemoveElement
  <1>3. Awaits(x)' <= Cardinality(Awaited(x) \ {a})
        /\ Awaits(x)' \in Nat
    BY <1>1, <1>2, FS_Subset, FS_CardinalityType
  <1> QED
    BY <1>2, <1>3

LEMMA AwaitedOneMore ==
    ASSUME NEW x \in Nodes, NEW a \in Nodes,
           \A y \in Nodes : Waits(wire'[y][x]) => Waits(wire[y][x]) \/ y = a
    PROVE  Awaits(x)' <= Awaits(x) + 1
  <1> USE DEF Awaits
  <1>1. /\ Awaited(x)' \in SUBSET (Awaited(x) \cup {a}) /\ Awaited(x) \in SUBSET Nodes
    BY DEF Awaited
  <1> DEFINE more == Awaited(x) \cup {a}
  <1>2. /\ IsFiniteSet(Awaited(x)) /\ Awaits(x) \in Nat
        /\ IsFiniteSet(more) /\ Cardinality(more) \in Nat
        /\ Cardinality(more) \in {Awaits(x), Awaits(x) + 1}
    <2>1. Awaited(x) \in SUBSET Nodes /\ more \in SUBSET Nodes
      BY <1>1
    <2> HIDE DEF more
    <2>2. /\ IsFiniteSet(Awaited(x)) /\ Awaits(x) \in Nat
          /\ IsFiniteSet(more) /\ Cardinality(more) \in Nat
      BY <2>1, OthersNat
    <2>3. Cardinality(more) \in {Awaits(x), Awaits(x) + 1}
      BY <2>2, FS_AddElement, Zenon DEF more
    <2> QED
      BY <2>2, <2>3
  <1> HIDE DEF more
  <1>3. Awaits(x)' <= Cardinality(more)
        /\ Awaits(x)' \in Nat
    BY <1>1, <1>2, FS_Subset, FS_CardinalityType DEF more
  <1> QED
    BY <1>2, <1>3

\* The channels.
LEMMA CommandsLonger ==
    ASSUME NodesOK, NEW n \in Nodes, SendKeyExchange(n), NEW x \in Nodes
    PROVE  Queued(x)' = IF x = n THEN Queued(x) + 1 ELSE Queued(x)
  <1> USE DEF Queued
  <1>1. commands'[x] = IF x = n THEN Append(commands[n], KeyCommand) ELSE commands[x]
    BY DEF NodesOK, NodesOver, SendKeyExchange
  <1>2. Len(Append(commands[n], KeyCommand)) = Len(commands[n]) + 1
    BY AppendProperties DEF NodesOK, NodesOver
  <1> QED
    BY <1>1, <1>2

LEMMA CommandsShorter ==
    ASSUME NodesOK, NEW n \in Nodes, NextCommand(n, "key"), NEW x \in Nodes
    PROVE  Queued(x) = IF x = n THEN Queued(x)' + 1 ELSE Queued(x)'
  <1> USE DEF Queued
  <1>1. commands'[x] = IF x = n THEN Tail(commands[n]) ELSE commands[x]
    BY DEF NodesOK, NodesOver, NextCommand
  <1>2. commands[n] \in Seq({KeyCommand}) /\ commands[n] # << >>
    BY DEF NodesOK, NodesOver, NextCommand
  <1>3. Len(Tail(commands[n])) = Len(commands[n]) - 1 /\ Len(commands[n]) \in Nat
    BY <1>2, HeadTailProperties, LenProperties
  <1> QED
    BY <1>1, <1>3

LEMMA EventsLonger ==
    ASSUME NodesOK, NEW n \in Nodes, NEW e \in NodeEvents,
           events' = [events EXCEPT ![n] = Append(@, e)], NEW x \in Nodes
    PROVE  Heard(x)'
              = IF x = n /\ e.type = "subscribed" THEN Heard(x) + 1
                                                  ELSE Heard(x)
  <1> USE DEF Heard
  <1>1. events'[x] = IF x = n THEN Append(events[n], e) ELSE events[x]
    BY DEF NodesOK, NodesOver
  <1>2. Count(Append(events[n], e), Greetings)
           = IF e \in Greetings THEN Count(events[n], Greetings) + 1
                                ELSE Count(events[n], Greetings)
    BY CountAppend DEF NodesOK, NodesOver
  <1> QED
    BY <1>1, <1>2 DEF Greetings

LEMMA EventsShorter ==
    ASSUME NodesOK, NEW n \in Nodes, NEW type, NextEvent(n, type), NEW x \in Nodes
    PROVE  Heard(x)
              = IF x = n /\ type = "subscribed" THEN Heard(x)' + 1
                                                ELSE Heard(x)'
  <1> USE DEF Heard
  <1>1. events'[x] = IF x = n THEN Tail(events[n]) ELSE events[x]
    BY DEF NodesOK, NodesOver, NextEvent
  <1>2. /\ events[n] \in Seq(NodeEvents) /\ events[n] # << >>
        /\ Head(events[n]).type = type /\ Head(events[n]) \in NodeEvents
    BY EventFirst DEF NodesOK, NodesOver, NextEvent
  <1>3. Count(events[n], Greetings)
           = IF Head(events[n]) \in Greetings THEN Count(Tail(events[n]), Greetings) + 1
                                              ELSE Count(Tail(events[n]), Greetings)
    BY <1>2, CountTail
  <1> QED
    BY <1>1, <1>2, <1>3 DEF Greetings

LEMMA OwedPartsNext ==
    ASSUME TypeOK', KeysInReach', NEW x \in Nodes
    PROVE  /\ Sent(x)' \in Nat /\ Queued(x)' \in Nat
           /\ Awaits(x)' \in Nat /\ Heard(x)' \in Nat
           /\ Unknown(x)' \in Nat /\ Forgotten(x)' \in Nat
  <1>1. Sent(x)' \in Nat /\ Queued(x)' \in Nat
    BY LenProperties DEF TypeOK, Sent, Queued
  <1>2. Awaits(x)' \in Nat /\ Others \in Nat
    BY OthersNat DEF Awaited, Awaits
  <1>3. Heard(x)' \in Nat
    BY CountNat DEF TypeOK, Heard
  <1>4. Unknown(x)' \in Nat
    <2>1. keys'[x] \in SUBSET (Nodes \ {x})
      BY DEF KeysInReach, Near
    <2> QED
      BY <2>1, OthersNat DEF Unknown
  <1> QED
    BY <1>1, <1>2, <1>3, <1>4 DEF Forgotten

\* What is owed, part by part.
SumsUp(x) ==
    /\ Sent(x) \in Nat /\ Queued(x) \in Nat
    /\ Awaits(x) \in Nat /\ Heard(x) \in Nat
    /\ Unknown(x) \in Nat /\ Forgotten(x) \in Nat
    /\ Due(x) \in Nat
    /\ Due(x) = (Sent(x) + Queued(x))
                + (Awaits(x) + Heard(x))
                + (Unknown(x) + Forgotten(x))

LEMMA DueSum ==
    ASSUME TypeOK, KeysInReach, TypeOK', KeysInReach', NEW x \in Nodes
    PROVE  SumsUp(x) /\ SumsUp(x)'
  <1>1. SumsUp(x)
    BY OwedParts DEF SumsUp, Due
  <1>2. SumsUp(x)'
    BY OwedPartsNext DEF SumsUp, Due
  <1> QED
    BY <1>1, <1>2

\* A connection may call for one key more of each of the two nodes, and allows it.
LEMMA DueConnect ==
    ASSUME TypeOK, KeysInReach, TypeOK', KeysInReach', SubscriptionsFirst, CountersOK,
           NEW a \in Nodes, NEW b \in Nodes, Connect(a, b), NEW x \in Nodes,
           Due(x) <= Allowance
    PROVE  Due(x)' <= Allowance'
  <1>1. /\ UNCHANGED <<sent, commands, events, keys, phase, locks>>
        /\ connects' = connects + 1
    BY DEF Connect, vaults
  <1>2. Awaits(x)' <= Awaits(x) + 1
    <2>1. PICK c \in Nodes : c = IF x = a THEN b ELSE a
      OBVIOUS
    <2>2. \A y \in Nodes : Waits(wire'[y][x]) => Waits(wire[y][x]) \/ y = c
      BY <2>1, WaitsConnect, TypeParts
    <2> QED
      BY <2>2, AwaitedOneMore
  <1>3. Allowance' = Allowance + 1 /\ Allowance \in Nat
    <2>1. Others \in Nat
      BY OthersNat
    <2>2. connects \in Nat /\ (1 + locks) * Others \in Nat /\ locks' = locks
      BY <1>1, <2>1 DEF CountersOK
    <2> QED
      BY <1>1, <2>2 DEF Allowance
  <1>4. /\ Sent(x)' = Sent(x)
        /\ Queued(x)' = Queued(x)
        /\ Heard(x)' = Heard(x)
        /\ Unknown(x)' = Unknown(x)
        /\ Forgotten(x)' = Forgotten(x)
    BY <1>1 DEF Sent, Queued, Heard, Unknown, Forgotten
  <1>8. SumsUp(x) /\ SumsUp(x)'
    BY DueSum
  <1>9. Due(x)' <= Due(x) + 1 /\ Due(x) \in Nat /\ Due(x)' \in Nat
    BY <1>2, <1>4, <1>8 DEF SumsUp
  <1> QED
    BY <1>3, <1>9

LEMMA DueDisconnect ==
    ASSUME TypeOK, KeysInReach, TypeOK', KeysInReach', SubscriptionsFirst,
           NEW a \in Nodes, NEW b \in Nodes, Disconnect(a, b), NEW x \in Nodes
    PROVE  Due(x)' <= Due(x)
  <1>1. UNCHANGED <<sent, commands, events, keys, phase>>
    BY DEF Disconnect, vaults
  <1>2. Awaits(x)' <= Awaits(x)
    BY WaitsDisconnect, AwaitedFewer, TypeParts
  <1>3. /\ Sent(x)' = Sent(x) /\ Queued(x)' = Queued(x)
        /\ Heard(x)' = Heard(x)
        /\ Unknown(x)' = Unknown(x) /\ Forgotten(x)' = Forgotten(x)
    BY <1>1 DEF Sent, Queued, Heard, Unknown, Forgotten
  <1>8. SumsUp(x) /\ SumsUp(x)'
    BY DueSum
  <1> QED
    BY <1>2, <1>3, <1>8 DEF SumsUp

\* The subscription has become an event: it is owed an answer as before.
LEMMA DueReceiveSubscription ==
    ASSUME TypeOK, KeysInReach, TypeOK', KeysInReach', SubscriptionsFirst,
           NEW a \in Nodes, NEW b \in Nodes, ReceiveSubscription(a, b), NEW x \in Nodes
    PROVE  Due(x)' <= Due(x)
  <1>1. UNCHANGED <<sent, commands, keys, phase>>
    BY DEF ReceiveSubscription, vaults
  <1>2. Heard(x)' = IF x = b THEN Heard(x) + 1 ELSE Heard(x)
    <2> DEFINE e == PeerSubscribed(a)
    <2>1. /\ events' = [events EXCEPT ![b] = Append(@, e)]
          /\ e \in NodeEvents /\ e.type = "subscribed"
      BY MessageTypes DEF ReceiveSubscription, PeerSubscribed
    <2> HIDE DEF e
    <2> QED
      BY <2>1, EventsLonger, TypeParts
  <1>3. /\ x = b => Awaits(x)' + 1 <= Awaits(x)
        /\ Awaits(x)' <= Awaits(x)
    <2>1. /\ Waits(wire[a][b])
          /\ \A y \in Nodes : Waits(wire'[y][x]) <=> Waits(wire[y][x]) /\ ~(y = a /\ x = b)
      BY WaitsReceiveSubscription, TypeParts
    <2>2. x = b => Awaits(x)' + 1 <= Awaits(x)
      BY <2>1, AwaitedOneLess
    <2>3. Awaits(x)' <= Awaits(x)
      BY <2>1, AwaitedFewer
    <2> QED
      BY <2>2, <2>3
  <1>4. /\ Sent(x)' = Sent(x)
        /\ Queued(x)' = Queued(x)
        /\ Unknown(x)' = Unknown(x)
        /\ Forgotten(x)' = Forgotten(x)
    BY <1>1 DEF Sent, Queued, Heard, Unknown, Forgotten
  <1>8. SumsUp(x) /\ SumsUp(x)'
    BY DueSum
  <1>9. CASE x = b
    <2>1. Awaits(x)' + Heard(x)' <= Awaits(x) + Heard(x)
      BY <1>2, <1>3, <1>8, <1>9 DEF SumsUp
    <2> QED
      BY <1>4, <1>8, <2>1 DEF SumsUp
  <1>10. CASE x # b
    <2>1. Awaits(x)' + Heard(x)' <= Awaits(x) + Heard(x)
      BY <1>2, <1>3, <1>8, <1>10 DEF SumsUp
    <2> QED
      BY <1>4, <1>8, <2>1 DEF SumsUp
  <1> QED
    BY <1>9, <1>10

LEMMA DueReceiveKey ==
    ASSUME TypeOK, KeysInReach, TypeOK', KeysInReach', SubscriptionsFirst,
           NEW a \in Nodes, NEW b \in Nodes, ReceiveKey(a, b), NEW x \in Nodes
    PROVE  Due(x)' <= Due(x)
  <1> DEFINE e == KeyExchangeReceived(Head(wire[a][b]).source)
  <1>1. /\ UNCHANGED <<sent, commands, keys, phase>>
        /\ events' = events \/ events' = [events EXCEPT ![b] = Append(@, e)]
    BY DEF ReceiveKey, vaults
  <1>2. e \in NodeEvents /\ e.type = "key"
    <2>1. Head(wire[a][b]).source \in Nodes
      BY LinksTake, TypeParts, MessageTypes DEF ReceiveKey
    <2> QED
      BY <2>1, MessageTypes DEF KeyExchangeReceived
  <1> HIDE DEF e
  <1>3. Heard(x)' = Heard(x)
    <2>1. CASE events' = [events EXCEPT ![b] = Append(@, e)]
      BY <1>2, <2>1, EventsLonger, TypeParts
    <2> QED
      BY <1>1, <2>1 DEF Heard
  <1>4. Awaits(x)' <= Awaits(x)
    BY WaitsReceiveKey, AwaitedFewer, TypeParts
  <1>5. /\ Sent(x)' = Sent(x)
        /\ Queued(x)' = Queued(x)
        /\ Unknown(x)' = Unknown(x)
        /\ Forgotten(x)' = Forgotten(x)
    BY <1>1 DEF Sent, Queued, Heard, Unknown, Forgotten
  <1>8. SumsUp(x) /\ SumsUp(x)'
    BY DueSum
  <1> QED
    BY <1>3, <1>4, <1>5, <1>8 DEF SumsUp

\* What is sent was a command before; what is not sent is not owed any more.
LEMMA DuePublish ==
    ASSUME TypeOK, KeysInReach, TypeOK', KeysInReach', SubscriptionsFirst,
           NEW n \in Nodes, PublishKey(n) \/ PublishFails(n), NEW x \in Nodes
    PROVE  Due(x)' <= Due(x)
  <1>1. UNCHANGED <<events, keys, phase>> /\ NextCommand(n, "key")
    BY DEF PublishKey, PublishFails, vaults
  <1>2. Queued(x) = IF x = n THEN Queued(x)' + 1 ELSE Queued(x)'
    BY <1>1, CommandsShorter, TypeParts
  <1>3. Sent(x)' = Sent(x) \/ (x = n /\ Sent(x)' = Sent(x) + 1)
    <2>1. sent' = sent \/ sent' = [sent EXCEPT ![n] = @ + 1]
      BY DEF PublishKey, PublishFails
    <2>2. sent \in [Nodes -> Nat]
      BY DEF TypeOK
    <2> QED
      BY <2>1, <2>2 DEF Sent
  <1>4. Awaits(x)' <= Awaits(x)
    <2>1. CASE PublishKey(n)
      BY <2>1, WaitsPublishKey, AwaitedFewer, TypeParts
    <2>2. CASE PublishFails(n)
      <3>1. UNCHANGED wire
        BY <2>2 DEF PublishFails, network
      <3> QED
        BY <3>1, AwaitedFewer
    <2> QED
      BY <2>1, <2>2
  <1>5. /\ Heard(x)' = Heard(x)
        /\ Unknown(x)' = Unknown(x)
        /\ Forgotten(x)' = Forgotten(x)
    BY <1>1 DEF Sent, Queued, Heard, Unknown, Forgotten
  <1>8. SumsUp(x) /\ SumsUp(x)'
    BY DueSum
  <1>9. CASE x = n
    <2>1. Sent(x)' + Queued(x)' <= Sent(x) + Queued(x)
      BY <1>2, <1>3, <1>8, <1>9 DEF SumsUp
    <2> QED
      BY <1>4, <1>5, <1>8, <2>1 DEF SumsUp
  <1>10. CASE x # n
    <2>1. Sent(x)' + Queued(x)' <= Sent(x) + Queued(x)
      BY <1>2, <1>3, <1>8, <1>10 DEF SumsUp
    <2> QED
      BY <1>4, <1>5, <1>8, <2>1 DEF SumsUp
  <1> QED
    BY <1>9, <1>10

LEMMA DueHandleSubscribed ==
    ASSUME TypeOK, KeysInReach, TypeOK', KeysInReach',
           NEW n \in Nodes, HandleSubscribed(n), NEW x \in Nodes
    PROVE  Due(x)' <= Due(x)
  <1>1. /\ UNCHANGED <<sent, wire, keys, phase>>
        /\ NextEvent(n, "subscribed")
        /\ SendKeyExchange(n) \/ commands' = commands
    BY DEF HandleSubscribed, vaults, network
  <1>2. Heard(x) = IF x = n THEN Heard(x)' + 1 ELSE Heard(x)'
    BY <1>1, EventsShorter, TypeParts
  <1>3. \/ Queued(x)' = Queued(x)
        \/ x = n /\ Queued(x)' = Queued(x) + 1
    BY <1>1, CommandsLonger, TypeParts DEF Queued
  <1>4. Awaits(x)' = Awaits(x)
    BY <1>1 DEF Awaited, Awaits
  <1>5. /\ Sent(x)' = Sent(x)
        /\ Unknown(x)' = Unknown(x)
        /\ Forgotten(x)' = Forgotten(x)
    BY <1>1 DEF Sent, Queued, Heard, Unknown, Forgotten
  <1>8. SumsUp(x) /\ SumsUp(x)'
    BY DueSum
  <1>9. CASE x = n
    <2>1. Heard(x)' + 1 = Heard(x) /\ Queued(x)' <= Queued(x) + 1
      BY <1>2, <1>3, <1>8, <1>9 DEF SumsUp
    <2> QED
      BY <1>4, <1>5, <1>8, <2>1 DEF SumsUp
  <1>10. CASE x # n
    <2>1. Heard(x)' = Heard(x) /\ Queued(x)' <= Queued(x)
      BY <1>2, <1>3, <1>8, <1>10 DEF SumsUp
    <2> QED
      BY <1>4, <1>5, <1>8, <2>1 DEF SumsUp
  <1> QED
    BY <1>9, <1>10

\* A key is answered only when it is one fewer to learn.
LEMMA DueHandleKey ==
    ASSUME TypeOK, KeysInReach, TypeOK', KeysInReach',
           NEW n \in Nodes, HandleKey(n), NEW x \in Nodes
    PROVE  Due(x)' <= Due(x)
  <1> DEFINE p == Head(events[n]).peer
             more == keys[n] \cup {p}
  <1>1. /\ UNCHANGED <<sent, wire, phase>>
        /\ NextEvent(n, "key")
        /\ \/ keys' = keys /\ commands' = commands
           \/ /\ keys' = [keys EXCEPT ![n] = more]
              /\ \/ p \notin keys[n] /\ SendKeyExchange(n)
                 \/ commands' = commands
    BY DEF HandleKey, AddPeerKey, vaults, network
  <1>2. Heard(x)' = Heard(x)
    BY <1>1, EventsShorter, TypeParts
  <1>3. Awaits(x)' = Awaits(x)
    BY <1>1 DEF Awaited, Awaits
  <1>4. /\ IsFiniteSet(keys[n]) /\ Cardinality(keys[n]) \in Nat
        /\ Cardinality(more) = IF p \in keys[n] THEN Cardinality(keys[n])
                                                 ELSE Cardinality(keys[n]) + 1
    <2>1. keys[n] \in SUBSET Nodes
      BY DEF TypeOK
    <2>2. IsFiniteSet(keys[n]) /\ Cardinality(keys[n]) \in Nat
      BY <2>1, OthersNat
    <2> QED
      BY <2>2, FS_AddElement, Zenon
  <1>5. Others \in Nat
    BY OthersNat
  <1> HIDE DEF p
  <1>6. \/ /\ Unknown(x)' = Unknown(x) \/ Unknown(x)' = Unknown(x) - 1
           /\ Queued(x)' = Queued(x)
        \/ /\ Unknown(x)' = Unknown(x) - 1
           /\ Queued(x)' = Queued(x) + 1
    <2>1. CASE keys' = keys /\ commands' = commands
      BY <2>1 DEF Unknown, Queued
    <2>2. CASE x # n /\ keys' = [keys EXCEPT ![n] = more]
      <3>1. keys'[x] = keys[x]
        BY <2>2 DEF TypeOK
      <3>2. Queued(x)' = Queued(x)
        BY <1>1, <2>2, CommandsLonger, TypeParts DEF Queued
      <3> QED
        BY <3>1, <3>2 DEF Unknown
    <2>3. CASE x = n /\ keys' = [keys EXCEPT ![n] = more]
      <3>1. keys'[x] = more
        BY <2>3 DEF TypeOK
      <3>2. \/ commands' = commands
            \/ p \notin keys[n] /\ Queued(x)' = Queued(x) + 1
        BY <1>1, <2>3, CommandsLonger, TypeParts
      <3> HIDE DEF more
      <3>3. Unknown(x)' = IF p \in keys[n] THEN Unknown(x) ELSE Unknown(x) - 1
        BY <1>4, <1>5, <2>3, <3>1 DEF Unknown
      <3> QED
        BY <3>2, <3>3 DEF Queued
    <2> QED
      BY <1>1, <2>1, <2>2, <2>3
  <1>7. /\ Sent(x)' = Sent(x)
        /\ Forgotten(x)' = Forgotten(x)
    BY <1>1 DEF Sent, Forgotten
  <1>8. SumsUp(x) /\ SumsUp(x)'
    BY DueSum
  <1>9. Queued(x)' + Unknown(x)' <= Queued(x) + Unknown(x)
    BY <1>6, <1>8 DEF SumsUp
  <1> QED
    BY <1>2, <1>3, <1>7, <1>8, <1>9 DEF SumsUp

\* A lock lets a node forget and learn again every key but its own.
LEMMA DueVault ==
    ASSUME TypeOK, KeysInReach, TypeOK', KeysInReach', CountersOK,
           NEW n \in Nodes, Vault(n), NEW x \in Nodes, Due(x) <= Allowance
    PROVE  Due(x)' <= Allowance'
  <1>1. UNCHANGED <<sent, commands, wire, events, connects>>
    BY DEF Vault, SealVault, ClearCrypto, LoadVault, StoreKey, Advance, network
  <1>2. Others \in Nat /\ Unknown(x) \in Nat /\ Unknown(x)' \in Nat
    BY OthersNat, OwedParts, OwedPartsNext
  <1>3. /\ keys[x] \in SUBSET Nodes /\ keys'[x] \in SUBSET Nodes
        /\ Cardinality(keys[x]) \in Nat /\ Cardinality(keys'[x]) \in Nat
        /\ Cardinality({}) = 0
    <2>1. keys[x] \in SUBSET Nodes /\ keys'[x] \in SUBSET Nodes
      BY DEF TypeOK
    <2> QED
      BY <2>1, OthersNat, FS_EmptySet
  <1>4. \/ /\ Unknown(x)' + Forgotten(x)' <= Unknown(x) + Forgotten(x)
           /\ locks' = locks
        \/ /\ Unknown(x)' + Forgotten(x)' <= Unknown(x) + Forgotten(x) + Others
           /\ locks' = locks + 1
    <2>1. CASE SealVault(n)
      <3>1. keys' = keys /\ locks' = locks + 1
        BY <2>1 DEF SealVault
      <3>2. /\ Unknown(x)' = Unknown(x)
            /\ Forgotten(x) \in {0, Others} /\ Forgotten(x)' \in {0, Others}
        BY <3>1 DEF Unknown, Forgotten
      <3> QED
        BY <1>2, <3>1, <3>2
    <2>2. CASE ClearCrypto(n)
      <3>1. /\ phase[n] = "sealed" /\ locks' = locks
            /\ keys'[x] = IF x = n THEN {} ELSE keys[x]
            /\ phase'[x] = IF x = n THEN "cleared" ELSE phase[x]
        BY <2>2 DEF ClearCrypto, Advance, TypeOK
      <3> QED
        BY <1>2, <1>3, <3>1 DEF Unknown, Forgotten
    <2>3. CASE LoadVault(n)
      <3>1. /\ phase[n] = "cleared" /\ locks' = locks
            /\ keys'[x] = IF x = n THEN stored[n] ELSE keys[x]
            /\ phase'[x] = IF x = n THEN "loaded" ELSE phase[x]
        BY <2>3 DEF LoadVault, Advance, TypeOK
      <3>2. keys[n] = {}
        BY <3>1 DEF KeysInReach
      <3>3. Unknown(x)' <= Unknown(x)
        <4>1. CASE x = n
          BY <1>2, <1>3, <3>1, <3>2, <4>1 DEF Unknown
        <4>2. CASE x # n
          BY <1>2, <3>1, <4>2 DEF Unknown
        <4> QED
          BY <4>1, <4>2
      <3>4. Forgotten(x)' = Forgotten(x)
        BY <3>1 DEF Forgotten
      <3>5. Forgotten(x) \in Nat
        BY OwedParts
      <3> QED
        BY <1>2, <3>1, <3>3, <3>4, <3>5
    <2>4. CASE StoreKey(n)
      <3>1. /\ phase[n] = "loaded" /\ locks' = locks /\ keys' = keys
            /\ phase'[x] = IF x = n THEN "unlocked" ELSE phase[x]
        BY <2>4 DEF StoreKey, Advance, TypeOK
      <3> QED
        BY <1>2, <3>1 DEF Unknown, Forgotten
    <2> QED
      BY <2>1, <2>2, <2>3, <2>4 DEF Vault
  <1>5. /\ locks' = locks + 1 => Allowance' = Allowance + Others
        /\ locks' = locks => Allowance' = Allowance
        /\ Allowance \in Nat
    <2>1. connects \in Nat /\ locks \in Nat /\ connects' = connects
      BY <1>1 DEF CountersOK
    <2>2. \A l, o \in Nat : (1 + (l + 1)) * o = (1 + l) * o + o /\ (1 + l) * o \in Nat
      OBVIOUS
    <2>3. /\ (1 + (locks + 1)) * Others = (1 + locks) * Others + Others
          /\ (1 + locks) * Others \in Nat
      BY <1>2, <2>1, <2>2, Zenon
    <2> QED
      BY <1>2, <2>1, <2>3 DEF Allowance
  <1>6. /\ Sent(x)' = Sent(x) /\ Queued(x)' = Queued(x)
        /\ Awaits(x)' = Awaits(x)
        /\ Heard(x)' = Heard(x)
    BY <1>1 DEF Awaited, Awaits, Sent, Queued, Heard
  <1>8. SumsUp(x) /\ SumsUp(x)'
    BY DueSum
  <1>9. /\ Unknown(x)' + Forgotten(x)' <= Unknown(x) + Forgotten(x)
           => Due(x)' <= Due(x)
        /\ Unknown(x)' + Forgotten(x)' <= Unknown(x) + Forgotten(x) + Others
           => Due(x)' <= Due(x) + Others
    BY <1>2, <1>6, <1>8 DEF SumsUp
  <1>10. Due(x) \in Nat /\ Due(x)' \in Nat
    BY <1>8 DEF SumsUp
  <1> QED
    BY <1>2, <1>4, <1>5, <1>9, <1>10

LEMMA SubscriptionsFirstKept ==
    ASSUME TypeOK, SubscriptionsFirst, [Next]_vars
    PROVE  SubscriptionsFirst'
  <1> USE TypeParts
  <1>1. ASSUME NEW a \in Nodes, NEW b \in Nodes,
               Connect(a, b) \/ Disconnect(a, b)
        PROVE  SubscriptionsFirst'
    BY <1>1, WaitsConnect, WaitsDisconnect
  <1>2. ASSUME NEW n \in Nodes, Loop(n)
        PROVE  SubscriptionsFirst'
    <2>1. CASE PublishFails(n)
      BY <2>1 DEF PublishFails, network, SubscriptionsFirst
    <2> QED
      BY <1>2, <2>1, WaitsPublishKey, WaitsReceiveSubscription, WaitsReceiveKey
         DEF Loop
  <1>3. ASSUME NEW n \in Nodes, EventTask(n)
        PROVE  SubscriptionsFirst'
    BY <1>3 DEF EventTask, HandleSubscribed, HandleKey, network, SubscriptionsFirst
  <1>4. ASSUME NEW n \in Nodes, Vault(n)
        PROVE  SubscriptionsFirst'
    BY <1>4, NodesVault DEF SubscriptionsFirst
  <1>5. CASE UNCHANGED vars
    BY <1>5 DEF vars, SubscriptionsFirst
  <1> QED
    BY <1>1, <1>2, <1>3, <1>4, <1>5 DEF Next

LEMMA CountersKept ==
    ASSUME TypeOK, CountersOK, [Next]_vars
    PROVE  CountersOK' /\ faults' >= faults
  <1>1. ASSUME NEW b \in Nodes, NEW a \in Nodes, ReceiveKey(a, b)
        PROVE  CountersOK' /\ faults' >= faults
    <2> DEFINE most == subscribers[b] \ {a, Head(wire[a][b]).source}
    <2>1. /\ \/ UNCHANGED faults
             \/ \E targets \in SUBSET most : faults' = faults + Cardinality(targets)
          /\ UNCHANGED <<connects, locks>>
      BY <1>1 DEF ReceiveKey
    <2>2. most \in SUBSET Nodes
      BY DEF TypeOK
    <2> HIDE DEF most
    <2>3. \A targets \in SUBSET most : Cardinality(targets) \in Nat
      BY <2>2, OthersNat
    <2> QED
      BY <2>1, <2>3 DEF CountersOK
  <1>2. ASSUME NEW n \in Nodes, Vault(n)
        PROVE  CountersOK' /\ faults' >= faults
    BY <1>2 DEF Vault, SealVault, ClearCrypto, LoadVault, StoreKey, Advance, CountersOK
  <1>3. ASSUME NEW n \in Nodes, EventTask(n)
        PROVE  CountersOK' /\ faults' >= faults
    BY <1>3 DEF EventTask, HandleSubscribed, HandleKey, counters, CountersOK
  <1>4. ASSUME NEW n \in Nodes, NEW a \in Nodes,
               PublishKey(n) \/ PublishFails(n) \/ ReceiveSubscription(a, n)
        PROVE  CountersOK' /\ faults' >= faults
    BY <1>4 DEF PublishKey, PublishFails, ReceiveSubscription, counters, CountersOK
  <1>5. ASSUME NEW a \in Nodes, NEW b \in Nodes, Connect(a, b) \/ Disconnect(a, b)
        PROVE  CountersOK' /\ faults' >= faults
    BY <1>5 DEF Connect, Disconnect, CountersOK
  <1>6. CASE UNCHANGED vars
    BY <1>6 DEF vars, CountersOK
  <1> QED
    BY <1>1, <1>2, <1>3, <1>4, <1>5, <1>6 DEF Next, Loop

LEMMA BudgetKept ==
    ASSUME TypeOK, InReach, TypeOK', InReach', SubscriptionsFirst, CountersOK, Budget,
           [Next]_vars
    PROVE  Budget'
  <1>1. KeysInReach /\ KeysInReach'
    BY DEF InReach
  <1>2. ASSUME NEW x \in Nodes
        PROVE  Due(x)' <= Allowance'
    <2>1. Due(x) <= Allowance
      BY DEF Budget
    <2>2. /\ Due(x) \in Nat /\ Due(x)' \in Nat
          /\ Allowance \in Nat
      <3>1. Due(x) \in Nat /\ Due(x)' \in Nat
        BY <1>1, DueSum DEF SumsUp
      <3>2. Others \in Nat
        BY OthersNat
      <3> QED
        BY <3>1, <3>2 DEF CountersOK, Allowance
    <2>3. ASSUME NEW a \in Nodes, NEW b \in Nodes, Connect(a, b)
          PROVE  Due(x)' <= Allowance'
      BY <1>1, <2>1, <2>3, DueConnect
    <2>4. ASSUME NEW n \in Nodes, Vault(n)
          PROVE  Due(x)' <= Allowance'
      BY <1>1, <2>1, <2>4, DueVault
    <2>5. ASSUME Due(x)' <= Due(x), UNCHANGED <<connects, locks>>
          PROVE  Due(x)' <= Allowance'
      BY <2>1, <2>2, <2>5 DEF Allowance
    <2>6. ASSUME NEW a \in Nodes, NEW b \in Nodes, Disconnect(a, b)
          PROVE  Due(x)' <= Allowance'
      BY <1>1, <2>5, <2>6, DueDisconnect DEF Disconnect
    <2>7. ASSUME NEW n \in Nodes, Loop(n)
          PROVE  Due(x)' <= Allowance'
      <3>1. UNCHANGED <<connects, locks>>
        BY <2>7 DEF Loop, PublishKey, PublishFails, ReceiveSubscription, ReceiveKey,
                    counters
      <3>2. Due(x)' <= Due(x)
        BY <1>1, <2>7, DuePublish, DueReceiveSubscription, DueReceiveKey DEF Loop
      <3> QED
        BY <2>5, <3>1, <3>2
    <2>8. ASSUME NEW n \in Nodes, EventTask(n)
          PROVE  Due(x)' <= Allowance'
      <3>1. UNCHANGED <<connects, locks>>
        BY <2>8 DEF EventTask, HandleSubscribed, HandleKey, counters
      <3>2. Due(x)' <= Due(x)
        BY <1>1, <2>8, DueHandleSubscribed, DueHandleKey DEF EventTask
      <3> QED
        BY <2>5, <3>1, <3>2
    <2>9. CASE UNCHANGED vars
      <3>1. Due(x)' = Due(x) /\ UNCHANGED <<connects, locks>>
        BY <2>9 DEF vars, Due, Sent, Queued, Awaits, Awaited, Heard, Unknown, Forgotten
      <3> QED
        BY <2>2, <2>5, <3>1
    <2> QED
      BY <2>3, <2>4, <2>6, <2>7, <2>8, <2>9 DEF Next
  <1> QED
    BY <1>2 DEF Budget

LEMMA BudgetInitially == Init => SubscriptionsFirst /\ CountersOK /\ Budget
  <1> SUFFICES ASSUME Init PROVE SubscriptionsFirst /\ CountersOK /\ Budget
    OBVIOUS
  <1>1. SubscriptionsFirst
    BY BehindOne DEF Init, SubscriptionsFirst
  <1>2. CountersOK
    BY DEF Init, CountersOK
  <1>3. ASSUME NEW x \in Nodes
        PROVE  Due(x) <= Allowance
    <2>1. Others \in Nat
      BY OthersNat
    <2>2. Sent(x) = 0 /\ Queued(x) = 0
      BY EmptySeq DEF Init, Sent, Queued
    <2>3. Awaits(x) = 0
      <3>1. Awaited(x) = {}
        BY BehindOne DEF Init, Awaited
      <3> QED
        BY <3>1, FS_EmptySet DEF Awaits
    <2>4. Heard(x) = 0
      <3>1. {i \in DOMAIN << >> : << >>[i] \in Greetings} = {}
        OBVIOUS
      <3>2. events[x] = << >>
        BY DEF Init
      <3> QED
        BY <3>1, <3>2, FS_EmptySet DEF Heard, Count
    <2>5. Unknown(x) = Others
      BY <2>1, FS_EmptySet DEF Init, Unknown
    <2>6. Forgotten(x) = 0
      BY ExchangeAssumption DEF Init, Forgotten
    <2>7. Allowance = Others
      BY <2>1 DEF Init, Allowance
    <2> QED
      BY <2>1, <2>2, <2>3, <2>4, <2>5, <2>6, <2>7 DEF Due
  <1> QED
    BY <1>1, <1>2, <1>3 DEF Budget

\* A node sends its key once for every connection and once for every key it
\* learns, and learns a key again only after a lock.
THEOREM ExchangeEnds == Spec => []NoExchangeLoop
  <1> DEFINE Inv == TypeOK /\ InReach /\ SubscriptionsFirst /\ CountersOK /\ Budget
  <1>1. Init => Inv
    BY TypesInitially, InReachInitially, BudgetInitially
  <1>2. Inv /\ [Next]_vars => Inv'
    BY TypesKept, InReachKept, SubscriptionsFirstKept, CountersKept, BudgetKept
  <1>3. Inv => NoExchangeLoop
    <2> SUFFICES ASSUME Inv, NEW x \in Nodes
                 PROVE  sent[x] + Len(commands[x])
                           <= connects + (1 + locks) * (Cardinality(Nodes) - 1)
      BY DEF NoExchangeLoop
    <2>1. /\ Sent(x) \in Nat /\ Queued(x) \in Nat
          /\ Awaits(x) \in Nat /\ Heard(x) \in Nat
          /\ Unknown(x) \in Nat /\ Forgotten(x) \in Nat
      BY OwedParts DEF InReach
    <2>2. Due(x) <= Allowance /\ Allowance \in Nat
      <3>1. Others \in Nat
        BY OthersNat
      <3> QED
        BY <3>1 DEF Budget, CountersOK, Allowance
    <2>3. Sent(x) + Queued(x) <= Allowance
      BY <2>1, <2>2 DEF Due
    <2> QED
      BY <2>3 DEF Sent, Queued, Allowance, Others
  <1> QED
    BY <1>1, <1>2, <1>3, PTL DEF Spec

-----------------------------------------------------------------------------
(* No key is lost. *)

Calm == faults = 0 /\ blocked = {}

\* What is on a link and in the channels of a node.
Under(a, b) == Range(wire[a][b])
Told(n) == Range(events[n])
Ordered(n) == Range(commands[n])

LEMMA OccursRange ==
    ASSUME NEW S, NEW s \in Seq(S), NEW x
    PROVE  Occurs(x, s) <=> x \in Range(s)
  <1>1. DOMAIN s = 1..Len(s)
    BY LenProperties
  <1> QED
    BY <1>1 DEF Occurs, Range

\* KeyComing in these terms.
Coming(b, a) ==
    \/ b \in keys[a]
    \/ KeyExchangeReceived(b) \in Told(a)
    \/ \E m \in Under(b, a) : m.type = "key" /\ m.source = b
    \/ KeyCommand \in Ordered(b) /\ a \in subscribers[b]
    \/ /\ a \notin keys[b]
       /\ PeerSubscribed(a) \in Told(b) \/ Subscription \in Under(a, b)

LEMMA ComingIs ==
    ASSUME TypeOK, NEW a \in Nodes, NEW b \in Nodes
    PROVE  KeyComing(b, a) <=> Coming(b, a)
  <1>1. /\ Occurs(KeyExchangeReceived(b), events[a])
              <=> KeyExchangeReceived(b) \in Told(a)
        /\ Occurs(PeerSubscribed(a), events[b]) <=> PeerSubscribed(a) \in Told(b)
    BY OccursRange DEF TypeOK, Told
  <1>2. Occurs(KeyCommand, commands[b]) <=> KeyCommand \in Ordered(b)
    BY OccursRange DEF TypeOK, Ordered
  <1>3. wire[a][b] \in Seq(WireMessages) /\ wire[b][a] \in Seq(WireMessages)
    BY DEF TypeOK
  <1>4. Occurs(Subscription, wire[a][b]) <=> Subscription \in Under(a, b)
    BY <1>3, OccursRange DEF Under
  <1>5. (\E i \in 1..Len(wire[b][a]) :
            wire[b][a][i].type = "key" /\ wire[b][a][i].source = b)
           <=> \E m \in Under(b, a) : m.type = "key" /\ m.source = b
    <2>1. DOMAIN wire[b][a] = 1..Len(wire[b][a])
      BY <1>3, LenProperties
    <2> QED
      BY <2>1 DEF Under, Range
  <1> QED
    BY <1>1, <1>2, <1>4, <1>5 DEF KeyComing, Coming

\* While nothing goes wrong no vault is locked, and a key comes from its owner.
Quiet ==
    /\ \A n \in Nodes : phase[n] \in {"unlocked", "late"}
    /\ seen \in [Nodes -> SUBSET WireMessages]
OwnKeys == \A x, y \in Nodes : \A m \in Under(x, y) : m.type = "key" => m.source = x

\* A neighbour is a subscriber or about to be.  Whoever was greeted, and
\* whoever's key is there, is a subscriber.
LinksGreet ==
    \A a, b \in Nodes : {a, b} \in linked => a \in subscribers[b] \/ Waits(wire[a][b])
FromSubscribers ==
    \A a, b \in Nodes :
        (\/ b \in keys[a]
         \/ KeyExchangeReceived(b) \in Told(a)
         \/ PeerSubscribed(b) \in Told(a)) => b \in subscribers[a]

\* A key message seen has left its key.
SeenHere ==
    \A a \in Nodes : \A m \in seen[a] :
        m.source \in keys[a] \/ KeyExchangeReceived(m.source) \in Told(a)
AllComing == \A a, b \in Nodes : {a, b} \in linked => Coming(b, a)

OnTheWay ==
    Quiet /\ OwnKeys /\ LinksGreet /\ FromSubscribers /\ SeenHere /\ AllComing

LEMMA EventNames ==
    /\ \A p, q : PeerSubscribed(p) # KeyExchangeReceived(q)
    /\ \A p, q : PeerSubscribed(p) = PeerSubscribed(q) => p = q
    /\ \A p, q : KeyExchangeReceived(p) = KeyExchangeReceived(q) => p = q
    /\ \A p : PeerSubscribed(p).type = "subscribed" /\ PeerSubscribed(p).peer = p
    /\ \A p : KeyExchangeReceived(p).type = "key" /\ KeyExchangeReceived(p).peer = p
    /\ \A e \in NodeEvents : \/ e.type = "subscribed" /\ e = PeerSubscribed(e.peer)
                             \/ e.type = "key" /\ e = KeyExchangeReceived(e.peer)
  BY DEF PeerSubscribed, KeyExchangeReceived, NodeEvents

\* What the steps do to the channels.
LEMMA ToldMore ==
    ASSUME NodesOK, NEW n \in Nodes, NEW e \in NodeEvents,
           events' = [events EXCEPT ![n] = Append(@, e)], NEW x \in Nodes
    PROVE  Told(x)' = IF x = n THEN Told(x) \cup {e} ELSE Told(x)
  <1>1. events'[x] = IF x = n THEN Append(events[n], e) ELSE events[x]
    BY DEF NodesOK, NodesOver
  <1>2. Range(Append(events[n], e)) = Range(events[n]) \cup {e}
    BY AppendHas DEF NodesOK, NodesOver
  <1>3. CASE x = n
    BY <1>1, <1>2, <1>3 DEF Told
  <1>4. CASE x # n
    BY <1>1, <1>4 DEF Told
  <1> QED
    BY <1>3, <1>4

LEMMA ToldLess ==
    ASSUME NodesOK, NEW n \in Nodes, NEW type, NextEvent(n, type), NEW x \in Nodes
    PROVE  Told(x) = IF x = n THEN Told(x)' \cup {Head(events[n])} ELSE Told(x)'
  <1>1. events'[x] = IF x = n THEN Tail(events[n]) ELSE events[x]
    BY DEF NodesOK, NodesOver, NextEvent
  <1>2. events[n] \in Seq(NodeEvents) /\ events[n] # << >>
    BY DEF NodesOK, NodesOver, NextEvent
  <1>3. Range(events[n]) = {Head(events[n])} \cup Range(Tail(events[n]))
    BY <1>2, TailHas
  <1> QED
    BY <1>1, <1>3 DEF Told

LEMMA OrderedMore ==
    ASSUME NodesOK, NEW n \in Nodes, SendKeyExchange(n), NEW x \in Nodes
    PROVE  Ordered(x)' = IF x = n THEN Ordered(x) \cup {KeyCommand} ELSE Ordered(x)
  <1>1. commands'[x] = IF x = n THEN Append(commands[n], KeyCommand) ELSE commands[x]
    BY DEF NodesOK, NodesOver, SendKeyExchange
  <1>2. Range(Append(commands[n], KeyCommand)) = Range(commands[n]) \cup {KeyCommand}
    BY AppendHas DEF NodesOK, NodesOver
  <1> QED
    BY <1>1, <1>2 DEF Ordered

LEMMA OrderedElsewhere ==
    ASSUME NodesOK, NEW n \in Nodes, NextCommand(n, "key"), NEW x \in Nodes, x # n
    PROVE  Ordered(x)' = Ordered(x)
  BY DEF NodesOK, NodesOver, NextCommand, Ordered

LEMMA UnderMore ==
    ASSUME NEW s \in Seq(WireMessages), NEW m \in WireMessages
    PROVE  Range(Append(s, m)) = Range(s) \cup {m}
  BY AppendHas

LEMMA UnderLess ==
    ASSUME LinksOK, NEW a \in Nodes, NEW b \in Nodes, wire[a][b] # << >>
    PROVE  Under(a, b) = {Head(wire[a][b])} \cup Range(Tail(wire[a][b]))
  <1>1. wire[a][b] \in Seq(WireMessages)
    BY DEF LinksOK, LinksOver, Wires
  <1> QED
    BY <1>1, TailHas DEF Under

\* A new link: the subscriptions call for both keys.
LEMMA OnTheWayConnect ==
    ASSUME LinksOK, NodesOK, SubscriptionsFirst, OnTheWay,
           NEW a \in Nodes, NEW b \in Nodes, Connect(a, b)
    PROVE  OnTheWay'
  <1>1. /\ UNCHANGED <<subscribers, seen, events, commands, keys, phase>>
        /\ linked' = linked \cup {{a, b}} /\ {a, b} \notin linked
    BY DEF Connect, vaults
  <1>2. /\ \A x, y \in Nodes : wire'[x][y] \in {wire[x][y], <<Subscription>>}
        /\ \A x, y \in Nodes : Waits(wire'[x][y]) <=>
              \/ Waits(wire[x][y])
              \/ (x = a /\ y = b) \/ (x = b /\ y = a)
    BY LinksConnect, WaitsConnect
  <1>3. \A x, y \in Nodes : /\ Under(x, y)' = Under(x, y) \/ Under(x, y)' = {Subscription}
                            /\ Waits(wire'[x][y]) => Subscription \in Under(x, y)'
    <2> SUFFICES ASSUME NEW x \in Nodes, NEW y \in Nodes
                 PROVE  /\ Under(x, y)' = Under(x, y) \/ Under(x, y)' = {Subscription}
                        /\ Waits(wire'[x][y]) => Subscription \in Under(x, y)'
      OBVIOUS
    <2>1. Range(<<Subscription>>) = {Subscription}
      BY DEF Range
    <2>2. LinksOK'
      BY LinksConnect
    <2>3. wire'[x][y] \in Seq(WireMessages)
      BY <2>2 DEF LinksOK, LinksOver, Wires
    <2>4. Waits(wire'[x][y]) => Subscription \in Under(x, y)'
      <3> SUFFICES ASSUME Waits(wire'[x][y]) PROVE Subscription \in Under(x, y)'
        OBVIOUS
      <3>1. 1 \in DOMAIN wire'[x][y] /\ wire'[x][y][1] \in WireMessages
        BY <2>3, TailHas DEF Waits
      <3>2. wire'[x][y][1] = Subscription
        BY <3>1 DEF Waits, WireMessages
      <3> QED
        BY <3>1, <3>2 DEF Under, Range
    <2> QED
      BY <1>2, <2>1, <2>4 DEF Under
  <1>4. \A x, y \in Nodes : {x, y} \notin linked => x \notin subscribers[y]
    BY DEF LinksOK, LinksOver
  <1>5. Quiet'
    BY <1>1 DEF OnTheWay, Quiet
  <1>6. OwnKeys'
    <2>1. Subscription.type # "key"
      BY DEF Subscription
    <2> SUFFICES ASSUME NEW x \in Nodes, NEW y \in Nodes, NEW m \in Under(x, y)',
                        m.type = "key"
                 PROVE  m.source = x
      BY DEF OwnKeys
    <2>2. m \in Under(x, y)
      BY <1>3, <2>1
    <2> QED
      BY <2>2 DEF OnTheWay, OwnKeys
  <1>7. LinksGreet'
    <2> SUFFICES ASSUME NEW x \in Nodes, NEW y \in Nodes, {x, y} \in linked'
                 PROVE  x \in subscribers'[y] \/ Waits(wire'[x][y])
      BY DEF LinksGreet
    <2>1. CASE {x, y} = {a, b}
      <3>1. (x = a /\ y = b) \/ (x = b /\ y = a)
        BY <2>1
      <3> QED
        BY <1>2, <3>1
    <2>2. CASE {x, y} \in linked
      BY <1>1, <1>2, <2>2 DEF OnTheWay, LinksGreet
    <2> QED
      BY <1>1, <2>1, <2>2
  <1>8. FromSubscribers' /\ SeenHere'
    BY <1>1 DEF OnTheWay, FromSubscribers, SeenHere, Told
  <1>9. AllComing'
    <2> SUFFICES ASSUME NEW x \in Nodes, NEW y \in Nodes, {x, y} \in linked'
                 PROVE  Coming(y, x)'
      BY DEF AllComing
    <2>1. CASE {x, y} = {a, b}
      <3>1. x \notin keys[y]
        BY <1>1, <1>4, <2>1 DEF OnTheWay, FromSubscribers
      <3>2. (x = a /\ y = b) \/ (x = b /\ y = a)
        BY <2>1
      <3>3. Subscription \in Under(x, y)'
        BY <1>2, <1>3, <3>2
      <3> QED
        BY <1>1, <3>1, <3>3 DEF Coming
    <2>2. CASE {x, y} \in linked
      <3>1. ~(x = a /\ y = b) /\ ~(x = b /\ y = a) /\ {y, x} = {x, y}
        BY <1>1, <2>2
      <3>2. Under(x, y)' = Under(x, y) /\ Under(y, x)' = Under(y, x)
        <4> DEFINE one == <<Subscription>>
                   row == [wire EXCEPT ![a][b] = one]
        <4>1. wire' = [row EXCEPT ![b][a] = one] /\ wire \in Wires(WireMessages)
          BY DEF Connect, LinksOK, LinksOver
        <4> HIDE DEF one
        <4>2. wire'[x][y] = wire[x][y] /\ wire'[y][x] = wire[y][x]
          BY <3>1, <4>1 DEF Wires
        <4> QED
          BY <4>2 DEF Under
      <3>3. Coming(y, x)
        BY <2>2 DEF OnTheWay, AllComing
      <3> QED
        BY <1>1, <3>2, <3>3 DEF Coming, Told, Ordered
    <2> QED
      BY <1>1, <2>1, <2>2
  <1> QED
    BY <1>5, <1>6, <1>7, <1>8, <1>9 DEF OnTheWay

\* A subscription taken off a link becomes an event of the same peer.
LEMMA OnTheWayReceiveSubscription ==
    ASSUME LinksOK, NodesOK, SubscriptionsFirst, OnTheWay,
           NEW a \in Nodes, NEW b \in Nodes, ReceiveSubscription(a, b)
    PROVE  OnTheWay'
  <1>1. /\ UNCHANGED <<linked, seen, commands, keys, phase>>
        /\ \A y \in Nodes : subscribers'[y] = IF y = b THEN subscribers[y] \cup {a}
                                                       ELSE subscribers[y]
        /\ wire[a][b] # << >>
    BY DEF ReceiveSubscription, Take, vaults, LinksOK, LinksOver
  <1>2. \A x \in Nodes : Told(x)' = IF x = b THEN Told(x) \cup {PeerSubscribed(a)}
                                            ELSE Told(x)
    <2> DEFINE e == PeerSubscribed(a)
    <2>1. events' = [events EXCEPT ![b] = Append(@, e)] /\ e \in NodeEvents
      BY MessageTypes DEF ReceiveSubscription
    <2> HIDE DEF e
    <2>2. \A x \in Nodes : Told(x)' = IF x = b THEN Told(x) \cup {e} ELSE Told(x)
      BY <2>1, ToldMore
    <2> QED
      BY <2>2 DEF e
  <1>3. Head(wire[a][b]) = Subscription
    <2>1. Head(wire[a][b]) \in WireMessages /\ Head(wire[a][b]).type = "subscription"
      BY LinksTake, <1>1 DEF ReceiveSubscription
    <2> QED
      BY <2>1 DEF WireMessages
  <1>4. \A x, y \in Nodes : \/ Under(x, y)' = Under(x, y)
                            \/ /\ x = a /\ y = b
                               /\ Under(x, y) = {Subscription} \cup Under(x, y)'
    <2> SUFFICES ASSUME NEW x \in Nodes, NEW y \in Nodes
                 PROVE  \/ Under(x, y)' = Under(x, y)
                        \/ /\ x = a /\ y = b
                           /\ Under(x, y) = {Subscription} \cup Under(x, y)'
      OBVIOUS
    <2>1. wire'[x][y] = IF x = a /\ y = b THEN Tail(wire[a][b]) ELSE wire[x][y]
      BY LinksReceiveSubscription
    <2>2. Under(a, b) = {Subscription} \cup Range(Tail(wire[a][b]))
      BY <1>1, <1>3, UnderLess
    <2>3. CASE x = a /\ y = b
      BY <2>1, <2>2, <2>3 DEF Under
    <2>4. CASE ~(x = a /\ y = b)
      BY <2>1, <2>4 DEF Under
    <2> QED
      BY <2>3, <2>4
  <1>5. /\ \A x, y \in Nodes : Waits(wire'[x][y]) <=> Waits(wire[x][y]) /\ ~(x = a /\ y = b)
        /\ Subscription.type # "key"
    BY WaitsReceiveSubscription DEF Subscription
  <1>6. Quiet'
    BY <1>1 DEF OnTheWay, Quiet
  <1>7. OwnKeys'
    BY <1>4 DEF OnTheWay, OwnKeys
  <1>8. LinksGreet'
    BY <1>1, <1>5 DEF OnTheWay, LinksGreet
  <1>9. FromSubscribers'
    <2> SUFFICES ASSUME NEW x \in Nodes, NEW y \in Nodes,
                        \/ y \in keys[x]
                        \/ KeyExchangeReceived(y) \in Told(x)'
                        \/ PeerSubscribed(y) \in Told(x)'
                 PROVE  y \in subscribers'[x]
      BY <1>1 DEF FromSubscribers
    <2>1. \/ x = b /\ y = a
          \/ y \in keys[x]
          \/ KeyExchangeReceived(y) \in Told(x)
          \/ PeerSubscribed(y) \in Told(x)
      BY <1>2, EventNames
    <2> QED
      BY <1>1, <2>1 DEF OnTheWay, FromSubscribers
  <1>10. SeenHere'
    BY <1>1, <1>2 DEF OnTheWay, SeenHere
  <1>11. AllComing'
    <2> SUFFICES ASSUME NEW x \in Nodes, NEW y \in Nodes, {x, y} \in linked
                 PROVE  Coming(y, x)'
      BY <1>1 DEF AllComing
    <2>1. Coming(y, x)
      BY DEF OnTheWay, AllComing
    <2>2. UNCHANGED <<keys, commands>> /\ Ordered(y)' = Ordered(y)
      BY <1>1 DEF Ordered
    <2>3. /\ subscribers[y] \subseteq subscribers'[y]
          /\ Told(x) \subseteq Told(x)' /\ Told(y) \subseteq Told(y)'
      BY <1>1, <1>2
    <2>4. \A m \in Under(y, x) : m.type = "key" => m \in Under(y, x)'
      BY <1>4, <1>5
    <2>5. Subscription \in Under(x, y) =>
             Subscription \in Under(x, y)' \/ PeerSubscribed(x) \in Told(y)'
      BY <1>2, <1>4
    <2> QED
      BY <2>1, <2>2, <2>3, <2>4, <2>5 DEF Coming
  <1> QED
    BY <1>6, <1>7, <1>8, <1>9, <1>10, <1>11 DEF OnTheWay

\* Without forwarding a key message is only taken off its link.
LEMMA TakesKey ==
    ASSUME LinksOK, faults = 0, faults' = 0,
           NEW a \in Nodes, NEW b \in Nodes, ReceiveKey(a, b)
    PROVE  \A x, y \in Nodes : wire'[x][y] = IF x = a /\ y = b THEN Tail(wire[a][b])
                                                             ELSE wire[x][y]
  <1> DEFINE rest == Tail(wire[a][b])
             taken == [wire EXCEPT ![a][b] = rest]
             m == Head(wire[a][b])
             others == subscribers[b] \ {a, m.source}
  <1>1. \/ wire' = taken
        \/ \E targets \in SUBSET others : /\ wire' = Broadcast(taken, b, targets, m)
                                          /\ faults' = faults + Cardinality(targets)
    BY DEF ReceiveKey
  <1>2. rest \in Seq(WireMessages) /\ wire \in Wires(WireMessages) /\ others \in SUBSET Nodes
    BY LinksTake DEF ReceiveKey, LinksOK, LinksOver
  <1> HIDE DEF rest, others, m
  <1>3. /\ taken \in Wires(WireMessages)
        /\ \A x, y \in Nodes : taken[x][y] = IF x = a /\ y = b THEN rest ELSE wire[x][y]
    <2>1. taken = Rewired(wire, a, b, rest)
      BY <1>2, WireReplaced
    <2> HIDE DEF taken
    <2> QED
      BY <1>2, <2>1, TypedRewired
  <1> HIDE DEF taken
  <1>4. ASSUME NEW targets \in SUBSET others, wire' = Broadcast(taken, b, targets, m),
               faults' = faults + Cardinality(targets)
        PROVE  \A x, y \in Nodes : wire'[x][y] = taken[x][y]
    <2>1. targets \in SUBSET Nodes
      BY <1>2
    <2>2. IsFiniteSet(targets) /\ Cardinality(targets) \in Nat
      BY <2>1, OthersNat
    <2>3. Cardinality(targets) = 0
      BY <1>4, <2>2
    <2>4. targets = {}
      BY <2>2, <2>3, FS_EmptySet
    <2> QED
      BY <1>3, <1>4, <2>4, BroadcastWires
  <1> QED
    BY <1>1, <1>3, <1>4 DEF rest

\* A key message becomes an event, unless one like it has come before.
LEMMA OnTheWayReceiveKey ==
    ASSUME LinksOK, NodesOK, SubscriptionsFirst, OnTheWay, Calm, Calm',
           NEW a \in Nodes, NEW b \in Nodes, ReceiveKey(a, b)
    PROVE  OnTheWay'
  <1> DEFINE m == Head(wire[a][b])
  <1>1. /\ UNCHANGED <<linked, subscribers, commands, keys, phase>>
        /\ \/ /\ m \in seen[b] \/ m.source = b
              /\ UNCHANGED <<seen, events>>
           \/ /\ seen' = [seen EXCEPT ![b] = @ \cup {m}]
              /\ events' = [events EXCEPT ![b] = Append(@, KeyExchangeReceived(m.source))]
        /\ wire[a][b] # << >> /\ m.type = "key"
    BY DEF ReceiveKey, vaults
  <1>2. /\ Under(a, b) = {m} \cup Under(a, b)'
        /\ \A x, y \in Nodes : x # a \/ y # b => Under(x, y)' = Under(x, y)
    <2>1. \A x, y \in Nodes : wire'[x][y] = IF x = a /\ y = b THEN Tail(wire[a][b])
                                                             ELSE wire[x][y]
      BY TakesKey DEF Calm
    <2>2. Under(a, b) = {m} \cup Range(Tail(wire[a][b]))
      BY <1>1, UnderLess
    <2>3. wire'[a][b] = Tail(wire[a][b])
      BY <2>1
    <2>4. \A x, y \in Nodes : x # a \/ y # b => wire'[x][y] = wire[x][y]
      BY <2>1
    <2> QED
      BY <2>2, <2>3, <2>4 DEF Under
  <1>3. /\ {a, b} \in linked /\ a # b /\ m \in WireMessages
        /\ m.source = a /\ a \in subscribers[b]
    <2>1. {a, b} \in linked /\ m \in WireMessages
      BY <1>1, LinksTake
    <2>2. a # b
      <3>1. Cardinality({a, b}) = 2
        BY <2>1 DEF LinksOK, LinksOver, Pairs
      <3>2. Cardinality({a}) = 1
        BY FS_Singleton
      <3>3. a = b => {a, b} = {a}
        OBVIOUS
      <3> QED
        BY <3>1, <3>2, <3>3
    <2>3. m.source = a
      BY <1>1, <1>2 DEF OnTheWay, OwnKeys
    <2>4. ~Waits(wire[a][b])
      BY WaitsReceiveKey
    <2> QED
      BY <2>1, <2>2, <2>3, <2>4 DEF OnTheWay, LinksGreet
  <1>4. \A x, y \in Nodes : Waits(wire'[x][y]) <=> Waits(wire[x][y])
    BY WaitsReceiveKey
  <1>5. seen \in [Nodes -> SUBSET WireMessages]
    BY DEF OnTheWay, Quiet
  <1> DEFINE new == KeyExchangeReceived(a)
  <1>6. \/ UNCHANGED <<seen, events>> /\ m \in seen[b]
        \/ /\ seen' = [seen EXCEPT ![b] = @ \cup {m}]
           /\ events' = [events EXCEPT ![b] = Append(@, new)]
    BY <1>1, <1>3
  <1>7. new \in NodeEvents
    BY MessageTypes
  <1>8. \A x \in Nodes : /\ Told(x) \subseteq Told(x)'
                         /\ Told(x)' \subseteq Told(x) \cup (IF x = b THEN {new} ELSE {})
                         /\ \/ seen'[x] = seen[x]
                            \/ x = b /\ seen'[x] = seen[x] \cup {m} /\ new \in Told(x)'
    <2> HIDE DEF new, m
    <2>1. CASE UNCHANGED <<seen, events>>
      BY <2>1 DEF Told
    <2>2. CASE /\ seen' = [seen EXCEPT ![b] = @ \cup {m}]
               /\ events' = [events EXCEPT ![b] = Append(@, new)]
      <3>1. \A x \in Nodes : Told(x)' = IF x = b THEN Told(x) \cup {new} ELSE Told(x)
        BY <1>7, <2>2, ToldMore
      <3>2. \A x \in Nodes : seen'[x] = IF x = b THEN seen[x] \cup {m} ELSE seen[x]
        BY <1>5, <2>2
      <3> QED
        BY <3>1, <3>2
    <2> QED
      BY <1>6, <2>1, <2>2
  <1>9. Quiet'
    <2> HIDE DEF new, m
    <2>1. seen' \in [Nodes -> SUBSET WireMessages]
      BY <1>3, <1>5, <1>6
    <2> QED
      BY <1>1, <2>1 DEF OnTheWay, Quiet
  <1>10. OwnKeys'
    <2>1. \A x, y \in Nodes : Under(x, y)' \subseteq Under(x, y)
      BY <1>2
    <2> QED
      BY <2>1 DEF OnTheWay, OwnKeys
  <1>11. LinksGreet'
    BY <1>1, <1>4 DEF OnTheWay, LinksGreet
  <1>12. FromSubscribers'
    <2> SUFFICES ASSUME NEW x \in Nodes, NEW y \in Nodes,
                        \/ y \in keys[x]
                        \/ KeyExchangeReceived(y) \in Told(x)'
                        \/ PeerSubscribed(y) \in Told(x)'
                 PROVE  y \in subscribers[x]
      BY <1>1 DEF FromSubscribers
    <2>1. \/ x = b /\ y = a
          \/ y \in keys[x]
          \/ KeyExchangeReceived(y) \in Told(x)
          \/ PeerSubscribed(y) \in Told(x)
      BY <1>8, EventNames
    <2> QED
      BY <1>3, <2>1 DEF OnTheWay, FromSubscribers
  <1>13. SeenHere'
    <2> SUFFICES ASSUME NEW x \in Nodes, NEW k \in seen'[x]
                 PROVE  \/ k.source \in keys[x]
                        \/ KeyExchangeReceived(k.source) \in Told(x)'
      BY <1>1 DEF SeenHere
    <2>1. CASE k \in seen[x]
      BY <1>8, <2>1 DEF OnTheWay, SeenHere
    <2>2. CASE k \notin seen[x]
      BY <1>3, <1>8, <2>2
    <2> QED
      BY <2>1, <2>2
  <1>14. AllComing'
    <2> SUFFICES ASSUME NEW x \in Nodes, NEW y \in Nodes, {x, y} \in linked
                 PROVE  Coming(y, x)'
      BY <1>1 DEF AllComing
    <2>1. Coming(y, x)
      BY DEF OnTheWay, AllComing
    <2>2. Ordered(y)' = Ordered(y) /\ Told(x) \subseteq Told(x)' /\ Told(y) \subseteq Told(y)'
      BY <1>1, <1>8 DEF Ordered
    <2>3. Subscription \in Under(x, y) => Subscription \in Under(x, y)'
      <3>1. m # Subscription
        BY <1>1 DEF Subscription
      <3> QED
        BY <1>2, <3>1
    <2>4. CASE y = a /\ x = b
      <3>1. a \in keys[b] \/ new \in Told(b)'
        <4>1. CASE m \in seen[b]
          BY <1>3, <1>8, <4>1 DEF OnTheWay, SeenHere
        <4>2. CASE m \notin seen[b]
          <5>1. seen' = [seen EXCEPT ![b] = @ \cup {m}]
            BY <1>6, <4>2
          <5>2. seen'[b] # seen[b]
            BY <1>5, <4>2, <5>1
          <5> QED
            BY <1>8, <5>2
        <4> QED
          BY <4>1, <4>2
      <3> QED
        BY <1>1, <2>4, <3>1 DEF Coming
    <2>5. CASE ~(y = a /\ x = b)
      <3>1. Under(y, x)' = Under(y, x)
        BY <1>2, <2>5
      <3> QED
        BY <1>1, <2>1, <2>2, <2>3, <3>1 DEF Coming
    <2> QED
      BY <2>4, <2>5
  <1> QED
    BY <1>9, <1>10, <1>11, <1>12, <1>13, <1>14 DEF OnTheWay

\* A published key is on the links to all subscribers.
LEMMA OnTheWayPublishKey ==
    ASSUME LinksOK, NodesOK, SubscriptionsFirst, OnTheWay, NEW n \in Nodes, PublishKey(n)
    PROVE  OnTheWay'
  <1> DEFINE m == KeyMessage(n, sent[n])
  <1>1. /\ UNCHANGED <<linked, subscribers, seen, events, keys, phase>>
        /\ wire' = Broadcast(wire, n, subscribers[n], m)
        /\ NextCommand(n, "key")
    BY DEF PublishKey, vaults
  <1>2. m \in WireMessages /\ m.type = "key" /\ m.source = n /\ wire \in Wires(WireMessages)
    BY MessageTypes DEF NodesOK, NodesOver, LinksOK, LinksOver, KeyMessage
  <1> HIDE DEF m
  <1>3. \A x, y \in Nodes :
           Under(x, y)' = IF x = n /\ y \in subscribers[n] THEN Under(x, y) \cup {m}
                                                          ELSE Under(x, y)
    <2> SUFFICES ASSUME NEW x \in Nodes, NEW y \in Nodes
                 PROVE  Under(x, y)' = IF x = n /\ y \in subscribers[n]
                                       THEN Under(x, y) \cup {m} ELSE Under(x, y)
      OBVIOUS
    <2>1. wire'[x][y] = IF x = n /\ y \in subscribers[n] THEN Append(wire[x][y], m)
                                                          ELSE wire[x][y]
      BY <1>1, <1>2, BroadcastWires
    <2>2. Range(Append(wire[x][y], m)) = Range(wire[x][y]) \cup {m}
      BY <1>2, UnderMore DEF Wires
    <2>3. CASE x = n /\ y \in subscribers[n]
      BY <2>1, <2>2, <2>3 DEF Under
    <2>4. CASE ~(x = n /\ y \in subscribers[n])
      BY <2>1, <2>4 DEF Under
    <2> QED
      BY <2>3, <2>4
  <1>4. \A x, y \in Nodes : Waits(wire'[x][y]) <=> Waits(wire[x][y])
    BY WaitsPublishKey
  <1>5. /\ \A x \in Nodes : Told(x)' = Told(x)
        /\ \A x \in Nodes : x # n => Ordered(x)' = Ordered(x)
    BY <1>1, OrderedElsewhere DEF Told
  <1>6. Quiet' /\ FromSubscribers' /\ SeenHere'
    BY <1>1, <1>5 DEF OnTheWay, Quiet, FromSubscribers, SeenHere
  <1>7. OwnKeys'
    BY <1>2, <1>3 DEF OnTheWay, OwnKeys
  <1>8. LinksGreet'
    BY <1>1, <1>4 DEF OnTheWay, LinksGreet
  <1>9. AllComing'
    <2> SUFFICES ASSUME NEW x \in Nodes, NEW y \in Nodes, {x, y} \in linked
                 PROVE  Coming(y, x)'
      BY <1>1 DEF AllComing
    <2>1. Coming(y, x)
      BY DEF OnTheWay, AllComing
    <2>2. CASE y = n /\ x \in subscribers[n]
      <3>1. m \in Under(y, x)'
        BY <1>3, <2>2
      <3> QED
        BY <1>2, <2>2, <3>1 DEF Coming
    <2>3. CASE y # n \/ x \notin subscribers[n]
      <3>1. Under(x, y) \subseteq Under(x, y)' /\ Under(y, x) \subseteq Under(y, x)'
        BY <1>3
      <3> QED
        BY <1>1, <1>5, <2>1, <2>3, <3>1 DEF Coming
    <2> QED
      BY <2>2, <2>3
  <1> QED
    BY <1>6, <1>7, <1>8, <1>9 DEF OnTheWay

\* A key that cannot be published had nobody to go to.
LEMMA OnTheWayPublishFails ==
    ASSUME LinksOK, NodesOK, OnTheWay, Calm, Calm', NEW n \in Nodes, PublishFails(n)
    PROVE  OnTheWay'
  <1>1. /\ UNCHANGED <<linked, wire, subscribers, seen, events, keys, phase>>
        /\ subscribers[n] = {} /\ NextCommand(n, "key")
    BY DEF PublishFails, network, vaults, Calm
  <1>2. /\ \A x \in Nodes : Told(x)' = Told(x)
        /\ \A x \in Nodes : x # n => Ordered(x)' = Ordered(x)
        /\ \A x, y \in Nodes : Under(x, y)' = Under(x, y)
    BY <1>1, OrderedElsewhere DEF Told, Under
  <1>3. Quiet' /\ OwnKeys' /\ LinksGreet' /\ FromSubscribers' /\ SeenHere'
    BY <1>1, <1>2 DEF OnTheWay, Quiet, OwnKeys, LinksGreet, FromSubscribers, SeenHere
  <1>4. AllComing'
    <2> SUFFICES ASSUME NEW x \in Nodes, NEW y \in Nodes, {x, y} \in linked
                 PROVE  Coming(y, x)'
      BY <1>1 DEF AllComing
    <2>1. Coming(y, x)
      BY DEF OnTheWay, AllComing
    <2> QED
      BY <1>1, <1>2, <2>1 DEF Coming
  <1> QED
    BY <1>3, <1>4 DEF OnTheWay

\* What handling an event of p does to the keys on their way, whichever it is:
\* a greeting is answered unless p's key is held, a key is kept and answered
\* if it is new.
LEMMA OnTheWayHandled ==
    ASSUME LinksOK, NodesOK, OnTheWay, NEW n \in Nodes, NEW e \in NodeEvents,
           UNCHANGED <<linked, wire, subscribers, seen, phase>>,
           \A x \in Nodes : Told(x) = IF x = n THEN Told(x)' \cup {e} ELSE Told(x)',
           e = KeyExchangeReceived(e.peer) \/ e = PeerSubscribed(e.peer),
           \A x \in Nodes : \/ keys'[x] = keys[x]
                            \/ /\ x = n /\ keys'[x] = keys[x] \cup {e.peer}
                               /\ e = KeyExchangeReceived(e.peer),
           e = KeyExchangeReceived(e.peer) => e.peer \in keys'[n],
           \A x \in Nodes : Ordered(x) \subseteq Ordered(x)',
           e.peer \notin keys[n] => KeyCommand \in Ordered(n)'
    PROVE  OnTheWay'
  <1> DEFINE p == e.peer
  <1>1. p \in Nodes /\ p \in subscribers[n]
    <2>1. e \in Told(n)
      OBVIOUS
    <2>2. p \in Nodes
      BY MessageTypes
    <2> QED
      BY <2>1, <2>2 DEF OnTheWay, FromSubscribers
  <1>2. \A x, y \in Nodes : Under(x, y)' = Under(x, y)
    BY DEF Under
  <1>3. \A x \in Nodes : /\ Told(x)' \subseteq Told(x) /\ keys[x] \subseteq keys'[x]
                         /\ \A q \in keys'[x] : q \in keys[x] \/ (x = n /\ q = p)
    OBVIOUS
  <1>4. \A x, q \in Nodes : KeyExchangeReceived(q) \in Told(x) =>
                               q \in keys'[x] \/ KeyExchangeReceived(q) \in Told(x)'
    BY EventNames
  <1>5. Quiet' /\ OwnKeys' /\ LinksGreet'
    BY <1>2 DEF OnTheWay, Quiet, OwnKeys, LinksGreet
  <1>6. FromSubscribers'
    <2> SUFFICES ASSUME NEW x \in Nodes, NEW y \in Nodes,
                        \/ y \in keys'[x]
                        \/ KeyExchangeReceived(y) \in Told(x)'
                        \/ PeerSubscribed(y) \in Told(x)'
                 PROVE  y \in subscribers[x]
      BY DEF FromSubscribers
    <2>1. \/ x = n /\ y = p
          \/ y \in keys[x]
          \/ KeyExchangeReceived(y) \in Told(x)
          \/ PeerSubscribed(y) \in Told(x)
      BY <1>3
    <2> QED
      BY <1>1, <2>1 DEF OnTheWay, FromSubscribers
  <1>7. SeenHere'
    <2> SUFFICES ASSUME NEW x \in Nodes, NEW k \in seen[x]
                 PROVE  \/ k.source \in keys'[x]
                        \/ KeyExchangeReceived(k.source) \in Told(x)'
      BY DEF SeenHere
    <2>1. k.source \in keys[x] \/ KeyExchangeReceived(k.source) \in Told(x)
      BY DEF OnTheWay, SeenHere
    <2>2. CASE k.source \in keys[x]
      BY <1>3, <2>2
    <2>3. CASE KeyExchangeReceived(k.source) \in Told(x)
      <3>1. Told(x) \subseteq NodeEvents
        <4>1. events[x] \in Seq(NodeEvents)
          BY DEF NodesOK, NodesOver
        <4> QED
          BY <4>1, LenProperties DEF Told, Range
      <3>2. k.source \in Nodes
        BY <2>3, <3>1, MessageTypes, EventNames
      <3> QED
        BY <1>4, <2>3, <3>2
    <2> QED
      BY <2>1, <2>2, <2>3
  <1>8. AllComing'
    <2> SUFFICES ASSUME NEW x \in Nodes, NEW y \in Nodes, {x, y} \in linked
                 PROVE  Coming(y, x)'
      BY DEF AllComing
    <2>1. Coming(y, x)
      BY DEF OnTheWay, AllComing
    <2>2. CASE y = n /\ x = p /\ p \notin keys[n]
      <3>1. KeyCommand \in Ordered(y)' /\ x \in subscribers'[y]
        BY <1>1, <2>2
      <3> QED
        BY <3>1 DEF Coming
    <2>3. CASE ~(y = n /\ x = p /\ p \notin keys[n])
      <3>1. x \notin keys[y] => x \notin keys'[y]
        BY <1>3, <2>3
      <3>2. x \notin keys[y] /\ PeerSubscribed(x) \in Told(y) => PeerSubscribed(x) \in Told(y)'
        <4> SUFFICES ASSUME x \notin keys[y], PeerSubscribed(x) \in Told(y)
                     PROVE  PeerSubscribed(x) \in Told(y)'
          OBVIOUS
        <4>1. ~(y = n /\ PeerSubscribed(x) = e)
          BY <2>3, EventNames
        <4> QED
          BY <4>1
      <3>3. y \in keys[x] => y \in keys'[x]
        BY <1>3
      <3>4. KeyCommand \in Ordered(y) => KeyCommand \in Ordered(y)'
        OBVIOUS
      <3> QED
        BY <1>2, <1>4, <2>1, <3>1, <3>2, <3>3, <3>4 DEF Coming
    <2> QED
      BY <2>2, <2>3
  <1> QED
    BY <1>5, <1>6, <1>7, <1>8 DEF OnTheWay

LEMMA OnTheWayEventTask ==
    ASSUME LinksOK, NodesOK, OnTheWay, Calm, Calm', NEW n \in Nodes, EventTask(n)
    PROVE  OnTheWay'
  <1> DEFINE e == Head(events[n])
  <1>1. /\ UNCHANGED <<linked, wire, subscribers, seen, phase>>
        /\ \/ /\ NextEvent(n, "subscribed") /\ keys' = keys
              /\ IF e.peer \notin keys[n] THEN SendKeyExchange(n) ELSE UNCHANGED commands
           \/ /\ NextEvent(n, "key")
              /\ keys' = [keys EXCEPT ![n] = @ \cup {e.peer}]
              /\ IF e.peer \notin keys[n] THEN SendKeyExchange(n) ELSE UNCHANGED commands
    <2>1. phase[n] # "cleared" /\ HasIdentity(n)
      BY DEF OnTheWay, Quiet, HasIdentity
    <2>2. CASE HandleSubscribed(n)
      BY <2>1, <2>2 DEF HandleSubscribed, network, vaults
    <2>3. CASE HandleKey(n)
      <3>1. ~(blocked' = blocked \cup {n})
        BY DEF Calm
      <3> QED
        BY <2>1, <2>3, <3>1 DEF HandleKey, AddPeerKey, network, vaults
    <2> QED
      BY <2>2, <2>3 DEF EventTask
  <1>2. PICK type \in {"subscribed", "key"} :
           /\ NextEvent(n, type)
           /\ type = "subscribed" => keys' = keys
           /\ type = "key" => keys' = [keys EXCEPT ![n] = @ \cup {e.peer}]
           /\ IF e.peer \notin keys[n] THEN SendKeyExchange(n) ELSE UNCHANGED commands
    BY <1>1
  <1>3. e \in NodeEvents /\ e.type = type
    BY <1>2, EventFirst DEF NextEvent
  <1>4. \A x \in Nodes : Told(x) = IF x = n THEN Told(x)' \cup {e} ELSE Told(x)'
    BY <1>2, ToldLess
  <1> HIDE DEF e
  <1>5. /\ type = "subscribed" => e = PeerSubscribed(e.peer)
        /\ type = "key" => e = KeyExchangeReceived(e.peer)
    BY <1>3, EventNames
  <1>6. /\ \A x \in Nodes : \/ keys'[x] = keys[x]
                            \/ /\ x = n /\ keys'[x] = keys[x] \cup {e.peer}
                               /\ e = KeyExchangeReceived(e.peer)
        /\ e = KeyExchangeReceived(e.peer) => e.peer \in keys'[n]
    <2>1. CASE type = "subscribed"
      BY <1>2, <1>5, <2>1, EventNames
    <2>2. CASE type = "key"
      BY <1>2, <1>5, <2>2 DEF NodesOK, NodesOver
    <2> QED
      BY <2>1, <2>2
  <1>7. /\ \A x \in Nodes : Ordered(x) \subseteq Ordered(x)'
        /\ e.peer \notin keys[n] => KeyCommand \in Ordered(n)'
    <2>1. CASE SendKeyExchange(n)
      BY <2>1, OrderedMore
    <2>2. CASE UNCHANGED commands /\ e.peer \in keys[n]
      BY <2>2 DEF Ordered
    <2> QED
      BY <1>2, <2>1, <2>2
  <1>8. e = KeyExchangeReceived(e.peer) \/ e = PeerSubscribed(e.peer)
    BY <1>5
  <1> QED
    BY <1>1, <1>3, <1>4, <1>6, <1>7, <1>8, OnTheWayHandled

LEMMA OnTheWayKept ==
    ASSUME TypeOK, SubscriptionsFirst, CountersOK, Calm => OnTheWay, [Next]_vars
    PROVE  Calm' => OnTheWay'
  <1> SUFFICES ASSUME Calm' PROVE OnTheWay'
    OBVIOUS
  <1> USE TypeParts
  <1>1. Calm
    <2>1. faults = 0
      BY CountersKept DEF Calm, CountersOK
    <2>2. blocked \subseteq blocked'
      <3>1. ASSUME NEW n \in Nodes, EventTask(n)
            PROVE  blocked \subseteq blocked'
        BY <3>1 DEF EventTask, HandleSubscribed, HandleKey
      <3>2. ASSUME NEW n \in Nodes, Loop(n)
            PROVE  blocked \subseteq blocked'
        BY <3>2 DEF Loop, PublishKey, PublishFails, ReceiveSubscription, ReceiveKey
      <3>3. ASSUME NEW n \in Nodes, Vault(n)
            PROVE  blocked \subseteq blocked'
        BY <3>3 DEF Vault, SealVault, ClearCrypto, LoadVault, StoreKey, Advance
      <3> QED
        BY <3>1, <3>2, <3>3 DEF Next, Connect, Disconnect, vars
    <2> QED
      BY <2>1, <2>2 DEF Calm
  <1>2. OnTheWay
    BY <1>1
  <1>3. ASSUME NEW a \in Nodes, NEW b \in Nodes, Connect(a, b)
        PROVE  OnTheWay'
    BY <1>2, <1>3, OnTheWayConnect
  <1>4. ASSUME NEW a \in Nodes, NEW b \in Nodes, Disconnect(a, b)
        PROVE  FALSE
    BY <1>1, <1>4 DEF Disconnect, Calm
  <1>5. ASSUME NEW n \in Nodes, Loop(n)
        PROVE  OnTheWay'
    BY <1>1, <1>2, <1>5, OnTheWayPublishKey, OnTheWayPublishFails,
       OnTheWayReceiveSubscription, OnTheWayReceiveKey DEF Loop
  <1>6. ASSUME NEW n \in Nodes, EventTask(n)
        PROVE  OnTheWay'
    BY <1>1, <1>2, <1>6, OnTheWayEventTask
  <1>7. ASSUME NEW n \in Nodes, Vault(n)
        PROVE  FALSE
    <2>1. phase[n] \in {"unlocked", "late"}
      BY <1>2 DEF OnTheWay, Quiet
    <2> QED
      BY <1>1, <1>7, <2>1 DEF Vault, SealVault, ClearCrypto, LoadVault, StoreKey,
         Advance, Calm
  <1>8. CASE UNCHANGED vars
    <2>1. /\ \A x \in Nodes : Told(x)' = Told(x) /\ Ordered(x)' = Ordered(x)
          /\ \A x, y \in Nodes : Under(x, y)' = Under(x, y)
      BY <1>8 DEF vars, Told, Ordered, Under
    <2>2. Quiet' /\ OwnKeys' /\ LinksGreet' /\ FromSubscribers' /\ SeenHere'
      BY <1>2, <1>8, <2>1 DEF vars, OnTheWay, Quiet, OwnKeys, LinksGreet,
         FromSubscribers, SeenHere
    <2>3. AllComing'
      BY <1>2, <1>8, <2>1 DEF vars, OnTheWay, AllComing, Coming
    <2> QED
      BY <2>2, <2>3 DEF OnTheWay
  <1> QED
    BY <1>3, <1>4, <1>5, <1>6, <1>7, <1>8 DEF Next

LEMMA OnTheWayInitially == Init => OnTheWay
  <1> SUFFICES ASSUME Init PROVE OnTheWay
    OBVIOUS
  <1>1. /\ \A x \in Nodes : Told(x) = {} /\ Ordered(x) = {}
        /\ \A x, y \in Nodes : Under(x, y) = {}
    BY DEF Init, Told, Ordered, Under, Range
  <1>2. Quiet
    BY ExchangeAssumption DEF Init, Quiet
  <1>3. OwnKeys /\ SeenHere /\ LinksGreet /\ AllComing
    BY <1>1 DEF Init, OwnKeys, SeenHere, LinksGreet, AllComing
  <1>4. FromSubscribers
    BY <1>1 DEF Init, FromSubscribers
  <1> QED
    BY <1>2, <1>3, <1>4 DEF OnTheWay

\* Until a fault or a task waiting for itself, the key of every neighbour is
\* here or on its way.
THEOREM KeysArrive == Spec => []NoKeyLost
  <1> DEFINE Inv == TypeOK /\ SubscriptionsFirst /\ CountersOK /\ (Calm => OnTheWay)
  <1>1. Init => Inv
    BY TypesInitially, BudgetInitially, OnTheWayInitially
  <1>2. Inv /\ [Next]_vars => Inv'
    BY TypesKept, SubscriptionsFirstKept, CountersKept, OnTheWayKept
  <1>3. Inv => NoKeyLost
    <2> SUFFICES ASSUME Inv, Calm, NEW a \in Nodes, NEW b \in Nodes, {a, b} \in linked
                 PROVE  KeyComing(b, a) /\ KeyComing(a, b)
      BY DEF NoKeyLost, Calm
    <2>1. {b, a} = {a, b}
      OBVIOUS
    <2>2. Coming(b, a) /\ Coming(a, b)
      BY <2>1 DEF OnTheWay, AllComing
    <2> QED
      BY <2>2, ComingIs
  <1> QED
    BY <1>1, <1>2, <1>3, PTL DEF Spec

=============================================================================

--------------------------- MODULE Messaging_proofs ---------------------------
(***************************************************************************)
(* Theorems about Messaging, for any nodes and any bounds.                 *)
(***************************************************************************)
EXTENDS Messaging, KeyExchange_proofs

-----------------------------------------------------------------------------
(* Types. *)

\* What links and channels hold when messages are sent over the key exchange.
ChatMessages ==
    [type : {"chat"}, source : Nodes, post : Nat, reader : Nodes \cup {Everyone}]
Messages == WireMessages \cup ChatMessages
Events == NodeEvents \cup [type : {"chat"}, message : ChatMessages]
RoomCommands == [type : {"room"}, post : Nat, reader : Nodes \cup {Everyone}]
Commands == {KeyCommand, PeersCommand} \cup RoomCommands
Posts == [from : Nodes, secret : BOOLEAN, readers : SUBSET Nodes]
Entries == [post : Nat, how : {"plain", "read", "placeholder"}]

ChatsOK ==
    /\ members \in Memberships
    /\ posted \in Seq(Posts)
    /\ sending \in [Nodes -> {None} \cup Sends]
    /\ replay \in [Nodes -> SUBSET ChatMessages]
    /\ inbox \in [Nodes -> Seq(Entries)]
    /\ seen \in [Nodes -> SUBSET Messages]

Typed == LinksOver(Messages) /\ NodesOver(Events, Commands) /\ ChatsOK

\* m stands for a post, sent by its author, in the clear to everyone or sealed
\* for its reader.
Genuine(m) ==
    /\ m.post \in 1..Len(posted)
    /\ posted[m.post].from = m.source
    /\ IF m.reader = Everyone
       THEN ~posted[m.post].secret
       ELSE posted[m.post].secret /\ m.reader \in posted[m.post].readers

WiresGenuine ==
    \A x, y \in Nodes : \A m \in Under(x, y) : m.type = "chat" => Genuine(m)
SeenGenuine ==
    \A n \in Nodes : \A m \in seen[n] :
        m.type = "chat" => Genuine(m) /\ m.source # n
EventsGenuine ==
    \A n \in Nodes : \A e \in Told(n) :
        e.type = "chat" => Genuine(e.message) /\ e.message.source # n
CommandsGenuine ==
    \A n \in Nodes : \A c \in Ordered(n) :
        c.type = "room" => Genuine(ChatMessage(n, c.post, c.reader))
AllGenuine == WiresGenuine /\ SeenGenuine /\ EventsGenuine /\ CommandsGenuine

\* A send under way is one of a post of its own, not sealed yet.
SendsOK ==
    \A n \in Nodes : sending[n] # None =>
        /\ sending[n].post \in 1..Len(posted)
        /\ posted[sending[n].post] = Post(n, TRUE)
        /\ sending[n].peers \subseteq Nodes \ {n}

Asks(n) == Count(commands[n], {PeersCommand})
Asking(n) == sending[n] # None /\ sending[n].stage = "asked"
AsksOnce == \A n \in Nodes : Asks(n) = IF Asking(n) THEN 1 ELSE 0

\* What was shown was posted, and remembered if it was sealed.
ReplaysOK ==
    \A n \in Nodes :
        /\ \A m \in replay[n] : m.reader # Everyone
        /\ \A i \in DOMAIN inbox[n] :
              LET entry == inbox[n][i]
              IN  /\ entry.post \in 1..Len(posted)
                  /\ posted[entry.post].secret =>
                        ChatMessage(posted[entry.post].from, entry.post, n)
                           \in replay[n]

Sealed == AllGenuine /\ SendsOK /\ AsksOnce /\ ReplaysOK

LEMMA ChatTypes ==
    /\ Carries(Messages) /\ Tells(Events)
    /\ KeyCommand \in Commands /\ PeersCommand \in Commands
    /\ \A n \in Nodes, i \in Nat, r \in Nodes \cup {Everyone} :
          /\ ChatMessage(n, i, r) \in ChatMessages
          /\ SendMessageToRoom(i, r) \in RoomCommands
    /\ \A m \in ChatMessages : /\ m \in Messages
                               /\ MessageReceived(m) \in Events
                               /\ m = ChatMessage(m.source, m.post, m.reader)
                               /\ m.source \in Nodes /\ m.post \in Nat
                               /\ m.reader \in Nodes \cup {Everyone}
    /\ \A m \in Messages : m.type = "chat" => m \in ChatMessages
    /\ \A e \in Events : e.type = "chat" => /\ e.message \in ChatMessages
                                            /\ e = MessageReceived(e.message)
    /\ \A c \in RoomCommands : /\ c \in Commands
                               /\ c.post \in Nat
                               /\ c.reader \in Nodes \cup {Everyone}
    /\ \A c \in Commands : /\ c.type = "room" => c \in RoomCommands
                           /\ c.type = "key" <=> c = KeyCommand
                           /\ c.type = "peers" <=> c = PeersCommand
  <1>1. Carries(Messages)
    BY DEF Carries, Messages, ChatMessages, WireMessages
  <1>2. Tells(Events)
    BY DEF Tells, Events, NodeEvents
  <1>3. /\ KeyCommand \in Commands /\ PeersCommand \in Commands
        /\ \A c \in RoomCommands : /\ c \in Commands
                                   /\ c.post \in Nat
                                   /\ c.reader \in Nodes \cup {Everyone}
    BY DEF Commands, RoomCommands
  <1>4. \A n \in Nodes, i \in Nat, r \in Nodes \cup {Everyone} :
           /\ ChatMessage(n, i, r) \in ChatMessages
           /\ SendMessageToRoom(i, r) \in RoomCommands
    BY DEF ChatMessage, ChatMessages, SendMessageToRoom, RoomCommands
  <1>5. \A m \in ChatMessages : /\ m \in Messages
                                /\ MessageReceived(m) \in Events
                                /\ m = ChatMessage(m.source, m.post, m.reader)
                                /\ m.source \in Nodes /\ m.post \in Nat
                                /\ m.reader \in Nodes \cup {Everyone}
    BY DEF ChatMessages, Messages, MessageReceived, Events, ChatMessage
  <1>6. \A m \in Messages : m.type = "chat" => m \in ChatMessages
    BY DEF Messages, WireMessages, Subscription
  <1>7. \A e \in Events : e.type = "chat" => /\ e.message \in ChatMessages
                                             /\ e = MessageReceived(e.message)
    BY DEF Events, NodeEvents, MessageReceived
  <1>8. \A c \in Commands : /\ c.type = "room" => c \in RoomCommands
                            /\ c.type = "key" <=> c = KeyCommand
                            /\ c.type = "peers" <=> c = PeersCommand
    BY DEF Commands, RoomCommands, KeyCommand, PeersCommand
  <1> QED
    BY <1>1, <1>2, <1>3, <1>4, <1>5, <1>6, <1>7, <1>8

\* One more command in the channel of n, and one less.
LEMMA CommandsMore ==
    ASSUME NodesOver(Events, Commands), NEW n \in Nodes, NEW c \in Commands,
           commands' = [commands EXCEPT ![n] = Append(@, c)]
    PROVE  /\ commands' \in [Nodes -> Seq(Commands)]
           /\ commands'[n] = Append(commands[n], c)
           /\ \A x \in Nodes \ {n} : commands'[x] = commands[x]
           /\ Ordered(n)' = Ordered(n) \cup {c}
  <1> DEFINE longer == Append(commands[n], c)
  <1>1. longer \in Seq(Commands) /\ Range(longer) = Range(commands[n]) \cup {c}
    BY AppendHas DEF NodesOver
  <1>2. commands' = [commands EXCEPT ![n] = longer]
    OBVIOUS
  <1> HIDE DEF longer
  <1>3. /\ commands' \in [Nodes -> Seq(Commands)]
        /\ commands'[n] = longer
        /\ \A x \in Nodes \ {n} : commands'[x] = commands[x]
    BY <1>1, <1>2 DEF NodesOver
  <1> QED
    BY <1>1, <1>3 DEF longer, Ordered

LEMMA CommandsLess ==
    ASSUME NodesOver(Events, Commands), NEW n \in Nodes, NEW type,
           NextCommand(n, type)
    PROVE  /\ commands' \in [Nodes -> Seq(Commands)]
           /\ commands[n] \in Seq(Commands) /\ commands[n] # << >>
           /\ commands'[n] = Tail(commands[n])
           /\ \A x \in Nodes \ {n} : commands'[x] = commands[x]
           /\ Head(commands[n]) \in Commands /\ Head(commands[n]).type = type
           /\ Ordered(n) = Ordered(n)' \cup {Head(commands[n])}
  <1> DEFINE rest == Tail(commands[n])
  <1>1. /\ commands[n] \in Seq(Commands) /\ commands[n] # << >>
        /\ commands' = [commands EXCEPT ![n] = rest]
        /\ Head(commands[n]).type = type
    BY DEF NodesOver, NextCommand
  <1>2. /\ rest \in Seq(Commands) /\ Head(commands[n]) \in Commands
        /\ Range(commands[n]) = {Head(commands[n])} \cup Range(rest)
    BY <1>1, TailHas
  <1> HIDE DEF rest
  <1>3. /\ commands' \in [Nodes -> Seq(Commands)]
        /\ commands'[n] = rest
        /\ \A x \in Nodes \ {n} : commands'[x] = commands[x]
    BY <1>1, <1>2 DEF NodesOver
  <1> QED
    BY <1>1, <1>2, <1>3 DEF rest, Ordered

LEMMA EventsMore ==
    ASSUME NodesOver(Events, Commands), NEW n \in Nodes, NEW e \in Events,
           events' = [events EXCEPT ![n] = Append(@, e)]
    PROVE  /\ events' \in [Nodes -> Seq(Events)]
           /\ events'[n] = Append(events[n], e)
           /\ \A x \in Nodes \ {n} : events'[x] = events[x]
           /\ Told(n)' = Told(n) \cup {e}
  <1> DEFINE longer == Append(events[n], e)
  <1>1. longer \in Seq(Events) /\ Range(longer) = Range(events[n]) \cup {e}
    BY AppendHas DEF NodesOver
  <1>2. events' = [events EXCEPT ![n] = longer]
    OBVIOUS
  <1> HIDE DEF longer
  <1>3. /\ events' \in [Nodes -> Seq(Events)]
        /\ events'[n] = longer
        /\ \A x \in Nodes \ {n} : events'[x] = events[x]
    BY <1>1, <1>2 DEF NodesOver
  <1> QED
    BY <1>1, <1>3 DEF longer, Told

LEMMA EventsLess ==
    ASSUME NodesOver(Events, Commands), NEW n \in Nodes, NEW type,
           NextEvent(n, type)
    PROVE  /\ events' \in [Nodes -> Seq(Events)]
           /\ events[n] \in Seq(Events) /\ events[n] # << >>
           /\ events'[n] = Tail(events[n])
           /\ \A x \in Nodes \ {n} : events'[x] = events[x]
           /\ Head(events[n]) \in Events /\ Head(events[n]).type = type
           /\ Told(n) = Told(n)' \cup {Head(events[n])}
  <1> DEFINE rest == Tail(events[n])
  <1>1. /\ events[n] \in Seq(Events) /\ events[n] # << >>
        /\ events' = [events EXCEPT ![n] = rest]
        /\ Head(events[n]).type = type
    BY DEF NodesOver, NextEvent
  <1>2. /\ rest \in Seq(Events) /\ Head(events[n]) \in Events
        /\ Range(events[n]) = {Head(events[n])} \cup Range(rest)
    BY <1>1, TailHas
  <1> HIDE DEF rest
  <1>3. /\ events' \in [Nodes -> Seq(Events)]
        /\ events'[n] = rest
        /\ \A x \in Nodes \ {n} : events'[x] = events[x]
    BY <1>1, <1>2 DEF NodesOver
  <1> QED
    BY <1>1, <1>2, <1>3 DEF rest, Told

\* The list of posts grows, or the readers of one of them are filled in.
LEMMA PostedMore ==
    ASSUME ChatsOK, NEW post \in Posts, posted' = Append(posted, post)
    PROVE  /\ posted' \in Seq(Posts)
           /\ Len(posted) \in Nat /\ Len(posted') \in Nat
           /\ Len(posted') = Len(posted) + 1
           /\ \A i \in 1..Len(posted) : posted'[i] = posted[i]
           /\ posted'[Len(posted')] = post
  <1>1. posted \in Seq(Posts)
    BY DEF ChatsOK
  <1> QED
    BY <1>1, AppendHas

LEMMA PostIs ==
    ASSUME NEW n \in Nodes
    PROVE  /\ Post(n, FALSE) \in Posts /\ Post(n, TRUE) \in Posts
           /\ Post(n, FALSE).from = n /\ Post(n, TRUE).from = n
           /\ ~Post(n, FALSE).secret /\ Post(n, TRUE).secret
           /\ Post(n, FALSE).readers = {} /\ Post(n, TRUE).readers = {}
  BY DEF Post, Posts

LEMMA PostedSealed ==
    ASSUME ChatsOK, NEW i \in 1..Len(posted), NEW readers \in SUBSET Nodes,
           posted' = [posted EXCEPT ![i].readers = readers]
    PROVE  /\ posted' \in Seq(Posts)
           /\ Len(posted) \in Nat /\ Len(posted') = Len(posted)
           /\ \A j \in 1..Len(posted) \ {i} : posted'[j] = posted[j]
           /\ posted'[i] = [posted[i] EXCEPT !.readers = readers]
  <1> DEFINE post == [posted[i] EXCEPT !.readers = readers]
  <1>1. posted \in Seq(Posts) /\ Len(posted) \in Nat
    BY LenProperties DEF ChatsOK
  <1>2. posted[i] \in Posts
    BY <1>1, ElementOfSeq
  <1>3. post \in Posts
    BY <1>2 DEF Posts
  <1>4. posted' = [posted EXCEPT ![i] = post]
    OBVIOUS
  <1> HIDE DEF post
  <1>5. /\ posted' \in Seq(Posts) /\ Len(posted') = Len(posted)
        /\ posted'[i] = post
        /\ \A j \in 1..Len(posted) \ {i} : posted'[j] = posted[j]
    BY <1>1, <1>3, <1>4, ExceptSeq
  <1> QED
    BY <1>1, <1>5 DEF post

LEMMA SendingOf ==
    ASSUME ChatsOK, NEW n \in Nodes, sending[n] # None
    PROVE  /\ sending[n] \in Sends
           /\ sending[n].post \in Nat
           /\ sending[n].peers \in SUBSET Nodes
           /\ sending[n].stage \in {"lock", "asked", "answered"}
  BY DEF ChatsOK, Sends

LEMMA SendingNext ==
    ASSUME ChatsOK, NEW n \in Nodes, NEW next \in {None} \cup Sends,
           sending' = [sending EXCEPT ![n] = next]
    PROVE  /\ sending' \in [Nodes -> {None} \cup Sends]
           /\ sending'[n] = next
           /\ \A x \in Nodes \ {n} : sending'[x] = sending[x]
  BY DEF ChatsOK

\* A node remembers an envelope, or shows a message.
LEMMA ShowMore ==
    ASSUME ChatsOK, NEW n \in Nodes, NEW m \in ChatMessages,
           NEW how \in {"plain", "read", "placeholder"}, Show(n, m, how)
    PROVE  LET entry == [post |-> m.post, how |-> how]
           IN  /\ inbox' \in [Nodes -> Seq(Entries)]
               /\ entry \in Entries
               /\ inbox'[n] = Append(inbox[n], entry)
               /\ \A x \in Nodes \ {n} : inbox'[x] = inbox[x]
  <1> DEFINE entry == [post |-> m.post, how |-> how]
             longer == Append(inbox[n], entry)
  <1>1. entry \in Entries
    BY DEF Entries, ChatMessages
  <1>2. longer \in Seq(Entries)
    BY <1>1, AppendHas DEF ChatsOK
  <1>3. inbox' = [inbox EXCEPT ![n] = longer]
    BY DEF Show
  <1> HIDE DEF longer
  <1>4. /\ inbox' \in [Nodes -> Seq(Entries)]
        /\ inbox'[n] = longer
        /\ \A x \in Nodes \ {n} : inbox'[x] = inbox[x]
    BY <1>2, <1>3 DEF ChatsOK
  <1> QED
    BY <1>1, <1>4 DEF longer

LEMMA ReplayMore ==
    ASSUME ChatsOK, NEW n \in Nodes, NEW m \in ChatMessages,
           replay' = [replay EXCEPT ![n] = @ \cup {m}]
    PROVE  /\ replay' \in [Nodes -> SUBSET ChatMessages]
           /\ replay'[n] = replay[n] \cup {m}
           /\ \A x \in Nodes \ {n} : replay'[x] = replay[x]
  BY DEF ChatsOK

\* One list behind another.
LEMMA ConcatHas ==
    ASSUME NEW S, NEW s \in Seq(S), NEW t \in Seq(S)
    PROVE  /\ s \o t \in Seq(S)
           /\ Len(s) \in Nat /\ Len(t) \in Nat
           /\ DOMAIN s = 1..Len(s) /\ DOMAIN (s \o t) = 1..(Len(s) + Len(t))
           /\ \A i \in DOMAIN s : (s \o t)[i] = s[i]
           /\ \A i \in DOMAIN (s \o t) \ DOMAIN s : (s \o t)[i] \in Range(t)
           /\ Range(s \o t) = Range(s) \cup Range(t)
  <1> DEFINE u == s \o t
  <1>1. /\ u \in Seq(S) /\ Len(u) = Len(s) + Len(t)
        /\ \A i \in 1..Len(s) + Len(t) : u[i] = IF i <= Len(s) THEN s[i]
                                                              ELSE t[i - Len(s)]
    BY ConcatProperties
  <1>2. /\ Len(s) \in Nat /\ Len(t) \in Nat
        /\ DOMAIN s = 1..Len(s) /\ DOMAIN t = 1..Len(t)
        /\ DOMAIN u = 1..(Len(s) + Len(t))
    BY <1>1, LenProperties
  <1> HIDE DEF u
  <1> DEFINE l == Len(s)
             k == Len(t)
  <1>3. l \in Nat /\ k \in Nat /\ DOMAIN s = 1..l /\ DOMAIN t = 1..k
        /\ DOMAIN u = 1..(l + k)
        /\ \A i \in 1..(l + k) : u[i] = IF i <= l THEN s[i] ELSE t[i - l]
    BY <1>1, <1>2
  <1> HIDE DEF l, k
  <1>4. \A i \in DOMAIN s : i \in DOMAIN u /\ u[i] = s[i]
    BY <1>3
  <1>5. \A i \in DOMAIN u \ DOMAIN s : i - l \in DOMAIN t /\ u[i] = t[i - l]
    BY <1>3
  <1>6. \A i \in DOMAIN t : i + l \in DOMAIN u /\ u[i + l] = t[i]
    BY <1>3
  <1>7. \A i \in DOMAIN u \ DOMAIN s : u[i] \in Range(t)
    BY <1>5 DEF Range
  <1>8. Range(u) = Range(s) \cup Range(t)
    BY <1>4, <1>6, <1>7 DEF Range
  <1> QED
    BY <1>1, <1>2, <1>4, <1>7, <1>8 DEF u

LEMMA EnvelopesAre ==
    ASSUME NEW i \in Nat, NEW readers \in SUBSET Nodes,
           NEW s \in Envelopes(i, readers)
    PROVE  /\ s \in Seq(RoomCommands)
           /\ Range(s) = {SendMessageToRoom(i, p) : p \in readers}
  <1> DEFINE all == {SendMessageToRoom(i, p) : p \in readers}
             l == Cardinality(readers)
  <1>1. l \in Nat
    BY ExchangeAssumption, FS_Subset, FS_CardinalityType
  <1>2. s \in [1..l -> all] /\ \A p \in readers : Occurs(SendMessageToRoom(i, p), s)
    BY DEF Envelopes
  <1>3. all \subseteq RoomCommands
    BY ChatTypes
  <1>4. \A c \in all : \E j \in 1..Len(s) : s[j] = c
    BY <1>2 DEF Occurs
  <1> HIDE DEF all, l
  <1>5. s \in Seq(all)
    BY <1>1, <1>2
  <1>6. s \in Seq(RoomCommands)
    BY <1>3, <1>5
  <1>7. DOMAIN s = 1..Len(s)
    BY <1>5
  <1>8. Range(s) = all
    BY <1>2, <1>4, <1>7 DEF Range
  <1> QED
    BY <1>6, <1>8 DEF all

\* What a send adds to the channel of commands.
LEMMA TypedSendPlain ==
    ASSUME Typed, NEW n \in Nodes, SendPlain(n)
    PROVE  /\ Typed'
           /\ SendMessageToRoom(Len(posted'), Everyone) \in RoomCommands
  <1> DEFINE c == SendMessageToRoom(Len(posted'), Everyone)
  <1>1. /\ posted' = Append(posted, Post(n, FALSE))
        /\ commands' = [commands EXCEPT ![n] = Append(@, c)]
        /\ UNCHANGED <<linked, wire, subscribers, met, seen, events, keys, phase,
                       stored, blocked, sent, members, sending, replay, inbox>>
    BY DEF SendPlain, network, vaults, counters
  <1>2. posted' \in Seq(Posts) /\ Len(posted') \in Nat
    <2>1. Post(n, FALSE) \in Posts
      BY PostIs
    <2>2. posted' = Append(posted, Post(n, FALSE))
      BY <1>1
    <2> QED
      BY <2>1, <2>2, PostedMore DEF Typed
  <1>3. c \in RoomCommands /\ c \in Commands
    BY <1>2, ChatTypes
  <1> HIDE DEF c
  <1>4. commands' \in [Nodes -> Seq(Commands)]
    BY <1>1, <1>3, CommandsMore DEF Typed
  <1>5. LinksOver(Messages)'
    BY <1>1 DEF Typed, LinksOver
  <1>6. NodesOver(Events, Commands)'
    BY <1>1, <1>4 DEF Typed, NodesOver
  <1>7. ChatsOK'
    BY <1>1, <1>2 DEF Typed, ChatsOK
  <1> QED
    BY <1>3, <1>5, <1>6, <1>7 DEF Typed, c

LEMMA TypedSendSecret ==
    ASSUME Typed, NEW n \in Nodes, SendSecret(n)
    PROVE  /\ Typed'
           /\ sending'[n] = [post |-> Len(posted'), stage |-> "lock", peers |-> {}]
           /\ \A x \in Nodes \ {n} : sending'[x] = sending[x]
  <1> DEFINE send == [post |-> Len(posted'), stage |-> "lock", peers |-> {}]
  <1>1. /\ posted' = Append(posted, Post(n, TRUE))
        /\ sending' = [sending EXCEPT ![n] = send]
        /\ UNCHANGED <<vars, members, replay, inbox>>
    BY DEF SendSecret
  <1>2. posted' \in Seq(Posts) /\ Len(posted') \in Nat
    <2>1. Post(n, TRUE) \in Posts
      BY PostIs
    <2>2. posted' = Append(posted, Post(n, TRUE))
      BY <1>1
    <2> QED
      BY <2>1, <2>2, PostedMore DEF Typed
  <1>3. send \in Sends
    BY <1>2 DEF Sends
  <1> HIDE DEF send
  <1>4. /\ sending' \in [Nodes -> {None} \cup Sends]
        /\ sending'[n] = send
        /\ \A x \in Nodes \ {n} : sending'[x] = sending[x]
    BY <1>1, <1>3, SendingNext DEF Typed
  <1>5. LinksOver(Messages)'
    BY <1>1 DEF Typed, LinksOver, vars
  <1>6. NodesOver(Events, Commands)'
    BY <1>1 DEF Typed, NodesOver, vars
  <1>7. ChatsOK'
    BY <1>1, <1>2, <1>4 DEF Typed, ChatsOK, vars
  <1> QED
    BY <1>4, <1>5, <1>6, <1>7 DEF Typed, send

LEMMA TypedAskPeers ==
    ASSUME Typed, NEW n \in Nodes, AskPeers(n)
    PROVE  Typed'
  <1>1. /\ commands' = [commands EXCEPT ![n] = Append(@, PeersCommand)]
           \/ commands' = commands
        /\ UNCHANGED <<linked, wire, subscribers, met, seen, events, keys, phase,
                       stored, blocked, sent, members, posted, replay, inbox>>
    BY DEF AskPeers, network, vaults, counters
  <1>2. commands' \in [Nodes -> Seq(Commands)]
    <2>1. CASE commands' = commands
      BY <2>1 DEF Typed, NodesOver
    <2>2. CASE commands' = [commands EXCEPT ![n] = Append(@, PeersCommand)]
      BY <2>2, ChatTypes, CommandsMore DEF Typed
    <2> QED
      BY <1>1, <2>1, <2>2
  <1>3. sending' \in [Nodes -> {None} \cup Sends]
    <2>1. sending[n] \in Sends
      BY SendingOf DEF AskPeers, Typed
    <2>2. [sending[n] EXCEPT !.stage = "asked"] \in Sends
      BY <2>1 DEF Sends
    <2>3. \/ sending' = [sending EXCEPT ![n] = [sending[n] EXCEPT !.stage = "asked"]]
          \/ sending' = [sending EXCEPT ![n] = None]
      BY DEF AskPeers
    <2> QED
      BY <2>2, <2>3, SendingNext DEF Typed
  <1>4. LinksOver(Messages)'
    BY <1>1 DEF Typed, LinksOver
  <1>5. NodesOver(Events, Commands)'
    BY <1>1, <1>2 DEF Typed, NodesOver
  <1>6. ChatsOK'
    BY <1>1, <1>3 DEF Typed, ChatsOK
  <1> QED
    BY <1>4, <1>5, <1>6 DEF Typed

LEMMA NoNeighbourOfItself ==
    ASSUME LinksOver(Messages), NEW n \in Nodes
    PROVE  Neighbours(n) \subseteq Nodes \ {n}
  <1>1. ASSUME {n, n} \in linked PROVE FALSE
    <2>1. Cardinality({n}) = 1
      BY FS_Singleton
    <2>2. Cardinality({n}) = 2
      BY <1>1 DEF LinksOver, Pairs
    <2> QED
      BY <2>1, <2>2
  <1> QED
    BY <1>1 DEF Neighbours

LEMMA TypedAnswerPeers ==
    ASSUME Typed, NEW n \in Nodes, AnswerPeers(n), sending[n] # None
    PROVE  /\ Typed'
           /\ sending[n] \in Sends /\ sending'[n] \in Sends
           /\ sending'[n].stage = "answered"
           /\ sending'[n].post = sending[n].post
           /\ sending'[n].peers \subseteq Neighbours(n)
           /\ \A x \in Nodes \ {n} : sending'[x] = sending[x]
  <1>1. /\ NextCommand(n, "peers")
        /\ UNCHANGED <<linked, wire, subscribers, met, seen, events, keys, phase,
                       stored, blocked, sent, members, posted, replay, inbox>>
    BY DEF AnswerPeers, network, vaults
  <1>2. PICK peers \in SUBSET Neighbours(n) :
           sending' = [sending EXCEPT ![n] =
                         [@ EXCEPT !.stage = "answered", !.peers = peers]]
    BY DEF AnswerPeers
  <1> DEFINE next == [sending[n] EXCEPT !.stage = "answered", !.peers = peers]
  <1>3. sending[n] \in Sends
    BY SendingOf DEF Typed
  <1>4. peers \in SUBSET Nodes
    BY NoNeighbourOfItself DEF Typed
  <1>5. /\ next \in Sends /\ next.stage = "answered"
        /\ next.post = sending[n].post /\ next.peers = peers
    BY <1>3, <1>4 DEF Sends
  <1>6. sending' = [sending EXCEPT ![n] = next]
    BY <1>2
  <1> HIDE DEF next
  <1>7. /\ sending' \in [Nodes -> {None} \cup Sends]
        /\ sending'[n] = next
        /\ \A x \in Nodes \ {n} : sending'[x] = sending[x]
    BY <1>5, <1>6, SendingNext DEF Typed
  <1>8. commands' \in [Nodes -> Seq(Commands)]
    BY <1>1, CommandsLess DEF Typed
  <1>9. LinksOver(Messages)'
    BY <1>1 DEF Typed, LinksOver
  <1>10. NodesOver(Events, Commands)'
    BY <1>1, <1>8 DEF Typed, NodesOver
  <1>11. ChatsOK'
    BY <1>1, <1>7 DEF Typed, ChatsOK
  <1> QED
    BY <1>3, <1>5, <1>7, <1>9, <1>10, <1>11 DEF Typed

LEMMA TypedSeal ==
    ASSUME Typed, SendsOK, NEW n \in Nodes, Seal(n)
    PROVE  LET i == sending[n].post
               readers == {p \in sending[n].peers : Encrypts(n, p)}
           IN  /\ Typed'
               /\ i \in 1..Len(posted) /\ posted[i] = Post(n, TRUE)
               /\ readers \subseteq Nodes \ {n}
               /\ Len(posted') = Len(posted)
               /\ \A j \in 1..Len(posted) \ {i} : posted'[j] = posted[j]
               /\ posted'[i] = [posted[i] EXCEPT !.readers = readers]
               /\ sending'[n] = None
               /\ \A x \in Nodes \ {n} : /\ sending'[x] = sending[x]
                                         /\ commands'[x] = commands[x]
               /\ \E s \in Seq(RoomCommands) :
                     /\ commands'[n] = commands[n] \o s
                     /\ Range(s) = {SendMessageToRoom(i, p) : p \in readers}
  <1> DEFINE i == sending[n].post
             readers == {p \in sending[n].peers : Encrypts(n, p)}
  <1>1. /\ sending[n] # None
        /\ sending' = [sending EXCEPT ![n] = None]
        /\ \E envelopes \in Envelopes(i, readers) :
              commands' = [commands EXCEPT ![n] = @ \o envelopes]
        /\ posted' = [posted EXCEPT ![i].readers = readers]
        /\ UNCHANGED <<linked, wire, subscribers, met, seen, events, keys, phase,
                       stored, blocked, sent, members, replay, inbox>>
    BY DEF Seal, network, vaults, counters
  <1>2. /\ i \in 1..Len(posted) /\ posted[i] = Post(n, TRUE) /\ i \in Nat
        /\ readers \subseteq Nodes \ {n} /\ readers \in SUBSET Nodes
    <2>1. /\ i \in 1..Len(posted) /\ posted[i] = Post(n, TRUE)
          /\ sending[n].peers \subseteq Nodes \ {n}
      BY <1>1 DEF SendsOK
    <2>2. i \in Nat
      BY <1>1, SendingOf DEF Typed
    <2> QED
      BY <2>1, <2>2
  <1> HIDE DEF i, readers
  <1>3. /\ posted' \in Seq(Posts) /\ Len(posted') = Len(posted)
        /\ \A j \in 1..Len(posted) \ {i} : posted'[j] = posted[j]
        /\ posted'[i] = [posted[i] EXCEPT !.readers = readers]
    BY <1>1, <1>2, PostedSealed DEF Typed
  <1>4. PICK s \in Envelopes(i, readers) :
           commands' = [commands EXCEPT ![n] = @ \o s]
    BY <1>1
  <1>5. /\ s \in Seq(RoomCommands)
        /\ Range(s) = {SendMessageToRoom(i, p) : p \in readers}
    BY <1>2, EnvelopesAre
  <1>6. /\ commands' \in [Nodes -> Seq(Commands)]
        /\ commands'[n] = commands[n] \o s
        /\ \A x \in Nodes \ {n} : commands'[x] = commands[x]
    <2> DEFINE longer == commands[n] \o s
    <2>1. commands[n] \in Seq(Commands) /\ s \in Seq(Commands)
      BY <1>5 DEF Typed, NodesOver, Commands
    <2>2. longer \in Seq(Commands)
      BY <2>1, ConcatHas
    <2>3. commands' = [commands EXCEPT ![n] = longer]
      BY <1>4
    <2> HIDE DEF longer
    <2>4. /\ commands' \in [Nodes -> Seq(Commands)]
          /\ commands'[n] = longer
          /\ \A x \in Nodes \ {n} : commands'[x] = commands[x]
      BY <2>2, <2>3 DEF Typed, NodesOver
    <2> QED
      BY <2>4 DEF longer
  <1>7. /\ sending' \in [Nodes -> {None} \cup Sends]
        /\ sending'[n] = None
        /\ \A x \in Nodes \ {n} : sending'[x] = sending[x]
    BY <1>1, SendingNext DEF Typed
  <1>8. LinksOver(Messages)'
    BY <1>1 DEF Typed, LinksOver
  <1>9. NodesOver(Events, Commands)'
    BY <1>1, <1>6 DEF Typed, NodesOver
  <1>10. ChatsOK'
    BY <1>1, <1>3, <1>7 DEF Typed, ChatsOK
  <1>11. Typed'
    BY <1>8, <1>9, <1>10 DEF Typed
  <1> QED
    BY <1>2, <1>3, <1>5, <1>6, <1>7, <1>11 DEF i, readers

\* A room message on its way out.
LEMMA TypedPublishChat ==
    ASSUME Typed, NEW n \in Nodes, PublishChat(n)
    PROVE  LET send == Head(commands[n])
               m == ChatMessage(n, send.post, send.reader)
           IN  /\ Typed'
               /\ send \in RoomCommands /\ m \in ChatMessages
               /\ \/ UNCHANGED wire /\ (InMesh(n) = {} \/ faults' = faults + 1)
                  \/ \A x, y \in Nodes :
                        wire'[x][y] = IF x = n /\ y \in InMesh(n)
                                      THEN Append(wire[x][y], m) ELSE wire[x][y]
  <1> DEFINE send == Head(commands[n])
             m == ChatMessage(n, send.post, send.reader)
  <1>1. /\ NextCommand(n, "room")
        /\ \/ wire' = Broadcast(wire, n, InMesh(n), m)
           \/ UNCHANGED wire /\ (InMesh(n) = {} \/ faults' = faults + 1)
        /\ UNCHANGED <<linked, subscribers, met, seen, events, keys, phase,
                       stored, blocked, sent, chat>>
    BY DEF PublishChat, vaults
  <1>2. send \in Commands /\ send.type = "room" /\ commands' \in [Nodes -> Seq(Commands)]
    BY <1>1, CommandsLess DEF Typed
  <1>3. send \in RoomCommands /\ m \in ChatMessages /\ m \in Messages
    BY <1>2, ChatTypes
  <1>4. InMesh(n) \in SUBSET subscribers[n]
    BY DEF InMesh
  <1> HIDE DEF m
  <1>5. UNCHANGED wire => LinksOver(Messages)'
    BY <1>1 DEF Typed, LinksOver
  <1>6. ASSUME wire' = Broadcast(wire, n, InMesh(n), m)
        PROVE  /\ LinksOver(Messages)'
               /\ \A x, y \in Nodes :
                     wire'[x][y] = IF x = n /\ y \in InMesh(n)
                                   THEN Append(wire[x][y], m) ELSE wire[x][y]
    BY <1>1, <1>3, <1>4, <1>6, WiresPublish DEF Typed
  <1>7. NodesOver(Events, Commands)'
    BY <1>1, <1>2 DEF Typed, NodesOver
  <1>8. ChatsOK'
    BY <1>1 DEF Typed, ChatsOK, chat
  <1>9. Typed'
    BY <1>1, <1>5, <1>6, <1>7, <1>8 DEF Typed
  <1> QED
    BY <1>1, <1>3, <1>5, <1>6, <1>9 DEF m

\* A room message that comes in.
LEMMA TypedReceiveChat ==
    ASSUME Typed, NEW a \in Nodes, NEW b \in Nodes, ReceiveChat(a, b)
    PROVE  LET m == Head(wire[a][b])
           IN  /\ Typed'
               /\ wire[a][b] \in Seq(Messages) /\ wire[a][b] # << >>
               /\ m \in ChatMessages /\ m.type = "chat"
               /\ \A x, y \in Nodes :
                     LET s == IF x = a /\ y = b THEN Tail(wire[a][b])
                                                ELSE wire[x][y]
                     IN  \/ wire'[x][y] = s
                         \/ /\ x = b /\ y \in subscribers[b]
                            /\ wire'[x][y] = Append(s, m)
               /\ \/ /\ m \in seen[b] \/ m.source = b
                     /\ UNCHANGED <<seen, events>>
                  \/ /\ m \notin seen[b] /\ m.source # b
                     /\ seen'[b] = seen[b] \cup {m}
                     /\ \A x \in Nodes \ {b} : seen'[x] = seen[x]
                     /\ events' = [events EXCEPT ![b] =
                                     Append(@, MessageReceived(m))]
  <1> DEFINE m == Head(wire[a][b])
             taken == [wire EXCEPT ![a][b] = Tail(@)]
  <1>1. /\ wire[a][b] # << >> /\ m.type = "chat"
        /\ UNCHANGED <<linked, subscribers, met, commands, keys, phase, stored,
                       blocked, sent, chat>>
    BY DEF ReceiveChat, vaults
  <1>2. \/ /\ m \in seen[b] \/ m.source = b
           /\ wire' = taken
           /\ UNCHANGED <<seen, events>>
        \/ /\ m \notin seen[b] /\ m.source # b
           /\ seen' = [seen EXCEPT ![b] = @ \cup {m}]
           /\ events' = [events EXCEPT ![b] = Append(@, MessageReceived(m))]
           /\ \E targets \in SUBSET (InMesh(b) \ {a, m.source}) :
                 wire' = Broadcast(taken, b, targets, m)
    BY DEF ReceiveChat
  <1>3. /\ m \in Messages /\ m \in ChatMessages
        /\ wire[a][b] \in Seq(Messages) /\ MessageReceived(m) \in Events
    <2>1. m \in Messages /\ wire[a][b] \in Seq(Messages)
      BY <1>1, WiresTake DEF Typed, LinksOver, Wires
    <2> QED
      BY <1>1, <2>1, ChatTypes
  <1>4. \/ wire' = taken
        \/ \E targets \in SUBSET subscribers[b] :
              wire' = Broadcast(taken, b, targets, m)
    BY <1>2 DEF InMesh
  <1>5. /\ LinksOver(Messages)'
        /\ \A x, y \in Nodes :
              LET s == IF x = a /\ y = b THEN Tail(wire[a][b]) ELSE wire[x][y]
              IN  \/ wire'[x][y] = s
                  \/ /\ x = b /\ y \in subscribers[b]
                     /\ wire'[x][y] = Append(s, m)
    BY <1>1, <1>4, WiresPassedOn, ZenonT(40) DEF Typed
  <1> HIDE DEF m, taken
  <1>6. NodesOver(Events, Commands)'
    <2>1. events' \in [Nodes -> Seq(Events)]
      <3>1. CASE events' = events
        BY <3>1 DEF Typed, NodesOver
      <3>2. CASE events' = [events EXCEPT ![b] = Append(@, MessageReceived(m))]
        BY <1>3, <3>2, EventsMore DEF Typed
      <3> QED
        BY <1>2, <3>1, <3>2
    <2> QED
      BY <1>1, <2>1 DEF Typed, NodesOver
  <1>7. /\ seen' \in [Nodes -> SUBSET Messages]
        /\ seen' = [seen EXCEPT ![b] = @ \cup {m}] =>
              /\ seen'[b] = seen[b] \cup {m}
              /\ \A x \in Nodes \ {b} : seen'[x] = seen[x]
    <2>1. seen \in [Nodes -> SUBSET Messages]
      BY DEF Typed, ChatsOK
    <2>2. seen' = [seen EXCEPT ![b] = seen[b] \cup {m}] \/ seen' = seen
      BY <1>2
    <2> QED
      BY <1>3, <2>1, <2>2
  <1>8. ChatsOK'
    BY <1>1, <1>7 DEF Typed, ChatsOK, chat
  <1>9. Typed'
    BY <1>5, <1>6, <1>8 DEF Typed
  <1> QED
    BY <1>1, <1>2, <1>3, <1>5, <1>7, <1>9 DEF m

LEMMA TypedRedeliver ==
    ASSUME Typed, NEW n \in Nodes, Redeliver(n)
    PROVE  /\ Typed'
           /\ UNCHANGED <<network, commands, keys, vaults, blocked, sent, counters,
                          members, posted, sending, replay, inbox>>
           /\ \E m \in seen[n] \cap ChatMessages :
                 events' = [events EXCEPT ![n] = Append(@, MessageReceived(m))]
  <1>1. PICK m \in seen[n] :
           /\ m.type = "chat"
           /\ events' = [events EXCEPT ![n] = Append(@, MessageReceived(m))]
    BY DEF Redeliver
  <1>2. m \in ChatMessages /\ MessageReceived(m) \in Events
    BY <1>1, ChatTypes DEF Typed, ChatsOK
  <1>3. UNCHANGED <<network, commands, keys, vaults, blocked, sent, counters,
                    members, posted, sending, replay, inbox>>
    BY DEF Redeliver
  <1>4. events' \in [Nodes -> Seq(Events)]
    BY <1>1, <1>2, EventsMore DEF Typed
  <1>5. LinksOver(Messages)'
    BY <1>3 DEF Typed, LinksOver, network, counters
  <1>6. NodesOver(Events, Commands)'
    BY <1>3, <1>4 DEF Typed, NodesOver, vaults
  <1>7. ChatsOK'
    BY <1>3 DEF Typed, ChatsOK, network
  <1> QED
    BY <1>1, <1>2, <1>3, <1>5, <1>6, <1>7 DEF Typed

\* A message taken by the event task.
LEMMA ChatTaken ==
    ASSUME Typed, NEW n \in Nodes, NextEvent(n, "chat")
    PROVE  LET m == Head(events[n]).message
           IN  /\ m \in ChatMessages
               /\ Head(events[n]) = MessageReceived(m)
               /\ MessageReceived(m) \in Told(n)
  <1>1. /\ Head(events[n]) \in Events /\ Head(events[n]).type = "chat"
        /\ Told(n) = Told(n)' \cup {Head(events[n])}
    BY EventsLess DEF Typed
  <1> QED
    BY <1>1, ChatTypes

LEMMA TypedChatTask ==
    ASSUME Typed, NEW n \in Nodes, ChatTask(n)
    PROVE  LET m == Head(events[n]).message
           IN  /\ Typed'
               /\ NextEvent(n, "chat")
               /\ UNCHANGED <<network, commands, keys, vaults, blocked, sent,
                              counters, members, posted, sending, redelivered>>
               /\ \/ /\ m.reader = Everyone
                     /\ Show(n, m, "plain")
                     /\ UNCHANGED replay
                  \/ /\ m.reader # Everyone
                     /\ m \in replay[n] \/ m.reader # n
                     /\ replay' = [replay EXCEPT ![n] = @ \cup {m}]
                     /\ UNCHANGED inbox
                  \/ /\ m.reader = n /\ m \notin replay[n]
                     /\ replay' = [replay EXCEPT ![n] = @ \cup {m}]
                     /\ Show(n, m, IF HasIdentity(n) /\ Decrypts(n, m)
                                   THEN "read" ELSE "placeholder")
  <1> DEFINE m == Head(events[n]).message
             how == IF HasIdentity(n) /\ Decrypts(n, m)
                    THEN "read" ELSE "placeholder"
  <1>1. /\ NextEvent(n, "chat")
        /\ UNCHANGED <<network, commands, keys, vaults, blocked, sent,
                       counters, members, posted, sending, redelivered>>
    BY DEF ChatTask, HandlePlain, HandleDropped, HandleEnvelope
  <1>2. \/ /\ m.reader = Everyone
           /\ Show(n, m, "plain")
           /\ UNCHANGED replay
        \/ /\ m.reader # Everyone
           /\ m \in replay[n] \/ m.reader # n
           /\ replay' = [replay EXCEPT ![n] = @ \cup {m}]
           /\ UNCHANGED inbox
        \/ /\ m.reader = n /\ m \notin replay[n]
           /\ replay' = [replay EXCEPT ![n] = @ \cup {m}]
           /\ Show(n, m, how)
    BY DEF ChatTask, HandlePlain, HandleDropped, HandleEnvelope
  <1>3. m \in ChatMessages
    BY <1>1, ChatTaken
  <1>4. how \in {"read", "placeholder"}
    OBVIOUS
  <1> HIDE DEF m, how
  <1>5. replay' \in [Nodes -> SUBSET ChatMessages]
    <2>1. CASE UNCHANGED replay
      BY <2>1 DEF Typed, ChatsOK
    <2>2. CASE replay' = [replay EXCEPT ![n] = @ \cup {m}]
      BY <1>3, <2>2, ReplayMore DEF Typed
    <2> QED
      BY <1>2, <2>1, <2>2
  <1>6. inbox' \in [Nodes -> Seq(Entries)]
    <2>1. CASE UNCHANGED inbox
      BY <2>1 DEF Typed, ChatsOK
    <2>2. ASSUME NEW h \in {"plain", "read", "placeholder"}, Show(n, m, h)
          PROVE  inbox' \in [Nodes -> Seq(Entries)]
      BY <1>3, <2>2, ShowMore DEF Typed
    <2> QED
      BY <1>2, <1>4, <2>1, <2>2
  <1>7. LinksOver(Messages)'
    BY <1>1 DEF Typed, LinksOver, network, counters
  <1>8. NodesOver(Events, Commands)'
    <2>1. events' \in [Nodes -> Seq(Events)]
      BY <1>1, EventsLess DEF Typed
    <2> QED
      BY <1>1, <2>1 DEF Typed, NodesOver, vaults
  <1>9. ChatsOK'
    BY <1>1, <1>5, <1>6 DEF Typed, ChatsOK, network
  <1>10. Typed'
    BY <1>7, <1>8, <1>9 DEF Typed
  <1> QED
    BY <1>1, <1>2, <1>10 DEF m, how

-----------------------------------------------------------------------------
(* The key exchange moves chat messages at most to lose them. *)

LEMMA ExchangeWires ==
    ASSUME LinksOver(Messages), NodesOver(Events, Commands), Next,
           NEW x \in Nodes, NEW y \in Nodes, NEW m \in Under(x, y)',
           m.type = "chat"
    PROVE  m \in Under(x, y)
  <1> DEFINE s == wire[x][y]
             t == wire'[x][y]
  <1>1. s \in Seq(Messages) /\ Range(s) = Under(x, y) /\ Range(t) = Under(x, y)'
    BY DEF LinksOver, Wires, Under
  <1> HIDE DEF s, t
  <1>2. ASSUME NEW u \in Seq(Messages), NEW e, e.type # "chat",
               Range(u) \subseteq Range(s),
               e \in Messages,
               t = u \/ t = Append(u, e)
        PROVE  m \in Under(x, y)
    <2>1. Range(Append(u, e)) = Range(u) \cup {e}
      BY <1>2, AppendHas
    <2>2. Range(t) \subseteq Range(s) \cup {e}
      BY <1>2, <2>1
    <2> QED
      BY <1>1, <1>2, <2>2
  <1>3. s # << >> => Tail(s) \in Seq(Messages) /\ Range(Tail(s)) \subseteq Range(s)
    BY <1>1, TailHas
  <1>4. Subscription \in Messages /\ Subscription.type # "chat"
    BY MessageTypes, ChatTypes DEF Carries, Subscription
  <1>5. CASE \E a, b \in Nodes : Connect(a, b) \/ Disconnect(a, b)
    <2>1. t \in {s, << >>, <<Subscription>>}
      BY <1>5, ChatTypes, WiresConnect, WiresDisconnect DEF s, t
    <2>2. Range(<< >>) = {} /\ Range(<<Subscription>>) = {Subscription}
      BY DEF Range
    <2> QED
      BY <1>1, <1>4, <2>1, <2>2
  <1>6. ASSUME NEW n \in Nodes, PublishKey(n)
        PROVE  m \in Under(x, y)
    <2> DEFINE e == KeyMessage(n, sent[n])
    <2>1. t = s \/ t = Append(s, e)
      BY <1>6, ChatTypes, WiresPublishKey DEF s, t
    <2>2. e \in Messages /\ e.type # "chat"
      BY MessageTypes, ChatTypes DEF NodesOver, KeyMessage, Carries
    <2> QED
      BY <1>1, <1>2, <2>1, <2>2
  <1>7. ASSUME NEW n \in Nodes, NEW a \in Nodes, ReceiveSubscription(a, n)
        PROVE  m \in Under(x, y)
    <2>1. wire[a][n] # << >>
      BY <1>7 DEF ReceiveSubscription, Take
    <2>2. t = IF x = a /\ y = n THEN Tail(wire[a][n]) ELSE s
      BY <1>7, WiresReceiveSubscription DEF s, t
    <2>3. t = s \/ (s # << >> /\ t = Tail(s))
      BY <2>1, <2>2 DEF s
    <2> QED
      BY <1>1, <1>3, <2>3
  <1>8. ASSUME NEW n \in Nodes, NEW a \in Nodes, ReceiveKey(a, n)
        PROVE  m \in Under(x, y)
    <2> DEFINE e == Head(wire[a][n])
               u == IF x = a /\ y = n THEN Tail(wire[a][n]) ELSE s
    <2>1. wire[a][n] # << >> /\ e.type = "key"
      BY <1>8 DEF ReceiveKey
    <2>2. e \in Messages
      BY <2>1, WiresTake
    <2>3. t = u \/ t = Append(u, e)
      BY <1>8, WiresReceiveKey DEF s, t
    <2>4. u = s \/ (s # << >> /\ u = Tail(s))
      BY <2>1 DEF s
    <2> HIDE DEF e, u
    <2>5. e.type # "chat"
      BY <2>1
    <2>6. u \in Seq(Messages) /\ Range(u) \subseteq Range(s)
      BY <1>1, <1>3, <2>4
    <2> QED
      BY <1>2, <2>2, <2>3, <2>5, <2>6
  <1>9. CASE UNCHANGED wire
    BY <1>1, <1>9 DEF s, t
  <1>10. ASSUME NEW n \in Nodes, PublishFails(n) \/ EventTask(n) \/ Vault(n)
         PROVE  UNCHANGED wire
    BY <1>10 DEF PublishFails, EventTask, HandleSubscribed, HandleKey, Vault,
       SealVault, ClearCrypto, LoadVault, StoreKey, Advance, network
  <1> QED
    BY <1>5, <1>6, <1>7, <1>8, <1>9, <1>10 DEF Next, Loop

LEMMA ExchangeEvents ==
    ASSUME LinksOver(Messages), NodesOver(Events, Commands), Next,
           NEW n \in Nodes, NEW e \in Told(n)', e.type = "chat"
    PROVE  e \in Told(n)
  <1>1. ASSUME NEW x \in Nodes, NEW new \in Events, new.type # "chat",
               events' = [events EXCEPT ![x] = Append(@, new)]
        PROVE  e \in Told(n)
    <2>1. CASE n = x
      <3>1. Told(x)' = Told(x) \cup {new}
        BY <1>1, EventsMore
      <3> QED
        BY <1>1, <2>1, <3>1
    <2>2. CASE n # x
      BY <1>1, <2>2, EventsMore DEF Told
    <2> QED
      BY <2>1, <2>2
  <1>2. ASSUME NEW x \in Nodes, NEW type, NextEvent(x, type)
        PROVE  e \in Told(n)
    <2>1. CASE n = x
      BY <1>2, <2>1, EventsLess
    <2>2. CASE n # x
      BY <1>2, <2>2, EventsLess DEF Told
    <2> QED
      BY <2>1, <2>2
  <1>3. UNCHANGED events => e \in Told(n)
    BY DEF Told
  <1>4. ASSUME NEW x \in Nodes, NEW a \in Nodes, ReceiveSubscription(a, x)
        PROVE  e \in Told(n)
    <2>1. events' = [events EXCEPT ![x] = Append(@, PeerSubscribed(a))]
      BY <1>4 DEF ReceiveSubscription
    <2>2. PeerSubscribed(a) \in Events /\ PeerSubscribed(a).type # "chat"
      BY MessageTypes, ChatTypes DEF Tells, PeerSubscribed
    <2> QED
      BY <1>1, <2>1, <2>2
  <1>5. ASSUME NEW x \in Nodes, NEW a \in Nodes, ReceiveKey(a, x)
        PROVE  e \in Told(n)
    <2> DEFINE p == Head(wire[a][x]).source
    <2>1. /\ Head(wire[a][x]).type = "key" /\ wire[a][x] # << >>
          /\ \/ UNCHANGED events
             \/ events' = [events EXCEPT ![x] = Append(@, KeyExchangeReceived(p))]
      BY <1>5 DEF ReceiveKey
    <2>2. p \in Nodes
      BY <2>1, WiresTake, ChatTypes, MessageTypes DEF Carries
    <2> HIDE DEF p
    <2>3. KeyExchangeReceived(p) \in Events /\ KeyExchangeReceived(p).type # "chat"
      BY <2>2, MessageTypes, ChatTypes DEF Tells, KeyExchangeReceived
    <2> QED
      BY <1>1, <1>3, <2>1, <2>3
  <1>6. ASSUME NEW x \in Nodes, EventTask(x)
        PROVE  e \in Told(n)
    BY <1>2, <1>6 DEF EventTask, HandleSubscribed, HandleKey
  <1>7. ASSUME NEW x \in Nodes, PublishKey(x) \/ PublishFails(x) \/ Vault(x)
        PROVE  UNCHANGED events
    BY <1>7 DEF PublishKey, PublishFails, Vault, SealVault, ClearCrypto, LoadVault,
       StoreKey, Advance
  <1>8. ASSUME NEW a \in Nodes, NEW b \in Nodes, Connect(a, b) \/ Disconnect(a, b)
        PROVE  UNCHANGED events
    BY <1>8 DEF Connect, Disconnect
  <1> QED
    BY <1>3, <1>4, <1>5, <1>6, <1>7, <1>8 DEF Next, Loop

LEMMA ExchangeSeen ==
    ASSUME LinksOver(Messages), ChatsOK, Next
    PROVE  /\ seen' \in [Nodes -> SUBSET Messages]
           /\ \A n \in Nodes : \A m \in seen'[n] : m.type = "chat" => m \in seen[n]
  <1>1. seen \in [Nodes -> SUBSET Messages]
    BY DEF ChatsOK
  <1>2. ASSUME NEW x \in Nodes, NEW a \in Nodes, ReceiveKey(a, x)
        PROVE  /\ seen' \in [Nodes -> SUBSET Messages]
               /\ \A n \in Nodes : \A m \in seen'[n] :
                     m.type = "chat" => m \in seen[n]
    <2> DEFINE k == Head(wire[a][x])
    <2>1. /\ k.type = "key" /\ wire[a][x] # << >>
          /\ UNCHANGED seen \/ seen' = [seen EXCEPT ![x] = @ \cup {k}]
      BY <1>2 DEF ReceiveKey
    <2>2. k \in Messages
      BY <2>1, WiresTake
    <2> HIDE DEF k
    <2> QED
      BY <1>1, <2>1, <2>2
  <1>3. ASSUME NEW x \in Nodes,
               \/ PublishKey(x) \/ PublishFails(x) \/ Vault(x) \/ EventTask(x)
               \/ \E a \in Nodes : ReceiveSubscription(a, x)
        PROVE  UNCHANGED seen
    BY <1>3 DEF PublishKey, PublishFails, Vault, SealVault, ClearCrypto, LoadVault,
       StoreKey, Advance, EventTask, HandleSubscribed, HandleKey, network,
       ReceiveSubscription
  <1>4. ASSUME NEW a \in Nodes, NEW b \in Nodes, Connect(a, b) \/ Disconnect(a, b)
        PROVE  UNCHANGED seen
    BY <1>4 DEF Connect, Disconnect
  <1> QED
    BY <1>1, <1>2, <1>3, <1>4 DEF Next, Loop

\* Commands come and go without a question for the peers among them.
LEMMA AsksMore ==
    ASSUME NodesOver(Events, Commands), NEW n \in Nodes, NEW c \in Commands,
           commands' = [commands EXCEPT ![n] = Append(@, c)]
    PROVE  /\ Asks(n)' = IF c = PeersCommand THEN Asks(n) + 1 ELSE Asks(n)
           /\ \A x \in Nodes \ {n} : Asks(x)' = Asks(x)
  <1>1. /\ commands[n] \in Seq(Commands)
        /\ commands'[n] = Append(commands[n], c)
        /\ \A x \in Nodes \ {n} : commands'[x] = commands[x]
    BY CommandsMore DEF NodesOver
  <1>2. Count(commands'[n], {PeersCommand})
           = IF c \in {PeersCommand} THEN Count(commands[n], {PeersCommand}) + 1
                                     ELSE Count(commands[n], {PeersCommand})
    BY <1>1, CountAppend
  <1> QED
    BY <1>1, <1>2 DEF Asks

LEMMA AsksLess ==
    ASSUME NodesOver(Events, Commands), NEW n \in Nodes, NEW type,
           NextCommand(n, type)
    PROVE  /\ Asks(n) = IF type = "peers" THEN Asks(n)' + 1 ELSE Asks(n)'
           /\ Asks(n)' \in Nat
           /\ \A x \in Nodes \ {n} : Asks(x)' = Asks(x)
  <1> DEFINE rest == Tail(commands[n])
  <1>1. /\ commands[n] \in Seq(Commands) /\ commands[n] # << >>
        /\ commands'[n] = rest
        /\ \A x \in Nodes \ {n} : commands'[x] = commands[x]
        /\ Head(commands[n]) \in Commands /\ Head(commands[n]).type = type
    BY CommandsLess
  <1>2. Head(commands[n]) \in {PeersCommand} <=> type = "peers"
    BY <1>1, ChatTypes
  <1>3. Count(commands[n], {PeersCommand})
           = IF type = "peers" THEN Count(rest, {PeersCommand}) + 1
                               ELSE Count(rest, {PeersCommand})
    BY <1>1, <1>2, CountTail
  <1>4. Count(rest, {PeersCommand}) \in Nat
    BY <1>1, TailHas, CountNat
  <1> QED
    BY <1>1, <1>3, <1>4 DEF Asks

LEMMA ExchangeCommands ==
    ASSUME LinksOver(Messages), NodesOver(Events, Commands), Next,
           NEW n \in Nodes
    PROVE  /\ Asks(n)' = Asks(n)
           /\ \A c \in Ordered(n)' : c.type = "room" => c \in Ordered(n)
  <1>1. ASSUME NEW x \in Nodes, SendKeyExchange(x)
        PROVE  /\ Asks(n)' = Asks(n)
               /\ \A c \in Ordered(n)' : c.type = "room" => c \in Ordered(n)
    <2>1. /\ commands' = [commands EXCEPT ![x] = Append(@, KeyCommand)]
          /\ KeyCommand \in Commands /\ KeyCommand # PeersCommand
          /\ KeyCommand.type # "room"
      BY <1>1, ChatTypes DEF SendKeyExchange, KeyCommand, PeersCommand
    <2>2. CASE n = x
      <3>1. Asks(x)' = Asks(x) /\ Ordered(x)' = Ordered(x) \cup {KeyCommand}
        BY <2>1, AsksMore, CommandsMore
      <3> QED
        BY <2>1, <2>2, <3>1
    <2>3. CASE n # x
      <3>1. commands'[n] = commands[n]
        BY <2>1, <2>3, CommandsMore
      <3> QED
        BY <3>1 DEF Asks, Ordered
    <2> QED
      BY <2>2, <2>3
  <1>2. ASSUME NEW x \in Nodes, NextCommand(x, "key")
        PROVE  /\ Asks(n)' = Asks(n)
               /\ \A c \in Ordered(n)' : c.type = "room" => c \in Ordered(n)
    <2>1. CASE n = x
      <3>1. Asks(x) = Asks(x)'
        BY <1>2, AsksLess
      <3>2. Ordered(x) = Ordered(x)' \cup {Head(commands[x])}
        BY <1>2, CommandsLess
      <3> QED
        BY <2>1, <3>1, <3>2
    <2>2. CASE n # x
      <3>1. commands'[n] = commands[n]
        BY <1>2, <2>2, CommandsLess
      <3> QED
        BY <3>1 DEF Asks, Ordered
    <2> QED
      BY <2>1, <2>2
  <1>3. UNCHANGED commands => /\ Asks(n)' = Asks(n)
                              /\ Ordered(n)' = Ordered(n)
    BY DEF Asks, Ordered
  <1>4. ASSUME NEW x \in Nodes, EventTask(x)
        PROVE  SendKeyExchange(x) \/ UNCHANGED commands
    BY <1>4 DEF EventTask, HandleSubscribed, HandleKey
  <1>5. ASSUME NEW x \in Nodes, PublishKey(x) \/ PublishFails(x)
        PROVE  NextCommand(x, "key")
    BY <1>5 DEF PublishKey, PublishFails
  <1>6. ASSUME NEW x \in Nodes,
               \/ Vault(x)
               \/ \E a \in Nodes : ReceiveSubscription(a, x) \/ ReceiveKey(a, x)
        PROVE  UNCHANGED commands
    BY <1>6 DEF Vault, SealVault, ClearCrypto, LoadVault, StoreKey, Advance,
       ReceiveSubscription, ReceiveKey
  <1>7. ASSUME NEW a \in Nodes, NEW b \in Nodes, Connect(a, b) \/ Disconnect(a, b)
        PROVE  UNCHANGED commands
    BY <1>7 DEF Connect, Disconnect
  <1> QED
    BY <1>1, <1>2, <1>3, <1>4, <1>5, <1>6, <1>7 DEF Next, Loop

\* The two together.
LEMMA ExchangeDoes ==
    ASSUME Typed, Exchange
    PROVE  /\ Typed' /\ Next /\ UNCHANGED chat
           /\ \A x, y \in Nodes : \A m \in Under(x, y)' :
                 m.type = "chat" => m \in Under(x, y)
           /\ \A n \in Nodes :
                 /\ \A e \in Told(n)' : e.type = "chat" => e \in Told(n)
                 /\ \A m \in seen'[n] : m.type = "chat" => m \in seen[n]
                 /\ \A c \in Ordered(n)' : c.type = "room" => c \in Ordered(n)
                 /\ Asks(n)' = Asks(n)
  <1>1. Next /\ UNCHANGED chat
    BY DEF Exchange, Next, EventTask, Vault
  <1>2. LinksOver(Messages) /\ NodesOver(Events, Commands) /\ ChatsOK
    BY DEF Typed
  <1>3. LinksOver(Messages)' /\ NodesOver(Events, Commands)'
    BY <1>1, <1>2, ChatTypes, NextKeepsTypes
  <1>4. /\ seen' \in [Nodes -> SUBSET Messages]
        /\ \A n \in Nodes : \A m \in seen'[n] : m.type = "chat" => m \in seen[n]
    BY <1>1, <1>2, ExchangeSeen
  <1>5. ChatsOK'
    BY <1>1, <1>2, <1>4 DEF ChatsOK, chat
  <1>6. \A x, y \in Nodes : \A m \in Under(x, y)' :
           m.type = "chat" => m \in Under(x, y)
    BY <1>1, <1>2, ExchangeWires
  <1>7. \A n \in Nodes : \A e \in Told(n)' : e.type = "chat" => e \in Told(n)
    BY <1>1, <1>2, ExchangeEvents
  <1>8. ASSUME NEW n \in Nodes
        PROVE  /\ \A c \in Ordered(n)' : c.type = "room" => c \in Ordered(n)
               /\ Asks(n)' = Asks(n)
    BY <1>1, <1>2, ExchangeCommands
  <1> QED
    BY <1>1, <1>3, <1>4, <1>5, <1>6, <1>7, <1>8 DEF Typed

-----------------------------------------------------------------------------
(* Messages stand for posts. *)

\* Posts stay, and their readers; in no step are readers taken away.
PostsStay ==
    /\ Len(posted) \in Nat /\ Len(posted') \in Nat /\ Len(posted) <= Len(posted')
    /\ \A i \in 1..Len(posted) :
          /\ posted'[i].from = posted[i].from
          /\ posted'[i].secret = posted[i].secret
          /\ posted[i].readers \subseteq posted'[i].readers

LEMMA PostsIn ==
    ASSUME PostsStay, NEW i \in 1..Len(posted)
    PROVE  i \in 1..Len(posted')
  <1>1. \A j, k \in Nat : j <= k => 1..j \subseteq 1..k
    OBVIOUS
  <1>2. 1..Len(posted) \subseteq 1..Len(posted')
    BY <1>1 DEF PostsStay
  <1> QED
    BY <1>2

LEMMA GenuineStays ==
    ASSUME PostsStay, NEW m, Genuine(m)
    PROVE  Genuine(m)'
  <1>1. m.post \in 1..Len(posted)
    BY DEF Genuine
  <1>2. m.post \in 1..Len(posted')
    BY <1>1 DEF PostsStay
  <1>3. /\ posted'[m.post].from = posted[m.post].from
        /\ posted'[m.post].secret = posted[m.post].secret
        /\ posted[m.post].readers \subseteq posted'[m.post].readers
    BY <1>1 DEF PostsStay
  <1> QED
    BY <1>2, <1>3 DEF Genuine

LEMMA PostsUnchanged ==
    ASSUME ChatsOK, UNCHANGED posted
    PROVE  PostsStay
  <1>1. Len(posted) \in Nat
    BY LenProperties DEF ChatsOK
  <1> QED
    BY <1>1 DEF PostsStay

LEMMA PostsMore ==
    ASSUME ChatsOK, NEW post \in Posts, posted' = Append(posted, post)
    PROVE  PostsStay
  <1>1. /\ Len(posted) \in Nat /\ Len(posted') \in Nat
        /\ Len(posted') = Len(posted) + 1
        /\ \A i \in 1..Len(posted) : posted'[i] = posted[i]
    BY PostedMore
  <1> QED
    BY <1>1 DEF PostsStay

LEMMA PostsSeal ==
    ASSUME Typed, SendsOK, NEW n \in Nodes, Seal(n)
    PROVE  PostsStay
  <1> DEFINE i == sending[n].post
             readers == {p \in sending[n].peers : Encrypts(n, p)}
  <1>1. /\ i \in 1..Len(posted) /\ posted[i] = Post(n, TRUE)
        /\ Len(posted') = Len(posted)
        /\ \A j \in 1..Len(posted) \ {i} : posted'[j] = posted[j]
        /\ posted'[i] = [posted[i] EXCEPT !.readers = readers]
    BY TypedSeal
  <1>2. Len(posted) \in Nat
    BY LenProperties DEF Typed, ChatsOK
  <1> HIDE DEF i, readers
  <1>3. /\ posted'[i].from = posted[i].from /\ posted'[i].secret = posted[i].secret
        /\ posted[i].readers = {}
    BY <1>1 DEF Post
  <1>4. ASSUME NEW j \in 1..Len(posted)
        PROVE  /\ posted'[j].from = posted[j].from
               /\ posted'[j].secret = posted[j].secret
               /\ posted[j].readers \subseteq posted'[j].readers
    <2>1. CASE j = i
      BY <1>3, <2>1
    <2>2. CASE j # i
      <3>1. posted'[j] = posted[j]
        BY <1>1, <2>2
      <3> QED
        BY <3>1
    <2> QED
      BY <2>1, <2>2
  <1>5. Len(posted') \in Nat /\ Len(posted) <= Len(posted')
    BY <1>1, <1>2
  <1> QED
    BY <1>2, <1>4, <1>5 DEF PostsStay

\* What is new is genuine.
LEMMA GenuineWires ==
    ASSUME WiresGenuine, PostsStay,
           \A x, y \in Nodes : \A m \in Under(x, y)' :
              m.type = "chat" => m \in Under(x, y) \/ Genuine(m)
    PROVE  WiresGenuine'
  <1> SUFFICES ASSUME NEW x \in Nodes, NEW y \in Nodes, NEW m \in Under(x, y)',
                      m.type = "chat"
               PROVE  Genuine(m)'
    BY DEF WiresGenuine
  <1>1. Genuine(m)
    BY DEF WiresGenuine
  <1> QED
    BY <1>1, GenuineStays

LEMMA GenuineSeen ==
    ASSUME SeenGenuine, PostsStay,
           \A n \in Nodes : \A m \in seen'[n] :
              m.type = "chat" => m \in seen[n] \/ (Genuine(m) /\ m.source # n)
    PROVE  SeenGenuine'
  <1> SUFFICES ASSUME NEW n \in Nodes, NEW m \in seen'[n], m.type = "chat"
               PROVE  Genuine(m)' /\ m.source # n
    BY DEF SeenGenuine
  <1>1. Genuine(m) /\ m.source # n
    BY DEF SeenGenuine
  <1> QED
    BY <1>1, GenuineStays

LEMMA GenuineEvents ==
    ASSUME EventsGenuine, PostsStay,
           \A n \in Nodes : \A e \in Told(n)' :
              e.type = "chat" => \/ e \in Told(n)
                                 \/ Genuine(e.message) /\ e.message.source # n
    PROVE  EventsGenuine'
  <1> SUFFICES ASSUME NEW n \in Nodes, NEW e \in Told(n)', e.type = "chat"
               PROVE  Genuine(e.message)' /\ e.message.source # n
    BY DEF EventsGenuine
  <1> DEFINE m == e.message
  <1>1. Genuine(m) /\ m.source # n
    BY DEF EventsGenuine
  <1> HIDE DEF m
  <1>2. Genuine(m)'
    BY <1>1, GenuineStays
  <1> QED
    BY <1>1, <1>2 DEF m

LEMMA GenuineCommands ==
    ASSUME CommandsGenuine, PostsStay,
           \A n \in Nodes : \A c \in Ordered(n)' :
              c.type = "room" => \/ c \in Ordered(n)
                                 \/ Genuine(ChatMessage(n, c.post, c.reader))'
    PROVE  CommandsGenuine'
  <1> SUFFICES ASSUME NEW n \in Nodes, NEW c \in Ordered(n)', c.type = "room"
               PROVE  Genuine(ChatMessage(n, c.post, c.reader))'
    BY DEF CommandsGenuine
  <1>1. CASE c \in Ordered(n)
    <2>1. Genuine(ChatMessage(n, c.post, c.reader))
      BY <1>1 DEF CommandsGenuine
    <2> QED
      BY <2>1, GenuineStays
  <1>2. CASE c \notin Ordered(n)
    BY <1>2
  <1> QED
    BY <1>1, <1>2

\* What was shown stays shown.
LEMMA ReplaysStay ==
    ASSUME ReplaysOK, PostsStay, UNCHANGED <<replay, inbox>>
    PROVE  ReplaysOK'
  <1> SUFFICES ASSUME NEW n \in Nodes
               PROVE  /\ \A m \in replay[n] : m.reader # Everyone
                      /\ \A i \in DOMAIN inbox[n] :
                            LET entry == inbox[n][i]
                            IN  /\ entry.post \in 1..Len(posted')
                                /\ posted'[entry.post].secret =>
                                      ChatMessage(posted'[entry.post].from,
                                                  entry.post, n) \in replay[n]
    BY DEF ReplaysOK
  <1>1. \A m \in replay[n] : m.reader # Everyone
    BY DEF ReplaysOK
  <1>2. ASSUME NEW i \in DOMAIN inbox[n], NEW j, j = inbox[n][i].post
        PROVE  /\ j \in 1..Len(posted')
               /\ posted'[j].secret =>
                     ChatMessage(posted'[j].from, j, n) \in replay[n]
    <2>1. /\ j \in 1..Len(posted)
          /\ posted[j].secret => ChatMessage(posted[j].from, j, n) \in replay[n]
      BY <1>2 DEF ReplaysOK
    <2>2. /\ posted'[j].from = posted[j].from
          /\ posted'[j].secret = posted[j].secret
          /\ j \in 1..Len(posted')
      BY <2>1 DEF PostsStay
    <2> QED
      BY <2>1, <2>2
  <1> QED
    BY <1>1, <1>2

\* Sends of other nodes do not change.
LEMMA SendsStay ==
    ASSUME Typed, SendsOK, PostsStay, NEW n \in Nodes,
           \A x \in Nodes \ {n} : sending'[x] = sending[x],
           \A j \in 1..Len(posted) : posted[j].from # n => posted'[j] = posted[j],
           sending'[n] # None =>
              /\ sending'[n].post \in 1..Len(posted')
              /\ posted'[sending'[n].post] = Post(n, TRUE)
              /\ sending'[n].peers \subseteq Nodes \ {n}
    PROVE  SendsOK'
  <1> SUFFICES ASSUME NEW x \in Nodes, sending'[x] # None
               PROVE  /\ sending'[x].post \in 1..Len(posted')
                      /\ posted'[sending'[x].post] = Post(x, TRUE)
                      /\ sending'[x].peers \subseteq Nodes \ {x}
    BY DEF SendsOK
  <1>1. CASE x = n
    BY <1>1
  <1>2. CASE x # n
    <2> DEFINE i == sending[x].post
    <2>1. /\ sending'[x] = sending[x]
          /\ i \in 1..Len(posted)
          /\ posted[i] = Post(x, TRUE)
          /\ sending[x].peers \subseteq Nodes \ {x}
      BY <1>2 DEF SendsOK
    <2> HIDE DEF i
    <2>2. posted[i].from # n
      <3>1. Post(x, TRUE).from = x
        BY PostIs
      <3> QED
        BY <1>2, <2>1, <3>1
    <2>3. posted'[i] = posted[i]
      BY <2>1, <2>2
    <2>4. i \in 1..Len(posted')
      BY <2>1, PostsIn
    <2> QED
      BY <2>1, <2>3, <2>4 DEF i
  <1> QED
    BY <1>1, <1>2

LEMMA SealedExchange ==
    ASSUME Typed, Sealed, Exchange
    PROVE  Sealed'
  <1>1. /\ UNCHANGED <<posted, sending, replay, inbox>>
        /\ \A x, y \in Nodes : \A m \in Under(x, y)' :
              m.type = "chat" => m \in Under(x, y)
        /\ \A n \in Nodes :
              /\ \A e \in Told(n)' : e.type = "chat" => e \in Told(n)
              /\ \A m \in seen'[n] : m.type = "chat" => m \in seen[n]
              /\ \A c \in Ordered(n)' : c.type = "room" => c \in Ordered(n)
              /\ Asks(n)' = Asks(n)
    BY ExchangeDoes DEF chat
  <1>2. PostsStay
    BY <1>1, PostsUnchanged DEF Typed
  <1>3. AllGenuine'
    BY <1>1, <1>2, GenuineWires, GenuineSeen, GenuineEvents, GenuineCommands
    DEF Sealed, AllGenuine
  <1>4. SendsOK'
    BY <1>1 DEF Sealed, SendsOK
  <1>5. AsksOnce'
    <2> SUFFICES ASSUME NEW n \in Nodes
                 PROVE  Asks(n)' = IF Asking(n)' THEN 1 ELSE 0
      BY DEF AsksOnce
    <2>1. Asking(n)' = Asking(n) /\ Asks(n)' = Asks(n)
      BY <1>1 DEF Asking
    <2> QED
      BY <2>1 DEF Sealed, AsksOnce
  <1>6. ReplaysOK'
    BY <1>1, <1>2, ReplaysStay DEF Sealed
  <1> QED
    BY <1>3, <1>4, <1>5, <1>6 DEF Sealed

LEMMA SealedSendPlain ==
    ASSUME Typed, Sealed, NEW n \in Nodes, SendPlain(n)
    PROVE  Sealed'
  <1> DEFINE post == Post(n, FALSE)
  <1>c. PICK c : c = SendMessageToRoom(Len(posted'), Everyone)
    OBVIOUS
  <1>1. /\ posted' = Append(posted, post)
        /\ commands' = [commands EXCEPT ![n] = Append(@, c)]
        /\ UNCHANGED <<wire, seen, events, sending, replay, inbox>>
    BY <1>c DEF SendPlain, network
  <1>2. /\ c \in RoomCommands /\ c \in Commands
        /\ c # PeersCommand /\ c.post = Len(posted') /\ c.reader = Everyone
    BY <1>c, TypedSendPlain, ChatTypes DEF SendMessageToRoom, PeersCommand
  <1>3. post \in Posts /\ ~post.secret /\ post.from = n
    BY PostIs
  <1> HIDE DEF post
  <1>4. /\ Len(posted) \in Nat /\ Len(posted') \in Nat
        /\ Len(posted') = Len(posted) + 1
        /\ \A i \in 1..Len(posted) : posted'[i] = posted[i]
        /\ posted'[Len(posted')] = post
    BY <1>1, <1>3, PostedMore DEF Typed
  <1>5. PostsStay
    BY <1>1, <1>3, PostsMore DEF Typed
  <1>6. Ordered(n)' = Ordered(n) \cup {c}
    BY <1>1, <1>2, CommandsMore DEF Typed
  <1>7. \A x \in Nodes \ {n} : commands'[x] = commands[x]
    BY <1>1, <1>2, CommandsMore DEF Typed
  <1>8. Genuine(ChatMessage(n, c.post, c.reader))'
    <2>1. PICK m : m = ChatMessage(n, c.post, c.reader)
      OBVIOUS
    <2>2. m.source = n /\ m.post = Len(posted') /\ m.reader = Everyone
      BY <1>2, <2>1 DEF ChatMessage
    <2>3. Len(posted') \in 1..Len(posted')
      <3>1. \A k \in Nat : k + 1 \in 1..(k + 1)
        OBVIOUS
      <3> QED
        BY <1>4, <3>1
    <2>4. Genuine(m)'
      BY <1>3, <1>4, <2>2, <2>3 DEF Genuine
    <2> QED
      BY <2>1, <2>4
  <1>9. AllGenuine'
    <2>1. WiresGenuine'
      BY <1>1, <1>5, GenuineWires DEF Sealed, AllGenuine, Under
    <2>2. SeenGenuine'
      BY <1>1, <1>5, GenuineSeen DEF Sealed, AllGenuine
    <2>3. EventsGenuine'
      BY <1>1, <1>5, GenuineEvents DEF Sealed, AllGenuine, Told
    <2>4. ASSUME NEW x \in Nodes, NEW d \in Ordered(x)', d.type = "room"
          PROVE  d \in Ordered(x) \/ Genuine(ChatMessage(x, d.post, d.reader))'
      <3>1. CASE x = n
        <4>1. d \in Ordered(n)'
          BY <2>4, <3>1
        <4>2. d = c \/ d \in Ordered(n)
          BY <1>6, <4>1
        <4> QED
          BY <1>8, <3>1, <4>2
      <3>2. CASE x # n
        BY <1>7, <2>4, <3>2 DEF Ordered
      <3> QED
        BY <3>1, <3>2
    <2>5. CommandsGenuine'
      BY <1>5, <2>4, GenuineCommands DEF Sealed, AllGenuine
    <2> QED
      BY <2>1, <2>2, <2>3, <2>5 DEF AllGenuine
  <1>10. SendsOK'
    <2> SUFFICES ASSUME NEW x \in Nodes, sending[x] # None
                 PROVE  /\ sending[x].post \in 1..Len(posted')
                        /\ posted'[sending[x].post] = Post(x, TRUE)
                        /\ sending[x].peers \subseteq Nodes \ {x}
      BY <1>1 DEF SendsOK
    <2> DEFINE i == sending[x].post
    <2>1. /\ i \in 1..Len(posted) /\ posted[i] = Post(x, TRUE)
          /\ sending[x].peers \subseteq Nodes \ {x}
      BY DEF Sealed, SendsOK
    <2> HIDE DEF i
    <2>2. posted'[i] = posted[i]
      BY <1>4, <2>1
    <2>3. i \in 1..Len(posted')
      BY <1>5, <2>1, PostsIn
    <2> QED
      BY <2>1, <2>2, <2>3 DEF i
  <1>11. AsksOnce'
    <2> SUFFICES ASSUME NEW x \in Nodes
                 PROVE  Asks(x)' = IF Asking(x)' THEN 1 ELSE 0
      BY DEF AsksOnce
    <2>1. Asking(x)' = Asking(x)
      BY <1>1 DEF Asking
    <2>2. Asks(x)' = Asks(x)
      <3>1. CASE x = n
        BY <1>1, <1>2, <3>1, AsksMore DEF Typed
      <3>2. CASE x # n
        BY <1>7, <3>2 DEF Asks
      <3> QED
        BY <3>1, <3>2
    <2> QED
      BY <2>1, <2>2 DEF Sealed, AsksOnce
  <1>12. ReplaysOK'
    BY <1>1, <1>5, ReplaysStay DEF Sealed
  <1> QED
    BY <1>9, <1>10, <1>11, <1>12 DEF Sealed

LEMMA GenuineUnlessOrdered ==
    ASSUME AllGenuine, PostsStay, UNCHANGED <<wire, seen, events>>,
           \A n \in Nodes : \A c \in Ordered(n)' :
              c.type = "room" => \/ c \in Ordered(n)
                                 \/ Genuine(ChatMessage(n, c.post, c.reader))'
    PROVE  AllGenuine'
  <1>1. WiresGenuine'
    BY GenuineWires DEF AllGenuine, Under
  <1>2. SeenGenuine'
    BY GenuineSeen DEF AllGenuine
  <1>3. EventsGenuine'
    BY GenuineEvents DEF AllGenuine, Told
  <1>4. CommandsGenuine'
    BY GenuineCommands DEF AllGenuine
  <1> QED
    BY <1>1, <1>2, <1>3, <1>4 DEF AllGenuine

LEMMA SealedSendSecret ==
    ASSUME Typed, Sealed, NEW n \in Nodes, SendSecret(n)
    PROVE  Sealed'
  <1> DEFINE post == Post(n, TRUE)
  <1>1. /\ posted' = Append(posted, post) /\ sending[n] = None
        /\ UNCHANGED <<wire, seen, events, commands, replay, inbox>>
    BY DEF SendSecret, CanSend, vars
  <1>2. /\ sending'[n] = [post |-> Len(posted'), stage |-> "lock", peers |-> {}]
        /\ \A x \in Nodes \ {n} : sending'[x] = sending[x]
    BY TypedSendSecret
  <1>3. post \in Posts
    BY PostIs
  <1> HIDE DEF post
  <1>4. /\ Len(posted) \in Nat /\ Len(posted') \in Nat
        /\ Len(posted') = Len(posted) + 1
        /\ \A i \in 1..Len(posted) : posted'[i] = posted[i]
        /\ posted'[Len(posted')] = post
    BY <1>1, <1>3, PostedMore DEF Typed
  <1>5. PostsStay
    BY <1>1, <1>3, PostsMore DEF Typed
  <1>6. AllGenuine'
    BY <1>1, <1>5, GenuineUnlessOrdered DEF Sealed, Ordered
  <1>7. SendsOK'
    <2>1. Len(posted') \in 1..Len(posted')
      <3>1. \A k \in Nat : k + 1 \in 1..(k + 1)
        OBVIOUS
      <3> QED
        BY <1>4, <3>1
    <2>2. /\ sending'[n].post \in 1..Len(posted')
          /\ posted'[sending'[n].post] = Post(n, TRUE)
          /\ sending'[n].peers \subseteq Nodes \ {n}
      <3>1. /\ sending'[n].post = Len(posted')
            /\ sending'[n].peers = {}
        BY <1>2
      <3>2. posted'[Len(posted')] = Post(n, TRUE)
        BY <1>4 DEF post
      <3> QED
        BY <2>1, <3>1, <3>2
    <2> QED
      BY <1>2, <1>4, <1>5, <2>2, SendsStay DEF Sealed
  <1>8. AsksOnce'
    <2> SUFFICES ASSUME NEW x \in Nodes
                 PROVE  Asks(x)' = IF Asking(x)' THEN 1 ELSE 0
      BY DEF AsksOnce
    <2>1. Asking(x)' = Asking(x)
      BY <1>1, <1>2 DEF Asking
    <2>2. Asks(x)' = Asks(x)
      BY <1>1 DEF Asks
    <2> QED
      BY <2>1, <2>2 DEF Sealed, AsksOnce
  <1>9. ReplaysOK'
    BY <1>1, <1>5, ReplaysStay DEF Sealed
  <1> QED
    BY <1>6, <1>7, <1>8, <1>9 DEF Sealed

LEMMA SealedAskPeers ==
    ASSUME Typed, Sealed, NEW n \in Nodes, AskPeers(n)
    PROVE  Sealed'
  <1>1. /\ sending[n] # None /\ sending[n].stage = "lock"
        /\ UNCHANGED <<wire, seen, events, posted, replay, inbox>>
        /\ \/ /\ sending' = [sending EXCEPT ![n].stage = "asked"]
              /\ commands' = [commands EXCEPT ![n] = Append(@, PeersCommand)]
           \/ /\ sending' = [sending EXCEPT ![n] = None]
              /\ UNCHANGED commands
    BY DEF AskPeers, network
  <1> DEFINE next == [sending[n] EXCEPT !.stage = "asked"]
  <1>2. /\ next \in Sends /\ next.stage = "asked"
        /\ next.post = sending[n].post /\ next.peers = sending[n].peers
    <2>1. sending[n] \in Sends
      BY <1>1, SendingOf DEF Typed
    <2> QED
      BY <2>1 DEF Sends
  <1>3. /\ \A x \in Nodes \ {n} : sending'[x] = sending[x]
        /\ \/ /\ sending'[n] = next /\ next # None
              /\ commands' = [commands EXCEPT ![n] = Append(@, PeersCommand)]
           \/ /\ sending'[n] = None
              /\ UNCHANGED commands
    <2>1. CASE /\ sending' = [sending EXCEPT ![n] = next]
               /\ commands' = [commands EXCEPT ![n] = Append(@, PeersCommand)]
      BY <1>2, <2>1, SendingNext, NameAssumption DEF Typed
    <2>2. CASE sending' = [sending EXCEPT ![n] = None] /\ UNCHANGED commands
      BY <2>2, SendingNext DEF Typed
    <2> QED
      BY <1>1, <2>1, <2>2
  <1> HIDE DEF next
  <1>4. PostsStay
    BY <1>1, PostsUnchanged DEF Typed
  <1>5. ASSUME NEW x \in Nodes, NEW c \in Ordered(x)', c.type = "room"
        PROVE  c \in Ordered(x)
    <2>1. CASE UNCHANGED commands
      BY <1>5, <2>1 DEF Ordered
    <2>2. CASE commands' = [commands EXCEPT ![n] = Append(@, PeersCommand)]
      <3>1. CASE x = n
        <4>1. Ordered(n)' = Ordered(n) \cup {PeersCommand}
          BY <2>2, ChatTypes, CommandsMore DEF Typed
        <4> QED
          BY <1>5, <3>1, <4>1 DEF PeersCommand
      <3>2. CASE x # n
        <4>1. commands'[x] = commands[x]
          BY <2>2, <3>2
        <4> QED
          BY <1>5, <4>1 DEF Ordered
      <3> QED
        BY <3>1, <3>2
    <2> QED
      BY <1>3, <2>1, <2>2
  <1>6. AllGenuine'
    BY <1>1, <1>4, <1>5, GenuineUnlessOrdered DEF Sealed
  <1>7. SendsOK'
    <2>1. /\ sending[n].post \in 1..Len(posted)
          /\ posted[sending[n].post] = Post(n, TRUE)
          /\ sending[n].peers \subseteq Nodes \ {n}
      BY <1>1 DEF Sealed, SendsOK
    <2>2. sending'[n] # None =>
            /\ sending'[n].post \in 1..Len(posted')
            /\ posted'[sending'[n].post] = Post(n, TRUE)
            /\ sending'[n].peers \subseteq Nodes \ {n}
      BY <1>1, <1>2, <1>3, <2>1
    <2> QED
      BY <1>1, <1>3, <1>4, <2>2, SendsStay DEF Sealed
  <1>8. AsksOnce'
    <2> SUFFICES ASSUME NEW x \in Nodes
                 PROVE  Asks(x)' = IF Asking(x)' THEN 1 ELSE 0
      BY DEF AsksOnce
    <2>1. CASE x # n
      <3>1. Asking(x)' = Asking(x)
        BY <1>3, <2>1 DEF Asking
      <3>2. Asks(x)' = Asks(x)
        <4>1. commands'[x] = commands[x]
          BY <1>3, <2>1 DEF Typed, NodesOver
        <4> QED
          BY <4>1 DEF Asks
      <3> QED
        BY <3>1, <3>2 DEF Sealed, AsksOnce
    <2>2. CASE x = n
      <3>1. ~Asking(n)
        BY <1>1 DEF Asking
      <3>2. Asks(n) = 0
        BY <3>1 DEF Sealed, AsksOnce
      <3>3. CASE sending'[n] = None /\ UNCHANGED commands
        <4>1. Asks(n)' = Asks(n) /\ ~Asking(n)'
          BY <3>3 DEF Asks, Asking
        <4> QED
          BY <2>2, <3>2, <4>1
      <3>4. CASE /\ sending'[n] = next /\ next # None
                 /\ commands' = [commands EXCEPT ![n] = Append(@, PeersCommand)]
        <4>1. Asks(n)' = Asks(n) + 1
          BY <3>4, ChatTypes, AsksMore DEF Typed
        <4>2. Asking(n)'
          BY <1>2, <3>4 DEF Asking
        <4> QED
          BY <2>2, <3>2, <4>1, <4>2
      <3> QED
        BY <1>3, <3>3, <3>4
    <2> QED
      BY <2>1, <2>2
  <1>9. ReplaysOK'
    BY <1>1, <1>4, ReplaysStay DEF Sealed
  <1> QED
    BY <1>6, <1>7, <1>8, <1>9 DEF Sealed

\* A command taken off leaves no new one.
LEMMA OrderedLess ==
    ASSUME NodesOver(Events, Commands), NEW n \in Nodes, NEW type,
           NextCommand(n, type), NEW x \in Nodes, NEW c \in Ordered(x)'
    PROVE  c \in Ordered(x)
  <1>1. CASE x = n
    <2>1. Ordered(n) = Ordered(n)' \cup {Head(commands[n])}
      BY CommandsLess
    <2> QED
      BY <1>1, <2>1
  <1>2. CASE x # n
    <2>1. commands'[x] = commands[x]
      BY <1>2, CommandsLess
    <2> QED
      BY <2>1 DEF Ordered
  <1> QED
    BY <1>1, <1>2

LEMMA SealedAnswerPeers ==
    ASSUME Typed, Sealed, NEW n \in Nodes, AnswerPeers(n)
    PROVE  Sealed' /\ sending[n] # None
  <1>1. /\ NextCommand(n, "peers")
        /\ UNCHANGED <<wire, seen, events, posted, replay, inbox>>
    BY DEF AnswerPeers, network
  <1>2. /\ Asks(n) = Asks(n)' + 1 /\ Asks(n)' \in Nat
        /\ \A x \in Nodes \ {n} : Asks(x)' = Asks(x)
    BY <1>1, AsksLess DEF Typed
  <1>3. sending[n] # None /\ Asks(n)' = 0
    <2>1. Asks(n) = IF Asking(n) THEN 1 ELSE 0
      BY DEF Sealed, AsksOnce
    <2>2. Asking(n) /\ Asks(n)' = 0
      BY <1>2, <2>1
    <2> QED
      BY <2>2 DEF Asking
  <1>4. /\ sending[n] \in Sends /\ sending'[n] \in Sends
        /\ sending'[n].stage = "answered"
        /\ sending'[n].post = sending[n].post
        /\ sending'[n].peers \subseteq Neighbours(n)
        /\ \A x \in Nodes \ {n} : sending'[x] = sending[x]
    BY <1>3, TypedAnswerPeers
  <1>5. PostsStay
    BY <1>1, PostsUnchanged DEF Typed
  <1>6. AllGenuine'
    BY <1>1, <1>5, OrderedLess, GenuineUnlessOrdered DEF Sealed, Typed
  <1>7. SendsOK'
    <2>1. /\ sending[n].post \in 1..Len(posted)
          /\ posted[sending[n].post] = Post(n, TRUE)
      BY <1>3 DEF Sealed, SendsOK
    <2>2. /\ sending'[n].post \in 1..Len(posted')
          /\ posted'[sending'[n].post] = Post(n, TRUE)
      BY <1>1, <1>4, <2>1
    <2>3. sending'[n].peers \subseteq Nodes \ {n}
      BY <1>4, NoNeighbourOfItself DEF Typed
    <2> QED
      BY <1>1, <1>4, <1>5, <2>2, <2>3, SendsStay DEF Sealed
  <1>8. AsksOnce'
    <2> SUFFICES ASSUME NEW x \in Nodes
                 PROVE  Asks(x)' = IF Asking(x)' THEN 1 ELSE 0
      BY DEF AsksOnce
    <2>1. CASE x # n
      <3>1. Asking(x)' = Asking(x)
        BY <1>4, <2>1 DEF Asking
      <3>2. Asks(x)' = Asks(x)
        BY <1>2, <2>1
      <3> QED
        BY <3>1, <3>2 DEF Sealed, AsksOnce
    <2>2. CASE x = n
      <3>1. ~Asking(n)'
        BY <1>4 DEF Asking
      <3> QED
        BY <1>3, <2>2, <3>1
    <2> QED
      BY <2>1, <2>2
  <1>9. ReplaysOK'
    BY <1>1, <1>5, ReplaysStay DEF Sealed
  <1> QED
    BY <1>3, <1>6, <1>7, <1>8, <1>9 DEF Sealed

\* Behind a list of room messages no question is new.
LEMMA CountConcat ==
    ASSUME NEW S, NEW s \in Seq(S), NEW t \in Seq(S), NEW set,
           Range(t) \cap set = {}
    PROVE  Count(s \o t, set) = Count(s, set)
  <1> DEFINE u == s \o t
  <1>1. /\ DOMAIN s = 1..Len(s) /\ DOMAIN u = 1..(Len(s) + Len(t))
        /\ Len(s) \in Nat /\ Len(t) \in Nat
        /\ \A i \in DOMAIN s : u[i] = s[i]
        /\ \A i \in DOMAIN u \ DOMAIN s : u[i] \in Range(t)
    BY ConcatHas
  <1> HIDE DEF u
  <1>2. DOMAIN s \subseteq DOMAIN u
    <2>1. \A i, j \in Nat : 1..i \subseteq 1..(i + j)
      OBVIOUS
    <2> QED
      BY <1>1, <2>1
  <1>3. {i \in DOMAIN u : u[i] \in set} = {i \in DOMAIN s : s[i] \in set}
    BY <1>1, <1>2
  <1> QED
    BY <1>3 DEF Count, u

LEMMA SealedSeal ==
    ASSUME Typed, Sealed, NEW n \in Nodes, Seal(n)
    PROVE  Sealed'
  <1> DEFINE i == sending[n].post
             readers == {p \in sending[n].peers : Encrypts(n, p)}
  <1>1. /\ i \in 1..Len(posted) /\ posted[i] = Post(n, TRUE)
        /\ readers \subseteq Nodes \ {n}
        /\ Len(posted') = Len(posted)
        /\ \A j \in 1..Len(posted) \ {i} : posted'[j] = posted[j]
        /\ posted'[i] = [posted[i] EXCEPT !.readers = readers]
        /\ sending'[n] = None
        /\ \A x \in Nodes \ {n} : /\ sending'[x] = sending[x]
                                  /\ commands'[x] = commands[x]
        /\ \E s \in Seq(RoomCommands) :
              /\ commands'[n] = commands[n] \o s
              /\ Range(s) = {SendMessageToRoom(i, p) : p \in readers}
    BY TypedSeal DEF Sealed
  <1>2. /\ sending[n] # None /\ sending[n].stage = "answered"
        /\ UNCHANGED <<wire, seen, events, replay, inbox>>
    BY DEF Seal, network
  <1>3. PostsStay
    BY PostsSeal DEF Sealed
  <1>4. PICK k : k = i
    OBVIOUS
  <1>5. PICK rs : rs = readers
    OBVIOUS
  <1>6. PICK s \in Seq(RoomCommands) :
           /\ commands'[n] = commands[n] \o s
           /\ Range(s) = {SendMessageToRoom(k, p) : p \in rs}
    <2>1. \E s \in Seq(RoomCommands) :
             /\ commands'[n] = commands[n] \o s
             /\ Range(s) = {SendMessageToRoom(i, p) : p \in readers}
      BY <1>1
    <2> HIDE DEF i, readers
    <2> QED
      BY <1>4, <1>5, <2>1
  <1>7. /\ k \in 1..Len(posted') /\ posted[k] = Post(n, TRUE)
        /\ posted'[k] = [posted[k] EXCEPT !.readers = rs]
        /\ rs \subseteq Nodes
        /\ \A j \in 1..Len(posted) \ {k} : posted'[j] = posted[j]
    BY <1>1, <1>4, <1>5
  <1> HIDE DEF i, readers
  <1>8. /\ posted'[k].from = n /\ posted'[k].secret /\ posted'[k].readers = rs
    BY <1>7 DEF Post
  <1>others. \A j \in 1..Len(posted) : posted[j].from # n => posted'[j] = posted[j]
    <2>1. posted[k].from = n
      BY <1>7, PostIs
    <2> QED
      BY <1>7, <2>1
  <1>9. commands[n] \in Seq(Commands) /\ s \in Seq(Commands)
    BY ChatTypes DEF Typed, NodesOver
  <1>10. AllGenuine'
    <2>1. ASSUME NEW p \in rs
          PROVE  Genuine(ChatMessage(n, k, p))'
      <3>1. PICK m : m = ChatMessage(n, k, p)
        OBVIOUS
      <3>2. m.source = n /\ m.post = k /\ m.reader = p
        BY <3>1 DEF ChatMessage
      <3>3. p # Everyone
        BY <1>7, NameAssumption
      <3>4. Genuine(m)'
        BY <1>7, <1>8, <3>2, <3>3 DEF Genuine
      <3> QED
        BY <3>1, <3>4
    <2>2. ASSUME NEW x \in Nodes, NEW c \in Ordered(x)', c.type = "room"
          PROVE  c \in Ordered(x) \/ Genuine(ChatMessage(x, c.post, c.reader))'
      <3>1. CASE x # n
        <4>1. commands'[x] = commands[x]
          BY <1>1, <3>1
        <4> QED
          BY <2>2, <4>1 DEF Ordered
      <3>2. CASE x = n
        <4>1. c \in Range(commands[n] \o s)
          BY <1>6, <2>2, <3>2 DEF Ordered
        <4>2. c \in Ordered(n) \/ c \in Range(s)
          BY <1>9, <4>1, ConcatHas DEF Ordered
        <4>3. ASSUME NEW p \in rs, c = SendMessageToRoom(k, p)
              PROVE  Genuine(ChatMessage(x, c.post, c.reader))'
          <5>1. c.post = k /\ c.reader = p
            BY <4>3 DEF SendMessageToRoom
          <5> QED
            BY <2>1, <3>2, <5>1
        <4> QED
          BY <1>6, <3>2, <4>2, <4>3
      <3> QED
        BY <3>1, <3>2
    <2> QED
      BY <1>2, <1>3, <2>2, GenuineUnlessOrdered DEF Sealed
  <1>11. SendsOK'
    BY <1>1, <1>3, <1>others, SendsStay DEF Sealed
  <1>12. AsksOnce'
    <2> SUFFICES ASSUME NEW x \in Nodes
                 PROVE  Asks(x)' = IF Asking(x)' THEN 1 ELSE 0
      BY DEF AsksOnce
    <2>1. CASE x # n
      <3>1. Asking(x)' = Asking(x)
        BY <1>1, <2>1 DEF Asking
      <3>2. Asks(x)' = Asks(x)
        BY <1>1, <2>1 DEF Asks
      <3> QED
        BY <3>1, <3>2 DEF Sealed, AsksOnce
    <2>2. CASE x = n
      <3>1. ~Asking(n) /\ ~Asking(n)'
        BY <1>1, <1>2 DEF Asking
      <3>2. Range(s) \cap {PeersCommand} = {}
        BY <1>6 DEF SendMessageToRoom, PeersCommand
      <3>3. Count(commands[n] \o s, {PeersCommand}) = Count(commands[n], {PeersCommand})
        BY <1>9, <3>2, CountConcat
      <3>4. Asks(n)' = Asks(n)
        BY <1>6, <3>3 DEF Asks
      <3> QED
        BY <2>2, <3>1, <3>4 DEF Sealed, AsksOnce
    <2> QED
      BY <2>1, <2>2
  <1>13. ReplaysOK'
    BY <1>2, <1>3, ReplaysStay DEF Sealed
  <1> QED
    BY <1>10, <1>11, <1>12, <1>13 DEF Sealed

\* What is taken off a link, passed on or told was there before.
LEMMA SealedPublishChat ==
    ASSUME Typed, Sealed, NEW n \in Nodes, PublishChat(n)
    PROVE  Sealed'
  <1> DEFINE c == Head(commands[n])
             m == ChatMessage(n, c.post, c.reader)
  <1>1. /\ NextCommand(n, "room")
        /\ UNCHANGED <<seen, events, posted, sending, replay, inbox>>
    BY DEF PublishChat, chat
  <1>2. \/ UNCHANGED wire
        \/ \A x, y \in Nodes :
              wire'[x][y] = IF x = n /\ y \in InMesh(n)
                            THEN Append(wire[x][y], m) ELSE wire[x][y]
    BY TypedPublishChat
  <1>3. m \in ChatMessages /\ m \in Messages /\ c \in Ordered(n) /\ c.type = "room"
    <2>1. c \in RoomCommands /\ m \in ChatMessages
      BY TypedPublishChat
    <2>2. c \in Ordered(n) /\ c.type = "room"
      BY <1>1, CommandsLess DEF Typed
    <2> QED
      BY <2>1, <2>2, ChatTypes
  <1>4. Genuine(m)
    BY <1>3 DEF Sealed, AllGenuine, CommandsGenuine
  <1> HIDE DEF m, c
  <1>5. PostsStay
    BY <1>1, PostsUnchanged DEF Typed
  <1>6. WiresGenuine'
    <2>1. ASSUME NEW x \in Nodes, NEW y \in Nodes, NEW k \in Under(x, y)'
          PROVE  k \in Under(x, y) \/ k = m
      <3>1. CASE UNCHANGED wire
        BY <2>1, <3>1 DEF Under
      <3>2. CASE wire'[x][y] = wire[x][y]
        BY <2>1, <3>2 DEF Under
      <3>3. CASE wire'[x][y] = Append(wire[x][y], m)
        <4>1. wire[x][y] \in Seq(Messages)
          BY DEF Typed, LinksOver, Wires
        <4>2. Range(Append(wire[x][y], m)) = Range(wire[x][y]) \cup {m}
          BY <1>3, <4>1, AppendHas
        <4> QED
          BY <2>1, <3>3, <4>2 DEF Under
      <3> QED
        BY <1>2, <3>1, <3>2, <3>3
    <2> QED
      BY <1>4, <1>5, <2>1, GenuineWires DEF Sealed, AllGenuine
  <1>7. SeenGenuine'
    BY <1>1, <1>5, GenuineSeen DEF Sealed, AllGenuine
  <1>8. EventsGenuine'
    BY <1>1, <1>5, GenuineEvents DEF Sealed, AllGenuine, Told
  <1>9. CommandsGenuine'
    BY <1>1, <1>5, OrderedLess, GenuineCommands DEF Sealed, AllGenuine, Typed
  <1>10. SendsOK'
    BY <1>1 DEF Sealed, SendsOK
  <1>11. AsksOnce'
    <2> SUFFICES ASSUME NEW x \in Nodes
                 PROVE  Asks(x)' = IF Asking(x)' THEN 1 ELSE 0
      BY DEF AsksOnce
    <2>1. Asking(x)' = Asking(x)
      BY <1>1 DEF Asking
    <2>2. Asks(x)' = Asks(x)
      BY <1>1, AsksLess DEF Typed
    <2> QED
      BY <2>1, <2>2 DEF Sealed, AsksOnce
  <1>12. ReplaysOK'
    BY <1>1, <1>5, ReplaysStay DEF Sealed
  <1> QED
    BY <1>6, <1>7, <1>8, <1>9, <1>10, <1>11, <1>12 DEF Sealed, AllGenuine

LEMMA SealedReceiveChat ==
    ASSUME Typed, Sealed, NEW a \in Nodes, NEW b \in Nodes, ReceiveChat(a, b)
    PROVE  Sealed'
  <1> DEFINE m == Head(wire[a][b])
             e == MessageReceived(m)
  <1>1. UNCHANGED <<commands, posted, sending, replay, inbox>>
    BY DEF ReceiveChat, chat
  <1>2. /\ wire[a][b] \in Seq(Messages) /\ wire[a][b] # << >>
        /\ m \in ChatMessages /\ m.type = "chat"
        /\ \A x, y \in Nodes :
              LET s == IF x = a /\ y = b THEN Tail(wire[a][b]) ELSE wire[x][y]
              IN  wire'[x][y] = s \/ wire'[x][y] = Append(s, m)
        /\ \/ UNCHANGED <<seen, events>>
           \/ /\ m.source # b
              /\ seen'[b] = seen[b] \cup {m}
              /\ \A x \in Nodes \ {b} : seen'[x] = seen[x]
              /\ events' = [events EXCEPT ![b] = Append(@, e)]
    BY TypedReceiveChat
  <1>3. m \in Under(a, b) /\ m \in Messages /\ e \in Events /\ e.message = m
    <2>1. m \in Range(wire[a][b])
      BY <1>2, TailHas
    <2> QED
      BY <1>2, <2>1, ChatTypes DEF Under, MessageReceived
  <1>4. Genuine(m)
    BY <1>2, <1>3 DEF Sealed, AllGenuine, WiresGenuine
  <1> HIDE DEF m, e
  <1>5. PostsStay
    BY <1>1, PostsUnchanged DEF Typed
  <1>6. WiresGenuine'
    <2>1. ASSUME NEW x \in Nodes, NEW y \in Nodes, NEW k \in Under(x, y)'
          PROVE  k \in Under(x, y) \/ k = m
      <3> DEFINE s == IF x = a /\ y = b THEN Tail(wire[a][b]) ELSE wire[x][y]
      <3>1. wire'[x][y] = s \/ wire'[x][y] = Append(s, m)
        BY <1>2
      <3>2. s \in Seq(Messages) /\ Range(s) \subseteq Under(x, y)
        <4>1. wire[x][y] \in Seq(Messages)
          BY DEF Typed, LinksOver, Wires
        <4>2. /\ Tail(wire[a][b]) \in Seq(Messages)
              /\ Range(Tail(wire[a][b])) \subseteq Range(wire[a][b])
          BY <1>2, TailHas
        <4> QED
          BY <4>1, <4>2 DEF Under
      <3> HIDE DEF s
      <3>3. Range(Append(s, m)) = Range(s) \cup {m}
        BY <1>3, <3>2, AppendHas
      <3> QED
        BY <2>1, <3>1, <3>2, <3>3 DEF Under
    <2> QED
      BY <1>4, <1>5, <2>1, GenuineWires DEF Sealed, AllGenuine
  <1>7. SeenGenuine'
    <2>1. ASSUME NEW x \in Nodes, NEW k \in seen'[x]
          PROVE  k \in seen[x] \/ (Genuine(k) /\ k.source # x)
      BY <1>2, <1>4, <2>1
    <2> QED
      BY <1>5, <2>1, GenuineSeen DEF Sealed, AllGenuine
  <1>8. EventsGenuine'
    <2>1. ASSUME NEW x \in Nodes, NEW k \in Told(x)'
          PROVE  k \in Told(x) \/ (Genuine(k.message) /\ k.message.source # x)
      <3>1. CASE UNCHANGED events
        BY <2>1, <3>1 DEF Told
      <3>2. CASE m.source # b /\ events' = [events EXCEPT ![b] = Append(@, e)]
        <4>1. CASE x = b
          <5>1. Told(b)' = Told(b) \cup {e}
            BY <1>3, <3>2, EventsMore DEF Typed
          <5>2. k \in Told(b) \/ k = e
            BY <2>1, <4>1, <5>1
          <5> QED
            BY <1>3, <1>4, <3>2, <4>1, <5>2
        <4>2. CASE x # b
          BY <1>3, <2>1, <3>2, <4>2, EventsMore DEF Typed, Told
        <4> QED
          BY <4>1, <4>2
      <3> QED
        BY <1>2, <3>1, <3>2
    <2> QED
      BY <1>5, <2>1, GenuineEvents DEF Sealed, AllGenuine
  <1>9. CommandsGenuine'
    BY <1>1, <1>5, GenuineCommands DEF Sealed, AllGenuine, Ordered
  <1>10. SendsOK'
    BY <1>1 DEF Sealed, SendsOK
  <1>11. AsksOnce'
    BY <1>1 DEF Sealed, AsksOnce, Asks, Asking
  <1>12. ReplaysOK'
    BY <1>1, <1>5, ReplaysStay DEF Sealed
  <1> QED
    BY <1>6, <1>7, <1>8, <1>9, <1>10, <1>11, <1>12 DEF Sealed, AllGenuine

LEMMA SealedRedeliver ==
    ASSUME Typed, Sealed, NEW n \in Nodes, Redeliver(n)
    PROVE  Sealed'
  <1>1. /\ UNCHANGED <<wire, seen, commands, posted, sending, replay, inbox>>
        /\ \E m \in seen[n] \cap ChatMessages :
              events' = [events EXCEPT ![n] = Append(@, MessageReceived(m))]
    BY TypedRedeliver DEF network
  <1>2. PICK m \in seen[n] \cap ChatMessages :
           events' = [events EXCEPT ![n] = Append(@, MessageReceived(m))]
    BY <1>1
  <1>3. /\ MessageReceived(m) \in Events /\ m.type = "chat"
        /\ MessageReceived(m).message = m
    BY ChatTypes DEF ChatMessages, MessageReceived
  <1>4. Genuine(m) /\ m.source # n
    BY <1>3 DEF Sealed, AllGenuine, SeenGenuine
  <1>5. PostsStay
    BY <1>1, PostsUnchanged DEF Typed
  <1>6. WiresGenuine'
    BY <1>1, <1>5, GenuineWires DEF Sealed, AllGenuine, Under
  <1>7. SeenGenuine'
    BY <1>1, <1>5, GenuineSeen DEF Sealed, AllGenuine
  <1>8. EventsGenuine'
    <2>1. ASSUME NEW x \in Nodes, NEW k \in Told(x)'
          PROVE  k \in Told(x) \/ (Genuine(k.message) /\ k.message.source # x)
      <3>1. CASE x = n
        <4>1. Told(n)' = Told(n) \cup {MessageReceived(m)}
          BY <1>2, <1>3, EventsMore DEF Typed
        <4>2. k \in Told(n) \/ k = MessageReceived(m)
          BY <2>1, <3>1, <4>1
        <4> QED
          BY <1>3, <1>4, <3>1, <4>2
      <3>2. CASE x # n
        BY <1>2, <1>3, <2>1, <3>2, EventsMore DEF Typed, Told
      <3> QED
        BY <3>1, <3>2
    <2> QED
      BY <1>5, <2>1, GenuineEvents DEF Sealed, AllGenuine
  <1>9. CommandsGenuine'
    BY <1>1, <1>5, GenuineCommands DEF Sealed, AllGenuine, Ordered
  <1>10. SendsOK'
    BY <1>1 DEF Sealed, SendsOK
  <1>11. AsksOnce'
    BY <1>1 DEF Sealed, AsksOnce, Asks, Asking
  <1>12. ReplaysOK'
    BY <1>1, <1>5, ReplaysStay DEF Sealed
  <1> QED
    BY <1>6, <1>7, <1>8, <1>9, <1>10, <1>11, <1>12 DEF Sealed, AllGenuine

\* The event taken off, which stands for a post of another node.
LEMMA ChatTakenGenuine ==
    ASSUME Typed, Sealed, NEW n \in Nodes, NextEvent(n, "chat")
    PROVE  LET m == Head(events[n]).message
           IN  /\ m \in ChatMessages /\ Genuine(m) /\ m.source # n
               /\ m = ChatMessage(posted[m.post].from, m.post, m.reader)
  <1> DEFINE m == Head(events[n]).message
  <1>1. /\ m \in ChatMessages /\ Head(events[n]) = MessageReceived(m)
        /\ MessageReceived(m) \in Told(n)
    BY ChatTaken
  <1> HIDE DEF m
  <1>2. MessageReceived(m).type = "chat" /\ MessageReceived(m).message = m
    BY DEF MessageReceived
  <1>3. Genuine(m) /\ m.source # n
    BY <1>1, <1>2 DEF Sealed, AllGenuine, EventsGenuine
  <1>4. m = ChatMessage(m.source, m.post, m.reader)
    BY <1>1, ChatTypes
  <1> QED
    BY <1>1, <1>3, <1>4 DEF Genuine, m

LEMMA SealedChatTask ==
    ASSUME Typed, Sealed, NEW n \in Nodes, ChatTask(n)
    PROVE  Sealed'
  <1> DEFINE m == Head(events[n]).message
             how == IF HasIdentity(n) /\ Decrypts(n, m)
                    THEN "read" ELSE "placeholder"
  <1>1. /\ NextEvent(n, "chat")
        /\ UNCHANGED <<wire, seen, commands, posted, sending>>
    BY TypedChatTask DEF network
  <1>2. \/ /\ m.reader = Everyone
           /\ Show(n, m, "plain")
           /\ UNCHANGED replay
        \/ /\ m.reader # Everyone
           /\ replay' = [replay EXCEPT ![n] = @ \cup {m}]
           /\ UNCHANGED inbox
        \/ /\ m.reader = n
           /\ replay' = [replay EXCEPT ![n] = @ \cup {m}]
           /\ Show(n, m, how)
    BY TypedChatTask
  <1>3. /\ m \in ChatMessages /\ Genuine(m) /\ m.source # n
        /\ m = ChatMessage(posted[m.post].from, m.post, m.reader)
    BY <1>1, ChatTakenGenuine
  <1>4. how \in {"plain", "read", "placeholder"}
    OBVIOUS
  <1> HIDE DEF m, how
  <1>5. PostsStay
    BY <1>1, PostsUnchanged DEF Typed
  <1>6. AllGenuine'
    <2>1. WiresGenuine'
      BY <1>1, <1>5, GenuineWires DEF Sealed, AllGenuine, Under
    <2>2. SeenGenuine'
      BY <1>1, <1>5, GenuineSeen DEF Sealed, AllGenuine
    <2>3. ASSUME NEW x \in Nodes, NEW k \in Told(x)'
          PROVE  k \in Told(x)
      <3>1. CASE x = n
        BY <1>1, <2>3, <3>1, EventsLess DEF Typed
      <3>2. CASE x # n
        BY <1>1, <2>3, <3>2, EventsLess DEF Typed, Told
      <3> QED
        BY <3>1, <3>2
    <2>4. EventsGenuine'
      BY <1>5, <2>3, GenuineEvents DEF Sealed, AllGenuine
    <2>5. CommandsGenuine'
      BY <1>1, <1>5, GenuineCommands DEF Sealed, AllGenuine, Ordered
    <2> QED
      BY <2>1, <2>2, <2>4, <2>5 DEF AllGenuine
  <1>7. SendsOK'
    BY <1>1 DEF Sealed, SendsOK
  <1>8. AsksOnce'
    BY <1>1 DEF Sealed, AsksOnce, Asks, Asking
  <1>9. /\ replay[n] \subseteq replay'[n]
        /\ \A x \in Nodes \ {n} : replay'[x] = replay[x] /\ inbox'[x] = inbox[x]
        /\ m.reader # Everyone => replay'[n] = replay[n] \cup {m}
        /\ m.reader = Everyone => replay'[n] = replay[n]
        /\ \/ inbox'[n] = inbox[n]
           \/ /\ m.reader \in {Everyone, n}
              /\ \E h \in {"plain", "read", "placeholder"} :
                    LET entry == [post |-> m.post, how |-> h]
                    IN  entry \in Entries /\ inbox'[n] = Append(inbox[n], entry)
    <2>1. CASE m.reader = Everyone /\ Show(n, m, "plain") /\ UNCHANGED replay
      <3> PICK h \in {"plain", "read", "placeholder"} : h = "plain"
        OBVIOUS
      <3>1. LET entry == [post |-> m.post, how |-> h]
            IN  /\ entry \in Entries
                /\ inbox'[n] = Append(inbox[n], entry)
                /\ \A x \in Nodes \ {n} : inbox'[x] = inbox[x]
        BY <1>3, <2>1, ShowMore DEF Typed
      <3> QED
        BY <2>1, <3>1
    <2>2. ASSUME m.reader # Everyone,
                 replay' = [replay EXCEPT ![n] = @ \cup {m}]
          PROVE  /\ replay'[n] = replay[n] \cup {m}
                 /\ \A x \in Nodes \ {n} : replay'[x] = replay[x]
      BY <1>3, <2>2, ReplayMore DEF Typed
    <2>3. CASE /\ m.reader # Everyone
               /\ replay' = [replay EXCEPT ![n] = @ \cup {m}]
               /\ UNCHANGED inbox
      BY <2>2, <2>3
    <2>4. CASE /\ m.reader = n
               /\ replay' = [replay EXCEPT ![n] = @ \cup {m}]
               /\ Show(n, m, how)
      <3>1. m.reader # Everyone
        BY <2>4, NameAssumption
      <3>2. LET entry == [post |-> m.post, how |-> how]
            IN  /\ entry \in Entries
                /\ inbox'[n] = Append(inbox[n], entry)
                /\ \A x \in Nodes \ {n} : inbox'[x] = inbox[x]
        <4>1. ChatsOK /\ m \in ChatMessages /\ Show(n, m, how)
          BY <1>3, <2>4 DEF Typed
        <4> QED
          BY <1>4, <4>1, ShowMore
      <3> QED
        BY <1>4, <2>2, <2>4, <3>1, <3>2
    <2> QED
      BY <1>2, <2>1, <2>3, <2>4
  <1>10. ReplaysOK'
    <2> SUFFICES ASSUME NEW x \in Nodes
                 PROVE  /\ \A k \in replay'[x] : k.reader # Everyone
                        /\ \A i \in DOMAIN inbox'[x] :
                              LET entry == inbox'[x][i]
                              IN  /\ entry.post \in 1..Len(posted)
                                  /\ posted[entry.post].secret =>
                                        ChatMessage(posted[entry.post].from,
                                                    entry.post, x) \in replay'[x]
      BY <1>1 DEF ReplaysOK
    <2>1. CASE x # n
      <3>1. replay'[x] = replay[x] /\ inbox'[x] = inbox[x]
        BY <1>9, <2>1
      <3> QED
        BY <3>1 DEF Sealed, ReplaysOK
    <2>2. \A k \in replay'[n] : k.reader # Everyone
      <3>1. \A k \in replay[n] : k.reader # Everyone
        BY DEF Sealed, ReplaysOK
      <3> QED
        BY <1>9, <3>1
    <2>3. ASSUME NEW i \in DOMAIN inbox[n], NEW j, j = inbox[n][i].post
          PROVE  /\ j \in 1..Len(posted)
                 /\ posted[j].secret =>
                       ChatMessage(posted[j].from, j, n) \in replay'[n]
      BY <1>9, <2>3 DEF Sealed, ReplaysOK
    <2>4. /\ m.post \in 1..Len(posted)
          /\ m.reader \in {Everyone, n} =>
                (posted[m.post].secret =>
                    ChatMessage(posted[m.post].from, m.post, n) \in replay'[n])
      <3>1. m.reader = Everyone => ~posted[m.post].secret
        BY <1>3 DEF Genuine
      <3>2. m.reader # Everyone => m \in replay'[n]
        BY <1>9
      <3> QED
        BY <1>3, <3>1, <3>2 DEF Genuine
    <2>5. ASSUME NEW i \in DOMAIN inbox'[n], NEW j, j = inbox'[n][i].post
          PROVE  /\ j \in 1..Len(posted)
                 /\ posted[j].secret =>
                       ChatMessage(posted[j].from, j, n) \in replay'[n]
      <3>1. CASE inbox'[n] = inbox[n]
        BY <2>3, <2>5, <3>1
      <3>2. ASSUME m.reader \in {Everyone, n}, NEW entry \in Entries,
                   entry.post = m.post, inbox'[n] = Append(inbox[n], entry)
            PROVE  /\ j \in 1..Len(posted)
                   /\ posted[j].secret =>
                         ChatMessage(posted[j].from, j, n) \in replay'[n]
        <4>1. /\ inbox[n] \in Seq(Entries) /\ Len(inbox[n]) \in Nat
              /\ DOMAIN inbox[n] = 1..Len(inbox[n])
              /\ DOMAIN inbox'[n] = 1..(Len(inbox[n]) + 1)
              /\ \A k \in DOMAIN inbox[n] : inbox'[n][k] = inbox[n][k]
              /\ inbox'[n][Len(inbox[n]) + 1] = entry
          BY <3>2, AppendHas DEF Typed, ChatsOK
        <4>2. i \in DOMAIN inbox[n] \/ i = Len(inbox[n]) + 1
          <5>1. \A k \in Nat : \A l \in 1..(k + 1) : l \in 1..k \/ l = k + 1
            OBVIOUS
          <5> QED
            BY <4>1, <5>1
        <4>3. CASE i \in DOMAIN inbox[n]
          BY <2>3, <2>5, <4>1, <4>3
        <4>4. CASE i = Len(inbox[n]) + 1
          <5>1. j = m.post
            BY <2>5, <3>2, <4>1, <4>4
          <5> QED
            BY <2>4, <3>2, <5>1
        <4> QED
          BY <4>2, <4>3, <4>4
      <3> QED
        BY <1>9, <3>1, <3>2
    <2>6. CASE x = n
      BY <2>2, <2>5, <2>6
    <2> QED
      BY <2>1, <2>6
  <1> QED
    BY <1>6, <1>7, <1>8, <1>10 DEF Sealed

-----------------------------------------------------------------------------
(* Both hold in every state. *)

LEMMA FriendsAre ==
    ASSUME NEW n \in Nodes
    PROVE  /\ FriendsOf(n) \in SUBSET Nodes
           /\ Cardinality(FriendsOf(n)) \in Nat
           /\ \A m \in Nodes : m \in FriendsOf(n) <=> {n, m} \in Friends
  <1>1. FriendsOf(n) \in SUBSET Nodes
    BY DEF FriendsOf
  <1>2. Cardinality(FriendsOf(n)) \in Nat
    BY <1>1, ExchangeAssumption, FS_Subset, FS_CardinalityType
  <1> QED
    BY <1>1, <1>2 DEF FriendsOf

LEMMA TypedInitially == MessagingInit => Typed
  <1> SUFFICES ASSUME MessagingInit PROVE Typed
    OBVIOUS
  <1>1. /\ << >> \in Seq(Messages) /\ << >> \in Seq(Events) /\ << >> \in Seq(Commands)
        /\ << >> \in Seq(Posts) /\ << >> \in Seq(Entries)
    BY EmptySeq
  <1>2. wire \in Wires(Messages)
    BY <1>1 DEF MessagingInit, Wires
  <1>3. linked = Friends /\ met = Friends /\ Friends \subseteq Pairs
    BY PostAssumption DEF MessagingInit
  <1>4. subscribers \in [Nodes -> SUBSET Nodes] /\ keys \in [Nodes -> SUBSET Nodes]
    BY FriendsAre DEF MessagingInit
  <1>5. ASSUME NEW a \in Nodes, NEW b \in Nodes, {a, b} \notin linked
        PROVE  wire[a][b] = << >> /\ a \notin subscribers[b]
    <2>1. {b, a} \notin Friends
      <3>1. {a, b} = {b, a}
        OBVIOUS
      <3> QED
        BY <1>3, <1>5, <3>1
    <2>2. a \notin FriendsOf(b)
      BY <2>1, FriendsAre
    <2> QED
      BY <2>2 DEF MessagingInit
  <1>6. LinksOver(Messages)
    BY <1>2, <1>3, <1>4, <1>5 DEF LinksOver
  <1>7. phase \in [Nodes -> Phases]
    BY ExchangeAssumption DEF MessagingInit, Phases
  <1>8. sent \in [Nodes -> Nat]
    <2>1. \A n \in Nodes : 2 * Cardinality(FriendsOf(n)) \in Nat
      BY FriendsAre
    <2> QED
      BY <2>1 DEF MessagingInit
  <1>9. /\ events \in [Nodes -> Seq(Events)] /\ commands \in [Nodes -> Seq(Commands)]
        /\ stored \in [Nodes -> SUBSET Nodes] /\ blocked \in SUBSET Nodes
    BY <1>1 DEF MessagingInit
  <1>10. NodesOver(Events, Commands)
    BY <1>4, <1>7, <1>8, <1>9 DEF NodesOver
  <1>11. seen \in [Nodes -> SUBSET Messages]
    <2>1. ASSUME NEW n \in Nodes, NEW m \in FriendsOf(n), NEW i \in {0, 1}
          PROVE  KeyMessage(m, i) \in Messages
      <3>1. m \in Nodes
        BY <2>1, FriendsAre
      <3>2. KeyMessage(m, i) \in WireMessages
        BY <3>1 DEF KeyMessage, WireMessages
      <3> QED
        BY <3>2 DEF Messages
    <2> QED
      BY <2>1 DEF MessagingInit
  <1>12. ChatsOK
    BY <1>1, <1>11 DEF MessagingInit, ChatsOK
  <1> QED
    BY <1>6, <1>10, <1>12 DEF Typed

LEMMA SealedInitially == MessagingInit => Sealed
  <1> SUFFICES ASSUME MessagingInit PROVE Sealed
    OBVIOUS
  <1>1. /\ \A x \in Nodes : Told(x) = {} /\ Ordered(x) = {}
        /\ \A x, y \in Nodes : Under(x, y) = {}
    BY DEF MessagingInit, Told, Ordered, Under, Range
  <1>2. ASSUME NEW n \in Nodes, NEW m \in seen[n]
        PROVE  m.type # "chat"
    BY <1>2 DEF MessagingInit, KeyMessage
  <1>3. AllGenuine
    BY <1>1, <1>2 DEF AllGenuine, WiresGenuine, SeenGenuine, EventsGenuine,
       CommandsGenuine
  <1>4. SendsOK
    BY DEF MessagingInit, SendsOK
  <1>5. AsksOnce
    <2> SUFFICES ASSUME NEW n \in Nodes PROVE Asks(n) = 0 /\ ~Asking(n)
      BY DEF AsksOnce
    <2>1. commands[n] = << >> /\ sending[n] = None
      BY DEF MessagingInit
    <2>2. {i \in DOMAIN << >> : << >>[i] \in {PeersCommand}} = {}
      OBVIOUS
    <2>3. Count(<< >>, {PeersCommand}) = 0
      BY <2>2, FS_EmptySet DEF Count
    <2> QED
      BY <2>1, <2>3 DEF Asks, Asking
  <1>6. ReplaysOK
    BY DEF MessagingInit, ReplaysOK
  <1> QED
    BY <1>3, <1>4, <1>5, <1>6 DEF Sealed

LEMMA MessagingStill ==
    ASSUME UNCHANGED allVars
    PROVE  UNCHANGED <<linked, wire, subscribers, seen, events, commands, keys, phase,
                       stored, blocked, sent, met, connects, faults, locks, members,
                       posted, sending, replay, inbox, redelivered>>
  BY DEF allVars, vars, chat

LEMMA TypedKept == Typed /\ Sealed /\ [MessagingNext]_allVars => Typed' /\ Sealed'
  <1> SUFFICES ASSUME Typed, Sealed, [MessagingNext]_allVars
               PROVE  Typed' /\ Sealed'
    OBVIOUS
  <1>1. CASE Exchange
    BY <1>1, ExchangeDoes, SealedExchange
  <1>2. ASSUME NEW n \in Nodes, Send(n)
        PROVE  Typed' /\ Sealed'
    BY <1>2, TypedSendPlain, TypedSendSecret, SealedSendPlain, SealedSendSecret
    DEF Send
  <1>3. ASSUME NEW n \in Nodes, Sending(n)
        PROVE  Typed' /\ Sealed'
    BY <1>3, TypedAskPeers, TypedSeal, SealedAskPeers, SealedSeal DEF Sending, Sealed
  <1>4. ASSUME NEW n \in Nodes, ChatLoop(n)
        PROVE  Typed' /\ Sealed'
    BY <1>4, TypedAnswerPeers, TypedPublishChat, TypedReceiveChat, SealedAnswerPeers,
       SealedPublishChat, SealedReceiveChat DEF ChatLoop
  <1>5. ASSUME NEW n \in Nodes, Redeliver(n)
        PROVE  Typed' /\ Sealed'
    BY <1>5, TypedRedeliver, SealedRedeliver
  <1>6. ASSUME NEW n \in Nodes, ChatTask(n)
        PROVE  Typed' /\ Sealed'
    BY <1>6, TypedChatTask, SealedChatTask
  <1>7. CASE UNCHANGED allVars
    <2>1. UNCHANGED <<linked, wire, subscribers, seen, events, commands, keys, phase,
                      stored, blocked, sent, met, members, posted, sending, replay,
                      inbox>>
      BY <1>7, MessagingStill
    <2>2. Typed'
      BY <2>1 DEF Typed, LinksOver, NodesOver, ChatsOK
    <2>3. AllGenuine'
      BY <2>1 DEF Sealed, AllGenuine, WiresGenuine, SeenGenuine, EventsGenuine,
         CommandsGenuine, Under, Told, Ordered, Genuine
    <2>4. SendsOK' /\ AsksOnce' /\ ReplaysOK'
      BY <2>1 DEF Sealed, SendsOK, AsksOnce, Asks, Asking, ReplaysOK
    <2> QED
      BY <2>2, <2>3, <2>4 DEF Sealed
  <1> QED
    BY <1>1, <1>2, <1>3, <1>4, <1>5, <1>6, <1>7 DEF MessagingNext

LEMMA TypedAlways == MessagingSpec => [](Typed /\ Sealed)
  <1>1. MessagingInit => Typed /\ Sealed
    BY TypedInitially, SealedInitially
  <1> QED
    BY <1>1, TypedKept, PTL DEF MessagingSpec

LEMMA InboxTypes ==
    ASSUME Typed, Sealed, NEW n \in Nodes
    PROVE  inbox[n] \in Seq([post : 1..Len(posted),
                             how : {"plain", "read", "placeholder"}])
  <1> DEFINE S == [post : 1..Len(posted), how : {"plain", "read", "placeholder"}]
             s == inbox[n]
  <1>1. s \in Seq(Entries) /\ Len(s) \in Nat /\ DOMAIN s = 1..Len(s)
    BY LenProperties DEF Typed, ChatsOK
  <1>2. ASSUME NEW i \in 1..Len(s)
        PROVE  s[i] \in S
    <2>1. s[i] \in Entries
      BY <1>1, ElementOfSeq
    <2>2. s[i].post \in 1..Len(posted)
      BY <1>1 DEF Sealed, ReplaysOK
    <2> QED
      BY <2>1, <2>2 DEF Entries
  <1> HIDE DEF S, s
  <1>3. s \in [1..Len(s) -> S]
    BY <1>1, <1>2
  <1>4. s \in Seq(S)
    BY <1>1, <1>3, SeqDef
  <1> QED
    BY <1>4 DEF S, s

LEMMA MessagingTypes == Typed /\ Sealed => MessagingTypeOK
  <1> SUFFICES ASSUME Typed, Sealed PROVE MessagingTypeOK
    OBVIOUS
  <1>1. members \in Memberships /\ posted \in Seq(Posts)
    BY DEF Typed, ChatsOK
  <1>2. ASSUME NEW n \in Nodes, sending[n] # None
        PROVE  /\ sending[n].post \in 1..Len(posted)
               /\ posted[sending[n].post].from = n
               /\ sending[n].stage \in {"lock", "asked", "answered"}
               /\ sending[n].peers \subseteq Nodes \ {n}
    <2>1. sending[n].stage \in {"lock", "asked", "answered"}
      BY <1>2, SendingOf DEF Typed
    <2>2. /\ sending[n].post \in 1..Len(posted)
          /\ posted[sending[n].post] = Post(n, TRUE)
          /\ sending[n].peers \subseteq Nodes \ {n}
      BY <1>2 DEF Sealed, SendsOK
    <2> QED
      BY <2>1, <2>2 DEF Post
  <1>3. ASSUME NEW n \in Nodes
        PROVE  Cardinality({i \in 1..Len(commands[n]) :
                              commands[n][i] = PeersCommand})
                  = IF sending[n] # None /\ sending[n].stage = "asked"
                    THEN 1 ELSE 0
    <2>1. DOMAIN commands[n] = 1..Len(commands[n])
      BY LenProperties DEF Typed, NodesOver
    <2>2. {i \in 1..Len(commands[n]) : commands[n][i] = PeersCommand}
             = {i \in DOMAIN commands[n] : commands[n][i] \in {PeersCommand}}
      BY <2>1
    <2>3. Asks(n) = IF Asking(n) THEN 1 ELSE 0
      BY DEF Sealed, AsksOnce
    <2> QED
      BY <2>2, <2>3 DEF Asks, Asking, Count
  <1>4. ASSUME NEW n \in Nodes, NEW m \in replay[n]
        PROVE  m.type = "chat" /\ m.reader # Everyone
    <2>1. m \in ChatMessages
      BY DEF Typed, ChatsOK
    <2>2. m.reader # Everyone
      BY DEF Sealed, ReplaysOK
    <2> QED
      BY <2>1, <2>2 DEF ChatMessages
  <1> QED
    BY <1>1, <1>2, <1>3, <1>4, InboxTypes DEF MessagingTypeOK, Posts

\* MessagingTypeOK holds in every state: a send under way is one of its own
\* post and its question for the peers is in the channel exactly while it waits
\* for the answer; only sealed messages are remembered, and only posts shown.
THEOREM MessagingTypeCorrect == MessagingSpec => []MessagingTypeOK
  <1>1. MessagingSpec => [](Typed /\ Sealed)
    BY TypedAlways
  <1>2. Typed /\ Sealed => MessagingTypeOK
    BY MessagingTypes
  <1> QED
    BY <1>1, <1>2, PTL

-----------------------------------------------------------------------------
(* The mailbox. *)

\* The posts a list of shown messages is about.
PostsOf(s) == [j \in 1..Len(s) |-> s[j].post]
Readable == [post : Nat, how : {"plain", "read"}]

LEMMA PostsOfAppend ==
    ASSUME NEW s \in Seq(Entries), NEW e \in Entries
    PROVE  PostsOf(Append(s, e)) = Append(PostsOf(s), e.post)
  <1> DEFINE n == Len(s)
             more == Append(s, e)
             f == PostsOf(s)
             g == PostsOf(more)
  <1>1. /\ more \in Seq(Entries) /\ n \in Nat /\ DOMAIN s = 1..n
        /\ DOMAIN more = 1..(n + 1) /\ Len(more) = n + 1
        /\ \A j \in 1..n : more[j] = s[j]
        /\ more[n + 1] = e
    BY AppendHas, AppendProperties
  <1>2. e.post \in Nat /\ \A j \in 1..n : s[j].post \in Nat
    <2>1. \A j \in 1..n : s[j] \in Entries
      BY ElementOfSeq
    <2> QED
      BY <2>1 DEF Entries
  <1>3. f \in Seq(Nat) /\ Len(f) = n /\ \A j \in 1..n : f[j] = s[j].post
    BY <1>1, <1>2 DEF PostsOf
  <1>4. \A j \in 1..(n + 1) : more[j].post = IF j = n + 1 THEN e.post ELSE f[j]
    <2>1. \A k \in Nat : \A j \in 1..(k + 1) : j \in 1..k \/ j = k + 1
      OBVIOUS
    <2> QED
      BY <1>1, <1>3, <2>1
  <1>5. g = [j \in 1..(n + 1) |-> more[j].post]
    BY <1>1 DEF PostsOf
  <1> HIDE DEF n, more, f, g
  <1>6. /\ Append(f, e.post) \in Seq(Nat) /\ Len(Append(f, e.post)) = n + 1
        /\ \A j \in 1..n : Append(f, e.post)[j] = f[j]
        /\ Append(f, e.post)[n + 1] = e.post
    BY <1>1, <1>2, <1>3, AppendProperties
  <1>7. \A j \in 1..(n + 1) : more[j].post \in Nat
    <2>1. \A j \in 1..(n + 1) : j # n + 1 => j \in 1..n
      BY <1>1
    <2> QED
      BY <1>2, <1>3, <1>4, <2>1
  <1>8. g \in Seq(Nat) /\ Len(g) = n + 1
    BY <1>1, <1>5, <1>7
  <1>9. \A j \in 1..(n + 1) : g[j] = Append(f, e.post)[j]
    <2>1. \A j \in 1..(n + 1) : j # n + 1 => j \in 1..n
      BY <1>1
    <2> QED
      BY <1>4, <1>5, <1>6, <2>1
  <1>10. g = Append(f, e.post)
    BY <1>6, <1>8, <1>9, SeqEqual
  <1> QED
    BY <1>10 DEF f, g, more

LEMMA ReadPostsAre ==
    ASSUME NEW n \in Nodes
    PROVE  ReadPosts(n) = PostsOf(Retain(inbox[n], Readable))
  BY DEF ReadPosts, PostsOf, Readable

\* A placeholder is not read, what else is shown is.
LEMMA ReadPostsAppend ==
    ASSUME Typed, NEW n \in Nodes, NEW e \in Entries,
           inbox'[n] = Append(inbox[n], e)
    PROVE  ReadPosts(n)' = IF e.how = "placeholder" THEN ReadPosts(n)
                           ELSE Append(ReadPosts(n), e.post)
  <1>1. inbox[n] \in Seq(Entries)
    BY DEF Typed, ChatsOK
  <1>2. e \in Readable <=> e.how # "placeholder"
    BY DEF Entries, Readable
  <1>3. Retain(inbox'[n], Readable)
           = IF e \in Readable THEN Append(Retain(inbox[n], Readable), e)
                               ELSE Retain(inbox[n], Readable)
    <2>1. ASSUME NEW s \in Seq(Entries)
          PROVE  Retain(Append(s, e), Readable)
                    = IF e \in Readable THEN Append(Retain(s, Readable), e)
                                        ELSE Retain(s, Readable)
      BY RetainAppend
    <2> QED
      BY <1>1, <2>1
  <1>4. Retain(inbox[n], Readable) \in Seq(Entries)
    BY <1>1, RetainHas
  <1>5. PostsOf(Append(Retain(inbox[n], Readable), e))
           = Append(PostsOf(Retain(inbox[n], Readable)), e.post)
    BY <1>4, PostsOfAppend
  <1>6. ReadPosts(n)' = PostsOf(Retain(inbox'[n], Readable))
    BY DEF ReadPosts, PostsOf, Readable
  <1> QED
    BY <1>2, <1>3, <1>5, <1>6, ReadPostsAre

\* A node that has read a sealed post remembers its envelope.
LEMMA ReadRemembered ==
    ASSUME Typed, Sealed, NEW n \in Nodes, NEW i, posted[i].secret,
           NEW j \in 1..Len(ReadPosts(n)), ReadPosts(n)[j] = i
    PROVE  ChatMessage(posted[i].from, i, n) \in replay[n]
  <1> DEFINE s == Retain(inbox[n], Readable)
  <1>1. inbox[n] \in Seq(Entries)
    BY DEF Typed, ChatsOK
  <1>2. s \in Seq(Entries) /\ Range(s) = Range(inbox[n]) \cap Readable
    BY <1>1, RetainHas
  <1>3. ReadPosts(n) = PostsOf(s)
    BY ReadPostsAre
  <1> HIDE DEF s
  <1>4. DOMAIN s = 1..Len(s) /\ Len(s) \in Nat
    BY <1>2, LenProperties
  <1>5. Len(ReadPosts(n)) = Len(s) /\ ReadPosts(n) = [k \in 1..Len(s) |-> s[k].post]
    BY <1>3, <1>4 DEF PostsOf
  <1>6. j \in 1..Len(s) /\ s[j].post = i
    BY <1>5
  <1>7. s[j] \in Range(inbox[n])
    BY <1>2, <1>4, <1>6 DEF Range
  <1>8. PICK k \in DOMAIN inbox[n] : inbox[n][k].post = i
    BY <1>6, <1>7 DEF Range
  <1> QED
    BY <1>8 DEF Sealed, ReplaysOK

LEMMA MailboxBegins == MessagingInit => Box!Init
  <1> SUFFICES ASSUME MessagingInit PROVE Box!Init
    OBVIOUS
  <1>1. ASSUME NEW n \in Nodes
        PROVE  ReadPosts(n) = << >>
    <2>1. inbox[n] = << >>
      BY DEF MessagingInit
    <2>2. Retain(inbox[n], Readable) = << >>
      BY <2>1, RetainEmpty
    <2>3. PostsOf(<< >>) = << >>
      BY DEF PostsOf
    <2> QED
      BY <2>2, <2>3, ReadPostsAre
  <1>2. [n \in Nodes |-> ReadPosts(n)] = [n \in Nodes |-> << >>]
    BY <1>1
  <1>3. posted = << >>
    BY DEF MessagingInit
  <1> QED
    BY <1>2, <1>3 DEF Box!Init

LEMMA ReadsStay ==
    ASSUME UNCHANGED inbox
    PROVE  [n \in Nodes |-> ReadPosts(n)]' = [n \in Nodes |-> ReadPosts(n)]
  BY DEF ReadPosts

\* The mailbox does not see the rest.
LEMMA MailboxStill ==
    ASSUME UNCHANGED <<posted, inbox>>
    PROVE  UNCHANGED Box!vars
  BY ReadsStay DEF Box!vars

\* Sending posts, sealing seals for others.
LEMMA MailboxSend ==
    ASSUME NEW n \in Nodes, Send(n)
    PROVE  Box!Next
  <1>1. PICK secret \in BOOLEAN : posted' = Append(posted, Post(n, secret))
    BY DEF Send, SendPlain, SendSecret
  <1>2. UNCHANGED inbox
    BY DEF Send, SendPlain, SendSecret
  <1>3. Box!Post(n, secret)
    BY <1>1, <1>2, ReadsStay DEF Box!Post, Post
  <1> QED
    BY <1>3 DEF Box!Next

LEMMA MailboxSending ==
    ASSUME Typed, Sealed, NEW n \in Nodes, Sending(n)
    PROVE  [Box!Next]_Box!vars
  <1>1. CASE AskPeers(n)
    BY <1>1, MailboxStill DEF AskPeers
  <1>2. CASE Seal(n)
    <2>1. PICK i, rs : i = sending[n].post
                       /\ rs = {p \in sending[n].peers : Encrypts(n, p)}
      OBVIOUS
    <2>2. /\ i \in 1..Len(posted) /\ posted[i] = Post(n, TRUE)
          /\ rs \subseteq Nodes \ {n}
      BY <1>2, <2>1, TypedSeal DEF Sealed
    <2>3. posted' = [posted EXCEPT ![i].readers = rs] /\ UNCHANGED inbox
      BY <1>2, <2>1 DEF Seal
    <2>4. posted[i].secret /\ posted[i].readers = {} /\ posted[i].from = n
      BY <2>2, PostIs
    <2>5. Box!Seal(i, rs)
      BY <2>2, <2>3, <2>4, ReadsStay DEF Box!Seal
    <2> QED
      BY <2>2, <2>5 DEF Box!Next
  <1> QED
    BY <1>1, <1>2 DEF Sending

\* A message is read by another node, if it is sealed by a reader, once.
LEMMA MailboxReads ==
    ASSUME Typed, Sealed, NEW n \in Nodes, NEW e \in Entries,
           inbox' = [inbox EXCEPT ![n] = Append(@, e)], UNCHANGED posted,
           e.how # "placeholder" =>
              /\ e.post \in 1..Len(posted)
              /\ IF posted[e.post].secret
                 THEN /\ n \in posted[e.post].readers
                      /\ ChatMessage(posted[e.post].from, e.post, n) \notin replay[n]
                 ELSE n # posted[e.post].from
    PROVE  [Box!Next]_Box!vars
  <1>1. /\ inbox'[n] = Append(inbox[n], e)
        /\ \A x \in Nodes \ {n} : inbox'[x] = inbox[x]
    BY DEF Typed, ChatsOK
  <1>2. \A x \in Nodes \ {n} : ReadPosts(x)' = ReadPosts(x)
    BY <1>1 DEF ReadPosts
  <1>3. ReadPosts(n)' = IF e.how = "placeholder" THEN ReadPosts(n)
                        ELSE Append(ReadPosts(n), e.post)
    BY <1>1, ReadPostsAppend
  <1>4. CASE e.how = "placeholder"
    <2>1. [x \in Nodes |-> ReadPosts(x)]' = [x \in Nodes |-> ReadPosts(x)]
      BY <1>2, <1>3, <1>4
    <2> QED
      BY <2>1 DEF Box!vars
  <1>5. CASE e.how # "placeholder"
    <2>1. [x \in Nodes |-> ReadPosts(x)]'
             = [[x \in Nodes |-> ReadPosts(x)] EXCEPT ![n] = Append(@, e.post)]
      BY <1>2, <1>3, <1>5
    <2>2. posted[e.post].secret => ~Box!Has(n, e.post)
      <3> SUFFICES ASSUME posted[e.post].secret, Box!Has(n, e.post)
                   PROVE  FALSE
        OBVIOUS
      <3>1. PICK j \in 1..Len(ReadPosts(n)) : ReadPosts(n)[j] = e.post
        BY DEF Box!Has
      <3> QED
        BY <1>5, <3>1, ReadRemembered
    <2>3. Box!Read(n, e.post)
      BY <1>5, <2>1, <2>2 DEF Box!Read
    <2> QED
      BY <1>5, <2>3 DEF Box!Next
  <1> QED
    BY <1>4, <1>5

LEMMA MailboxChatTask ==
    ASSUME Typed, Sealed, NEW n \in Nodes, ChatTask(n)
    PROVE  [Box!Next]_Box!vars
  <1> DEFINE m == Head(events[n]).message
             how == IF HasIdentity(n) /\ Decrypts(n, m)
                    THEN "read" ELSE "placeholder"
  <1>1. NextEvent(n, "chat") /\ UNCHANGED posted
    BY TypedChatTask
  <1>2. \/ m.reader = Everyone /\ Show(n, m, "plain")
        \/ UNCHANGED inbox
        \/ /\ m.reader = n /\ m \notin replay[n]
           /\ Show(n, m, how)
    BY TypedChatTask
  <1>3. /\ m \in ChatMessages /\ Genuine(m) /\ m.source # n
        /\ m = ChatMessage(posted[m.post].from, m.post, m.reader)
    BY <1>1, ChatTakenGenuine
  <1>4. how \in {"read", "placeholder"}
    OBVIOUS
  <1> HIDE DEF m, how
  <1>5. /\ m.post \in 1..Len(posted) /\ posted[m.post].from = m.source
        /\ m.reader = Everyone => ~posted[m.post].secret
        /\ m.reader # Everyone =>
              posted[m.post].secret /\ m.reader \in posted[m.post].readers
    BY <1>3 DEF Genuine
  <1>6. ASSUME NEW h \in {"plain", "read", "placeholder"}, Show(n, m, h)
        PROVE  \E e \in Entries : /\ e.post = m.post /\ e.how = h
                                  /\ inbox' = [inbox EXCEPT ![n] = Append(@, e)]
    <2>1. [post |-> m.post, how |-> h] \in Entries
      BY <1>3 DEF Entries, ChatMessages
    <2> QED
      BY <1>6, <2>1 DEF Show
  <1>7. CASE m.reader = Everyone /\ Show(n, m, "plain")
    <2>1. PICK e \in Entries : /\ e.post = m.post /\ e.how = "plain"
                               /\ inbox' = [inbox EXCEPT ![n] = Append(@, e)]
      BY <1>6, <1>7
    <2> QED
      BY <1>1, <1>3, <1>5, <1>7, <2>1, MailboxReads
  <1>8. CASE UNCHANGED inbox
    BY <1>1, <1>8, MailboxStill
  <1>9. CASE m.reader = n /\ m \notin replay[n] /\ Show(n, m, how)
    <2>1. PICK e \in Entries : /\ e.post = m.post /\ e.how = how
                               /\ inbox' = [inbox EXCEPT ![n] = Append(@, e)]
      BY <1>4, <1>6, <1>9
    <2>2. m.reader # Everyone
      BY <1>9, NameAssumption
    <2> QED
      BY <1>1, <1>3, <1>5, <1>9, <2>1, <2>2, MailboxReads
  <1> QED
    BY <1>2, <1>7, <1>8, <1>9

LEMMA MailboxSteps ==
    ASSUME Typed, Sealed, [MessagingNext]_allVars
    PROVE  [Box!Next]_Box!vars
  <1>1. CASE Exchange
    BY <1>1, MailboxStill DEF Exchange, chat
  <1>2. ASSUME NEW n \in Nodes, ChatLoop(n) \/ Redeliver(n)
        PROVE  UNCHANGED <<posted, inbox>>
    BY <1>2 DEF ChatLoop, AnswerPeers, PublishChat, ReceiveChat, Redeliver, chat
  <1>3. CASE UNCHANGED allVars
    BY <1>3, MessagingStill, MailboxStill
  <1> QED
    BY <1>1, <1>2, <1>3, MailboxSend, MailboxSending, MailboxChatTask, MailboxStill
    DEF MessagingNext

\* The exchange of chat messages implements the mailbox: only those a message
\* is sealed for read it, each once, and what is in the clear is read by others
\* than its author, whatever is lost, redelivered or locked in between.
THEOREM MailboxImplemented == MessagingSpec => ImplementsMailbox
  <1>1. MessagingSpec => [](Typed /\ Sealed)
    BY TypedAlways
  <1>2. Typed /\ Sealed /\ [MessagingNext]_allVars => [Box!Next]_Box!vars
    BY MailboxSteps
  <1> QED
    BY <1>1, <1>2, MailboxBegins, PTL DEF MessagingSpec, ImplementsMailbox, Box!Spec

-----------------------------------------------------------------------------
(* While nothing is lost, passed on or locked. *)

\* Every entry of s that is in late comes after one that is in early.
Led(early, late, s) ==
    \A j \in DOMAIN s : s[j] \in late => \E i \in DOMAIN s : i < j /\ s[i] \in early

\* What is for n and needs the key of its sender: in the commands of the
\* sender p, on the link from p, and in n's events.
OrdersFor(n) == {c \in Commands : c.type = "room" /\ c.reader = n}
EnvelopesFor(n) == {m \in Messages : m.type = "chat" /\ m.reader = n}
NewsFor(p, n) ==
    {e \in Events : e.type = "chat" /\ e.message.source = p /\ e.message.reader = n}
KeysSent == {m \in Messages : m.type = "key"}

\* Envelopes come after the key of p on their way to n, of which n has been
\* told es, w is on the link and cs still to be published; held says whether n
\* has it already.
Order(p, n, held, es, w, cs) ==
    \/ held
    \/ /\ Led({KeyExchangeReceived(p)}, NewsFor(p, n), es)
       /\ \/ KeyExchangeReceived(p) \in Range(es)
          \/ /\ Led(KeysSent, EnvelopesFor(n), w)
             /\ \/ Range(w) \cap KeysSent # {}
                \/ Led({KeyCommand}, OrdersFor(n), cs)

ShownTo(n) == {inbox[n][j].post : j \in DOMAIN inbox[n]}
KeyTold(p, n) == p \in keys[n] \/ KeyExchangeReceived(p) \in Told(n)
KeyUnderWay(p, n) ==
    \/ KeyTold(p, n)
    \/ Under(p, n) \cap KeysSent # {}
    \/ KeyCommand \in Ordered(p)
TravelsTo(i, n) ==
    LET from == posted[i].from
        m == ChatMessage(from, i, n)
    IN  \/ i \in ShownTo(n)
        \/ MessageReceived(m) \in Told(n)
        \/ m \in Under(from, n)
        \/ SendMessageToRoom(i, n) \in Ordered(from) /\ n \in InMesh(from)

\* No vault is locked, and a send that holds message_crypto keeps no event
\* task waiting for itself.
Running ==
    /\ \A n \in Nodes : phase[n] \in {"unlocked", "late"}
    /\ \A n \in Nodes : Holds(n) => n \notin blocked

\* Messages come from their source, and a neighbour is a subscriber or its
\* subscription is the first thing on its link.
OwnMessages ==
    \A x, y \in Nodes : \A m \in Under(x, y) :
        m.type \in {"key", "chat"} => m.source = x
Greeted ==
    \A x, y \in Nodes : {x, y} \in linked => x \in subscribers[y] \/ Waits(wire[x][y])

\* A node publishes to all whose key has reached it, and seals for them only.
KeysSubscribe == \A p, n \in Nodes : KeyTold(n, p) => n \in subscribers[p]
OrdersKnown ==
    \A p, n \in Nodes : Ordered(p) \cap OrdersFor(n) # {} => n \in keys[p]

\* What gossipsub has delivered has been told, and what is remembered shown.
SeenTold ==
    \A n \in Nodes : \A m \in seen[n] :
        /\ m.type = "key" => KeyTold(m.source, n)
        /\ m.type = "chat" /\ m.reader = n =>
              /\ KeyTold(m.source, n)
              /\ m.post \in ShownTo(n) \/ MessageReceived(m) \in Told(n)
ReplaysShown ==
    \A n \in Nodes : \A m \in replay[n] : m.reader = n => m.post \in ShownTo(n)

\* Whose key p has, has p's key or it is on its way, before any envelope.
KeysAnswered ==
    \A p, n \in Nodes : n \in keys[p] /\ p \notin blocked => KeyUnderWay(p, n)
InOrder ==
    \A p, n \in Nodes : Order(p, n, p \in keys[n], events[n], wire[p][n], commands[p])

\* Everything was read, and what was sealed arrives.
AllRead ==
    \A n \in Nodes : \A j \in DOMAIN inbox[n] : inbox[n][j].how # "placeholder"
AllTravel == \A i \in 1..Len(posted) : \A n \in posted[i].readers \cap members : TravelsTo(i, n)

Links == OwnMessages /\ Greeted
KeysGo == KeysSubscribe /\ OrdersKnown /\ KeysAnswered /\ InOrder
Arrivals == SeenTold /\ ReplaysShown /\ AllRead
Steady == Running /\ Links /\ KeysGo /\ Arrivals /\ AllTravel

-----------------------------------------------------------------------------

LEMMA LedEmpty ==
    ASSUME NEW early, NEW late, NEW s, Range(s) \cap late = {}
    PROVE  Led(early, late, s)
  BY DEF Led, Range

LEMMA LedAppend ==
    ASSUME NEW S, NEW s \in Seq(S), NEW x \in S, NEW early, NEW late,
           Led(early, late, s), x \notin late \/ Range(s) \cap early # {}
    PROVE  Led(early, late, Append(s, x))
  <1> DEFINE t == Append(s, x)
  <1>1. /\ Len(s) \in Nat /\ DOMAIN s = 1..Len(s) /\ DOMAIN t = 1..(Len(s) + 1)
        /\ \A i \in 1..Len(s) : t[i] = s[i]
        /\ t[Len(s) + 1] = x
    BY AppendProperties, LenProperties
  <1> HIDE DEF t
  <1> SUFFICES ASSUME NEW j \in DOMAIN t, t[j] \in late
               PROVE  \E i \in DOMAIN t : i < j /\ t[i] \in early
    BY DEF Led, t
  <1>2. CASE j \in DOMAIN s
    <2>1. PICK i \in DOMAIN s : i < j /\ s[i] \in early
      BY <1>1, <1>2 DEF Led
    <2> QED
      BY <1>1, <2>1
  <1>3. CASE j = Len(s) + 1
    <2>1. PICK i \in DOMAIN s : s[i] \in early
      BY <1>1, <1>3 DEF Range
    <2> QED
      BY <1>1, <1>3, <2>1
  <1> QED
    BY <1>1, <1>2, <1>3

LEMMA LedConcat ==
    ASSUME NEW S, NEW s \in Seq(S), NEW t \in Seq(S), NEW early, NEW late,
           Led(early, late, s),
           Range(t) \cap late = {} \/ Range(s) \cap early # {}
    PROVE  Led(early, late, s \o t)
  <1> DEFINE u == s \o t
  <1>1. /\ Len(s) \in Nat /\ Len(t) \in Nat
        /\ DOMAIN s = 1..Len(s) /\ DOMAIN u = 1..(Len(s) + Len(t))
        /\ \A i \in DOMAIN s : u[i] = s[i]
        /\ \A i \in DOMAIN u \ DOMAIN s : u[i] \in Range(t)
    BY ConcatHas
  <1> HIDE DEF u
  <1> SUFFICES ASSUME NEW j \in DOMAIN u, u[j] \in late
               PROVE  \E i \in DOMAIN u : i < j /\ u[i] \in early
    BY DEF Led, u
  <1>2. CASE j \in DOMAIN s
    <2>1. PICK i \in DOMAIN s : i < j /\ s[i] \in early
      BY <1>1, <1>2 DEF Led
    <2> QED
      BY <1>1, <2>1
  <1>3. CASE j \notin DOMAIN s
    <2>1. PICK i \in DOMAIN s : s[i] \in early
      BY <1>1, <1>3 DEF Range
    <2> QED
      BY <1>1, <1>3, <2>1
  <1> QED
    BY <1>2, <1>3

LEMMA LedTail ==
    ASSUME NEW S, NEW s \in Seq(S), s # << >>, NEW early, NEW late,
           Led(early, late, s)
    PROVE  /\ Head(s) \notin late
           /\ Head(s) \notin early => Led(early, late, Tail(s))
  <1> DEFINE t == Tail(s)
  <1>1. /\ Len(s) \in Nat /\ Len(s) >= 1
        /\ DOMAIN s = 1..Len(s) /\ DOMAIN t = 1..(Len(s) - 1)
        /\ \A i \in 1..(Len(s) - 1) : t[i] = s[i + 1]
        /\ Head(s) = s[1]
    BY HeadTailProperties, LenProperties, EmptySeq
  <1> HIDE DEF t
  <1>2. Head(s) \notin late
    <2> SUFFICES ASSUME s[1] \in late PROVE FALSE
      BY <1>1
    <2>1. PICK i \in DOMAIN s : i < 1
      BY <1>1 DEF Led
    <2> QED
      BY <1>1, <2>1
  <1>3. ASSUME Head(s) \notin early, NEW j \in DOMAIN t, t[j] \in late
        PROVE  \E i \in DOMAIN t : i < j /\ t[i] \in early
    <2>1. j + 1 \in DOMAIN s /\ s[j + 1] \in late
      BY <1>1, <1>3
    <2>2. PICK i \in DOMAIN s : i < j + 1 /\ s[i] \in early
      BY <2>1 DEF Led
    <2>3. i # 1
      BY <1>1, <1>3, <2>2
    <2>4. i - 1 \in DOMAIN t /\ i - 1 < j /\ t[i - 1] \in early
      BY <1>1, <1>3, <2>2, <2>3
    <2> QED
      BY <2>4
  <1> QED
    BY <1>2, <1>3 DEF Led, t

\* What the steps do to the three lists.
LEMMA OrderOnceTold ==
    ASSUME NEW p, NEW n, NEW held, NEW es, NEW w, NEW cs, NEW v, NEW ds,
           Order(p, n, held, es, w, cs), held \/ KeyExchangeReceived(p) \in Range(es)
    PROVE  Order(p, n, held, es, v, ds)
  BY DEF Order

LEMMA OrderEvent ==
    ASSUME NEW p, NEW n, NEW held, NEW es \in Seq(Events), NEW w, NEW cs,
           NEW e \in Events, Order(p, n, held, es, w, cs),
           e \notin NewsFor(p, n) \/ held \/ KeyExchangeReceived(p) \in Range(es)
    PROVE  Order(p, n, held, Append(es, e), w, cs)
  <1>1. Range(Append(es, e)) = Range(es) \cup {e}
    BY AppendHas
  <1>2. CASE held
    BY <1>2 DEF Order
  <1>3. CASE ~held
    <2>1. Led({KeyExchangeReceived(p)}, NewsFor(p, n), es)
      BY <1>3 DEF Order
    <2>2. Led({KeyExchangeReceived(p)}, NewsFor(p, n), Append(es, e))
      BY <1>3, <2>1, LedAppend
    <2> QED
      BY <1>1, <1>3, <2>2 DEF Order
  <1> QED
    BY <1>2, <1>3

LEMMA OrderEventTaken ==
    ASSUME NEW p, NEW n, NEW held, NEW es \in Seq(Events), es # << >>, NEW w, NEW cs,
           Order(p, n, held, es, w, cs)
    PROVE  Head(es) # KeyExchangeReceived(p) => Order(p, n, held, Tail(es), w, cs)
  <1>1. Range(es) = {Head(es)} \cup Range(Tail(es))
    BY TailHas
  <1>2. CASE held
    BY <1>2 DEF Order
  <1>3. CASE ~held
    <2>1. Led({KeyExchangeReceived(p)}, NewsFor(p, n), es)
      BY <1>3 DEF Order
    <2>2. Head(es) \notin {KeyExchangeReceived(p)} =>
             Led({KeyExchangeReceived(p)}, NewsFor(p, n), Tail(es))
      BY <2>1, LedTail
    <2> QED
      BY <1>1, <1>3, <2>2 DEF Order
  <1> QED
    BY <1>2, <1>3

LEMMA OrderMessage ==
    ASSUME NEW p, NEW n, NEW held, NEW es, NEW w \in Seq(Messages), NEW cs,
           NEW m \in Messages, Order(p, n, held, es, w, cs),
           \/ m \notin EnvelopesFor(n)
           \/ held \/ KeyExchangeReceived(p) \in Range(es)
           \/ Range(w) \cap KeysSent # {}
    PROVE  Order(p, n, held, es, Append(w, m), cs)
  <1>1. Range(Append(w, m)) = Range(w) \cup {m}
    BY AppendHas
  <1>2. CASE held \/ KeyExchangeReceived(p) \in Range(es)
    BY <1>2, OrderOnceTold
  <1>3. CASE ~(held \/ KeyExchangeReceived(p) \in Range(es))
    <2>1. Led(KeysSent, EnvelopesFor(n), w)
      BY <1>3 DEF Order
    <2>2. Led(KeysSent, EnvelopesFor(n), Append(w, m))
      BY <1>3, <2>1, LedAppend
    <2> QED
      BY <1>1, <1>3, <2>2 DEF Order
  <1> QED
    BY <1>2, <1>3

LEMMA OrderMessageTaken ==
    ASSUME NEW p, NEW n, NEW held, NEW es, NEW w \in Seq(Messages), w # << >>, NEW cs,
           Order(p, n, held, es, w, cs)
    PROVE  Head(w) \notin KeysSent => Order(p, n, held, es, Tail(w), cs)
  <1>1. Range(w) = {Head(w)} \cup Range(Tail(w))
    BY TailHas
  <1>2. CASE held \/ KeyExchangeReceived(p) \in Range(es)
    BY <1>2, OrderOnceTold
  <1>3. CASE ~(held \/ KeyExchangeReceived(p) \in Range(es))
    <2>1. Led(KeysSent, EnvelopesFor(n), w)
      BY <1>3 DEF Order
    <2>2. Head(w) \notin KeysSent => Led(KeysSent, EnvelopesFor(n), Tail(w))
      BY <2>1, LedTail
    <2> QED
      BY <1>1, <1>3, <2>2 DEF Order
  <1> QED
    BY <1>2, <1>3

LEMMA OrderCommands ==
    ASSUME NEW p, NEW n, NEW held, NEW es, NEW w, NEW cs \in Seq(Commands),
           NEW more \in Seq(Commands), Order(p, n, held, es, w, cs),
           \/ Range(more) \cap OrdersFor(n) = {}
           \/ held \/ KeyExchangeReceived(p) \in Range(es)
           \/ Range(w) \cap KeysSent # {}
           \/ KeyCommand \in Range(cs)
    PROVE  Order(p, n, held, es, w, cs \o more)
  <1>1. CASE held \/ KeyExchangeReceived(p) \in Range(es)
    BY <1>1, OrderOnceTold
  <1>2. CASE Range(w) \cap KeysSent # {}
    BY <1>2 DEF Order
  <1>3. CASE ~(\/ held \/ KeyExchangeReceived(p) \in Range(es)
               \/ Range(w) \cap KeysSent # {})
    <2>1. Led({KeyCommand}, OrdersFor(n), cs)
      BY <1>3 DEF Order
    <2>2. Led({KeyCommand}, OrdersFor(n), cs \o more)
      BY <1>3, <2>1, LedConcat
    <2> QED
      BY <1>3, <2>2 DEF Order
  <1> QED
    BY <1>1, <1>2, <1>3

LEMMA OrderCommandTaken ==
    ASSUME NEW p, NEW n, NEW held, NEW es, NEW w, NEW cs \in Seq(Commands), cs # << >>,
           Order(p, n, held, es, w, cs)
    PROVE  (\/ Head(cs) # KeyCommand
            \/ Range(cs) \cap OrdersFor(n) = {}
            \/ Range(w) \cap KeysSent # {})
              => Order(p, n, held, es, w, Tail(cs))
  <1>1. Range(cs) = {Head(cs)} \cup Range(Tail(cs))
    BY TailHas
  <1>2. CASE held \/ KeyExchangeReceived(p) \in Range(es)
    BY <1>2, OrderOnceTold
  <1>3. CASE Range(w) \cap KeysSent # {}
    BY <1>3 DEF Order
  <1>4. CASE ~(\/ held \/ KeyExchangeReceived(p) \in Range(es)
               \/ Range(w) \cap KeysSent # {})
    <2>1. Led({KeyCommand}, OrdersFor(n), cs)
      BY <1>4 DEF Order
    <2>2. Head(cs) \notin {KeyCommand} => Led({KeyCommand}, OrdersFor(n), Tail(cs))
      BY <2>1, LedTail
    <2>3. Range(cs) \cap OrdersFor(n) = {} => Led({KeyCommand}, OrdersFor(n), Tail(cs))
      BY <1>1, LedEmpty
    <2> QED
      BY <1>4, <2>2, <2>3 DEF Order
  <1> QED
    BY <1>2, <1>3, <1>4

-----------------------------------------------------------------------------
(* Each step keeps it. *)

\* The kinds of what is in the lists.
LEMMA Kinds ==
    /\ \A p \in Nodes : /\ PeerSubscribed(p) \in Events
                        /\ KeyExchangeReceived(p) \in Events
                        /\ KeyExchangeReceived(p).type = "key"
                        /\ PeerSubscribed(p).type = "subscribed"
                        /\ KeyExchangeReceived(p).peer = p
    /\ \A p, n : \A e \in NewsFor(p, n) : e \in Events /\ e.type = "chat"
    /\ \A m : MessageReceived(m).type = "chat" /\ MessageReceived(m).message = m
    /\ \A n : \A m \in EnvelopesFor(n) : m \in Messages /\ m.type = "chat" /\ m.reader = n
    /\ \A m \in KeysSent : m \in Messages /\ m.type = "key"
    /\ Subscription \in Messages /\ Subscription.type = "subscription"
    /\ KeyCommand.type = "key" /\ PeersCommand.type = "peers"
    /\ \A i, r : SendMessageToRoom(i, r).type = "room"
  <1>1. \A p \in Nodes : PeerSubscribed(p) \in Events /\ KeyExchangeReceived(p) \in Events
    BY MessageTypes, ChatTypes DEF Tells
  <1>2. Subscription \in Messages
    BY MessageTypes, ChatTypes DEF Carries
  <1>3. \A p : /\ KeyExchangeReceived(p).type = "key"
               /\ PeerSubscribed(p).type = "subscribed"
               /\ KeyExchangeReceived(p).peer = p
    BY EventNames
  <1>4. \A m : MessageReceived(m).type = "chat" /\ MessageReceived(m).message = m
    BY DEF MessageReceived
  <1>5. /\ Subscription.type = "subscription"
        /\ KeyCommand.type = "key" /\ PeersCommand.type = "peers"
        /\ \A i, r : SendMessageToRoom(i, r).type = "room"
    BY DEF Subscription, KeyCommand, PeersCommand, SendMessageToRoom
  <1>6. \A p, n : \A e \in NewsFor(p, n) : e \in Events /\ e.type = "chat"
    BY DEF NewsFor
  <1>7. /\ \A n : \A m \in EnvelopesFor(n) : m \in Messages /\ m.type = "chat" /\ m.reader = n
        /\ \A m \in KeysSent : m \in Messages /\ m.type = "key"
    BY DEF EnvelopesFor, KeysSent
  <1> QED
    BY <1>1, <1>2, <1>3, <1>4, <1>5, <1>6, <1>7

LEMMA ListTypes ==
    ASSUME Typed, NEW x \in Nodes, NEW y \in Nodes
    PROVE  /\ events[x] \in Seq(Events) /\ Told(x) \subseteq Events
           /\ wire[x][y] \in Seq(Messages) /\ Under(x, y) \subseteq Messages
           /\ commands[x] \in Seq(Commands) /\ Ordered(x) \subseteq Commands
           /\ wire[x][y] # << >> => {x, y} \in linked
  <1>1. \A S : \A s \in Seq(S) : Range(s) \subseteq S
    BY LenProperties DEF Range
  <1>2. /\ events[x] \in Seq(Events) /\ commands[x] \in Seq(Commands)
        /\ wire[x][y] \in Seq(Messages)
        /\ wire[x][y] # << >> => {x, y} \in linked
    BY DEF Typed, LinksOver, NodesOver, Wires
  <1> QED
    BY <1>1, <1>2 DEF Told, Under, Ordered

LEMMA PostedBy ==
    ASSUME Typed, NEW i \in 1..Len(posted)
    PROVE  /\ i \in Nat /\ posted[i] \in Posts
           /\ posted[i].from \in Nodes /\ posted[i].readers \subseteq Nodes
  <1>1. posted \in Seq(Posts) /\ Len(posted) \in Nat
    BY LenProperties DEF Typed, ChatsOK
  <1>2. posted[i] \in Posts
    BY <1>1, ElementOfSeq
  <1> QED
    BY <1>1, <1>2 DEF Posts

\* While nothing new is delivered and nothing shown, only more told.
LEMMA ArrivalsStay ==
    ASSUME Arrivals, UNCHANGED <<seen, replay, inbox>>,
           \A n \in Nodes : Told(n) \subseteq Told(n)' /\ keys[n] \subseteq keys'[n]
    PROVE  Arrivals'
  <1>1. \A n \in Nodes : ShownTo(n)' = ShownTo(n)
    BY DEF ShownTo
  <1>2. \A p : \A n \in Nodes : KeyTold(p, n) => KeyTold(p, n)'
    BY DEF KeyTold
  <1>3. SeenTold'
    BY <1>1, <1>2 DEF Arrivals, SeenTold
  <1>4. ReplaysShown' /\ AllRead'
    BY <1>1 DEF Arrivals, ReplaysShown, AllRead
  <1> QED
    BY <1>3, <1>4 DEF Arrivals

LEMMA SteadyConnect ==
    ASSUME Typed, Steady, UNCHANGED chat,
           NEW a \in Nodes, NEW b \in Nodes, Connect(a, b)
    PROVE  Steady'
  <1>1. /\ UNCHANGED <<subscribers, seen, events, commands, keys, phase, blocked>>
        /\ linked' = linked \cup {{a, b}}
        /\ UNCHANGED <<members, posted, sending, replay, inbox>>
    BY DEF Connect, vaults, chat
  <1>2. \A x, y \in Nodes :
           \/ wire'[x][y] = wire[x][y] /\ ({x, y} \in linked' => {x, y} \in linked)
           \/ /\ wire'[x][y] = Append(wire[x][y], Subscription)
              /\ wire[x][y] = << >>
    <2> SUFFICES ASSUME NEW x \in Nodes, NEW y \in Nodes
                 PROVE  \/ /\ wire'[x][y] = wire[x][y]
                           /\ {x, y} \in linked' => {x, y} \in linked
                        \/ /\ wire'[x][y] = Append(wire[x][y], Subscription)
                           /\ wire[x][y] = << >>
      OBVIOUS
    <2> DEFINE one == <<Subscription>>
               row == [wire EXCEPT ![a][b] = one]
    <2>1. wire' = [row EXCEPT ![b][a] = one] /\ wire \in Wires(Messages)
      BY DEF Connect, Typed, LinksOver
    <2>2. one = Append(<< >>, Subscription)
      OBVIOUS
    <2>3. a # b /\ {a, b} \notin linked
      BY DEF Connect
    <2>4. CASE {x, y} = {a, b}
      <3>1. (x = a /\ y = b) \/ (x = b /\ y = a)
        BY <2>4
      <3>2. wire[x][y] = << >>
        BY <2>3, <2>4 DEF Typed, LinksOver
      <3> HIDE DEF one
      <3>3. wire'[x][y] = one
        BY <2>1, <3>1 DEF Wires
      <3> QED
        BY <2>2, <3>2, <3>3
    <2>5. CASE {x, y} # {a, b}
      <3> HIDE DEF one
      <3>1. wire'[x][y] = wire[x][y]
        BY <2>1, <2>5 DEF Wires
      <3> QED
        BY <1>1, <2>5, <3>1
    <2> QED
      BY <2>4, <2>5
  <1>3. \A x, y \in Nodes : \/ Under(x, y)' = Under(x, y)
                            \/ Under(x, y)' = Under(x, y) \cup {Subscription}
    <2> SUFFICES ASSUME NEW x \in Nodes, NEW y \in Nodes
                 PROVE  \/ Under(x, y)' = Under(x, y)
                        \/ Under(x, y)' = Under(x, y) \cup {Subscription}
      OBVIOUS
    <2>1. wire[x][y] \in Seq(Messages) /\ Subscription \in Messages
      BY ListTypes, Kinds
    <2>2. Range(Append(wire[x][y], Subscription)) = Range(wire[x][y]) \cup {Subscription}
      BY <2>1, AppendHas
    <2> QED
      BY <1>2, <2>2 DEF Under
  <1>4. \A n \in Nodes : /\ Told(n)' = Told(n) /\ Ordered(n)' = Ordered(n)
                         /\ ShownTo(n)' = ShownTo(n) /\ InMesh(n)' = InMesh(n)
                         /\ Holds(n)' = Holds(n)
    BY <1>1 DEF Told, Ordered, ShownTo, InMesh, Holds
  <1>5. \A p, n \in Nodes : KeyTold(p, n)' = KeyTold(p, n)
    BY <1>1, <1>4 DEF KeyTold
  <1>6. Running'
    BY <1>1, <1>4 DEF Steady, Running
  <1>7. OwnMessages'
    BY <1>3, Kinds DEF Steady, Links, OwnMessages
  <1>8. Greeted'
    <2> SUFFICES ASSUME NEW x \in Nodes, NEW y \in Nodes, {x, y} \in linked'
                 PROVE  x \in subscribers[y] \/ Waits(wire'[x][y])
      BY <1>1 DEF Greeted
    <2>1. CASE wire'[x][y] = wire[x][y] /\ {x, y} \in linked
      BY <2>1 DEF Steady, Links, Greeted
    <2>2. CASE wire[x][y] = << >> /\ wire'[x][y] = Append(wire[x][y], Subscription)
      <3>1. wire'[x][y] = <<Subscription>>
        BY <2>2
      <3> QED
        BY <3>1, Kinds DEF Waits
    <2> QED
      BY <1>2, <2>1, <2>2
  <1>9. KeysGo'
    <2>1. KeysSubscribe' /\ OrdersKnown'
      BY <1>1, <1>4, <1>5 DEF Steady, KeysGo, KeysSubscribe, OrdersKnown
    <2>2. KeysAnswered'
      <3>1. \A p, n \in Nodes : KeyUnderWay(p, n) => KeyUnderWay(p, n)'
        BY <1>3, <1>4, <1>5 DEF KeyUnderWay
      <3> QED
        BY <1>1, <3>1 DEF Steady, KeysGo, KeysAnswered
    <2>3. InOrder'
      <3> SUFFICES ASSUME NEW p \in Nodes, NEW n \in Nodes
                   PROVE  Order(p, n, p \in keys[n], events[n], wire'[p][n], commands[p])
        BY <1>1 DEF InOrder
      <3>1. Order(p, n, p \in keys[n], events[n], wire[p][n], commands[p])
        BY DEF Steady, KeysGo, InOrder
      <3>2. Subscription \notin EnvelopesFor(n)
        BY Kinds
      <3>3. Order(p, n, p \in keys[n], events[n], Append(wire[p][n], Subscription),
                  commands[p])
        BY <3>1, <3>2, ListTypes, Kinds, OrderMessage
      <3> QED
        BY <1>2, <3>1, <3>3
    <2> QED
      BY <2>1, <2>2, <2>3 DEF KeysGo
  <1>10. Arrivals'
    BY <1>1, <1>4, ArrivalsStay DEF Steady
  <1>11. AllTravel'
    <2> SUFFICES ASSUME NEW i \in 1..Len(posted), NEW n \in posted[i].readers \cap members
                 PROVE  TravelsTo(i, n)'
      BY <1>1 DEF AllTravel
    <2>1. TravelsTo(i, n)
      BY DEF Steady, AllTravel
    <2>2. n \in Nodes /\ posted[i].from \in Nodes
      BY PostedBy
    <2> QED
      BY <1>1, <1>3, <1>4, <2>1, <2>2 DEF TravelsTo
  <1> QED
    BY <1>6, <1>7, <1>8, <1>9, <1>10, <1>11 DEF Steady, Links

\* Without forwarding a message is only taken off its link.
LEMMA NoneAimedAt ==
    ASSUME faults = 0, faults' = 0, NEW n \in Nodes, NEW targets \in SUBSET Nodes,
           faults' = faults + Cardinality(targets)
    PROVE  targets = {}
  <1>1. IsFiniteSet(targets) /\ Cardinality(targets) \in Nat
    BY OthersNat
  <1>2. Cardinality(targets) = 0
    BY <1>1
  <1> QED
    BY <1>1, <1>2, FS_EmptySet

LEMMA TakenWires ==
    ASSUME NEW M, LinksOver(M), NEW a \in Nodes, NEW b \in Nodes, wire[a][b] # << >>
    PROVE  LET taken == [wire EXCEPT ![a][b] = Tail(@)]
           IN  /\ taken \in Wires(M)
               /\ \A x, y \in Nodes :
                     taken[x][y] = IF x = a /\ y = b THEN Tail(wire[a][b]) ELSE wire[x][y]
  <1> DEFINE rest == Tail(wire[a][b])
             taken == [wire EXCEPT ![a][b] = rest]
  <1>1. rest \in Seq(M) /\ wire \in Wires(M)
    BY WiresTake DEF LinksOver
  <1> HIDE DEF rest
  <1>2. taken = Rewired(wire, a, b, rest)
    BY <1>1, WireReplaced
  <1> HIDE DEF taken
  <1>3. /\ taken \in Wires(M)
        /\ \A x, y \in Nodes : taken[x][y] = IF x = a /\ y = b THEN rest ELSE wire[x][y]
    BY <1>1, <1>2, TypedRewired
  <1> QED
    BY <1>3 DEF taken, rest

LEMMA TakesOnly ==
    ASSUME NEW M, NEW taken \in Wires(M), NEW b \in Nodes, NEW m, NEW none,
           \A x : x \notin none, wire' = taken \/ wire' = Broadcast(taken, b, none, m)
    PROVE  \A x, y \in Nodes : wire'[x][y] = taken[x][y]
  BY BroadcastWires

\* A message on a link comes from a neighbour, which is a subscriber by then.
LEMMA OnLink ==
    ASSUME Typed, Steady, NEW a \in Nodes, NEW b \in Nodes, wire[a][b] # << >>
    PROVE  LET m == Head(wire[a][b])
           IN  /\ a # b /\ m \in Messages /\ m \in Under(a, b)
               /\ Under(a, b) = {m} \cup Range(Tail(wire[a][b]))
               /\ m.type # "subscription" => a \in subscribers[b]
               /\ m.type \in {"key", "chat"} => m.source = a
  <1> DEFINE m == Head(wire[a][b])
  <1>1. wire[a][b] \in Seq(Messages) /\ {a, b} \in linked
    BY ListTypes
  <1>2. m \in Messages /\ Under(a, b) = {m} \cup Range(Tail(wire[a][b]))
    BY <1>1, TailHas DEF Under
  <1> HIDE DEF m
  <1>3. a # b
    <2> SUFFICES ASSUME a = b
                 PROVE  FALSE
      OBVIOUS
    <2>1. {a, b} = {a}
      OBVIOUS
    <2>2. Cardinality({a, b}) = 2
      BY <1>1 DEF Typed, LinksOver, Pairs
    <2>3. Cardinality({a}) = 1
      BY FS_Singleton
    <2>4. Cardinality({a, b}) = Cardinality({a})
      BY <2>1
    <2> QED
      BY <2>2, <2>3, <2>4
  <1>4. m = wire[a][b][1]
    BY <1>1 DEF m
  <1>5. m.type # "subscription" => a \in subscribers[b]
    BY <1>1, <1>4 DEF Steady, Links, Greeted, Waits
  <1>6. m.type \in {"key", "chat"} => m.source = a
    BY <1>2 DEF Steady, Links, OwnMessages
  <1> QED
    BY <1>2, <1>3, <1>5, <1>6 DEF m

\* A key or a chat message taken off its link becomes an event, unless one
\* like it has come before.
LEMMA SteadyReceived ==
    ASSUME Typed, Steady, NEW a \in Nodes, NEW b \in Nodes, wire[a][b] # << >>,
           NEW m, m = Head(wire[a][b]), m.type \in {"key", "chat"},
           NEW e, e = IF m.type = "key" THEN KeyExchangeReceived(m.source)
                                        ELSE MessageReceived(m),
           \A x, y \in Nodes : wire'[x][y] = IF x = a /\ y = b THEN Tail(wire[a][b])
                                                             ELSE wire[x][y],
           \/ (m \in seen[b] \/ m.source = b) /\ UNCHANGED <<seen, events>>
           \/ /\ seen' = [seen EXCEPT ![b] = @ \cup {m}]
              /\ events' = [events EXCEPT ![b] = Append(@, e)],
           UNCHANGED <<linked, subscribers, commands, keys, phase, blocked,
                       members, posted, sending, replay, inbox>>
    PROVE  Steady'
  <1>1. /\ a # b /\ m \in Messages /\ a \in subscribers[b] /\ m.source = a
        /\ Under(a, b) = {m} \cup Range(Tail(wire[a][b]))
    BY OnLink
  <1>2. /\ Under(a, b) = {m} \cup Under(a, b)'
        /\ \A x, y \in Nodes : x # a \/ y # b => Under(x, y)' = Under(x, y)
    <2>1. wire'[a][b] = Tail(wire[a][b])
      OBVIOUS
    <2>2. \A x, y \in Nodes : x # a \/ y # b => wire'[x][y] = wire[x][y]
      OBVIOUS
    <2> QED
      BY <1>1, <2>1, <2>2 DEF Under
  <1>3. e \in Events /\ (m.type = "chat" => e = MessageReceived(m))
        /\ (m.type = "key" => e = KeyExchangeReceived(a))
    <2>1. m.type = "chat" => MessageReceived(m) \in Events
      BY <1>1, ChatTypes
    <2> QED
      BY <1>1, <2>1, Kinds
  <1>4. \A x \in Nodes \ {b} : /\ seen'[x] = seen[x] /\ events'[x] = events[x]
                               /\ Told(x)' = Told(x)
    BY DEF Told, Typed, ChatsOK, NodesOver
  <1>5. \/ m \in seen[b] /\ seen'[b] = seen[b] /\ events'[b] = events[b] /\ Told(b)' = Told(b)
        \/ /\ seen'[b] = seen[b] \cup {m}
           /\ events'[b] = Append(events[b], e) /\ Told(b)' = Told(b) \cup {e}
    <2>1. CASE m \in seen[b] /\ UNCHANGED <<seen, events>>
      BY <2>1 DEF Told
    <2>2. CASE /\ seen' = [seen EXCEPT ![b] = @ \cup {m}]
               /\ events' = [events EXCEPT ![b] = Append(@, e)]
      <3>1. seen'[b] = seen[b] \cup {m}
        BY <2>2 DEF Typed, ChatsOK
      <3>2. events'[b] = Append(events[b], e) /\ Told(b)' = Told(b) \cup {e}
        BY <1>3, <2>2, EventsMore DEF Typed
      <3> QED
        BY <3>1, <3>2
    <2> QED
      BY <1>1, <2>1, <2>2
  <1>6. \A x \in Nodes : /\ Ordered(x)' = Ordered(x) /\ ShownTo(x)' = ShownTo(x)
                         /\ InMesh(x)' = InMesh(x) /\ Holds(x)' = Holds(x)
                         /\ Told(x) \subseteq Told(x)'
    BY <1>4, <1>5 DEF Ordered, ShownTo, InMesh, Holds
  <1>7. \A p : \A x \in Nodes : KeyTold(p, x) => KeyTold(p, x)'
    BY <1>6 DEF KeyTold
  <1>8. /\ m.type = "key" => KeyTold(a, b)'
        /\ m.type = "chat" /\ m.reader = b =>
              /\ KeyTold(a, b)
              /\ m.post \in ShownTo(b) \/ MessageReceived(m) \in Told(b)'
    <2>1. CASE m \in seen[b]
      BY <1>1, <1>6, <1>7, <2>1 DEF Steady, Arrivals, SeenTold
    <2>2. CASE m \notin seen[b]
      <3>1. e \in Told(b)'
        BY <1>5, <2>2
      <3>2. m.type = "chat" /\ m.reader = b => KeyTold(a, b)
        <4>1. Order(a, b, a \in keys[b], events[b], wire[a][b], commands[a])
          BY DEF Steady, KeysGo, InOrder
        <4>2. wire[a][b] \in Seq(Messages)
          BY ListTypes
        <4>3. ~KeyTold(a, b) => Led(KeysSent, EnvelopesFor(b), wire[a][b])
          BY <4>1 DEF Order, KeyTold, Told
        <4>4. ~KeyTold(a, b) => m \notin EnvelopesFor(b)
          BY <4>2, <4>3, LedTail
        <4> QED
          BY <1>1, <4>4 DEF EnvelopesFor
      <3> QED
        BY <1>3, <3>1, <3>2 DEF KeyTold
    <2> QED
      BY <2>1, <2>2
  <1>9. Running'
    BY <1>6 DEF Steady, Running
  <1>10. Links'
    <2>1. OwnMessages'
      BY <1>2 DEF Steady, Links, OwnMessages
    <2>2. Greeted'
      <3> SUFFICES ASSUME NEW x \in Nodes, NEW y \in Nodes, {x, y} \in linked
                   PROVE  x \in subscribers[y] \/ Waits(wire'[x][y])
        BY DEF Greeted
      <3>1. CASE x = a /\ y = b
        BY <1>1, <3>1
      <3>2. CASE ~(x = a /\ y = b)
        BY <3>2 DEF Steady, Links, Greeted
      <3> QED
        BY <3>1, <3>2
    <2> QED
      BY <2>1, <2>2 DEF Links
  <1>11. KeysGo'
    <2>1. KeysSubscribe'
      <3> SUFFICES ASSUME NEW p \in Nodes, NEW n \in Nodes, KeyTold(n, p)'
                   PROVE  n \in subscribers[p]
        BY DEF KeysSubscribe
      <3>1. KeyTold(n, p) \/ (p = b /\ n = a)
        <4>1. KeyExchangeReceived(n) = e => n = a
          BY <1>3, Kinds, EventNames
        <4> QED
          BY <1>4, <1>5, <4>1 DEF KeyTold
      <3> QED
        BY <1>1, <3>1 DEF Steady, KeysGo, KeysSubscribe
    <2>2. OrdersKnown'
      BY <1>6 DEF Steady, KeysGo, OrdersKnown
    <2>3. KeysAnswered'
      <3> SUFFICES ASSUME NEW p \in Nodes, NEW n \in Nodes, n \in keys[p], p \notin blocked
                   PROVE  KeyUnderWay(p, n)'
        BY DEF KeysAnswered
      <3>1. KeyUnderWay(p, n)
        BY DEF Steady, KeysGo, KeysAnswered
      <3>2. Under(p, n) \cap KeysSent # {} => Under(p, n)' \cap KeysSent # {} \/ KeyTold(p, n)'
        BY <1>2, <1>8, Kinds
      <3> QED
        BY <1>6, <1>7, <3>1, <3>2 DEF KeyUnderWay
    <2>4. InOrder'
      <3> SUFFICES ASSUME NEW p \in Nodes, NEW n \in Nodes
                   PROVE  Order(p, n, p \in keys[n], events'[n], wire'[p][n], commands[p])
        BY DEF InOrder
      <3>1. Order(p, n, p \in keys[n], events[n], wire[p][n], commands[p])
        BY DEF Steady, KeysGo, InOrder
      <3>2. CASE n # b
        BY <1>4, <3>1, <3>2
      <3>3. CASE n = b /\ p # a
        <4>1. e \notin NewsFor(p, b)
          BY <1>1, <1>3, <3>3, Kinds DEF NewsFor
        <4>2. Order(p, b, p \in keys[b], Append(events[b], e), wire[p][b], commands[p])
          BY <1>3, <3>1, <3>3, <4>1, ListTypes, OrderEvent
        <4> QED
          BY <1>5, <3>1, <3>3, <4>2
      <3>4. CASE n = b /\ p = a /\ m.type = "key"
        <4>1. e \notin NewsFor(a, b)
          BY <1>3, <3>4, Kinds
        <4>2. Order(a, b, a \in keys[b], Append(events[b], e), wire[a][b], commands[a])
          BY <1>3, <3>1, <3>4, <4>1, ListTypes, OrderEvent
        <4>3. Order(a, b, a \in keys[b], events'[b], wire[a][b], commands[a])
          BY <1>5, <3>1, <3>4, <4>2
        <4>4. a \in keys[b] \/ KeyExchangeReceived(a) \in Range(events'[b])
          BY <1>8, <3>4 DEF KeyTold, Told
        <4>5. Order(a, b, a \in keys[b], events'[b], wire'[a][b], commands[a])
          BY <4>3, <4>4, OrderOnceTold
        <4> QED
          BY <3>4, <4>5
      <3>5. CASE n = b /\ p = a /\ m.type = "chat"
        <4>1. /\ m \notin KeysSent
              /\ Order(a, b, a \in keys[b], events[b], wire[a][b], commands[a])
          BY <3>1, <3>5, Kinds
        <4>2. Order(a, b, a \in keys[b], events[b], Tail(wire[a][b]), commands[a])
          BY <4>1, ListTypes, OrderMessageTaken
        <4>3. \/ e \notin NewsFor(a, b)
              \/ a \in keys[b] \/ KeyExchangeReceived(a) \in Range(events[b])
          <5>1. e \in NewsFor(a, b) => m.reader = b
            BY <1>3, <3>5, Kinds DEF NewsFor
          <5> QED
            BY <1>8, <3>5, <5>1 DEF KeyTold, Told
        <4>4. Order(a, b, a \in keys[b], Append(events[b], e), Tail(wire[a][b]), commands[a])
          BY <1>3, <4>2, <4>3, ListTypes, OrderEvent
        <4>5. wire'[a][b] = Tail(wire[a][b])
          OBVIOUS
        <4> QED
          BY <1>5, <3>5, <4>2, <4>4, <4>5
      <3> QED
        BY <3>2, <3>3, <3>4, <3>5
    <2> QED
      BY <2>1, <2>2, <2>3, <2>4 DEF KeysGo
  <1>12. Arrivals'
    <2>1. SeenTold'
      <3> SUFFICES ASSUME NEW n \in Nodes, NEW k \in seen'[n]
                   PROVE  /\ k.type = "key" => KeyTold(k.source, n)'
                          /\ k.type = "chat" /\ k.reader = n =>
                                /\ KeyTold(k.source, n)'
                                /\ k.post \in ShownTo(n)' \/ MessageReceived(k) \in Told(n)'
        BY DEF SeenTold
      <3>1. CASE k \in seen[n]
        BY <1>6, <1>7, <3>1 DEF Steady, Arrivals, SeenTold
      <3>2. CASE n = b /\ k = m
        BY <1>1, <1>6, <1>7, <1>8, <3>2
      <3> QED
        BY <1>4, <1>5, <3>1, <3>2
    <2>2. ReplaysShown' /\ AllRead'
      BY <1>6 DEF Steady, Arrivals, ReplaysShown, AllRead
    <2> QED
      BY <2>1, <2>2 DEF Arrivals
  <1>13. AllTravel'
    <2> SUFFICES ASSUME NEW i \in 1..Len(posted), NEW n \in posted[i].readers \cap members
                 PROVE  TravelsTo(i, n)'
      BY DEF AllTravel
    <2>1. TravelsTo(i, n)
      BY DEF Steady, AllTravel
    <2>2. n \in Nodes /\ posted[i].from \in Nodes
      BY PostedBy
    <2> DEFINE from == posted[i].from
               k == ChatMessage(from, i, n)
    <2>3. CASE k \in Under(from, n)
      <3>1. k \in Under(from, n)' \/ (from = a /\ n = b /\ k = m)
        BY <1>2, <2>2, <2>3
      <3>2. k.type = "chat" /\ k.reader = n /\ k.post = i
        BY DEF ChatMessage
      <3> HIDE DEF k
      <3>3. k \in Under(from, n)' \/ i \in ShownTo(n)' \/ MessageReceived(k) \in Told(n)'
        BY <1>6, <1>8, <3>1, <3>2, <2>2
      <3> QED
        BY <3>3 DEF TravelsTo, k
    <2>4. CASE k \notin Under(from, n)
      BY <1>6, <2>1, <2>2, <2>4 DEF TravelsTo
    <2> QED
      BY <2>3, <2>4
  <1> QED
    BY <1>9, <1>10, <1>11, <1>12, <1>13 DEF Steady

\* A subscription taken off its link makes a subscriber.
LEMMA SteadySubscription ==
    ASSUME Typed, Steady, UNCHANGED chat,
           NEW a \in Nodes, NEW b \in Nodes, ReceiveSubscription(a, b)
    PROVE  Steady'
  <1> DEFINE e == PeerSubscribed(a)
  <1>1. /\ UNCHANGED <<linked, seen, commands, keys, phase, blocked, members, posted,
                       sending, replay, inbox>>
        /\ wire[a][b] # << >> /\ Head(wire[a][b]).type = "subscription"
        /\ events' = [events EXCEPT ![b] = Append(@, e)]
        /\ \A y \in Nodes : subscribers'[y] = IF y = b THEN subscribers[y] \cup {a}
                                                       ELSE subscribers[y]
    BY DEF ReceiveSubscription, Take, vaults, chat, Typed, LinksOver
  <1>2. \A x, y \in Nodes : wire'[x][y] = IF x = a /\ y = b THEN Tail(wire[a][b])
                                                             ELSE wire[x][y]
    BY ChatTypes, WiresReceiveSubscription DEF Typed
  <1>3. /\ Under(a, b) = {Head(wire[a][b])} \cup Under(a, b)'
        /\ \A x, y \in Nodes : x # a \/ y # b => Under(x, y)' = Under(x, y)
    <2>1. Under(a, b) = {Head(wire[a][b])} \cup Range(Tail(wire[a][b]))
      BY <1>1, OnLink
    <2>2. wire'[a][b] = Tail(wire[a][b])
      BY <1>2
    <2>3. \A x, y \in Nodes : x # a \/ y # b => wire'[x][y] = wire[x][y]
      BY <1>2
    <2> QED
      BY <2>1, <2>2, <2>3 DEF Under
  <1>4. e \in Events /\ e.type = "subscribed"
    BY Kinds
  <1> HIDE DEF e
  <1>5. /\ events'[b] = Append(events[b], e) /\ Told(b)' = Told(b) \cup {e}
        /\ \A x \in Nodes \ {b} : events'[x] = events[x] /\ Told(x)' = Told(x)
    BY <1>1, <1>4, EventsMore DEF Typed, Told
  <1>6. \A x \in Nodes : /\ Ordered(x)' = Ordered(x) /\ ShownTo(x)' = ShownTo(x)
                         /\ InMesh(x) \subseteq InMesh(x)' /\ Holds(x)' = Holds(x)
                         /\ Told(x) \subseteq Told(x)'
                         /\ subscribers[x] \subseteq subscribers'[x]
    BY <1>1, <1>5 DEF Ordered, ShownTo, InMesh, Holds
  <1>7. \A p : \A x \in Nodes : KeyTold(p, x)' = KeyTold(p, x)
    <2>1. \A p : KeyExchangeReceived(p) # e
      BY <1>4, EventNames
    <2> QED
      BY <1>1, <1>5, <2>1 DEF KeyTold
  <1>8. Running'
    BY <1>1, <1>6 DEF Steady, Running
  <1>9. Links'
    <2>1. OwnMessages'
      BY <1>3 DEF Steady, Links, OwnMessages
    <2>2. Greeted'
      <3> SUFFICES ASSUME NEW x \in Nodes, NEW y \in Nodes, {x, y} \in linked
                   PROVE  x \in subscribers'[y] \/ Waits(wire'[x][y])
        BY <1>1 DEF Greeted
      <3>1. CASE x = a /\ y = b
        BY <1>1, <3>1
      <3>2. CASE ~(x = a /\ y = b)
        <4>1. x \in subscribers[y] \/ Waits(wire[x][y])
          BY DEF Steady, Links, Greeted
        <4>2. wire'[x][y] = wire[x][y]
          BY <1>2, <3>2
        <4> QED
          BY <1>6, <4>1, <4>2
      <3> QED
        BY <3>1, <3>2
    <2> QED
      BY <2>1, <2>2 DEF Links
  <1>10. KeysGo'
    <2>1. KeysSubscribe'
      BY <1>6, <1>7 DEF Steady, KeysGo, KeysSubscribe
    <2>2. OrdersKnown'
      BY <1>1, <1>6 DEF Steady, KeysGo, OrdersKnown
    <2>3. KeysAnswered'
      <3>1. \A p, n \in Nodes : KeyUnderWay(p, n) => KeyUnderWay(p, n)'
        <4>1. Head(wire[a][b]) \notin KeysSent
          BY <1>1, Kinds
        <4>2. \A p, n \in Nodes : Under(p, n) \cap KeysSent = Under(p, n)' \cap KeysSent
          BY <1>3, <4>1
        <4> QED
          BY <1>6, <1>7, <4>2 DEF KeyUnderWay
      <3> QED
        BY <1>1, <3>1 DEF Steady, KeysGo, KeysAnswered
    <2>4. InOrder'
      <3> SUFFICES ASSUME NEW p \in Nodes, NEW n \in Nodes
                   PROVE  Order(p, n, p \in keys[n], events'[n], wire'[p][n], commands[p])
        BY <1>1 DEF InOrder
      <3>1. Order(p, n, p \in keys[n], events[n], wire[p][n], commands[p])
        BY DEF Steady, KeysGo, InOrder
      <3>2. Order(p, n, p \in keys[n], events[n], wire'[p][n], commands[p])
        <4>1. CASE p = a /\ n = b
          <5>1. wire[a][b] \in Seq(Messages) /\ wire[a][b] # << >>
                /\ Head(wire[a][b]) \notin KeysSent
            BY <1>1, ListTypes, Kinds
          <5>2. Order(a, b, a \in keys[b], events[b], Tail(wire[a][b]), commands[a])
            BY <3>1, <4>1, <5>1, OrderMessageTaken
          <5> QED
            BY <1>2, <4>1, <5>2
        <4>2. CASE ~(p = a /\ n = b)
          BY <1>2, <3>1, <4>2
        <4> QED
          BY <4>1, <4>2
      <3>3. CASE n = b
        <4>1. e \notin NewsFor(p, n) /\ events[n] \in Seq(Events)
          BY <1>4, Kinds, ListTypes
        <4>2. Order(p, n, p \in keys[n], Append(events[n], e), wire'[p][n], commands[p])
          BY <1>4, <3>2, <4>1, OrderEvent
        <4> QED
          BY <1>5, <3>3, <4>2
      <3>4. CASE n # b
        BY <1>5, <3>2, <3>4
      <3> QED
        BY <3>3, <3>4
    <2> QED
      BY <2>1, <2>2, <2>3, <2>4 DEF KeysGo
  <1>11. Arrivals'
    BY <1>1, <1>6, ArrivalsStay DEF Steady
  <1>12. AllTravel'
    <2> SUFFICES ASSUME NEW i \in 1..Len(posted), NEW n \in posted[i].readers \cap members
                 PROVE  TravelsTo(i, n)'
      BY <1>1 DEF AllTravel
    <2>1. TravelsTo(i, n)
      BY DEF Steady, AllTravel
    <2>2. n \in Nodes /\ posted[i].from \in Nodes
      BY PostedBy
    <2> DEFINE from == posted[i].from
               k == ChatMessage(from, i, n)
    <2>3. k # Head(wire[a][b])
      BY <1>1 DEF ChatMessage
    <2>4. k \in Under(from, n) => k \in Under(from, n)'
      BY <1>1, <1>3, <2>2, <2>3
    <2> QED
      BY <1>1, <1>6, <2>1, <2>2, <2>4 DEF TravelsTo
  <1> QED
    BY <1>8, <1>9, <1>10, <1>11, <1>12 DEF Steady

\* A command taken by the loop of n: a key goes to all subscribers, a message
\* to those in the room, an answer to nobody.
LEMMA SteadyPublished ==
    ASSUME Typed, Steady, NEW n \in Nodes, NEW type, NextCommand(n, type),
           NEW c, c = Head(commands[n]), NEW m \in Messages, NEW targets,
           \A x, y \in Nodes : wire'[x][y] = IF x = n /\ y \in targets
                                             THEN Append(wire[x][y], m) ELSE wire[x][y],
           m.type # "subscription", m.source = n,
           \/ c = KeyCommand /\ m \in KeysSent /\ targets = subscribers[n]
           \/ /\ type = "room" /\ m = ChatMessage(n, c.post, c.reader)
              /\ targets = InMesh(n)
           \/ type = "peers" /\ targets = {},
           UNCHANGED <<linked, subscribers, seen, events, keys, phase, blocked,
                       members, posted, replay, inbox>>,
           \A x \in Nodes : Holds(x)' = Holds(x)
    PROVE  Steady'
  <1>1. /\ commands[n] \in Seq(Commands) /\ commands[n] # << >>
        /\ commands'[n] = Tail(commands[n])
        /\ \A x \in Nodes \ {n} : commands'[x] = commands[x]
        /\ c \in Commands /\ c.type = type
        /\ Ordered(n) = Ordered(n)' \cup {c}
    BY CommandsLess DEF Typed
  <1>2. \A x \in Nodes \ {n} : Ordered(x)' = Ordered(x)
    BY <1>1 DEF Ordered
  <1>3. \A x, y \in Nodes : Under(x, y)' = IF x = n /\ y \in targets
                                           THEN Under(x, y) \cup {m} ELSE Under(x, y)
    <2> SUFFICES ASSUME NEW x \in Nodes, NEW y \in Nodes
                 PROVE  Under(x, y)' = IF x = n /\ y \in targets
                                       THEN Under(x, y) \cup {m} ELSE Under(x, y)
      OBVIOUS
    <2>1. wire[x][y] \in Seq(Messages)
      BY ListTypes
    <2>2. Range(Append(wire[x][y], m)) = Range(wire[x][y]) \cup {m}
      BY <2>1, AppendHas
    <2>3. CASE x = n /\ y \in targets
      <3>1. wire'[x][y] = Append(wire[x][y], m)
        BY <2>3
      <3> QED
        BY <2>2, <2>3, <3>1 DEF Under
    <2>4. CASE ~(x = n /\ y \in targets)
      <3>1. wire'[x][y] = wire[x][y]
        BY <2>4
      <3> QED
        BY <2>4, <3>1 DEF Under
    <2> QED
      BY <2>3, <2>4
  <1>4. \A x \in Nodes : /\ Told(x)' = Told(x) /\ ShownTo(x)' = ShownTo(x)
                         /\ InMesh(x)' = InMesh(x) /\ Ordered(x)' \subseteq Ordered(x)
    BY <1>1, <1>2 DEF Told, ShownTo, InMesh
  <1>5. \A p : \A x \in Nodes : KeyTold(p, x)' = KeyTold(p, x)
    BY <1>4 DEF KeyTold
  <1>6. Running'
    BY DEF Steady, Running
  <1>7. Links'
    <2>1. OwnMessages'
      BY <1>3 DEF Steady, Links, OwnMessages
    <2>2. Greeted'
      <3> SUFFICES ASSUME NEW x \in Nodes, NEW y \in Nodes, Waits(wire[x][y])
                   PROVE  Waits(wire'[x][y])
        BY DEF Steady, Links, Greeted
      <3>1. wire[x][y] \in Seq(Messages) /\ wire[x][y] # << >>
        BY ListTypes DEF Waits
      <3>2. Append(wire[x][y], m) # << >> /\ Append(wire[x][y], m)[1] = wire[x][y][1]
        BY <3>1, AppendProperties, LenProperties, EmptySeq
      <3>3. wire'[x][y] \in {wire[x][y], Append(wire[x][y], m)}
        OBVIOUS
      <3> QED
        BY <3>2, <3>3 DEF Waits
    <2> QED
      BY <2>1, <2>2 DEF Links
  <1>8. KeysGo'
    <2>1. KeysSubscribe'
      BY <1>5 DEF Steady, KeysGo, KeysSubscribe
    <2>2. OrdersKnown'
      BY <1>4 DEF Steady, KeysGo, OrdersKnown
    <2>3. \A x \in keys[n] : x \in subscribers[n]
      <3>1. keys[n] \subseteq Nodes
        BY DEF Typed, NodesOver
      <3> QED
        BY <3>1 DEF Steady, KeysGo, KeysSubscribe, KeyTold
    <2>4. KeysAnswered'
      <3> SUFFICES ASSUME NEW p \in Nodes, NEW x \in Nodes, x \in keys[p], p \notin blocked
                   PROVE  KeyUnderWay(p, x)'
        BY DEF KeysAnswered
      <3>1. KeyUnderWay(p, x)
        BY DEF Steady, KeysGo, KeysAnswered
      <3>2. Under(p, x) \subseteq Under(p, x)'
        BY <1>3
      <3>3. KeyCommand \in Ordered(p) =>
               KeyCommand \in Ordered(p)' \/ (p = n /\ c = KeyCommand)
        BY <1>1, <1>2
      <3>4. CASE p = n /\ c = KeyCommand
        <4>1. c.type = "key"
          BY <3>4, Kinds
        <4>2. m \in KeysSent /\ targets = subscribers[n]
          BY <1>1, <4>1
        <4>3. m \in Under(p, x)'
          BY <1>3, <2>3, <3>4, <4>2
        <4> QED
          BY <4>2, <4>3 DEF KeyUnderWay
      <3>5. CASE ~(p = n /\ c = KeyCommand)
        BY <1>5, <3>1, <3>2, <3>3, <3>5 DEF KeyUnderWay
      <3> QED
        BY <3>4, <3>5
    <2>5. InOrder'
      <3> SUFFICES ASSUME NEW p \in Nodes, NEW x \in Nodes
                   PROVE  Order(p, x, p \in keys[x], events[x], wire'[p][x], commands'[p])
        BY DEF InOrder
      <3>1. Order(p, x, p \in keys[x], events[x], wire[p][x], commands[p])
        BY DEF Steady, KeysGo, InOrder
      <3>2. CASE p # n
        BY <1>1, <3>1, <3>2
      <3>3. CASE p = n
        <4> DEFINE w == wire[n][x]
                   cs == commands[n]
        <4>1. w \in Seq(Messages) /\ cs \in Seq(Commands) /\ cs # << >>
          BY <1>1, ListTypes
        <4>2. \/ x \notin targets
              \/ m \notin EnvelopesFor(x)
              \/ KeyTold(n, x)
              \/ Range(w) \cap KeysSent # {}
          <5> SUFFICES ASSUME x \in targets, m \in EnvelopesFor(x), ~KeyTold(n, x),
                              Range(w) \cap KeysSent = {}
                       PROVE  FALSE
            OBVIOUS
          <5>1. Led({KeyCommand}, OrdersFor(x), cs)
            BY <3>1, <3>3 DEF Order, KeyTold, Told
          <5>2. c \notin OrdersFor(x)
            BY <4>1, <5>1, LedTail
          <5>3. CASE m \in KeysSent
            BY <5>3, Kinds
          <5>4. CASE type = "room" /\ m = ChatMessage(n, c.post, c.reader)
            BY <1>1, <5>2, <5>4 DEF EnvelopesFor, OrdersFor, ChatMessage
          <5> QED
            BY <1>1, <5>3, <5>4
        <4>3. CASE x \in targets
          <5> DEFINE v == Append(w, m)
          <5>1. Order(n, x, n \in keys[x], events[x], v, cs)
            BY <3>1, <3>3, <4>1, <4>2, <4>3, OrderMessage DEF KeyTold, Told
          <5>2. Range(v) = Range(w) \cup {m}
            BY <4>1, AppendHas
          <5>3. c = KeyCommand => Range(v) \cap KeysSent # {}
            BY <1>1, <5>2, Kinds
          <5>4. wire'[n][x] = v
            BY <4>3
          <5> HIDE DEF v, cs
          <5>5. Order(n, x, n \in keys[x], events[x], v, Tail(cs))
            BY <4>1, <5>1, <5>3, OrderCommandTaken DEF cs
          <5> QED
            BY <1>1, <3>3, <5>4, <5>5 DEF cs
        <4>4. CASE x \notin targets
          <5>1. c = KeyCommand => Range(cs) \cap OrdersFor(x) = {}
            <6>1. c = KeyCommand => targets = subscribers[n]
              BY <1>1, Kinds
            <6> QED
              BY <2>3, <4>4, <6>1 DEF Steady, KeysGo, OrdersKnown, Ordered
          <5>2. wire'[n][x] = w
            BY <4>4
          <5> HIDE DEF cs, w
          <5>3. Order(n, x, n \in keys[x], events[x], w, cs)
            BY <3>1, <3>3 DEF cs, w
          <5>4. Order(n, x, n \in keys[x], events[x], w, Tail(cs))
            BY <4>1, <5>1, <5>3, OrderCommandTaken DEF cs
          <5> QED
            BY <1>1, <3>3, <5>2, <5>4 DEF cs
        <4> QED
          BY <4>3, <4>4
      <3> QED
        BY <3>2, <3>3
    <2> QED
      BY <2>1, <2>2, <2>4, <2>5 DEF KeysGo
  <1>9. Arrivals'
    BY <1>4, ArrivalsStay DEF Steady
  <1>10. AllTravel'
    <2> SUFFICES ASSUME NEW i \in 1..Len(posted), NEW x \in posted[i].readers \cap members
                 PROVE  TravelsTo(i, x)'
      BY DEF AllTravel
    <2>1. TravelsTo(i, x)
      BY DEF Steady, AllTravel
    <2>2. x \in Nodes /\ posted[i].from \in Nodes
      BY PostedBy
    <2> DEFINE from == posted[i].from
               order == SendMessageToRoom(i, x)
    <2>3. CASE order \in Ordered(from) /\ x \in InMesh(from)
      <3>1. order \in Ordered(from)' \/ (from = n /\ order = c)
        BY <1>1, <1>2, <2>2, <2>3
      <3>2. CASE from = n /\ order = c
        <4>1. c.type = "room" /\ c.post = i /\ c.reader = x
          BY <3>2 DEF SendMessageToRoom
        <4>2. m = ChatMessage(from, i, x) /\ x \in targets
          BY <1>1, <2>3, <3>2, <4>1, Kinds
        <4>3. m \in Under(from, x)'
          BY <1>3, <2>2, <3>2, <4>2
        <4> QED
          BY <4>2, <4>3 DEF TravelsTo
      <3> QED
        BY <1>4, <2>2, <2>3, <3>1, <3>2 DEF TravelsTo
    <2>4. CASE ~(order \in Ordered(from) /\ x \in InMesh(from))
      <3>1. Under(from, x) \subseteq Under(from, x)'
        BY <1>3, <2>2
      <3> QED
        BY <1>4, <2>1, <2>2, <2>4, <3>1 DEF TravelsTo
    <2> QED
      BY <2>3, <2>4
  <1> QED
    BY <1>6, <1>7, <1>8, <1>9, <1>10 DEF Steady


\* Commands added behind those there are: messages only for nodes whose key is
\* held, and for new readers of posts of the node.
LEMMA SteadyOrdered ==
    ASSUME Typed, Typed', Steady, NEW n \in Nodes, NEW more \in Seq(Commands),
           commands'[n] = commands[n] \o more,
           \A x \in Nodes \ {n} : commands'[x] = commands[x],
           \A x \in Nodes : Range(more) \cap OrdersFor(x) # {} =>
              x \in keys[n] /\ n \notin blocked,
           UNCHANGED <<linked, wire, subscribers, seen, events, keys, phase, blocked,
                       members, replay, inbox>>,
           \A x \in Nodes : Holds(x)' => x \notin blocked,
           \A i \in 1..Len(posted') : \A x \in posted'[i].readers \cap members :
              \/ /\ i \in 1..Len(posted) /\ x \in posted[i].readers
                 /\ posted'[i].from = posted[i].from
              \/ posted'[i].from = n /\ SendMessageToRoom(i, x) \in Range(more)
    PROVE  Steady'
  <1>1. /\ Ordered(n)' = Ordered(n) \cup Range(more)
        /\ \A x \in Nodes \ {n} : Ordered(x)' = Ordered(x)
        /\ Range(more) \subseteq Commands
    <2>1. commands[n] \in Seq(Commands)
      BY ListTypes
    <2>2. Range(commands[n] \o more) = Range(commands[n]) \cup Range(more)
      BY <2>1, ConcatHas
    <2>3. Range(more) \subseteq Commands
      BY LenProperties DEF Range
    <2> QED
      BY <2>2, <2>3 DEF Ordered
  <1>2. \A x \in Nodes : /\ Ordered(x) \subseteq Ordered(x)' /\ Told(x)' = Told(x)
                         /\ ShownTo(x)' = ShownTo(x) /\ InMesh(x)' = InMesh(x)
    BY <1>1 DEF Told, ShownTo, InMesh
  <1>3. \A x, y \in Nodes : Under(x, y)' = Under(x, y) /\ wire'[x][y] = wire[x][y]
    BY DEF Under
  <1>4. \A p : \A x \in Nodes : KeyTold(p, x)' = KeyTold(p, x)
    BY <1>2 DEF KeyTold
  <1>5. Running'
    BY DEF Steady, Running
  <1>6. Links'
    BY <1>3 DEF Steady, Links, OwnMessages, Greeted
  <1>7. KeysGo'
    <2>1. KeysSubscribe'
      BY <1>4 DEF Steady, KeysGo, KeysSubscribe
    <2>2. OrdersKnown'
      <3> SUFFICES ASSUME NEW p \in Nodes, NEW x \in Nodes,
                          Ordered(p)' \cap OrdersFor(x) # {}
                   PROVE  x \in keys[p]
        BY DEF OrdersKnown
      <3>1. Ordered(p) \cap OrdersFor(x) # {} \/ (p = n /\ Range(more) \cap OrdersFor(x) # {})
        BY <1>1
      <3> QED
        BY <3>1 DEF Steady, KeysGo, OrdersKnown
    <2>3. KeysAnswered'
      BY <1>2, <1>3, <1>4 DEF Steady, KeysGo, KeysAnswered, KeyUnderWay
    <2>4. InOrder'
      <3> SUFFICES ASSUME NEW p \in Nodes, NEW x \in Nodes
                   PROVE  Order(p, x, p \in keys[x], events[x], wire[p][x], commands'[p])
        BY DEF InOrder
      <3>1. Order(p, x, p \in keys[x], events[x], wire[p][x], commands[p])
        BY DEF Steady, KeysGo, InOrder
      <3>2. CASE p = n
        <4>1. \/ Range(more) \cap OrdersFor(x) = {}
              \/ n \in keys[x] \/ KeyExchangeReceived(n) \in Range(events[x])
              \/ Range(wire[n][x]) \cap KeysSent # {}
              \/ KeyCommand \in Range(commands[n])
          BY DEF Steady, KeysGo, KeysAnswered, KeyUnderWay, KeyTold, Told, Under, Ordered
        <4>2. commands[n] \in Seq(Commands)
          BY ListTypes
        <4>3. Order(n, x, n \in keys[x], events[x], wire[n][x], commands[n] \o more)
          BY <3>1, <3>2, <4>1, <4>2, OrderCommands
        <4> QED
          BY <3>2, <4>3
      <3>3. CASE p # n
        BY <3>1, <3>3
      <3> QED
        BY <3>2, <3>3
    <2> QED
      BY <2>1, <2>2, <2>3, <2>4 DEF KeysGo
  <1>8. Arrivals'
    BY <1>2, ArrivalsStay DEF Steady
  <1>9. AllTravel'
    <2> SUFFICES ASSUME NEW i \in 1..Len(posted'), NEW x \in posted'[i].readers \cap members
                 PROVE  TravelsTo(i, x)'
      BY DEF AllTravel
    <2>1. x \in Nodes
      BY DEF Typed, ChatsOK, Memberships
    <2>2. CASE /\ i \in 1..Len(posted) /\ x \in posted[i].readers
               /\ posted'[i].from = posted[i].from
      <3>1. TravelsTo(i, x) /\ posted[i].from \in Nodes
        BY <2>2, PostedBy DEF Steady, AllTravel
      <3> QED
        BY <1>2, <1>3, <2>1, <2>2, <3>1 DEF TravelsTo
    <2>3. CASE posted'[i].from = n /\ SendMessageToRoom(i, x) \in Range(more)
      <3>1. SendMessageToRoom(i, x) \in OrdersFor(x)
        BY <1>1, <2>3 DEF OrdersFor, SendMessageToRoom
      <3>2. x \in keys[n]
        BY <2>1, <2>3, <3>1
      <3>3. x \in subscribers[n]
        BY <2>1, <3>2 DEF Steady, KeysGo, KeysSubscribe, KeyTold
      <3>4. x \in InMesh(n)'
        BY <1>2, <3>3 DEF InMesh
      <3> QED
        BY <1>1, <2>3, <3>4 DEF TravelsTo
    <2> QED
      BY <2>2, <2>3
  <1> QED
    BY <1>5, <1>6, <1>7, <1>8, <1>9 DEF Steady


\* A subscription or a key handled by the event task of n: what it holds it
\* has been told of, and a key that is new it answers, unless it blocks itself.
LEMMA SteadyHandled ==
    ASSUME Typed, Steady, UNCHANGED chat, NEW n \in Nodes, ~Holds(n), EventTask(n)
    PROVE  Steady'
  <1> DEFINE e == Head(events[n])
             p == e.peer
  <1>1. PICK type \in {"subscribed", "key"} : NextEvent(n, type)
    BY DEF EventTask, HandleSubscribed, HandleKey
  <1>2. /\ events[n] \in Seq(Events) /\ events[n] # << >>
        /\ events'[n] = Tail(events[n])
        /\ \A x \in Nodes \ {n} : events'[x] = events[x] /\ Told(x)' = Told(x)
        /\ e \in Events /\ e.type = type
        /\ Told(n) = Told(n)' \cup {e}
    BY <1>1, EventsLess DEF Typed, Told
  <1>3. e.type = "key" => e = KeyExchangeReceived(p)
    BY <1>2 DEF Events, NodeEvents, KeyExchangeReceived
  <1>4. UNCHANGED <<linked, wire, subscribers, seen, phase, members, posted, sending,
                    replay, inbox>>
    BY DEF EventTask, HandleSubscribed, HandleKey, network, vaults, chat
  <1>5. /\ \A x \in Nodes \ {n} : keys'[x] = keys[x]
        /\ e.type = "subscribed" => keys'[n] = keys[n]
        /\ e.type = "key" => keys'[n] = keys[n] \cup {p}
        /\ blocked \subseteq blocked' /\ blocked' \subseteq blocked \cup {n}
        /\ UNCHANGED commands \/ SendKeyExchange(n)
        /\ p \notin keys[n] /\ e.type = "key" => n \in blocked' \/ SendKeyExchange(n)
    <2>1. HasIdentity(n) /\ keys \in [Nodes -> SUBSET Nodes]
      BY DEF Steady, Running, HasIdentity, Typed, NodesOver
    <2>2. CASE HandleSubscribed(n)
      BY <2>2 DEF HandleSubscribed, NextEvent
    <2>3. CASE HandleKey(n)
      BY <2>1, <2>3 DEF HandleKey, NextEvent, AddPeerKey
    <2> QED
      BY <2>2, <2>3 DEF EventTask
  <1> HIDE DEF e, p
  <1>6. SendKeyExchange(n) => /\ Ordered(n)' = Ordered(n) \cup {KeyCommand}
                              /\ commands'[n] = Append(commands[n], KeyCommand)
                              /\ \A x \in Nodes \ {n} : commands'[x] = commands[x]
    BY ChatTypes, CommandsMore DEF SendKeyExchange, Typed
  <1>7. \A x \in Nodes : /\ Ordered(x) \subseteq Ordered(x)'
                         /\ Ordered(x)' \subseteq Ordered(x) \cup {KeyCommand}
                         /\ ShownTo(x)' = ShownTo(x) /\ InMesh(x)' = InMesh(x)
                         /\ Holds(x)' = Holds(x) /\ keys[x] \subseteq keys'[x]
    <2>1. \A x \in Nodes \ {n} : Ordered(x)' = Ordered(x)
      BY <1>5, <1>6 DEF Ordered
    <2>2. UNCHANGED commands => Ordered(n)' = Ordered(n)
      BY DEF Ordered
    <2>3. \A x \in Nodes : keys[x] \subseteq keys'[x]
      BY <1>1, <1>2, <1>5
    <2> QED
      BY <1>4, <1>5, <1>6, <2>1, <2>2, <2>3 DEF ShownTo, InMesh, Holds
  <1>8. \A x, y \in Nodes : Under(x, y)' = Under(x, y)
    BY <1>4 DEF Under
  <1>9. \A q : \A x \in Nodes : KeyTold(q, x)' = KeyTold(q, x)
    <2> SUFFICES ASSUME NEW q
                 PROVE  KeyTold(q, n)' = KeyTold(q, n)
      BY <1>2, <1>5 DEF KeyTold
    <2>1. CASE e.type = "subscribed"
      <3>1. KeyExchangeReceived(q) # e
        BY <2>1, EventNames
      <3> QED
        BY <1>2, <1>5, <2>1, <3>1 DEF KeyTold
    <2>2. CASE e.type = "key"
      <3>1. KeyExchangeReceived(q) = e <=> q = p
        BY <1>3, <2>2, EventNames
      <3> QED
        BY <1>2, <1>5, <2>2, <3>1 DEF KeyTold
    <2> QED
      BY <1>1, <1>2, <2>1, <2>2
  <1>10. \A m : \A x \in Nodes : MessageReceived(m) \in Told(x) => MessageReceived(m) \in Told(x)'
    <2>1. \A m : MessageReceived(m) # e
      BY <1>1, <1>2, Kinds
    <2> QED
      BY <1>2, <2>1
  <1>11. Running'
    <2>1. n \notin blocked' \/ ~Holds(n)'
      BY <1>7
    <2> QED
      BY <1>4, <1>5, <1>7, <2>1 DEF Steady, Running
  <1>12. Links'
    BY <1>4, <1>8 DEF Steady, Links, OwnMessages, Greeted
  <1>13. KeysGo'
    <2>1. KeysSubscribe'
      BY <1>4, <1>9 DEF Steady, KeysGo, KeysSubscribe
    <2>2. \A x : KeyCommand \notin OrdersFor(x)
      BY Kinds DEF OrdersFor
    <2>3. OrdersKnown'
      BY <1>7, <2>2 DEF Steady, KeysGo, OrdersKnown
    <2>4. KeysAnswered'
      <3> SUFFICES ASSUME NEW q \in Nodes, NEW x \in Nodes, x \in keys'[q], q \notin blocked'
                   PROVE  KeyUnderWay(q, x)'
        BY DEF KeysAnswered
      <3>1. CASE x \in keys[q]
        <4>1. KeyUnderWay(q, x)
          BY <1>5, <3>1 DEF Steady, KeysGo, KeysAnswered
        <4> QED
          BY <1>7, <1>8, <1>9, <4>1 DEF KeyUnderWay
      <3>2. CASE x \notin keys[q]
        <4>1. q = n /\ SendKeyExchange(n)
          BY <1>1, <1>2, <1>5, <3>2
        <4> QED
          BY <1>6, <4>1 DEF KeyUnderWay
      <3> QED
        BY <3>1, <3>2
    <2>5. InOrder'
      <3> SUFFICES ASSUME NEW q \in Nodes, NEW x \in Nodes
                   PROVE  Order(q, x, q \in keys'[x], events'[x], wire[q][x], commands'[q])
        BY <1>4 DEF InOrder
      <3>1. Order(q, x, q \in keys[x], events[x], wire[q][x], commands[q])
        BY DEF Steady, KeysGo, InOrder
      <3>2. Order(q, x, q \in keys[x], events[x], wire[q][x], commands'[q])
        <4> DEFINE more == <<KeyCommand>>
        <4>1. commands[q] \in Seq(Commands) /\ KeyCommand \in Commands
          BY ListTypes, ChatTypes
        <4>2. more \in Seq(Commands) /\ Range(more) = {KeyCommand}
              /\ Append(commands[q], KeyCommand) = commands[q] \o more
          BY <4>1 DEF Range
        <4> HIDE DEF more
        <4>3. Range(more) \cap OrdersFor(x) = {}
          BY <2>2, <4>2
        <4>4. Order(q, x, q \in keys[x], events[x], wire[q][x], commands[q] \o more)
          BY <3>1, <4>1, <4>2, <4>3, OrderCommands
        <4>5. commands'[q] = commands[q] \/ commands'[q] = commands[q] \o more
          BY <1>5, <1>6, <4>2
        <4> QED
          BY <3>1, <4>4, <4>5
      <3>3. CASE x # n
        BY <1>2, <1>5, <3>2, <3>3
      <3>4. CASE x = n /\ e = KeyExchangeReceived(q)
        <4>1. q \in keys'[n]
          BY <1>3, <1>5, <3>4, Kinds, EventNames
        <4> QED
          BY <3>4, <4>1 DEF Order
      <3>5. CASE x = n /\ e # KeyExchangeReceived(q)
        <4>1. Order(q, n, q \in keys[n], Tail(events[n]), wire[q][n], commands'[q])
          BY <1>2, <3>2, <3>5, OrderEventTaken DEF e
        <4>2. q \in keys'[n] => q \in keys[n]
          BY <1>1, <1>2, <1>3, <1>5, <3>5
        <4>3. keys[n] \subseteq keys'[n]
          BY <1>7
        <4>4. (q \in keys'[n]) = (q \in keys[n])
          BY <4>2, <4>3
        <4> QED
          BY <1>2, <3>5, <4>1, <4>4
      <3> QED
        BY <3>3, <3>4, <3>5
    <2> QED
      BY <2>1, <2>3, <2>4, <2>5 DEF KeysGo
  <1>14. Arrivals'
    <2>1. SeenTold'
      BY <1>4, <1>7, <1>9, <1>10 DEF Steady, Arrivals, SeenTold
    <2>2. ReplaysShown' /\ AllRead'
      BY <1>4, <1>7 DEF Steady, Arrivals, ReplaysShown, AllRead
    <2> QED
      BY <2>1, <2>2 DEF Arrivals
  <1>15. AllTravel'
    <2> SUFFICES ASSUME NEW i \in 1..Len(posted), NEW x \in posted[i].readers \cap members
                 PROVE  TravelsTo(i, x)'
      BY <1>4 DEF AllTravel
    <2>1. TravelsTo(i, x)
      BY DEF Steady, AllTravel
    <2>2. x \in Nodes /\ posted[i].from \in Nodes
      BY PostedBy
    <2> QED
      BY <1>4, <1>7, <1>8, <1>10, <2>1, <2>2 DEF TravelsTo
  <1> QED
    BY <1>11, <1>12, <1>13, <1>14, <1>15 DEF Steady


\* What an inbox with one more entry shows.
LEMMA InboxMore ==
    ASSUME ChatsOK, NEW n \in Nodes, NEW entry \in Entries,
           inbox'[n] = Append(inbox[n], entry)
    PROVE  /\ ShownTo(n)' = ShownTo(n) \cup {entry.post}
           /\ \A j \in DOMAIN inbox'[n] :
                 inbox'[n][j] = entry \/ (j \in DOMAIN inbox[n] /\ inbox'[n][j] = inbox[n][j])
  <1> DEFINE s == inbox[n]
             t == inbox'[n]
  <1>1. s \in Seq(Entries) /\ t = Append(s, entry)
    BY DEF ChatsOK
  <1> HIDE DEF s, t
  <1>2. /\ Len(s) \in Nat /\ DOMAIN s = 1..Len(s) /\ DOMAIN t = 1..(Len(s) + 1)
        /\ \A j \in DOMAIN s : t[j] = s[j]
        /\ t[Len(s) + 1] = entry
    BY <1>1, AppendProperties, LenProperties
  <1>3. /\ \A j \in DOMAIN t : t[j] = entry \/ (j \in DOMAIN s /\ t[j] = s[j])
        /\ \A j \in DOMAIN s : j \in DOMAIN t /\ t[j] = s[j]
        /\ \E j \in DOMAIN t : t[j] = entry
    BY <1>2
  <1>4. {t[j].post : j \in DOMAIN t} = {s[j].post : j \in DOMAIN s} \cup {entry.post}
    BY <1>3
  <1> QED
    BY <1>3, <1>4 DEF ShownTo, s, t

\* A message handled by the event task of n: what was encrypted for n is read,
\* for the key of its sender has come before it.
LEMMA SteadyShown ==
    ASSUME Typed, Steady, NEW n \in Nodes, ChatTask(n)
    PROVE  Steady'
  <1> DEFINE e == Head(events[n])
             m == e.message
             how == IF HasIdentity(n) /\ Decrypts(n, m) THEN "read" ELSE "placeholder"
  <1>1. NextEvent(n, "chat")
    BY TypedChatTask
  <1>2. /\ events[n] \in Seq(Events) /\ events[n] # << >>
        /\ events'[n] = Tail(events[n])
        /\ \A x \in Nodes \ {n} : events'[x] = events[x] /\ Told(x)' = Told(x)
        /\ e \in Events /\ e.type = "chat"
        /\ Told(n) = Told(n)' \cup {e}
    BY <1>1, EventsLess DEF Typed, Told
  <1>3. m \in ChatMessages /\ e = MessageReceived(m)
    BY <1>1, ChatTaken
  <1>4. UNCHANGED <<linked, wire, subscribers, seen, commands, keys, phase, blocked,
                    members, posted, sending>>
    BY TypedChatTask DEF network, vaults
  <1>5. m.reader = n => how = "read"
    <2> SUFFICES ASSUME m.reader = n
                 PROVE  m.source \in keys[n]
      BY DEF Steady, Running, HasIdentity, Decrypts
    <2> DEFINE p == m.source
    <2>1. p \in Nodes /\ e \in NewsFor(p, n)
      BY <1>2, <1>3, ChatTypes DEF NewsFor
    <2>2. Order(p, n, p \in keys[n], events[n], wire[p][n], commands[p])
      BY <2>1 DEF Steady, KeysGo, InOrder
    <2>3. p \in keys[n] \/ Led({KeyExchangeReceived(p)}, NewsFor(p, n), events[n])
      BY <2>2 DEF Order
    <2>4. Led({KeyExchangeReceived(p)}, NewsFor(p, n), events[n]) => e \notin NewsFor(p, n)
      BY <1>2, LedTail
    <2> QED
      BY <2>1, <2>3, <2>4
  <1>6. \/ /\ m.reader = Everyone
           /\ Show(n, m, "plain")
           /\ UNCHANGED replay
        \/ /\ m \in replay[n] \/ m.reader # n
           /\ replay' = [replay EXCEPT ![n] = @ \cup {m}]
           /\ UNCHANGED inbox
        \/ /\ m.reader = n
           /\ replay' = [replay EXCEPT ![n] = @ \cup {m}]
           /\ Show(n, m, "read")
    <2>1. \/ /\ m.reader = Everyone
             /\ Show(n, m, "plain")
             /\ UNCHANGED replay
          \/ /\ m.reader # Everyone
             /\ m \in replay[n] \/ m.reader # n
             /\ replay' = [replay EXCEPT ![n] = @ \cup {m}]
             /\ UNCHANGED inbox
          \/ /\ m.reader = n /\ m \notin replay[n]
             /\ replay' = [replay EXCEPT ![n] = @ \cup {m}]
             /\ Show(n, m, how)
      BY TypedChatTask
    <2> HIDE DEF how, m
    <2> QED
      BY <1>5, <2>1
  <1> HIDE DEF how, m, e
  <1>7. \/ UNCHANGED inbox
        \/ \E entry \in Entries :
              /\ inbox'[n] = Append(inbox[n], entry)
              /\ \A x \in Nodes \ {n} : inbox'[x] = inbox[x]
              /\ entry.post = m.post /\ entry.how # "placeholder"
    <2>1. ASSUME NEW h \in {"plain", "read"}, Show(n, m, h)
          PROVE  \E entry \in Entries :
                    /\ inbox'[n] = Append(inbox[n], entry)
                    /\ \A x \in Nodes \ {n} : inbox'[x] = inbox[x]
                    /\ entry.post = m.post /\ entry.how # "placeholder"
      <3> DEFINE entry == [post |-> m.post, how |-> h]
      <3>1. /\ entry \in Entries
            /\ inbox'[n] = Append(inbox[n], entry)
            /\ \A x \in Nodes \ {n} : inbox'[x] = inbox[x]
        BY <1>3, <2>1, ShowMore DEF Typed
      <3>2. entry.post = m.post /\ entry.how # "placeholder"
        OBVIOUS
      <3> HIDE DEF entry
      <3> QED
        BY <3>1, <3>2
    <2> QED
      BY <1>6, <2>1
  <1>8. /\ \A x \in Nodes : ShownTo(x) \subseteq ShownTo(x)'
        /\ UNCHANGED inbox \/ m.post \in ShownTo(n)'
        /\ AllRead'
    <2>1. CASE UNCHANGED inbox
      BY <2>1 DEF ShownTo, Steady, Arrivals, AllRead
    <2>2. ASSUME NEW entry \in Entries,
                 inbox'[n] = Append(inbox[n], entry),
                 \A x \in Nodes \ {n} : inbox'[x] = inbox[x],
                 entry.post = m.post, entry.how # "placeholder"
          PROVE  /\ \A x \in Nodes : ShownTo(x) \subseteq ShownTo(x)'
                 /\ m.post \in ShownTo(n)'
                 /\ AllRead'
      <3>1. /\ ShownTo(n)' = ShownTo(n) \cup {entry.post}
            /\ \A j \in DOMAIN inbox'[n] :
                  \/ inbox'[n][j] = entry
                  \/ j \in DOMAIN inbox[n] /\ inbox'[n][j] = inbox[n][j]
        BY <2>2, InboxMore DEF Typed
      <3>2. \A x \in Nodes \ {n} : ShownTo(x)' = ShownTo(x)
        BY <2>2 DEF ShownTo
      <3>3. AllRead'
        <4> SUFFICES ASSUME NEW x \in Nodes, NEW j \in DOMAIN inbox'[x]
                     PROVE  inbox'[x][j].how # "placeholder"
          BY DEF AllRead
        <4>1. CASE x = n
          BY <2>2, <3>1, <4>1 DEF Steady, Arrivals, AllRead
        <4>2. CASE x # n
          BY <2>2, <4>2 DEF Steady, Arrivals, AllRead
        <4> QED
          BY <4>1, <4>2
      <3> QED
        BY <2>2, <3>1, <3>2, <3>3
    <2> QED
      BY <1>7, <2>1, <2>2
  <1>9. m.reader = n => m.post \in ShownTo(n)'
    <2>1. m.reader = n /\ UNCHANGED inbox => m \in replay[n]
      <3>1. n # Everyone
        BY NameAssumption
      <3>2. CASE m.reader = n /\ UNCHANGED inbox /\ m \notin replay[n]
        <4>1. Show(n, m, "read")
          BY <1>6, <3>1, <3>2
        <4>2. inbox'[n] = Append(inbox[n], [post |-> m.post, how |-> "read"])
          BY <1>3, <4>1, ShowMore DEF Typed
        <4>3. inbox[n] \in Seq(Entries) /\ inbox'[n] = inbox[n]
          BY <3>2 DEF Typed, ChatsOK
        <4>4. Len(Append(inbox[n], [post |-> m.post, how |-> "read"])) = Len(inbox[n]) + 1
              /\ Len(inbox[n]) \in Nat
          BY <4>3, LenProperties
        <4> QED
          BY <4>2, <4>3, <4>4
      <3> QED
        BY <3>2
    <2>2. m \in replay[n] /\ m.reader = n => m.post \in ShownTo(n)
      BY DEF Steady, Arrivals, ReplaysShown
    <2> QED
      BY <1>8, <2>1, <2>2
  <1>10. \A x \in Nodes : \A k \in replay'[x] : k \in replay[x] \/ (x = n /\ k = m)
    <2>1. replay' = [replay EXCEPT ![n] = @ \cup {m}] =>
             /\ replay'[n] = replay[n] \cup {m}
             /\ \A x \in Nodes \ {n} : replay'[x] = replay[x]
      BY <1>3, ReplayMore DEF Typed
    <2> QED
      BY <1>6, <2>1
  <1>11. \A x, y \in Nodes : /\ Under(x, y)' = Under(x, y) /\ Ordered(x)' = Ordered(x)
                             /\ InMesh(x)' = InMesh(x) /\ Holds(x)' = Holds(x)
    BY <1>4 DEF Under, Ordered, InMesh, Holds
  <1>12. \A p : \A x \in Nodes : KeyTold(p, x)' = KeyTold(p, x)
    <2>1. \A p : KeyExchangeReceived(p) # e
      BY <1>2, EventNames
    <2> QED
      BY <1>2, <1>4, <2>1 DEF KeyTold
  <1>13. \A x \in Nodes : \A k :
            MessageReceived(k) \in Told(x) /\ k.reader = x =>
               MessageReceived(k) \in Told(x)' \/ k.post \in ShownTo(x)'
    <2> SUFFICES ASSUME NEW k, MessageReceived(k) \in Told(n), k.reader = n
                 PROVE  MessageReceived(k) \in Told(n)' \/ k.post \in ShownTo(n)'
      BY <1>2
    <2>1. MessageReceived(k) = e => k = m
      BY <1>3, Kinds
    <2> QED
      BY <1>2, <1>9, <2>1
  <1>14. Running' /\ Links'
    BY <1>4, <1>11 DEF Steady, Running, Links, OwnMessages, Greeted
  <1>15. KeysGo'
    <2>1. KeysSubscribe' /\ OrdersKnown'
      BY <1>4, <1>11, <1>12 DEF Steady, KeysGo, KeysSubscribe, OrdersKnown
    <2>2. KeysAnswered'
      BY <1>4, <1>11, <1>12 DEF Steady, KeysGo, KeysAnswered, KeyUnderWay
    <2>3. InOrder'
      <3> SUFFICES ASSUME NEW q \in Nodes, NEW x \in Nodes
                   PROVE  Order(q, x, q \in keys[x], events'[x], wire[q][x], commands[q])
        BY <1>4 DEF InOrder
      <3>1. Order(q, x, q \in keys[x], events[x], wire[q][x], commands[q])
        BY DEF Steady, KeysGo, InOrder
      <3>2. CASE x = n
        <4>1. e # KeyExchangeReceived(q)
          BY <1>2, EventNames
        <4> QED
          BY <1>2, <3>1, <3>2, <4>1, OrderEventTaken DEF e
      <3>3. CASE x # n
        BY <1>2, <3>1, <3>3
      <3> QED
        BY <3>2, <3>3
    <2> QED
      BY <2>1, <2>2, <2>3 DEF KeysGo
  <1>16. Arrivals'
    <2>1. SeenTold'
      <3> SUFFICES ASSUME NEW x \in Nodes, NEW k \in seen[x]
                   PROVE  /\ k.type = "key" => KeyTold(k.source, x)'
                          /\ k.type = "chat" /\ k.reader = x =>
                                /\ KeyTold(k.source, x)'
                                /\ k.post \in ShownTo(x)' \/ MessageReceived(k) \in Told(x)'
        BY <1>4 DEF SeenTold
      <3> QED
        BY <1>8, <1>12, <1>13 DEF Steady, Arrivals, SeenTold
    <2>2. ReplaysShown'
      <3> SUFFICES ASSUME NEW x \in Nodes, NEW k \in replay'[x], k.reader = x
                   PROVE  k.post \in ShownTo(x)'
        BY DEF ReplaysShown
      <3> QED
        BY <1>8, <1>9, <1>10 DEF Steady, Arrivals, ReplaysShown
    <2> QED
      BY <1>8, <2>1, <2>2 DEF Arrivals
  <1>17. AllTravel'
    <2> SUFFICES ASSUME NEW i \in 1..Len(posted), NEW x \in posted[i].readers \cap members
                 PROVE  TravelsTo(i, x)'
      BY <1>4 DEF AllTravel
    <2>1. TravelsTo(i, x)
      BY DEF Steady, AllTravel
    <2>2. x \in Nodes /\ posted[i].from \in Nodes
      BY PostedBy
    <2> DEFINE k == ChatMessage(posted[i].from, i, x)
    <2>3. k.reader = x /\ k.post = i
      BY DEF ChatMessage
    <2> HIDE DEF k
    <2>4. MessageReceived(k) \in Told(x) => MessageReceived(k) \in Told(x)' \/ i \in ShownTo(x)'
      BY <1>13, <2>2, <2>3
    <2> QED
      BY <1>4, <1>8, <1>11, <2>1, <2>2, <2>4 DEF TravelsTo, k
  <1> QED
    BY <1>14, <1>15, <1>16, <1>17 DEF Steady


\* What gossipsub delivers again had its sender's key before it.
LEMMA SteadyRedeliver ==
    ASSUME Typed, Steady, NEW n \in Nodes, Redeliver(n)
    PROVE  Steady'
  <1>1. PICK m \in seen[n] \cap ChatMessages :
           events' = [events EXCEPT ![n] = Append(@, MessageReceived(m))]
    BY TypedRedeliver
  <1>2. UNCHANGED <<linked, wire, subscribers, seen, commands, keys, phase, blocked,
                    members, posted, sending, replay, inbox>>
    BY TypedRedeliver DEF network, vaults
  <1> DEFINE e == MessageReceived(m)
  <1>3. e \in Events /\ e.type = "chat" /\ e.message = m /\ m.type = "chat"
    BY <1>1, ChatTypes, Kinds DEF ChatMessages
  <1>4. events' = [events EXCEPT ![n] = Append(@, e)]
    BY <1>1
  <1> HIDE DEF e
  <1>5. /\ events'[n] = Append(events[n], e) /\ Told(n)' = Told(n) \cup {e}
        /\ \A x \in Nodes \ {n} : events'[x] = events[x] /\ Told(x)' = Told(x)
    BY <1>3, <1>4, EventsMore DEF Typed, Told
  <1>6. \A x, y \in Nodes : /\ Under(x, y)' = Under(x, y) /\ Ordered(x)' = Ordered(x)
                            /\ InMesh(x)' = InMesh(x) /\ Holds(x)' = Holds(x)
                            /\ ShownTo(x)' = ShownTo(x) /\ Told(x) \subseteq Told(x)'
    BY <1>2, <1>5 DEF Under, Ordered, InMesh, Holds, ShownTo
  <1>7. \A p : \A x \in Nodes : KeyTold(p, x)' = KeyTold(p, x)
    <2>1. \A p : KeyExchangeReceived(p) # e
      BY <1>3, EventNames
    <2> QED
      BY <1>2, <1>5, <2>1 DEF KeyTold
  <1>8. Running' /\ Links'
    BY <1>2, <1>6 DEF Steady, Running, Links, OwnMessages, Greeted
  <1>9. KeysGo'
    <2>1. KeysSubscribe' /\ OrdersKnown'
      BY <1>2, <1>6, <1>7 DEF Steady, KeysGo, KeysSubscribe, OrdersKnown
    <2>2. KeysAnswered'
      BY <1>2, <1>6, <1>7 DEF Steady, KeysGo, KeysAnswered, KeyUnderWay
    <2>3. InOrder'
      <3> SUFFICES ASSUME NEW q \in Nodes, NEW x \in Nodes
                   PROVE  Order(q, x, q \in keys[x], events'[x], wire[q][x], commands[q])
        BY <1>2 DEF InOrder
      <3>1. Order(q, x, q \in keys[x], events[x], wire[q][x], commands[q])
        BY DEF Steady, KeysGo, InOrder
      <3>2. CASE x = n
        <4>1. \/ e \notin NewsFor(q, n)
              \/ q \in keys[n] \/ KeyExchangeReceived(q) \in Range(events[n])
          <5>1. e \in NewsFor(q, n) => m.source = q /\ m.reader = n
            BY <1>3 DEF NewsFor
          <5> QED
            BY <1>1, <1>3, <5>1 DEF Steady, Arrivals, SeenTold, KeyTold, Told
        <4>2. events[n] \in Seq(Events)
          BY ListTypes
        <4>3. Order(q, n, q \in keys[n], Append(events[n], e), wire[q][n], commands[q])
          BY <1>3, <3>1, <3>2, <4>1, <4>2, OrderEvent
        <4> QED
          BY <1>5, <3>2, <4>3
      <3>3. CASE x # n
        BY <1>5, <3>1, <3>3
      <3> QED
        BY <3>2, <3>3
    <2> QED
      BY <2>1, <2>2, <2>3 DEF KeysGo
  <1>10. Arrivals'
    BY <1>2, <1>6, ArrivalsStay DEF Steady
  <1>11. AllTravel'
    <2> SUFFICES ASSUME NEW i \in 1..Len(posted), NEW x \in posted[i].readers \cap members
                 PROVE  TravelsTo(i, x)'
      BY <1>2 DEF AllTravel
    <2>1. TravelsTo(i, x)
      BY DEF Steady, AllTravel
    <2>2. x \in Nodes /\ posted[i].from \in Nodes
      BY PostedBy
    <2> QED
      BY <1>2, <1>6, <2>1, <2>2 DEF TravelsTo
  <1> QED
    BY <1>8, <1>9, <1>10, <1>11 DEF Steady

-----------------------------------------------------------------------------
(* The steps of a send. *)

\* A list behind which nothing comes, and one with a single command.
LEMMA OneMore ==
    ASSUME NEW s \in Seq(Commands)
    PROVE  /\ << >> \in Seq(Commands) /\ s \o << >> = s /\ Range(<< >>) = {}
           /\ \A c \in Commands : /\ <<c>> \in Seq(Commands)
                                  /\ Append(s, c) = s \o <<c>> /\ Range(<<c>>) = {c}
  <1>1. << >> \in Seq(Commands) /\ s \o << >> = s
    OBVIOUS
  <1>2. ASSUME NEW c \in Commands
        PROVE  <<c>> \in Seq(Commands) /\ Append(s, c) = s \o <<c>>
    OBVIOUS
  <1> QED
    BY <1>1, <1>2 DEF Range

\* A new post has no readers yet.
LEMMA NewPost ==
    ASSUME Typed, NEW post \in Posts, post.readers = {}, posted' = Append(posted, post)
    PROVE  \A i \in 1..Len(posted') : \A x \in posted'[i].readers \cap members :
              /\ i \in 1..Len(posted) /\ x \in posted[i].readers
              /\ posted'[i].from = posted[i].from
  <1>1. /\ Len(posted) \in Nat /\ Len(posted') = Len(posted) + 1
        /\ \A i \in 1..Len(posted) : posted'[i] = posted[i]
        /\ posted'[Len(posted')] = post
    BY PostedMore DEF Typed
  <1> SUFFICES ASSUME NEW i \in 1..Len(posted'), NEW x \in posted'[i].readers \cap members
               PROVE  /\ i \in 1..Len(posted) /\ x \in posted[i].readers
                      /\ posted'[i].from = posted[i].from
    OBVIOUS
  <1>2. i # Len(posted')
    BY <1>1
  <1>3. i \in 1..Len(posted)
    BY <1>1, <1>2
  <1> QED
    BY <1>1, <1>3

LEMMA SteadySendPlain ==
    ASSUME Typed, Steady, NEW n \in Nodes, SendPlain(n)
    PROVE  Steady'
  <1> DEFINE c == SendMessageToRoom(Len(posted'), Everyone)
             more == <<c>>
  <1>1. Typed' /\ c \in Commands
    BY TypedSendPlain DEF Commands
  <1>2. /\ posted' = Append(posted, Post(n, FALSE))
        /\ commands' = [commands EXCEPT ![n] = Append(@, c)]
        /\ UNCHANGED <<linked, wire, subscribers, seen, events, keys, phase, blocked,
                       members, sending, replay, inbox>>
    BY DEF SendPlain, network, vaults
  <1>3. c.reader = Everyone
    BY DEF SendMessageToRoom
  <1> HIDE DEF c
  <1>4. /\ commands'[n] = Append(commands[n], c)
        /\ \A x \in Nodes \ {n} : commands'[x] = commands[x]
    BY <1>1, <1>2, CommandsMore DEF Typed
  <1>5. /\ more \in Seq(Commands) /\ Range(more) = {c}
        /\ commands'[n] = commands[n] \o more
    BY <1>1, <1>4, ListTypes, OneMore
  <1> HIDE DEF more
  <1>6. \A x \in Nodes : Range(more) \cap OrdersFor(x) # {} =>
           x \in keys[n] /\ n \notin blocked
    BY <1>3, <1>5, NameAssumption DEF OrdersFor
  <1>7. \A i \in 1..Len(posted') : \A x \in posted'[i].readers \cap members :
           \/ /\ i \in 1..Len(posted) /\ x \in posted[i].readers
              /\ posted'[i].from = posted[i].from
           \/ posted'[i].from = n /\ SendMessageToRoom(i, x) \in Range(more)
    <2>1. Post(n, FALSE) \in Posts /\ Post(n, FALSE).readers = {}
      BY PostIs DEF Post
    <2>2. posted' = Append(posted, Post(n, FALSE))
      BY <1>2
    <2> QED
      BY <2>1, <2>2, NewPost
  <1>8. \A x \in Nodes : Holds(x)' => x \notin blocked
    BY <1>2 DEF Holds, Steady, Running
  <1> QED
    BY <1>1, <1>2, <1>4, <1>5, <1>6, <1>7, <1>8, SteadyOrdered

LEMMA SteadySendSecret ==
    ASSUME Typed, Steady, NEW n \in Nodes, SendSecret(n)
    PROVE  Steady'
  <1> DEFINE more == << >>
  <1>1. /\ Typed' /\ sending'[n].stage = "lock"
        /\ \A x \in Nodes \ {n} : sending'[x] = sending[x]
    BY TypedSendSecret
  <1>2. /\ posted' = Append(posted, Post(n, TRUE))
        /\ UNCHANGED <<linked, wire, subscribers, seen, events, commands, keys, phase,
                       blocked, members, replay, inbox>>
    BY DEF SendSecret, vars
  <1>3. /\ more \in Seq(Commands) /\ Range(more) = {}
        /\ commands'[n] = commands[n] \o more
    BY <1>2, ListTypes, OneMore
  <1> HIDE DEF more
  <1>4. \A x \in Nodes : Range(more) \cap OrdersFor(x) = {}
    BY <1>3
  <1>5. \A i \in 1..Len(posted') : \A x \in posted'[i].readers \cap members :
           \/ /\ i \in 1..Len(posted) /\ x \in posted[i].readers
              /\ posted'[i].from = posted[i].from
           \/ posted'[i].from = n /\ SendMessageToRoom(i, x) \in Range(more)
    <2>1. Post(n, TRUE) \in Posts /\ Post(n, TRUE).readers = {}
      BY PostIs DEF Post
    <2>2. posted' = Append(posted, Post(n, TRUE))
      BY <1>2
    <2> QED
      BY <2>1, <2>2, NewPost
  <1>6. \A x \in Nodes : Holds(x)' => x \notin blocked
    BY <1>1 DEF Holds, Steady, Running
  <1> QED
    BY <1>1, <1>2, <1>3, <1>4, <1>5, <1>6, SteadyOrdered

LEMMA SteadyAskPeers ==
    ASSUME Typed, Steady, NEW n \in Nodes, AskPeers(n)
    PROVE  Steady'
  <1>1. /\ commands' = [commands EXCEPT ![n] = Append(@, PeersCommand)]
           \/ commands' = commands
        /\ UNCHANGED <<linked, wire, subscribers, seen, events, keys, phase, blocked,
                       members, posted, replay, inbox>>
        /\ n \notin blocked
        /\ \A x \in Nodes \ {n} : sending'[x] = sending[x]
        /\ Typed'
    BY TypedAskPeers DEF AskPeers, network, vaults, Typed, ChatsOK
  <1>2. PICK more \in {<< >>, <<PeersCommand>>} :
           /\ commands'[n] = commands[n] \o more
           /\ \A x \in Nodes \ {n} : commands'[x] = commands[x]
    <2>1. commands[n] \in Seq(Commands) /\ PeersCommand \in Commands
      BY ListTypes, ChatTypes
    <2>2. CASE commands' = commands
      BY <2>1, <2>2, OneMore
    <2>3. CASE commands' = [commands EXCEPT ![n] = Append(@, PeersCommand)]
      <3>1. /\ commands'[n] = Append(commands[n], PeersCommand)
            /\ \A x \in Nodes \ {n} : commands'[x] = commands[x]
        BY <2>1, <2>3, CommandsMore DEF Typed
      <3> QED
        BY <2>1, <3>1, OneMore
    <2> QED
      BY <1>1, <2>2, <2>3
  <1>3. more \in Seq(Commands) /\ Range(more) \subseteq {PeersCommand}
    BY ListTypes, OneMore, ChatTypes, ZenonT(40)
  <1>4. \A x \in Nodes : Range(more) \cap OrdersFor(x) = {}
    BY <1>3, Kinds DEF OrdersFor
  <1>5. \A i \in 1..Len(posted') : \A x \in posted'[i].readers :
           i \in 1..Len(posted) /\ x \in posted[i].readers /\ posted'[i].from = posted[i].from
    BY <1>1
  <1>6. \A x \in Nodes : Holds(x)' => x \notin blocked
    BY <1>1 DEF Holds, Steady, Running
  <1> QED
    BY <1>1, <1>2, <1>3, <1>4, <1>5, <1>6, SteadyOrdered

\* An envelope for each peer whose key is held, and no event task is stuck.
LEMMA SteadySeal ==
    ASSUME Typed, SendsOK, Steady, NEW n \in Nodes, Seal(n)
    PROVE  Steady'
  <1> DEFINE i == sending[n].post
             readers == {p \in sending[n].peers : Encrypts(n, p)}
  <1>1. /\ Typed'
        /\ i \in 1..Len(posted) /\ posted[i] = Post(n, TRUE)
        /\ Len(posted') = Len(posted)
        /\ \A j \in 1..Len(posted) \ {i} : posted'[j] = posted[j]
        /\ posted'[i] = [posted[i] EXCEPT !.readers = readers]
        /\ sending'[n] = None
        /\ \A x \in Nodes \ {n} : /\ sending'[x] = sending[x]
                                  /\ commands'[x] = commands[x]
    BY TypedSeal
  <1>2. PICK more \in Seq(RoomCommands) :
           /\ commands'[n] = commands[n] \o more
           /\ Range(more) = {SendMessageToRoom(i, p) : p \in readers}
    BY TypedSeal
  <1>3. UNCHANGED <<linked, wire, subscribers, seen, events, keys, phase, blocked,
                    members, replay, inbox>>
    BY DEF Seal, network, vaults
  <1>4. n \notin blocked
    BY DEF Seal, Holds, Steady, Running
  <1>5. readers \subseteq keys[n]
    BY DEF Encrypts
  <1>6. posted'[i].from = n /\ posted'[i].readers = readers
    BY <1>1 DEF Post
  <1> HIDE DEF i, readers
  <1>7. more \in Seq(Commands)
    BY <1>2 DEF Commands
  <1>8. \A x \in Nodes : Range(more) \cap OrdersFor(x) # {} => x \in keys[n] /\ n \notin blocked
    BY <1>2, <1>4, <1>5 DEF OrdersFor, SendMessageToRoom
  <1>9. \A j \in 1..Len(posted') : \A x \in posted'[j].readers \cap members :
           \/ /\ j \in 1..Len(posted) /\ x \in posted[j].readers
              /\ posted'[j].from = posted[j].from
           \/ posted'[j].from = n /\ SendMessageToRoom(j, x) \in Range(more)
    BY <1>1, <1>2, <1>6
  <1>10. \A x \in Nodes : Holds(x)' => x \notin blocked
    BY <1>1 DEF Holds, Steady, Running
  <1> QED
    BY <1>1, <1>2, <1>3, <1>7, <1>8, <1>9, <1>10, SteadyOrdered


-----------------------------------------------------------------------------
(* The steps of the loop, when nothing is lost or passed on. *)

LEMMA SteadyPublishKey ==
    ASSUME Typed, Steady, UNCHANGED chat, faults' = faults, faults \in Nat,
           NEW n \in Nodes, PublishKey(n) \/ PublishFails(n)
    PROVE  Steady'
  <1> DEFINE m == KeyMessage(n, sent[n])
  <1>1. /\ NextCommand(n, "key")
        /\ \/ wire' = Broadcast(wire, n, subscribers[n], m)
           \/ UNCHANGED wire /\ subscribers[n] = {}
        /\ UNCHANGED <<linked, subscribers, seen, events, keys, phase, blocked,
                       members, posted, sending, replay, inbox>>
    BY DEF PublishKey, PublishFails, network, vaults, chat
  <1>2. m \in Messages /\ m.type = "key" /\ m.source = n
    BY MessageTypes, ChatTypes DEF Typed, NodesOver, Carries, KeyMessage
  <1> HIDE DEF m
  <1>3. \A x, y \in Nodes : wire'[x][y] = IF x = n /\ y \in subscribers[n]
                                          THEN Append(wire[x][y], m) ELSE wire[x][y]
    <2>1. CASE wire' = Broadcast(wire, n, subscribers[n], m)
      BY <2>1, BroadcastWires DEF Typed, LinksOver
    <2>2. CASE UNCHANGED wire /\ subscribers[n] = {}
      BY <2>2
    <2> QED
      BY <1>1, <2>1, <2>2
  <1>4. Head(commands[n]) = KeyCommand
    BY <1>1, CommandsLess, ChatTypes DEF Typed
  <1>5. \A x \in Nodes : Holds(x)' = Holds(x)
    BY <1>1 DEF Holds
  <1>6. m \in KeysSent /\ m.type # "subscription"
    BY <1>2 DEF KeysSent
  <1> QED
    BY <1>1, <1>2, <1>3, <1>4, <1>5, <1>6, SteadyPublished

LEMMA SteadyReceiveKey ==
    ASSUME Typed, Steady, UNCHANGED chat, faults = 0, faults' = 0,
           NEW a \in Nodes, NEW b \in Nodes, ReceiveKey(a, b)
    PROVE  Steady'
  <1> DEFINE m == Head(wire[a][b])
             e == KeyExchangeReceived(m.source)
             others == subscribers[b] \ {a, m.source}
             taken == [wire EXCEPT ![a][b] = Tail(@)]
             none == {}
  <1>1. /\ wire[a][b] # << >> /\ m.type = "key"
        /\ \/ (m \in seen[b] \/ m.source = b) /\ UNCHANGED <<seen, events>>
           \/ /\ seen' = [seen EXCEPT ![b] = @ \cup {m}]
              /\ events' = [events EXCEPT ![b] = Append(@, e)]
        /\ UNCHANGED <<linked, subscribers, commands, keys, phase, blocked,
                       members, posted, sending, replay, inbox>>
    BY DEF ReceiveKey, vaults, chat
  <1>2. others \in SUBSET Nodes /\ LinksOver(Messages)
    BY DEF Typed, LinksOver
  <1>3. wire' = taken \/ wire' = Broadcast(taken, b, none, m)
    <2>1. \/ wire' = taken
          \/ \E targets \in SUBSET others :
                /\ faults' = faults + Cardinality(targets)
                /\ wire' = Broadcast(taken, b, targets, m)
      BY DEF ReceiveKey
    <2> HIDE DEF taken, m, others
    <2>2. ASSUME NEW targets \in SUBSET others, faults' = faults + Cardinality(targets)
          PROVE  targets = none
      BY <1>2, <2>2, NoneAimedAt
    <2> QED
      BY <2>1, <2>2
  <1>4. /\ taken \in Wires(Messages)
        /\ \A x, y \in Nodes :
              taken[x][y] = IF x = a /\ y = b THEN Tail(wire[a][b]) ELSE wire[x][y]
    BY <1>1, <1>2, TakenWires
  <1> HIDE DEF m, others, taken, none
  <1>5. \A x, y \in Nodes : wire'[x][y] = IF x = a /\ y = b THEN Tail(wire[a][b])
                                                            ELSE wire[x][y]
    <2>1. \A x : x \notin none
      BY DEF none
    <2>2. \A x, y \in Nodes : wire'[x][y] = taken[x][y]
      BY <1>3, <1>4, <2>1, TakesOnly
    <2> QED
      BY <1>4, <2>2
  <1> QED
    BY <1>1, <1>5, SteadyReceived DEF m

LEMMA SteadyReceiveChat ==
    ASSUME Typed, Steady, faults = 0, faults' = 0,
           NEW a \in Nodes, NEW b \in Nodes, ReceiveChat(a, b)
    PROVE  Steady'
  <1> DEFINE m == Head(wire[a][b])
             e == MessageReceived(m)
             others == InMesh(b) \ {a, m.source}
             taken == [wire EXCEPT ![a][b] = Tail(@)]
             none == {}
  <1>1. /\ wire[a][b] # << >> /\ m.type = "chat"
        /\ \/ (m \in seen[b] \/ m.source = b) /\ UNCHANGED <<seen, events>>
           \/ /\ seen' = [seen EXCEPT ![b] = @ \cup {m}]
              /\ events' = [events EXCEPT ![b] = Append(@, e)]
        /\ UNCHANGED <<linked, subscribers, commands, keys, phase, blocked,
                       members, posted, sending, replay, inbox>>
    BY DEF ReceiveChat, vaults, chat
  <1>2. others \in SUBSET Nodes /\ LinksOver(Messages)
    BY DEF Typed, LinksOver, InMesh
  <1>3. wire' = taken \/ wire' = Broadcast(taken, b, none, m)
    <2>1. \/ wire' = taken
          \/ \E targets \in SUBSET others :
                /\ faults' = faults + Cardinality(targets)
                /\ wire' = Broadcast(taken, b, targets, m)
      BY DEF ReceiveChat
    <2> HIDE DEF taken, m, others
    <2>2. ASSUME NEW targets \in SUBSET others, faults' = faults + Cardinality(targets)
          PROVE  targets = none
      BY <1>2, <2>2, NoneAimedAt
    <2> QED
      BY <2>1, <2>2
  <1>4. /\ taken \in Wires(Messages)
        /\ \A x, y \in Nodes :
              taken[x][y] = IF x = a /\ y = b THEN Tail(wire[a][b]) ELSE wire[x][y]
    BY <1>1, <1>2, TakenWires, ZenonT(40)
  <1> HIDE DEF m, others, taken, none
  <1>5. \A x, y \in Nodes : wire'[x][y] = IF x = a /\ y = b THEN Tail(wire[a][b])
                                                            ELSE wire[x][y]
    <2>1. \A x : x \notin none
      BY DEF none
    <2>2. \A x, y \in Nodes : wire'[x][y] = taken[x][y]
      BY <1>3, <1>4, <2>1, TakesOnly
    <2> QED
      BY <1>4, <2>2
  <1> QED
    BY <1>1, <1>5, SteadyReceived DEF m

LEMMA SteadyPublishChat ==
    ASSUME Typed, Steady, faults' = faults, faults \in Nat,
           NEW n \in Nodes, PublishChat(n)
    PROVE  Steady'
  <1> DEFINE c == Head(commands[n])
             m == ChatMessage(n, c.post, c.reader)
  <1>1. /\ NextCommand(n, "room")
        /\ UNCHANGED <<linked, subscribers, seen, events, keys, phase, blocked,
                       members, posted, sending, replay, inbox>>
    BY DEF PublishChat, vaults, chat
  <1>2. /\ m \in ChatMessages
        /\ \/ UNCHANGED wire /\ InMesh(n) = {}
           \/ \A x, y \in Nodes :
                 wire'[x][y] = IF x = n /\ y \in InMesh(n)
                               THEN Append(wire[x][y], m) ELSE wire[x][y]
    BY TypedPublishChat
  <1> HIDE DEF m
  <1>3. \A x, y \in Nodes : wire'[x][y] = IF x = n /\ y \in InMesh(n)
                                          THEN Append(wire[x][y], m) ELSE wire[x][y]
    BY <1>2
  <1>4. m \in Messages /\ m.type # "subscription" /\ m.source = n
    BY <1>2, ChatTypes DEF ChatMessage, m
  <1>5. \A x \in Nodes : Holds(x)' = Holds(x)
    BY <1>1 DEF Holds
  <1> QED
    BY <1>1, <1>3, <1>4, <1>5, SteadyPublished DEF m

LEMMA SteadyAnswerPeers ==
    ASSUME Typed, Sealed, Steady, NEW n \in Nodes, AnswerPeers(n)
    PROVE  Steady'
  <1> DEFINE m == KeyMessage(n, 0)
             none == {}
  <1>1. /\ NextCommand(n, "peers")
        /\ UNCHANGED <<linked, wire, subscribers, seen, events, keys, phase, blocked,
                       members, posted, replay, inbox>>
    BY DEF AnswerPeers, network, vaults
  <1>2. m \in Messages /\ m.type # "subscription" /\ m.source = n
    BY MessageTypes, ChatTypes DEF Carries, KeyMessage
  <1> HIDE DEF m
  <1>3. \A x \in Nodes : Holds(x)' = Holds(x)
    <2>1. Asks(n) # 0
      <3>1. Asks(n) = Asks(n)' + 1 /\ Asks(n)' \in Nat
        BY <1>1, AsksLess DEF Typed
      <3> QED
        BY <3>1
    <2>2. sending[n] # None /\ sending[n].stage = "asked"
      BY <2>1 DEF Sealed, AsksOnce, Asking
    <2>3. /\ sending'[n] \in Sends /\ sending'[n].stage = "answered"
          /\ \A x \in Nodes \ {n} : sending'[x] = sending[x]
      BY <2>2, TypedAnswerPeers
    <2>4. sending'[n] # None
      BY <2>3, NameAssumption
    <2>5. Holds(n)' /\ Holds(n)
      BY <2>2, <2>3, <2>4 DEF Holds
    <2> QED
      BY <2>3, <2>5 DEF Holds
  <1>4. /\ none = {}
        /\ \A x, y \in Nodes : wire'[x][y] = IF x = n /\ y \in none
                                             THEN Append(wire[x][y], m) ELSE wire[x][y]
    BY <1>1
  <1> HIDE DEF none
  <1> QED
    BY <1>1, <1>2, <1>3, <1>4, SteadyPublished

-----------------------------------------------------------------------------
(* Together. *)

LEMMA FaultsStay ==
    ASSUME Typed, faults \in Nat, [MessagingNext]_allVars
    PROVE  faults' \in Nat /\ faults' >= faults
  <1>1. \A n \in Nodes : \A s \in SUBSET Nodes : Cardinality(s) \in Nat
    BY OthersNat
  <1>2. subscribers \in [Nodes -> SUBSET Nodes]
    BY DEF Typed, LinksOver
  <1>3. ASSUME NEW a \in Nodes, NEW b \in Nodes, ReceiveKey(a, b) \/ ReceiveChat(a, b)
        PROVE  faults' \in Nat /\ faults' >= faults
    <2>1. UNCHANGED faults \/ \E targets \in SUBSET Nodes : faults' = faults + Cardinality(targets)
      BY <1>2, <1>3 DEF ReceiveKey, ReceiveChat, InMesh
    <2> QED
      BY <1>1, <2>1
  <1>4. ASSUME NEW n \in Nodes, AnswerPeers(n)
        PROVE  faults' \in Nat /\ faults' >= faults
    <2>1. \E missing \in SUBSET Nodes : faults' = faults + Cardinality(missing)
      BY <1>4 DEF AnswerPeers, Neighbours
    <2> QED
      BY <1>1, <2>1
  <1>5. ASSUME NEW n \in Nodes,
               \/ EventTask(n) \/ Vault(n) \/ PublishKey(n) \/ PublishFails(n)
               \/ \E a \in Nodes : ReceiveSubscription(a, n)
               \/ Send(n) \/ Sending(n) \/ PublishChat(n) \/ Redeliver(n) \/ ChatTask(n)
        PROVE  faults' \in Nat /\ faults' >= faults
    <2>1. faults' = faults \/ faults' = faults + 1
      BY <1>5 DEF EventTask, HandleSubscribed, HandleKey, Vault, SealVault, ClearCrypto,
         LoadVault, StoreKey, PublishKey, PublishFails, ReceiveSubscription, Send,
         SendPlain, SendSecret, Sending, AskPeers, Seal, PublishChat, Redeliver,
         ChatTask, HandlePlain, HandleDropped, HandleEnvelope, counters, vars
    <2> QED
      BY <2>1
  <1>6. ASSUME NEW a \in Nodes, NEW b \in Nodes, Connect(a, b) \/ Disconnect(a, b)
        PROVE  faults' \in Nat /\ faults' >= faults
    BY <1>6 DEF Connect, Disconnect
  <1>7. CASE UNCHANGED allVars
    BY <1>7, MessagingStill
  <1> QED
    BY <1>3, <1>4, <1>5, <1>6, <1>7 DEF MessagingNext, Exchange, Loop, ChatLoop, Vault

LEMMA SteadyExchange ==
    ASSUME Typed, Steady, Exchange, faults = 0, faults' = 0
    PROVE  Steady'
  <1>1. UNCHANGED chat
    BY DEF Exchange
  <1>2. ASSUME NEW a \in Nodes, NEW b \in Nodes, Connect(a, b) \/ Disconnect(a, b)
        PROVE  Steady'
    <2>1. Connect(a, b)
      BY <1>2 DEF Disconnect
    <2> QED
      BY <1>1, <2>1, SteadyConnect
  <1>3. ASSUME NEW n \in Nodes, Loop(n)
        PROVE  Steady'
    BY <1>1, <1>3, SteadyPublishKey, SteadySubscription, SteadyReceiveKey DEF Loop
  <1>4. ASSUME NEW n \in Nodes, ~Holds(n), EventTask(n)
        PROVE  Steady'
    BY <1>1, <1>4, SteadyHandled
  <1>5. ASSUME NEW n \in Nodes,
               StoreKey(n) \/ SealVault(n) \/ ClearCrypto(n) \/ LoadVault(n)
        PROVE  FALSE
    <2>1. phase[n] \in {"unlocked", "late"}
      BY DEF Steady, Running
    <2> QED
      BY <1>5, <2>1 DEF StoreKey, SealVault, ClearCrypto, LoadVault, Advance
  <1> QED
    BY <1>2, <1>3, <1>4, <1>5 DEF Exchange

LEMMA SteadyKept ==
    ASSUME Typed, Sealed, Steady, [MessagingNext]_allVars, faults = 0, faults' = 0
    PROVE  Steady'
  <1>1. CASE Exchange
    BY <1>1, SteadyExchange
  <1>2. ASSUME NEW n \in Nodes, Send(n)
        PROVE  Steady'
    BY <1>2, SteadySendPlain, SteadySendSecret DEF Send
  <1>3. ASSUME NEW n \in Nodes, Sending(n)
        PROVE  Steady'
    BY <1>3, SteadyAskPeers, SteadySeal DEF Sending, Sealed
  <1>4. ASSUME NEW n \in Nodes, ChatLoop(n)
        PROVE  Steady'
    BY <1>4, SteadyAnswerPeers, SteadyPublishChat, SteadyReceiveChat DEF ChatLoop
  <1>5. ASSUME NEW n \in Nodes, Redeliver(n) \/ ChatTask(n)
        PROVE  Steady'
    BY <1>5, SteadyRedeliver, SteadyShown
  <1>6. CASE UNCHANGED allVars
    <2>1. UNCHANGED <<linked, wire, subscribers, seen, events, commands, keys, phase,
                      blocked, members, posted, sending, replay, inbox>>
      BY <1>6, MessagingStill
    <2>2. \A x, y \in Nodes : /\ Under(x, y)' = Under(x, y) /\ Ordered(x)' = Ordered(x)
                              /\ InMesh(x)' = InMesh(x) /\ Holds(x)' = Holds(x)
                              /\ ShownTo(x)' = ShownTo(x) /\ Told(x)' = Told(x)
      BY <2>1 DEF Under, Ordered, InMesh, Holds, ShownTo, Told
    <2>3. \A p : \A x \in Nodes : KeyTold(p, x)' = KeyTold(p, x)
      BY <2>1, <2>2 DEF KeyTold
    <2>4. Running' /\ Links' /\ Arrivals'
      BY <2>1, <2>2, ArrivalsStay DEF Steady, Running, Links, OwnMessages, Greeted
    <2>5. KeysGo'
      BY <2>1, <2>2, <2>3 DEF Steady, KeysGo, KeysSubscribe, OrdersKnown, KeysAnswered,
         KeyUnderWay, InOrder
    <2>6. AllTravel'
      <3> SUFFICES ASSUME NEW i \in 1..Len(posted), NEW x \in posted[i].readers \cap members
                   PROVE  TravelsTo(i, x)'
        BY <2>1 DEF AllTravel
      <3>1. TravelsTo(i, x) /\ x \in Nodes /\ posted[i].from \in Nodes
        BY PostedBy DEF Steady, AllTravel
      <3> QED
        BY <2>1, <2>2, <3>1 DEF TravelsTo
    <2> QED
      BY <2>4, <2>5, <2>6 DEF Steady
  <1> QED
    BY <1>1, <1>2, <1>3, <1>4, <1>5, <1>6 DEF MessagingNext

LEMMA SteadyInitially == MessagingInit => faults \in Nat /\ Steady
  <1> SUFFICES ASSUME MessagingInit PROVE faults \in Nat /\ Steady
    OBVIOUS
  <1>1. /\ \A x \in Nodes : Told(x) = {} /\ Ordered(x) = {}
        /\ \A x, y \in Nodes : Under(x, y) = {}
        /\ \A n \in Nodes : inbox[n] = << >> /\ replay[n] = {} /\ ~Holds(n)
        /\ \A n \in Nodes : keys[n] = FriendsOf(n) /\ subscribers[n] = FriendsOf(n)
        /\ Len(posted) = 0 /\ linked = Friends /\ faults = 0
    BY DEF MessagingInit, Told, Ordered, Under, Range, Holds
  <1>2. \A a, b \in Nodes : a \in FriendsOf(b) <=> {a, b} \in Friends
    <2> SUFFICES ASSUME NEW a \in Nodes, NEW b \in Nodes
                 PROVE  a \in FriendsOf(b) <=> {a, b} \in Friends
      OBVIOUS
    <2>1. {a, b} = {b, a}
      OBVIOUS
    <2> QED
      BY <2>1, FriendsAre
  <1>3. \A a, b \in Nodes : a \in FriendsOf(b) <=> b \in FriendsOf(a)
    <2> SUFFICES ASSUME NEW a \in Nodes, NEW b \in Nodes
                 PROVE  a \in FriendsOf(b) <=> b \in FriendsOf(a)
      OBVIOUS
    <2>1. {a, b} = {b, a}
      OBVIOUS
    <2> QED
      BY <1>2, <2>1
  <1>4. Running
    <2>1. \A n \in Nodes : phase[n] \in {"unlocked", "late"}
      BY ExchangeAssumption DEF MessagingInit
    <2> QED
      BY <1>1, <2>1 DEF Running
  <1>5. Links
    BY <1>1, <1>2 DEF Links, OwnMessages, Greeted
  <1>6. KeysGo
    <2>1. KeysSubscribe /\ OrdersKnown
      BY <1>1 DEF KeysSubscribe, OrdersKnown, KeyTold
    <2>2. KeysAnswered
      BY <1>1, <1>3 DEF KeysAnswered, KeyUnderWay, KeyTold
    <2>3. InOrder
      <3> SUFFICES ASSUME NEW p \in Nodes, NEW n \in Nodes
                   PROVE  Order(p, n, p \in keys[n], events[n], wire[p][n], commands[p])
        BY DEF InOrder
      <3>1. /\ Range(events[n]) = {} /\ Range(wire[p][n]) = {} /\ Range(commands[p]) = {}
        BY <1>1 DEF Told, Under, Ordered
      <3> QED
        BY <3>1, LedEmpty DEF Order
    <2> QED
      BY <2>1, <2>2, <2>3 DEF KeysGo
  <1>7. Arrivals
    <2>1. \A n \in Nodes : \A m \in seen[n] :
             m.type = "key" /\ m.source \in FriendsOf(n)
      BY DEF MessagingInit, KeyMessage
    <2>2. SeenTold
      BY <1>1, <2>1 DEF SeenTold, KeyTold
    <2> QED
      BY <1>1, <2>2 DEF Arrivals, ReplaysShown, AllRead
  <1>8. AllTravel
    BY <1>1 DEF AllTravel
  <1> QED
    BY <1>1, <1>4, <1>5, <1>6, <1>7, <1>8 DEF Steady

\* While nothing has been lost.
SteadySoFar == faults \in Nat /\ (faults = 0 => Steady)

LEMMA SteadyAlways == MessagingSpec => []SteadySoFar
  <1>1. MessagingInit => SteadySoFar
    BY SteadyInitially DEF SteadySoFar
  <1>2. Typed /\ Sealed /\ SteadySoFar /\ [MessagingNext]_allVars => SteadySoFar'
    <2> SUFFICES ASSUME Typed, Sealed, SteadySoFar, [MessagingNext]_allVars
                 PROVE  SteadySoFar'
      OBVIOUS
    <2>1. faults' \in Nat /\ (faults' = 0 => faults = 0)
      BY FaultsStay DEF SteadySoFar
    <2>2. faults = 0 /\ faults' = 0 => Steady'
      BY SteadyKept DEF SteadySoFar
    <2> QED
      BY <2>1, <2>2 DEF SteadySoFar
  <1> QED
    BY <1>1, <1>2, TypedAlways, PTL DEF MessagingSpec

\* While no link and no publication is lost, nothing is passed on and no vault
\* is locked, no envelope is shown as a placeholder: on its way from the sender
\* the key that opens it is always ahead of it (lib.rs:569-625, 867-906).
THEOREM EnvelopesReadable == MessagingSpec => []ReadableOnArrival
  <1>1. Typed /\ SteadySoFar => ReadableOnArrival
    <2> SUFFICES ASSUME Typed, Steady, NEW n \in Nodes, NEW i \in 1..Len(inbox[n])
                 PROVE  inbox[n][i].how # "placeholder"
      BY DEF SteadySoFar, ReadableOnArrival
    <2>1. i \in DOMAIN inbox[n]
      BY LenProperties DEF Typed, ChatsOK
    <2> QED
      BY <2>1 DEF Steady, Arrivals, AllRead
  <1> QED
    BY <1>1, TypedAlways, SteadyAlways, PTL

\* In the same conditions, whoever in the room a message is encrypted for is
\* shown it or has it ahead: no envelope is published before its reader is
\* known to listen, and none is taken for a replay (lib.rs:464-495, 917;
\* p2p_network.rs:189).
THEOREM EnvelopesArrive == MessagingSpec => []EnvelopesTravel
  <1>1. Typed /\ SteadySoFar => EnvelopesTravel
    <2> SUFFICES ASSUME Typed, Steady
                 PROVE  \A i \in 1..Len(posted) : \A n \in posted[i].readers \cap members :
                          LET from == posted[i].from
                              m == ChatMessage(from, i, n)
                          IN  \/ \E j \in 1..Len(inbox[n]) : inbox[n][j].post = i
                              \/ Occurs(MessageReceived(m), events[n])
                              \/ Occurs(m, wire[from][n])
                              \/ Occurs(SendMessageToRoom(i, n), commands[from])
                                 /\ n \in InMesh(from)
      BY DEF SteadySoFar, EnvelopesTravel
    <2> TAKE i \in 1..Len(posted)
    <2> TAKE n \in posted[i].readers \cap members
    <2> DEFINE from == posted[i].from
               m == ChatMessage(from, i, n)
    <2>1. TravelsTo(i, n) /\ n \in Nodes /\ from \in Nodes
      BY PostedBy DEF Steady, AllTravel
    <2>2. i \in ShownTo(n) => \E j \in 1..Len(inbox[n]) : inbox[n][j].post = i
      <3>1. DOMAIN inbox[n] = 1..Len(inbox[n])
        BY <2>1, LenProperties DEF Typed, ChatsOK
      <3> QED
        BY <3>1 DEF ShownTo
    <2>3. /\ events[n] \in Seq(Events) /\ wire[from][n] \in Seq(Messages)
          /\ commands[from] \in Seq(Commands)
      BY <2>1, ListTypes
    <2> HIDE DEF from
    <2>4. /\ MessageReceived(m) \in Told(n) => Occurs(MessageReceived(m), events[n])
          /\ m \in Under(from, n) => Occurs(m, wire[from][n])
          /\ SendMessageToRoom(i, n) \in Ordered(from)
                => Occurs(SendMessageToRoom(i, n), commands[from])
      BY <2>3, OccursRange DEF Told, Under, Ordered
    <2> QED
      BY <2>1, <2>2, <2>4 DEF TravelsTo, from
  <1> QED
    BY <1>1, TypedAlways, SteadyAlways, PTL
===============================================================================

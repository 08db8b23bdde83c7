------------------------ MODULE PeerConnections_proofs ------------------------
(***************************************************************************)
(* What holds of the peer list for any number of peers, names, connections *)
(* and swarm events: its types, that a listed peer is connected, that the  *)
(* last list sent to the frontend is the list, and that joining and        *)
(* leaving are announced in turn and add up to the list.                   *)
(***************************************************************************)
EXTENDS PeerConnections, TLAPS, SequenceTheorems

\* The steps of the swarm, told apart by what they do to the list: a change
\* is announced, a listed peer is renamed, or nothing is told.
LEMMA SwarmSteps ==
    ASSUME NEW p \in Peers, Swarm(p)
    PROVE  /\ \/ \E name \in {Guest, None}, e \in PeerEvents : Announce(p, name, e)
              \/ \E name \in Names : Rename(p, name)
              \/ UNCHANGED <<connected, events>>
           /\ UNCHANGED <<announced, view, blocked, page>>
           /\ Handle
           /\ \/ conns[p] < MaxConns /\ conns' = [conns EXCEPT ![p] = @ + 1]
              \/ conns[p] > 0 /\ conns' = [conns EXCEPT ![p] = @ - 1]
              \/ conns' = conns
<1>1. CASE ConnectionEstablished(p)
  <2>1. PeerJoined(p) \in PeerEvents
    BY DEF PeerEvents
  <2> QED
    BY <1>1, <2>1 DEF ConnectionEstablished
<1>2. CASE ConnectionClosed(p)
  <2>1. PeerLeft(p) \in PeerEvents
    BY DEF PeerEvents
  <2> QED
    BY <1>2, <2>1 DEF ConnectionClosed
<1>3. CASE \E name \in Names : Identified(p, name) \/ ChatMessage(p, name)
  BY <1>3 DEF Identified, ChatMessage
<1> QED
  BY <1>1, <1>2, <1>3 DEF Swarm

\* What the page asks for and is answered changes nothing else.
LEMMA PageOnly ==
    ASSUME Page
    PROVE  UNCHANGED <<conns, connected, changes, events, announced, view, blocked>>
BY DEF Page, AskList, AnswerRequest, ShowAnswer, loop

-----------------------------------------------------------------------------
(* Types. *)

\* A list is sent after each change of the list, and both are lists.
LEMMA ListSent ==
    ASSUME TypeOK, NEW p \in Peers,
           \/ \E name \in {Guest, None}, e \in PeerEvents : Announce(p, name, e)
           \/ \E name \in Names : Rename(p, name)
    PROVE  /\ connected' \in PeerList
           /\ PeerListUpdated(connected') \in PeerEvents
           /\ events' \in Seq(PeerEvents)
           /\ Len(events') > 0
           /\ events'[Len(events')] = PeerListUpdated(connected')
<1>1. CASE \E name \in {Guest, None}, e \in PeerEvents : Announce(p, name, e)
  <2>1. PICK name \in {Guest, None}, e \in PeerEvents : Announce(p, name, e)
    BY <1>1
  <2>2. connected' \in PeerList
    BY <2>1 DEF Announce, TypeOK, PeerList, UserNames
  <2>3. PeerListUpdated(connected') \in PeerEvents
    BY <2>2 DEF PeerEvents
  <2>4. <<e, PeerListUpdated(connected')>> \in Seq(PeerEvents)
    BY <2>3
  <2>5. /\ events' = events \o <<e, PeerListUpdated(connected')>>
        /\ events \in Seq(PeerEvents)
    BY <2>1 DEF Announce, TypeOK
  <2> QED
    BY <2>2, <2>3, <2>4, <2>5
<1>2. CASE \E name \in Names : Rename(p, name)
  <2>1. PICK name \in Names : Rename(p, name)
    BY <1>2
  <2>2. connected' \in PeerList
    BY <2>1 DEF Rename, TypeOK, PeerList, UserNames
  <2>3. PeerListUpdated(connected') \in PeerEvents
    BY <2>2 DEF PeerEvents
  <2>4. events' = Append(events, PeerListUpdated(connected'))
        /\ events \in Seq(PeerEvents)
    BY <2>1 DEF Rename, TypeOK
  <2> QED
    BY <2>2, <2>3, <2>4
<1> QED
  BY <1>1, <1>2

\* What the event task takes off the channel.
LEMMA Emitted ==
    ASSUME TypeOK, EmitEvent
    PROVE  /\ Head(events) \in PeerEvents
           /\ Head(events) = events[1]
           /\ events' \in Seq(PeerEvents)
           /\ Len(events) > 0
           /\ Len(events') = Len(events) - 1
           /\ \A n \in 1..Len(events') : events'[n] = events[n + 1]
           /\ Head(events).type = "list" => Head(events).peers \in PeerList
           /\ Head(events).type = "joined" => Head(events).peer \in Peers
<1>1. events \in Seq(PeerEvents) /\ events # << >> /\ events' = Tail(events)
  BY DEF TypeOK, EmitEvent
<1>2. Head(events) \in PeerEvents
  BY <1>1
<1>3. /\ Head(events).type = "list" => Head(events).peers \in PeerList
      /\ Head(events).type = "joined" => Head(events).peer \in Peers
  BY <1>2 DEF PeerEvents, PeerJoined, PeerLeft, PeerListUpdated
<1> QED
  BY <1>1, <1>2, <1>3

\* The loop's state and the channel keep their types.
THEOREM TypeCorrect == Spec => []TypeOK
<1>1. Init => TypeOK
  <2> SUFFICES ASSUME Init PROVE TypeOK
    OBVIOUS
  <2>1. /\ connected \in PeerList /\ view \in PeerList /\ shown \in PeerList
        /\ answers \in [PeerList -> Nat] /\ asked \in Nat /\ asks \in 0..MaxAsks
    BY PeerAssumption DEF Init, PeerList
  <2>2. << >> \in Seq(PeerEvents)
    OBVIOUS
  <2>3. conns \in [Peers -> 0..MaxConns] /\ changes \in 0..MaxChanges
    BY PeerAssumption DEF Init
  <2> QED
    BY <2>1, <2>2, <2>3 DEF Init, TypeOK
<1>2. TypeOK /\ [Next]_vars => TypeOK'
  <2> SUFFICES ASSUME TypeOK, [Next]_vars PROVE TypeOK'
    OBVIOUS
  <2>1. ASSUME NEW p \in Peers, Swarm(p) PROVE TypeOK'
    <3>1. connected' \in PeerList /\ events' \in Seq(PeerEvents)
      BY <2>1, SwarmSteps, ListSent DEF TypeOK
    <3>2. conns' \in [Peers -> 0..MaxConns]
      BY <2>1, SwarmSteps, PeerAssumption DEF TypeOK
    <3>3. changes' \in 0..MaxChanges
      BY <2>1, SwarmSteps, PeerAssumption DEF TypeOK, Handle
    <3>4. UNCHANGED <<announced, view, blocked, page>>
      BY <2>1, SwarmSteps
    <3> QED
      BY <3>1, <3>2, <3>3, <3>4 DEF TypeOK, page
  <2>2. CASE EmitEvent
    <3>1. announced' \in SUBSET Peers
      BY <2>2, Emitted DEF EmitEvent, TypeOK
    <3>2. /\ view' \in PeerList /\ shown' \in PeerList
          /\ asked' \in Nat /\ late' \in BOOLEAN
      <4>1. CASE Head(events).type = "list"
        <5>1. /\ view' = Head(events).peers /\ shown' = Head(events).peers
              /\ late' = FALSE /\ asked' = asked
          BY <2>2, <4>1 DEF EmitEvent
        <5> QED
          BY <2>2, <4>1, <5>1, Emitted DEF TypeOK
      <4>2. CASE Head(events).type # "list"
        <5>1. asked' = asked + 1 /\ UNCHANGED <<view, shown, late>>
          BY <2>2, <4>2 DEF EmitEvent
        <5> QED
          BY <5>1 DEF TypeOK
      <4> QED
        BY <4>1, <4>2
    <3>3. events' \in Seq(PeerEvents)
      BY <2>2, Emitted
    <3>4. UNCHANGED <<conns, connected, changes, blocked, answers, asks>>
      BY <2>2 DEF EmitEvent, loop
    <3> QED
      BY <3>1, <3>2, <3>3, <3>4 DEF TypeOK
  <2>3. CASE EventTaskBlocks
    BY <2>3 DEF EventTaskBlocks, TypeOK, loop, page
  <2>4. CASE Page
    <3>1. /\ asked' \in Nat /\ asks' \in 0..MaxAsks
      BY <2>4, PeerAssumption DEF Page, AskList, AnswerRequest, ShowAnswer, TypeOK
    <3>2. answers' \in [PeerList -> Nat]
      BY <2>4 DEF Page, AskList, AnswerRequest, ShowAnswer, TypeOK
    <3>3. shown' \in PeerList /\ late' \in BOOLEAN
      BY <2>4 DEF Page, AskList, AnswerRequest, ShowAnswer, TypeOK
    <3> QED
      BY <2>4, <3>1, <3>2, <3>3, PageOnly DEF TypeOK
  <2>5. CASE UNCHANGED vars
    BY <2>5 DEF vars, TypeOK
  <2> QED
    BY <2>1, <2>2, <2>3, <2>4, <2>5 DEF Next
<1> QED
  BY <1>1, <1>2, PTL DEF Spec
-----------------------------------------------------------------------------
(* A listed peer is connected. *)

\* Being listed lasts until the next connection closes; only a connection
\* that opens lists a peer.  The other peers are left alone.
LEMMA ListedSteps ==
    ASSUME TypeOK, ListedIsConnected, NEW p \in Peers, Swarm(p)
    PROVE  ListedIsConnected'
<1> USE PeerAssumption DEF TypeOK, PeerList, UserNames
<1>1. CASE ConnectionEstablished(p)
  BY <1>1 DEF ConnectionEstablished, Announce, ListedIsConnected, Listed
<1>2. CASE ConnectionClosed(p)
  BY <1>2 DEF ConnectionClosed, Announce, ListedIsConnected, Listed
<1>3. CASE \E name \in Names : Identified(p, name) \/ ChatMessage(p, name)
  BY <1>3 DEF Identified, ChatMessage, Rename, ListedIsConnected, Listed
<1> QED
  BY <1>1, <1>2, <1>3 DEF Swarm

\* A listed peer has an open connection, however connections, renamings and
\* messages of peers no longer connected follow on each other.
THEOREM ListedPeersAreConnected == Spec => []ListedIsConnected
<1>1. Init => ListedIsConnected
  BY DEF Init, ListedIsConnected, Listed
<1>2. TypeOK /\ ListedIsConnected /\ [Next]_vars => ListedIsConnected'
  <2> SUFFICES ASSUME TypeOK, ListedIsConnected, [Next]_vars
               PROVE  ListedIsConnected'
    OBVIOUS
  <2>1. CASE \E p \in Peers : Swarm(p)
    BY <2>1, ListedSteps
  <2>2. CASE EmitEvent
    BY <2>2 DEF EmitEvent, ListedIsConnected, Listed, loop
  <2>3. CASE EventTaskBlocks
    BY <2>3 DEF EventTaskBlocks, ListedIsConnected, Listed, loop
  <2>4. CASE Page
    BY <2>4, PageOnly DEF ListedIsConnected, Listed
  <2>5. CASE UNCHANGED vars
    BY <2>5 DEF vars, ListedIsConnected, Listed
  <2> QED
    BY <2>1, <2>2, <2>3, <2>4, <2>5 DEF Next
<1> QED
  BY <1>1, <1>2, TypeCorrect, PTL DEF Spec

-----------------------------------------------------------------------------
(* The last list sent is the list. *)

\* Taking an event off the channel moves the others up by one, and shows the
\* frontend the list in it.
LEMMA SnapshotEmitted ==
    ASSUME TypeOK, LastSnapshotIsCurrent, EmitEvent
    PROVE  LastSnapshotIsCurrent'
<1> DEFINE e == Head(events)
<1>1. /\ events' \in Seq(PeerEvents) /\ events \in Seq(PeerEvents)
      /\ Len(events) \in Nat /\ Len(events') \in Nat
      /\ Len(events') = Len(events) - 1
      /\ \A n \in 1..Len(events') : events'[n] = events[n + 1]
      /\ e = events[1] /\ Len(events) > 0
  BY Emitted DEF TypeOK
<1>2. /\ connected' = connected
      /\ view' = IF e.type = "list" THEN e.peers ELSE view
  BY DEF EmitEvent, loop
<1>3. CASE connected = view /\ \A n \in 1..Len(events) : events[n].type # "list"
  <2>1. e.type # "list"
    BY <1>1, <1>3
  <2>2. \A n \in 1..Len(events') : events'[n].type # "list"
    BY <1>1, <1>3
  <2> QED
    BY <2>1, <2>2, <1>2, <1>3 DEF LastSnapshotIsCurrent
<1>4. ASSUME NEW n \in 1..Len(events),
             events[n] = PeerListUpdated(connected),
             \A m \in n + 1..Len(events) : events[m].type # "list"
      PROVE  LastSnapshotIsCurrent'
  <2>1. CASE n = 1
    <3>1. e.type = "list" /\ e.peers = connected
      BY <1>1, <1>4, <2>1 DEF PeerListUpdated
    <3>2. \A m \in 1..Len(events') : events'[m].type # "list"
      BY <1>1, <1>4, <2>1
    <3> QED
      BY <3>1, <3>2, <1>2 DEF LastSnapshotIsCurrent
  <2>2. CASE n # 1
    <3>1. n - 1 \in 1..Len(events') /\ (n - 1) + 1 = n
      BY <1>1, <2>2
    <3>2. events'[n - 1] = PeerListUpdated(connected')
      BY <1>1, <1>2, <1>4, <3>1
    <3>3. \A m \in (n - 1) + 1..Len(events') : events'[m].type # "list"
      <4> SUFFICES ASSUME NEW m \in (n - 1) + 1..Len(events')
                   PROVE  events'[m].type # "list"
        OBVIOUS
      <4>1. m \in 1..Len(events') /\ m + 1 \in n + 1..Len(events)
        BY <1>1
      <4> QED
        BY <4>1, <1>1, <1>4
    <3> QED
      BY <3>1, <3>2, <3>3 DEF LastSnapshotIsCurrent
  <2> QED
    BY <2>1, <2>2
<1> QED
  BY <1>3, <1>4 DEF LastSnapshotIsCurrent

\* The frontend's list, or the last list on its way to it, is the list,
\* usernames included, after every step of the swarm and of the event task.
THEOREM SnapshotIsCurrent == Spec => []LastSnapshotIsCurrent
<1>1. Init => LastSnapshotIsCurrent
  BY DEF Init, LastSnapshotIsCurrent
<1>2. TypeOK /\ LastSnapshotIsCurrent /\ [Next]_vars => LastSnapshotIsCurrent'
  <2> SUFFICES ASSUME TypeOK, LastSnapshotIsCurrent, [Next]_vars
               PROVE  LastSnapshotIsCurrent'
    OBVIOUS
  <2>1. ASSUME NEW p \in Peers, Swarm(p) PROVE LastSnapshotIsCurrent'
    <3>1. CASE UNCHANGED <<connected, events>>
      BY <3>1, <2>1, SwarmSteps DEF LastSnapshotIsCurrent
    <3>2. CASE ~UNCHANGED <<connected, events>>
      <4>1. /\ events' \in Seq(PeerEvents) /\ Len(events') > 0
            /\ events'[Len(events')] = PeerListUpdated(connected')
        BY <3>2, <2>1, SwarmSteps, ListSent
      <4>2. Len(events') \in 1..Len(events')
        BY <4>1
      <4>3. \A m \in Len(events') + 1..Len(events') : FALSE
        BY <4>1
      <4> QED
        BY <4>1, <4>2, <4>3 DEF LastSnapshotIsCurrent
    <3> QED
      BY <3>1, <3>2
  <2>2. CASE EmitEvent
    BY <2>2, SnapshotEmitted
  <2>3. CASE EventTaskBlocks
    BY <2>3 DEF EventTaskBlocks, LastSnapshotIsCurrent, loop
  <2>4. CASE Page
    BY <2>4, PageOnly DEF LastSnapshotIsCurrent
  <2>5. CASE UNCHANGED vars
    BY <2>5 DEF vars, LastSnapshotIsCurrent
  <2> QED
    BY <2>1, <2>2, <2>3, <2>4, <2>5 DEF Next
<1> QED
  BY <1>1, <1>2, TypeCorrect, PTL DEF Spec

-----------------------------------------------------------------------------
(* Joining and leaving are announced in turn. *)

\* Told, for any users already told and any channel.
ToldOf(told, channel, n) ==
    {p \in Peers :
        \/ /\ p \in told
           /\ \A j \in 1..n : channel[j] # PeerLeft(p)
        \/ \E i \in 1..n :
              /\ channel[i] = PeerJoined(p)
              /\ \A j \in i..n : channel[j] # PeerLeft(p)}

InTurn(told, channel) ==
    \A n \in 1..Len(channel), p \in Peers :
        /\ channel[n] = PeerJoined(p) => p \notin ToldOf(told, channel, n - 1)
        /\ channel[n] = PeerLeft(p) => p \in ToldOf(told, channel, n - 1)

\* One more event.
LEMMA ToldNext ==
    ASSUME NEW told, NEW channel, NEW n \in Nat \ {0}, NEW p \in Peers
    PROVE  p \in ToldOf(told, channel, n) <=>
              \/ channel[n] = PeerJoined(p)
              \/ p \in ToldOf(told, channel, n - 1) /\ channel[n] # PeerLeft(p)
<1>1. ASSUME p \in ToldOf(told, channel, n), channel[n] # PeerJoined(p)
      PROVE  p \in ToldOf(told, channel, n - 1) /\ channel[n] # PeerLeft(p)
  <2>1. CASE p \in told /\ \A j \in 1..n : channel[j] # PeerLeft(p)
    BY <2>1 DEF ToldOf
  <2>2. ASSUME NEW i \in 1..n, channel[i] = PeerJoined(p),
               \A j \in i..n : channel[j] # PeerLeft(p)
        PROVE  p \in ToldOf(told, channel, n - 1) /\ channel[n] # PeerLeft(p)
    <3>1. i \in 1..n - 1
      BY <1>1, <2>2
    <3> QED
      BY <2>2, <3>1 DEF ToldOf
  <2> QED
    BY <1>1, <2>1, <2>2 DEF ToldOf
<1>2. ASSUME channel[n] = PeerJoined(p)
      PROVE  p \in ToldOf(told, channel, n)
  <2>1. PeerJoined(p) # PeerLeft(p)
    BY DEF PeerJoined, PeerLeft
  <2>2. n \in 1..n /\ \A j \in n..n : j = n
    OBVIOUS
  <2> QED
    BY <1>2, <2>1, <2>2 DEF ToldOf
<1>3. ASSUME p \in ToldOf(told, channel, n - 1), channel[n] # PeerLeft(p)
      PROVE  p \in ToldOf(told, channel, n)
  <2>1. \A i \in 1..n : \A j \in i..n : j = n \/ j \in i..n - 1
    OBVIOUS
  <2>2. 1..n - 1 \subseteq 1..n /\ 1 \in 1..n
    OBVIOUS
  <2> QED
    BY <1>3, <2>1, <2>2 DEF ToldOf
<1> QED
  BY <1>1, <1>2, <1>3

\* Events at the end of a channel do not change what those before them tell.
LEMMA ToldPrefix ==
    ASSUME NEW told, NEW channel, NEW longer, NEW n \in Nat,
           \A i \in 1..n : longer[i] = channel[i]
    PROVE  ToldOf(told, longer, n) = ToldOf(told, channel, n)
<1>1. \A i \in 1..n : i..n \subseteq 1..n
  OBVIOUS
<1> QED
  BY <1>1 DEF ToldOf

\* Telling the first event and then n more is telling n + 1.
LEMMA ToldRest ==
    ASSUME NEW told, NEW channel, NEW now, NEW rest, NEW n \in Nat,
           \A p \in Peers :
              p \in now <=> \/ channel[1] = PeerJoined(p)
                            \/ p \in told /\ channel[1] # PeerLeft(p),
           \A i \in 1..n : rest[i] = channel[i + 1]
    PROVE  ToldOf(now, rest, n) = ToldOf(told, channel, n + 1)
<1>0. \A p \in Peers : PeerJoined(p) # PeerLeft(p)
  BY DEF PeerJoined, PeerLeft
<1>1. ASSUME NEW p \in Peers, p \in ToldOf(now, rest, n)
      PROVE  p \in ToldOf(told, channel, n + 1)
  <2>1. CASE p \in now /\ \A j \in 1..n : rest[j] # PeerLeft(p)
    <3>1. \A j \in 2..n + 1 : channel[j] # PeerLeft(p)
      <4> SUFFICES ASSUME NEW j \in 2..n + 1 PROVE channel[j] # PeerLeft(p)
        OBVIOUS
      <4>1. j - 1 \in 1..n /\ (j - 1) + 1 = j
        OBVIOUS
      <4> QED
        BY <4>1, <2>1
    <3>2. \A j \in 1..n + 1 : j = 1 \/ j \in 2..n + 1
      OBVIOUS
    <3>3. 1 \in 1..n + 1
      OBVIOUS
    <3>4. CASE channel[1] = PeerJoined(p)
      BY <3>1, <3>2, <3>3, <3>4, <1>0 DEF ToldOf
    <3>5. CASE p \in told /\ channel[1] # PeerLeft(p)
      BY <3>1, <3>2, <3>5 DEF ToldOf
    <3> QED
      BY <2>1, <3>4, <3>5
  <2>2. ASSUME NEW i \in 1..n, rest[i] = PeerJoined(p),
               \A j \in i..n : rest[j] # PeerLeft(p)
        PROVE  p \in ToldOf(told, channel, n + 1)
    <3>1. i + 1 \in 1..n + 1 /\ channel[i + 1] = PeerJoined(p)
      BY <2>2
    <3>2. \A j \in i + 1..n + 1 : channel[j] # PeerLeft(p)
      <4> SUFFICES ASSUME NEW j \in i + 1..n + 1 PROVE channel[j] # PeerLeft(p)
        OBVIOUS
      <4>1. j - 1 \in i..n /\ j - 1 \in 1..n /\ (j - 1) + 1 = j
        OBVIOUS
      <4> QED
        BY <4>1, <2>2
    <3> QED
      BY <3>1, <3>2 DEF ToldOf
  <2> QED
    BY <1>1, <2>1, <2>2 DEF ToldOf
<1>2. ASSUME NEW p \in Peers, p \in ToldOf(told, channel, n + 1)
      PROVE  p \in ToldOf(now, rest, n)
  <2>1. \A j \in 1..n : j + 1 \in 1..n + 1 /\ rest[j] = channel[j + 1]
    OBVIOUS
  <2>2. CASE p \in told /\ \A j \in 1..n + 1 : channel[j] # PeerLeft(p)
    <3>1. 1 \in 1..n + 1
      OBVIOUS
    <3> QED
      BY <2>1, <2>2, <3>1 DEF ToldOf
  <2>3. ASSUME NEW i \in 1..n + 1, channel[i] = PeerJoined(p),
               \A j \in i..n + 1 : channel[j] # PeerLeft(p)
        PROVE  p \in ToldOf(now, rest, n)
    <3>1. CASE i = 1
      <4>1. p \in now
        BY <2>3, <3>1
      <4>2. \A j \in 1..n : rest[j] # PeerLeft(p)
        BY <2>1, <2>3, <3>1
      <4> QED
        BY <4>1, <4>2 DEF ToldOf
    <3>2. CASE i # 1
      <4>1. i - 1 \in 1..n /\ rest[i - 1] = PeerJoined(p)
        <5>1. i - 1 \in 1..n /\ (i - 1) + 1 = i
          BY <3>2
        <5> QED
          BY <5>1, <2>1, <2>3
      <4>2. \A j \in i - 1..n : rest[j] # PeerLeft(p)
        <5> SUFFICES ASSUME NEW j \in i - 1..n PROVE rest[j] # PeerLeft(p)
          OBVIOUS
        <5>1. j \in 1..n /\ j + 1 \in i..n + 1
          BY <3>2
        <5> QED
          BY <5>1, <2>1, <2>3
      <4> QED
        BY <4>1, <4>2 DEF ToldOf
    <3> QED
      BY <3>1, <3>2
  <2> QED
    BY <1>2, <2>2, <2>3 DEF ToldOf
<1>3. ToldOf(now, rest, n) \subseteq Peers
      /\ ToldOf(told, channel, n + 1) \subseteq Peers
  BY DEF ToldOf
<1> QED
  BY <1>1, <1>2, <1>3
\* AnnouncementsAlternate in these terms.
LEMMA AlternateInTurn ==
    /\ AnnouncementsAlternate <=>
          /\ InTurn(announced, events)
          /\ ToldOf(announced, events, Len(events)) = Listed
    /\ AnnouncementsAlternate' <=>
          /\ InTurn(announced', events')
          /\ ToldOf(announced', events', Len(events')) = Listed'
BY DEF AnnouncementsAlternate, Told, InTurn, ToldOf

\* A list says nothing of who joined or left; an event of one peer is of no
\* other.
LEMMA EventsApart ==
    /\ \A list, q : PeerListUpdated(list) # PeerJoined(q)
                    /\ PeerListUpdated(list) # PeerLeft(q)
    /\ \A q, r : PeerJoined(q) # PeerLeft(r)
    /\ \A q, r : PeerJoined(q) = PeerJoined(r) => q = r
    /\ \A q, r : PeerLeft(q) = PeerLeft(r) => q = r
BY DEF PeerJoined, PeerLeft, PeerListUpdated

\* A channel stays in turn when what is added to it is.
LEMMA InTurnLonger ==
    ASSUME NEW told, NEW channel, NEW longer,
           Len(channel) \in Nat, Len(longer) \in Nat,
           \A i \in 1..Len(channel) : longer[i] = channel[i],
           InTurn(told, channel),
           \A n \in Len(channel) + 1..Len(longer), p \in Peers :
              /\ longer[n] = PeerJoined(p) => p \notin ToldOf(told, longer, n - 1)
              /\ longer[n] = PeerLeft(p) => p \in ToldOf(told, longer, n - 1)
    PROVE  InTurn(told, longer)
<1> SUFFICES ASSUME NEW n \in 1..Len(longer), NEW p \in Peers
             PROVE  /\ longer[n] = PeerJoined(p) => p \notin ToldOf(told, longer, n - 1)
                    /\ longer[n] = PeerLeft(p) => p \in ToldOf(told, longer, n - 1)
  BY DEF InTurn
<1>1. CASE n \in 1..Len(channel)
  <2>1. n - 1 \in Nat /\ \A i \in 1..n - 1 : longer[i] = channel[i]
    BY <1>1
  <2>2. ToldOf(told, longer, n - 1) = ToldOf(told, channel, n - 1)
    BY <2>1, ToldPrefix
  <2>3. longer[n] = channel[n]
    BY <1>1
  <2> QED
    BY <1>1, <2>2, <2>3 DEF InTurn
<1>2. CASE n \in Len(channel) + 1..Len(longer)
  BY <1>2
<1> QED
  BY <1>1, <1>2

\* A list added to the channel changes nothing about who has joined.
LEMMA ToldList ==
    ASSUME NEW told, NEW channel, NEW n \in Nat \ {0}, NEW list,
           channel[n] = PeerListUpdated(list)
    PROVE  ToldOf(told, channel, n) = ToldOf(told, channel, n - 1)
<1>1. \A p \in Peers : p \in ToldOf(told, channel, n) <=>
                       p \in ToldOf(told, channel, n - 1)
  BY ToldNext, EventsApart
<1>2. /\ ToldOf(told, channel, n) \subseteq Peers
      /\ ToldOf(told, channel, n - 1) \subseteq Peers
  BY DEF ToldOf
<1> QED
  BY <1>1, <1>2

\* A peer put on the list or taken off it, and its event.
LEMMA AnnouncedInTurn ==
    ASSUME TypeOK, AnnouncementsAlternate,
           NEW p \in Peers, NEW name, NEW e,
           Announce(p, name, e), announced' = announced,
           \/ e = PeerJoined(p) /\ p \notin Listed /\ name # None
           \/ e = PeerLeft(p) /\ p \in Listed /\ name = None
    PROVE  AnnouncementsAlternate'
<1> DEFINE L == Len(events)
           T(n) == ToldOf(announced, events', n)
<1>1. /\ L \in Nat /\ Len(events') = L + 2
      /\ \A i \in 1..L : events'[i] = events[i]
      /\ events'[L + 1] = e
      /\ events'[L + 2] = PeerListUpdated(connected')
  BY DEF Announce, TypeOK
<1>2. T(L) = Listed
  BY <1>1, ToldPrefix, AlternateInTurn
<1>3. \A q \in Peers : q \in T(L + 1) <=>
          e = PeerJoined(q) \/ (q \in T(L) /\ e # PeerLeft(q))
  <2>1. L + 1 \in Nat \ {0} /\ (L + 1) - 1 = L
    BY <1>1
  <2>2. \A q \in Peers : q \in T(L + 1) <=>
          events'[L + 1] = PeerJoined(q) \/ (q \in T(L) /\ events'[L + 1] # PeerLeft(q))
    BY <2>1, ToldNext
  <2> QED
    BY <1>1, <2>2
<1>4. T(L + 2) = T(L + 1)
  <2>1. L + 2 \in Nat \ {0} /\ (L + 2) - 1 = L + 1
    BY <1>1
  <2> QED
    BY <1>1, <2>1, ToldList
<1>5. T(L + 2) = Listed'
  <2>1. \A q \in Peers : q \in Listed' <=> IF q = p THEN name # None ELSE q \in Listed
    BY DEF Announce, TypeOK, PeerList, Listed
  <2>2. \A q \in Peers : q \in T(L + 1) <=> q \in Listed'
    <3> HIDE DEF T
    <3> QED
      BY <1>2, <1>3, <2>1, EventsApart
  <2>3. T(L + 1) \subseteq Peers /\ Listed' \subseteq Peers
    BY DEF ToldOf, Listed
  <2> QED
    BY <1>4, <2>2, <2>3
<1>6. InTurn(announced, events')
  <2>1. ASSUME NEW n \in L + 1..Len(events'), NEW q \in Peers
        PROVE  /\ events'[n] = PeerJoined(q) => q \notin T(n - 1)
               /\ events'[n] = PeerLeft(q) => q \in T(n - 1)
    <3>1. CASE n = L + 1
      <4>1. events'[n] = e /\ T(n - 1) = Listed
        BY <1>1, <1>2, <3>1
      <4> HIDE DEF T
      <4> QED
        BY <4>1, EventsApart
    <3>2. CASE n = L + 2
      BY <1>1, <3>2, EventsApart
    <3> QED
      BY <1>1, <3>1, <3>2
  <2> QED
    BY <1>1, <2>1, AlternateInTurn, InTurnLonger
<1> QED
  BY <1>1, <1>5, <1>6, AlternateInTurn

\* A listed peer renamed: a list is sent and nobody joins or leaves.
LEMMA RenamedInTurn ==
    ASSUME TypeOK, AnnouncementsAlternate, NEW p \in Peers, NEW name \in Names,
           Rename(p, name), announced' = announced
    PROVE  AnnouncementsAlternate'
<1> DEFINE L == Len(events)
<1>1. /\ L \in Nat /\ Len(events') = L + 1
      /\ \A i \in 1..L : events'[i] = events[i]
      /\ events'[L + 1] = PeerListUpdated(connected')
  BY DEF Rename, TypeOK
<1>2. Listed' = Listed
  BY PeerAssumption DEF Rename, TypeOK, PeerList, Listed
<1>3. ToldOf(announced, events', L) = Listed
  BY <1>1, ToldPrefix, AlternateInTurn
<1>4. ToldOf(announced, events', L + 1) = Listed
  <2>1. L + 1 \in Nat \ {0} /\ (L + 1) - 1 = L
    BY <1>1
  <2> QED
    BY <1>1, <1>3, <2>1, ToldList
<1>5. InTurn(announced, events')
  <2>1. \A n \in L + 1..Len(events') : n = L + 1
    BY <1>1
  <2>2. \A n \in L + 1..Len(events'), q \in Peers :
           events'[n] # PeerJoined(q) /\ events'[n] # PeerLeft(q)
    BY <1>1, <2>1, EventsApart
  <2> QED
    BY <1>1, <2>2, AlternateInTurn, InTurnLonger
<1> QED
  BY <1>1, <1>2, <1>4, <1>5, AlternateInTurn

\* The event task tells the user what the channel already counted as told.
LEMMA EmittedInTurn ==
    ASSUME TypeOK, AnnouncementsAlternate, EmitEvent
    PROVE  AnnouncementsAlternate'
<1>1. /\ Len(events) \in Nat /\ Len(events) > 0 /\ Len(events') \in Nat
      /\ Len(events') = Len(events) - 1
      /\ \A n \in 1..Len(events') : events'[n] = events[n + 1]
      /\ Head(events) = events[1] /\ Head(events) \in PeerEvents
  BY Emitted DEF TypeOK
<1>2. ASSUME NEW p \in Peers
      PROVE  p \in announced' <=> \/ events[1] = PeerJoined(p)
                                  \/ p \in announced /\ events[1] # PeerLeft(p)
  <2> DEFINE e == Head(events)
  <2>1. announced' = CASE e.type = "joined" -> announced \cup {e.peer}
                       [] e.type = "left"   -> announced \ {e.peer}
                       [] OTHER             -> announced
    BY DEF EmitEvent
  <2>2. CASE \E q \in Peers : e = PeerJoined(q)
    BY <1>1, <2>1, <2>2, EventsApart DEF PeerJoined
  <2>3. CASE \E q \in Peers : e = PeerLeft(q)
    BY <1>1, <2>1, <2>3, EventsApart DEF PeerLeft
  <2>4. CASE \E list \in PeerList : e = PeerListUpdated(list)
    <3>1. e.type = "list"
      BY <2>4 DEF PeerListUpdated
    <3>2. announced' = announced
      BY <2>1, <3>1
    <3>3. e # PeerJoined(p) /\ e # PeerLeft(p)
      BY <2>4, EventsApart
    <3> QED
      BY <1>1, <3>2, <3>3
  <2> QED
    BY <1>1, <2>2, <2>3, <2>4 DEF PeerEvents
<1>3. ASSUME NEW n \in 0..Len(events')
      PROVE  ToldOf(announced', events', n) = ToldOf(announced, events, n + 1)
  <2>1. n \in Nat /\ \A i \in 1..n : events'[i] = events[i + 1]
    BY <1>1
  <2> QED
    BY <1>2, <2>1, ToldRest
<1>4. Listed' = Listed
  BY DEF EmitEvent, Listed, loop
<1>5. ToldOf(announced', events', Len(events')) = Listed'
  BY <1>1, <1>3, <1>4, AlternateInTurn
<1>6. InTurn(announced', events')
  <2> SUFFICES ASSUME NEW n \in 1..Len(events'), NEW p \in Peers
               PROVE  /\ events'[n] = PeerJoined(p) =>
                           p \notin ToldOf(announced', events', n - 1)
                      /\ events'[n] = PeerLeft(p) =>
                           p \in ToldOf(announced', events', n - 1)
    BY DEF InTurn
  <2>1. /\ n - 1 \in 0..Len(events') /\ (n - 1) + 1 = n
        /\ n + 1 \in 1..Len(events) /\ (n + 1) - 1 = n
    BY <1>1
  <2>2. ToldOf(announced', events', n - 1) = ToldOf(announced, events, n)
    BY <1>3, <2>1
  <2>3. /\ events[n + 1] = PeerJoined(p) => p \notin ToldOf(announced, events, n)
        /\ events[n + 1] = PeerLeft(p) => p \in ToldOf(announced, events, n)
    BY <2>1, AlternateInTurn DEF InTurn
  <2> QED
    BY <1>1, <2>2, <2>3
<1> QED
  BY <1>5, <1>6, AlternateInTurn

\* Joining and leaving alternate for each peer, and what the user has been
\* told and will be told adds up to the list.
THEOREM AnnouncementsInTurn == Spec => []AnnouncementsAlternate
<1>1. Init => AnnouncementsAlternate
  BY DEF Init, AnnouncementsAlternate, Told, Listed
<1>2. TypeOK /\ AnnouncementsAlternate /\ [Next]_vars => AnnouncementsAlternate'
  <2> SUFFICES ASSUME TypeOK, AnnouncementsAlternate, [Next]_vars
               PROVE  AnnouncementsAlternate'
    OBVIOUS
  <2>0. UNCHANGED <<connected, events, announced>> => AnnouncementsAlternate'
    BY DEF AnnouncementsAlternate, Told, Listed
  <2>1. ASSUME NEW p \in Peers, ConnectionEstablished(p)
        PROVE  AnnouncementsAlternate'
    <3>1. Guest # None
      BY PeerAssumption
    <3> QED
      BY <2>0, <2>1, <3>1, AnnouncedInTurn DEF ConnectionEstablished
  <2>2. ASSUME NEW p \in Peers, ConnectionClosed(p)
        PROVE  AnnouncementsAlternate'
    BY <2>0, <2>2, AnnouncedInTurn DEF ConnectionClosed
  <2>3. ASSUME NEW p \in Peers, NEW name \in Names,
               Identified(p, name) \/ ChatMessage(p, name)
        PROVE  AnnouncementsAlternate'
    BY <2>3, RenamedInTurn DEF Identified, ChatMessage
  <2>4. CASE EmitEvent
    BY <2>4, EmittedInTurn
  <2>5. CASE EventTaskBlocks
    BY <2>0, <2>5 DEF EventTaskBlocks, loop
  <2>6. CASE Page
    BY <2>0, <2>6, PageOnly
  <2>7. CASE UNCHANGED vars
    BY <2>0, <2>7 DEF vars
  <2> QED
    BY <2>1, <2>2, <2>3, <2>4, <2>5, <2>6, <2>7 DEF Next, Swarm
<1> QED
  BY <1>1, <1>2, TypeCorrect, PTL DEF Spec
=============================================================================

--------------------------- MODULE PeerConnections ---------------------------
(***************************************************************************)
(* The list of connected peers one WireTalk node keeps, and how it reaches *)
(* the frontend: run_network_loop and handle_swarm_event of                *)
(* src-tauri/src/p2p_network.rs, and the peer events of the task in        *)
(* src-tauri/src/lib.rs, and the list the page of src/main.ts shows.       *)
(*                                                                         *)
(* libp2p keeps any number of connections to one peer: each side dials     *)
(* what mDNS tells it about, so two at once are usual.  The loop handles   *)
(* one swarm event at a time and sends P2PEvents through an unbounded      *)
(* channel; a task drains them in order and emits them to the frontend,    *)
(* unless it has come to wait for itself in the handler of a key exchange  *)
(* (SecureVault!SelfBlocked).                                              *)
(*                                                                         *)
(* The page shows the list of each peer_list_updated.  After other events  *)
(* it also asks the loop for the list, and shows the answers in the order  *)
(* they come back.  Events reach it in the order they are emitted, and are  *)
(* taken to be shown when they are.                                        *)
(***************************************************************************)
EXTENDS Naturals, Sequences

CONSTANTS
    Peers,      \* the other nodes
    Names,      \* usernames a peer may announce
    Guest,      \* "Peer_<id>", the username of a peer not yet identified
    None,
    MaxConns,   \* bound on the connections open to one peer
    MaxChanges, \* bound on the swarm events handled
    MaxAsks     \* bound on the lists asked for without a peer joining or leaving

ASSUME PeerAssumption ==
    /\ Guest \notin Names
    /\ None \notin Names \cup {Guest}
    /\ MaxConns \in Nat \ {0}
    /\ MaxChanges \in Nat
    /\ MaxAsks \in Nat

VARIABLES
    conns,      \* the swarm's open connections to each peer
    connected,  \* connected_peers: the username of each listed peer, or None
    events,     \* the channel of P2PEvents
    announced,  \* peers the user was last told have joined
    view,       \* the list in the last peer_list_updated the frontend got
    blocked,    \* the event task waits for itself
    changes,    \* swarm events handled so far
    shown,      \* the list on the page
    asked,      \* requests of the page on their way to the loop
    answers,    \* how many of each answer are on their way to the page
    asks,       \* counter against the bound
    late        \* history: the page shows an answer that was not the list any more

vars == <<conns, connected, events, announced, view, blocked, changes,
          shown, asked, answers, asks, late>>
loop == <<conns, connected, changes>>
page == <<shown, asked, answers, asks, late>>

UserNames == Names \cup {Guest}
PeerList == [Peers -> UserNames \cup {None}]

PeerJoined(p) == [type |-> "joined", peer |-> p]
PeerLeft(p) == [type |-> "left", peer |-> p]
PeerListUpdated(list) == [type |-> "list", peers |-> list]

PeerEvents == {PeerJoined(p) : p \in Peers} \cup {PeerLeft(p) : p \in Peers}
                  \cup {PeerListUpdated(list) : list \in PeerList}

Listed == {p \in Peers : connected[p] # None}

Init ==
    /\ conns = [p \in Peers |-> 0]
    /\ connected = [p \in Peers |-> None]
    /\ events = << >>
    /\ announced = {}
    /\ view = [p \in Peers |-> None]
    /\ blocked = FALSE
    /\ changes = 0
    /\ shown = [p \in Peers |-> None]
    /\ asked = 0
    /\ answers = [list \in PeerList |-> 0]
    /\ asks = 0
    /\ late = FALSE

-----------------------------------------------------------------------------
(* The network loop. *)

\* One more swarm event.
Handle == changes < MaxChanges /\ changes' = changes + 1

\* Mutant: a listed peer's username is left empty.
AnnounceBlank(p, name, event) ==
    /\ connected' = [connected EXCEPT ![p] = IF name = None THEN None ELSE ""]
    /\ events' = events \o <<event, PeerListUpdated(connected')>>

\* Set the entry of p and send the event about p, then the new list.
Announce(p, name, event) ==
    /\ connected' = [connected EXCEPT ![p] = name]
    /\ events' = events \o <<event, PeerListUpdated(connected')>>

\* Mutant: every connection counts as a new peer.
ConnectionEstablishedAlwaysNew(p) ==
    /\ Handle
    /\ conns[p] < MaxConns
    /\ conns' = [conns EXCEPT ![p] = @ + 1]
    /\ Announce(p, Guest, PeerJoined(p))
    /\ UNCHANGED <<announced, view, blocked, page>>

\* ConnectionEstablished: a peer that is not listed is new.
ConnectionEstablished(p) ==
    /\ Handle
    /\ conns[p] < MaxConns
    /\ conns' = [conns EXCEPT ![p] = @ + 1]
    /\ \/ p \notin Listed /\ Announce(p, Guest, PeerJoined(p))
       \/ p \in Listed /\ UNCHANGED <<connected, events>>
    /\ UNCHANGED <<announced, view, blocked, page>>

\* Mutant: the new list is not sent when a peer leaves.
ConnectionClosedUntold(p) ==
    /\ Handle
    /\ conns[p] > 0
    /\ conns' = [conns EXCEPT ![p] = @ - 1]
    /\ \/ /\ p \in Listed
          /\ connected' = [connected EXCEPT ![p] = None]
          /\ events' = Append(events, PeerLeft(p))
       \/ p \notin Listed /\ UNCHANGED <<connected, events>>
    /\ UNCHANGED <<announced, view, blocked, page>>

\* Mutant: only an unlisted peer is taken off the list.
ConnectionClosedKept(p) ==
    /\ Handle
    /\ conns[p] > 0
    /\ conns' = [conns EXCEPT ![p] = @ - 1]
    /\ UNCHANGED <<connected, events, announced, view, blocked, page>>

\* ConnectionClosed: whichever connection it was, the peer is taken off the
\* list if it is on it.
ConnectionClosed(p) ==
    /\ Handle
    /\ conns[p] > 0
    /\ conns' = [conns EXCEPT ![p] = @ - 1]
    /\ \/ p \in Listed /\ Announce(p, None, PeerLeft(p))
       \/ p \notin Listed /\ UNCHANGED <<connected, events>>
    /\ UNCHANGED <<announced, view, blocked, page>>

\* Mutant: a new username is not sent on.
RenameUntold(p, name) ==
    /\ p \in Listed
    /\ connected[p] # name
    /\ connected' = [connected EXCEPT ![p] = name]
    /\ UNCHANGED events

\* A chat message signed by p, or identify's answer from p: the username in
\* it replaces the listed one.
Rename(p, name) ==
    /\ p \in Listed
    /\ connected[p] # name
    /\ connected' = [connected EXCEPT ![p] = name]
    /\ events' = Append(events, PeerListUpdated(connected'))

\* identify runs on an open connection.
Identified(p, name) ==
    /\ Handle
    /\ conns[p] > 0
    /\ Rename(p, name)
    /\ UNCHANGED <<conns, announced, view, blocked, page>>

\* A message may have been forwarded, so p need not be connected.
ChatMessage(p, name) ==
    /\ Handle
    /\ Rename(p, name)
    /\ UNCHANGED <<conns, announced, view, blocked, page>>

-----------------------------------------------------------------------------
(* The event task: peer_joined, peer_left and peer_list_updated. *)

\* What the page does about it: a list is shown, and the list is asked for
\* when a peer has joined or left.
EmitEvent ==
    /\ ~blocked
    /\ events # << >>
    /\ events' = Tail(events)
    /\ LET e == Head(events)
       IN  /\ announced' = CASE e.type = "joined" -> announced \cup {e.peer}
                             [] e.type = "left"   -> announced \ {e.peer}
                             [] OTHER             -> announced
           /\ \/ /\ e.type = "list"
                 /\ view' = e.peers
                 /\ shown' = e.peers
                 /\ late' = FALSE
                 /\ UNCHANGED asked
              \/ /\ e.type # "list"
                 /\ asked' = asked + 1
                 /\ UNCHANGED <<view, shown, late>>
    /\ UNCHANGED <<loop, blocked, answers, asks>>

\* A key exchange comes up between two of these events, and the vault is
\* unlocked.
EventTaskBlocks ==
    /\ ~blocked
    /\ blocked' = TRUE
    /\ UNCHANGED <<loop, events, announced, view, page>>

-----------------------------------------------------------------------------
(* updatePeersList of the page. *)

\* The network has started, or a key exchange has been received.
AskList ==
    /\ asks < MaxAsks
    /\ asks' = asks + 1
    /\ asked' = asked + 1
    /\ UNCHANGED <<loop, events, announced, view, blocked, shown, answers, late>>

\* The loop answers with the list as it is.
AnswerRequest ==
    /\ asked > 0
    /\ asked' = asked - 1
    /\ answers' = [answers EXCEPT ![connected] = @ + 1]
    /\ UNCHANGED <<loop, events, announced, view, blocked, shown, asks, late>>

\* The answer is shown, whatever has been shown since it was asked for.
ShowAnswer(list) ==
    /\ answers[list] > 0
    /\ answers' = [answers EXCEPT ![list] = @ - 1]
    /\ shown' = list
    /\ late' = (list # connected)
    /\ UNCHANGED <<loop, events, announced, view, blocked, asked, asks>>

-----------------------------------------------------------------------------

Swarm(p) ==
    \/ ConnectionEstablished(p)
    \/ ConnectionClosed(p)
    \/ \E name \in Names : Identified(p, name) \/ ChatMessage(p, name)

Page == AskList \/ AnswerRequest \/ \E list \in PeerList : ShowAnswer(list)

Next == (\E p \in Peers : Swarm(p)) \/ EmitEvent \/ EventTaskBlocks \/ Page

Spec == Init /\ [][Next]_vars

\* The event task is scheduled whenever the channel holds an event it can
\* take.  Nothing is assumed of the requests of the page: an answer may never
\* come.
FairSpec == Spec /\ WF_vars(EmitEvent)

-----------------------------------------------------------------------------
(* Properties. *)

\* The type invariant of the loop's state and of the channel.
TypeOK ==
    /\ conns \in [Peers -> 0..MaxConns]
    /\ connected \in PeerList
    /\ events \in Seq(PeerEvents)
    /\ announced \in SUBSET Peers
    /\ view \in PeerList
    /\ blocked \in BOOLEAN
    /\ changes \in 0..MaxChanges
    /\ shown \in PeerList
    /\ asked \in Nat
    /\ answers \in [PeerList -> Nat]
    /\ asks \in 0..MaxAsks
    /\ late \in BOOLEAN

\* A listed peer has an open connection: send_p2p_message, which takes its
\* recipients from the list, never counts on a peer that is gone
\* (p2p_network.rs:432-472).
ListedIsConnected == \A p \in Listed : conns[p] > 0

\* The peers the user will take for joined once told the first n events.
Told(n) ==
    {p \in Peers :
        \/ /\ p \in announced
           /\ \A j \in 1..n : events[j] # PeerLeft(p)
        \/ \E i \in 1..n :
              /\ events[i] = PeerJoined(p)
              /\ \A j \in i..n : events[j] # PeerLeft(p)}

\* For each peer joining and leaving are announced in turn, and all that is
\* in the channel adds up to the list (p2p_network.rs:448, 464).
AnnouncementsAlternate ==
    /\ \A n \in 1..Len(events), p \in Peers :
          /\ events[n] = PeerJoined(p) => p \notin Told(n - 1)
          /\ events[n] = PeerLeft(p) => p \in Told(n - 1)
    /\ Told(Len(events)) = Listed

\* The last list sent to the frontend is the list, usernames included:
\* nothing changes connected_peers without telling (p2p_network.rs:370-373,
\* 410-412, 451-452, 467-468).
LastSnapshotIsCurrent ==
    \/ /\ connected = view
       /\ \A n \in 1..Len(events) : events[n].type # "list"
    \/ \E n \in 1..Len(events) :
          /\ events[n] = PeerListUpdated(connected)
          /\ \A m \in n + 1..Len(events) : events[m].type # "list"

\* Once the connections stop changing the user has been told for good who is
\* there, and the page shows the list with its usernames, unless what it shows
\* is an answer that came after the list had changed; or the event task has
\* come to wait for itself (p2p_network.rs:370-373, 448-468, main.ts:307-341,
\* 878-881).
ViewCatchesUp ==
    <>[](blocked \/ (announced = Listed /\ (late \/ shown = connected)))

-----------------------------------------------------------------------------
(* What the comments say and the code does not do. *)

\* "Additional connection closed with peer" (p2p_network.rs:470), in the
\* branch that sends nothing: a peer with a connection left stays listed.
ConnectedIsListed == \A p \in Peers : conns[p] > 0 => p \in Listed
=============================================================================

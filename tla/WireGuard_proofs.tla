--------------------------- MODULE WireGuard_proofs ---------------------------
(***************************************************************************)
(* Theorems about WireGuard, for any peers and addresses and any bounds.   *)
(***************************************************************************)
EXTENDS WireGuard, TLAPS

-----------------------------------------------------------------------------
(* The commands. *)

LEMMA PlainCalls ==
    ASSUME NEW what \in Commands
    PROVE  Plain(what) \in Calls /\ Plain(what).what = what
  BY DEF Plain, Call, Calls

\* One more command waits.
LEMMA Awaited ==
    ASSUME waiting \in [Calls -> Nat], NEW c \in Calls, Await(c)
    PROVE  /\ waiting' \in [Calls -> Nat]
           /\ waiting'[c] > 0
           /\ \A d \in Calls : waiting'[d] >= waiting[d]
           /\ \A d \in Calls : d # c => waiting'[d] = waiting[d]
  BY DEF Await

\* A command that returns leaves the others waiting; a status joins them
\* after a cleanup, and nothing else does.
LEMMA Returned ==
    ASSUME TypeOK, Return
    PROVE  /\ current' = None /\ step' = "start"
           /\ waiting' \in [Calls -> Nat]
           /\ \A d \in Calls : waiting'[d] >= waiting[d]
           /\ \A d \in Calls : d.what # "status" => waiting'[d] = waiting[d]
           /\ current.what = "cleanup" =>
                 \E d \in Calls : d.what = "status" /\ waiting'[d] > 0
  <1> DEFINE c == Plain("status")
  <1>1. c \in Calls /\ c.what = "status"
    BY PlainCalls DEF Commands
  <1>2. waiting \in [Calls -> Nat]
    BY DEF TypeOK
  <1>3. current' = None /\ step' = "start"
    BY DEF Return
  <1>4. CASE current.what = "cleanup"
    <2>1. Await(c)
      BY <1>4 DEF Return
    <2> HIDE DEF c
    <2> QED
      BY <1>1, <1>2, <1>3, <2>1, Awaited
  <1>5. CASE current.what # "cleanup"
    <2>1. waiting' = waiting
      BY <1>5 DEF Return
    <2> QED
      BY <1>2, <1>3, <1>5, <2>1
  <1> QED
    BY <1>4, <1>5

\* A command under way goes on or returns.
LEMMA Served ==
    ASSUME Serve
    PROVE  /\ current # None
           /\ \/ Return
              \/ /\ UNCHANGED <<waiting, current>>
                 /\ step' \in {"up", "delete", "save"}
           /\ UNCHANGED <<panel, starts, clicks>>
  BY DEF Serve, SetupRefused, Setup, BringUp, NothingStale, QuickDown,
     QuickDownNotRun, Delete, DeleteFails, PeerRefused, AddPeer, RemovePeer,
     SavePeers, Status, TearingDown, Running, page, counters

\* A click calls a command and changes nothing else but the count of clicks.
UserCalls ==
    {c \in Calls : c.what \in {"setup", "teardown", "add", "remove"}
                   /\ (c.what = "add" => c.ip \in IPs)}

LEMMA Clicked ==
    ASSUME TypeOK, Click
    PROVE  /\ \E c \in UserCalls : Await(c)
           /\ clicks' \in Nat
           /\ UNCHANGED <<config, file, iface, stale, current, step, panel,
                          shows, keys, starts, faults>>
  <1>1. PICK c \in UserCalls : Clicks(c)
    <2>1. /\ Plain("setup") \in UserCalls
          /\ Plain("teardown") \in UserCalls
          /\ \A p \in Peers : Call("remove", p, None) \in UserCalls
          /\ \A p \in Peers, ip \in IPs : Call("add", p, ip) \in UserCalls
      BY DEF UserCalls, Plain, Call, Calls, Commands
    <2> QED
      BY <2>1 DEF Click, ClickSetup, ClickTeardown, ClickAdd, Remove
  <1>2. /\ Await(c) /\ clicks' = clicks + 1
        /\ UNCHANGED <<config, file, iface, stale, current, step, panel,
                       shows, keys, starts, faults>>
    BY <1>1 DEF Clicks, manager, page
  <1> QED
    BY <1>2 DEF TypeOK

-----------------------------------------------------------------------------
(* Types. *)

\* What a new process starts with.
LEMMA TypesStartup ==
    /\ Startup \in [Calls -> Nat]
    /\ Nothing \in [BOOLEAN -> Nat]
    /\ NoPeers \in Interfaces
  BY DEF Startup, Nothing, NoPeers, Interfaces

LEMMA TypesInitially == Init => TypeOK
  <1> SUFFICES ASSUME Init PROVE TypeOK
    OBVIOUS
  <1>1. /\ iface \in Interfaces \cup {None}
        /\ waiting \in [Calls -> Nat] /\ shows \in [BOOLEAN -> Nat]
        /\ stale \in BOOLEAN
    BY TypesStartup DEF Init, Up
  <1> QED
    BY <1>1 DEF Init, TypeOK, Steps

\* What may be written to the file.
LEMMA Contents ==
    /\ \A k \in Nat : [key |-> k, peers |-> NoPeers] \in Configs
    /\ Broken \in Configs
  BY DEF Configs, NoPeers, Broken

\* A failed file operation is counted and leaves a file.
LEMMA Faulty ==
    ASSUME TypeOK, Fault
    PROVE  faults' \in Nat /\ faults' # 0
  BY DEF Fault, TypeOK

\* A command returns: what else the action changes has to keep its types.
LEMMA TypesReturn ==
    ASSUME TypeOK, Return,
           config' \in Configs \cup {None},
           file' \in Configs \cup {None},
           iface' \in Interfaces \cup {None},
           shows' \in [BOOLEAN -> Nat],
           keys' \in Nat, faults' \in Nat, stale' \in BOOLEAN,
           UNCHANGED <<panel, starts, clicks>>
    PROVE  TypeOK'
  BY Returned DEF TypeOK, Steps

LEMMA TypesTold ==
    ASSUME shows \in [BOOLEAN -> Nat], NEW active \in BOOLEAN, NEW n \in Nat,
           Tell(active, n)
    PROVE  /\ shows' \in [BOOLEAN -> Nat]
           /\ shows'[active] = shows[active] + n
           /\ \A other \in BOOLEAN : other # active => shows'[other] = shows[other]
  BY DEF Tell

LEMMA TypesSetup ==
    ASSUME TypeOK, Setup
    PROVE  TypeOK'
  <1> DEFINE new == [key |-> keys + 1, peers |-> NoPeers]
  <1>1. keys + 1 \in Nat /\ new \in Configs
    BY Contents DEF TypeOK
  <1>2. new # None
    BY <1>1, NoneAssumption
  <1> HIDE DEF new
  <1>3. /\ current # None /\ current.what = "setup"
        /\ keys' = keys + 1
        /\ UNCHANGED <<iface, stale, panel, shows, starts, clicks>>
    BY DEF Setup, Running, page
  <1>4. CASE /\ file' = new /\ config' = new /\ step' = "up"
             /\ UNCHANGED <<waiting, current, faults>>
    BY <1>1, <1>2, <1>3, <1>4 DEF TypeOK, Steps
  <1>5. CASE WriteFails(new) /\ Return /\ UNCHANGED config
    <2>1. file' \in Configs \cup {None} /\ faults' \in Nat
      BY <1>1, <1>5, Contents, Faulty DEF WriteFails, TypeOK
    <2> QED
      BY <1>1, <1>3, <1>5, <2>1, TypesReturn DEF TypeOK
  <1> QED
    BY <1>4, <1>5 DEF Setup, new

LEMMA TypesTeardown ==
    ASSUME TypeOK, QuickDown \/ Delete \/ DeleteFails
    PROVE  TypeOK'
  <1>1. CASE QuickDown
    <2>1. /\ current # None /\ step' = "delete"
          /\ UNCHANGED <<config, iface, stale, waiting, current, panel, shows,
                         keys, starts, clicks>>
      BY <1>1 DEF QuickDown, TearingDown, Running, page
    <2>2. file' \in Configs \cup {None} /\ faults' \in Nat
      BY <1>1, Faulty DEF QuickDown, TypeOK
    <2> QED
      BY <2>1, <2>2 DEF TypeOK, Steps
  <1>2. CASE Delete
    <2>1. shows' \in [BOOLEAN -> Nat]
      <3>1. Tell(FALSE, 2) \/ shows' = shows
        BY <1>2 DEF Delete
      <3> QED
        BY <3>1, TypesTold DEF TypeOK
    <2>2. /\ Return /\ config' = None /\ iface' = None /\ stale' = FALSE
          /\ UNCHANGED <<file, panel, keys, starts, clicks, faults>>
      BY <1>2 DEF Delete, counters
    <2> QED
      BY <2>1, <2>2, TypesReturn DEF TypeOK
  <1>3. CASE DeleteFails
    <2>1. /\ Return /\ faults' \in Nat
          /\ UNCHANGED <<config, file, iface, stale, panel, shows, keys,
                         starts, clicks>>
      BY <1>3, Faulty DEF DeleteFails, manager, page
    <2> QED
      BY <2>1, TypesReturn DEF TypeOK
  <1> QED
    BY <1>1, <1>2, <1>3

LEMMA TypesReconfigured ==
    ASSUME TypeOK, NEW p, NEW ip \in IPs \cup {None}
    PROVE  /\ Reconfigured(p, ip) \in Configs \cup {None}
           /\ config = None <=> Reconfigured(p, ip) = None
  <1>1. CASE config = None
    BY <1>1 DEF Reconfigured
  <1>2. CASE config # None
    <2>1. config \in Configs
      BY <1>2 DEF TypeOK
    <2>2. Reconfigured(p, ip)
            = [key |-> config.key, peers |-> [config.peers EXCEPT ![p] = ip]]
      BY <1>2, <2>1 DEF Reconfigured, Configs
    <2>3. Reconfigured(p, ip) \in Configs
      <3>1. config.key \in Nat /\ config.peers \in [Peers -> IPs \cup {None}]
        BY <2>1 DEF Configs
      <3>2. [config.peers EXCEPT ![p] = ip] \in [Peers -> IPs \cup {None}]
        BY <3>1
      <3> QED
        BY <2>2, <3>1, <3>2 DEF Configs
    <2> QED
      BY <1>2, <2>3, NoneAssumption
  <1> QED
    BY <1>1, <1>2

LEMMA TypesPeers ==
    ASSUME TypeOK, AddPeer \/ RemovePeer \/ SavePeers
    PROVE  TypeOK'
  <1>1. CASE AddPeer \/ RemovePeer
    <2> DEFINE p == current.peer
    <2>1. /\ current # None /\ iface # None /\ step' = "save"
          /\ UNCHANGED <<file, stale, waiting, current, panel, shows, keys,
                         starts, clicks, faults>>
      BY <1>1 DEF AddPeer, RemovePeer, Running, Up, page, counters
    <2>2. current.ip \in IPs \cup {None} /\ iface \in Interfaces
      BY <2>1 DEF TypeOK, Calls
    <2>3. config' \in Configs \cup {None}
      <3>1. config' \in {Reconfigured(p, current.ip), Reconfigured(p, None)}
        BY <1>1 DEF AddPeer, RemovePeer
      <3> QED
        BY <2>2, <3>1, TypesReconfigured
    <2>4. iface' \in Interfaces
      BY <1>1, <2>2 DEF AddPeer, RemovePeer, Routed, Interfaces
    <2> QED
      BY <2>1, <2>3, <2>4 DEF TypeOK, Steps
  <1>2. CASE SavePeers
    <2>1. /\ Return
          /\ UNCHANGED <<config, iface, stale, panel, shows, keys, starts, clicks>>
      BY <1>2 DEF SavePeers, page
    <2>2. file' \in Configs \cup {None} /\ faults' \in Nat
      <3>1. CASE UNCHANGED faults /\ file' \in {file, config}
        BY <3>1 DEF TypeOK
      <3>2. CASE WriteFails(config)
        BY <3>2, Contents, Faulty DEF WriteFails, TypeOK
      <3> QED
        BY <1>2, <3>1, <3>2 DEF SavePeers
    <2> QED
      BY <2>1, <2>2, TypesReturn DEF TypeOK
  <1> QED
    BY <1>1, <1>2

LEMMA TypesServed ==
    ASSUME TypeOK, Serve
    PROVE  TypeOK'
  <1>1. CASE \/ SetupRefused \/ BringUp \/ NothingStale \/ QuickDownNotRun
             \/ PeerRefused
    <2>1. /\ Return
          /\ UNCHANGED <<config, file, iface, stale, panel, shows, keys, starts,
                         clicks, faults>>
      BY <1>1 DEF SetupRefused, BringUp, NothingStale, QuickDownNotRun,
         PeerRefused, manager, page, counters
    <2> QED
      BY <2>1, TypesReturn DEF TypeOK
  <1>2. CASE Status
    <2>1. /\ Return /\ Tell(Up, 1)
          /\ UNCHANGED <<config, file, iface, stale, panel, keys, starts,
                         clicks, faults>>
      BY <1>2 DEF Status, manager, counters
    <2>2. shows' \in [BOOLEAN -> Nat]
      BY <2>1, TypesTold DEF TypeOK, Up
    <2> QED
      BY <2>1, <2>2, TypesReturn DEF TypeOK
  <1> QED
    BY <1>1, <1>2, TypesSetup, TypesTeardown, TypesPeers DEF Serve

LEMMA TypesKept == TypeOK /\ [Next]_vars => TypeOK'
  <1> SUFFICES ASSUME TypeOK, [Next]_vars PROVE TypeOK'
    OBVIOUS
  <1>1. CASE Click
    <2>1. PICK c \in Calls : Await(c)
      BY <1>1, Clicked DEF UserCalls
    <2>2. waiting' \in [Calls -> Nat]
      BY <2>1, Awaited DEF TypeOK
    <2> QED
      BY <1>1, <2>2, Clicked DEF TypeOK
  <1>2. CASE Acquire
    <2>1. PICK c \in Calls : /\ waiting[c] > 0
                             /\ waiting' = [waiting EXCEPT ![c] = @ - 1]
                             /\ current' = c
      BY <1>2 DEF Acquire
    <2>2. waiting' \in [Calls -> Nat]
      BY <2>1 DEF TypeOK
    <2>3. /\ step = "start"
          /\ UNCHANGED <<config, file, iface, stale, step, panel, shows, keys,
                         starts, clicks, faults>>
      BY <1>2 DEF Acquire, TypeOK, manager, page, counters
    <2> QED
      BY <2>1, <2>2, <2>3 DEF TypeOK
  <1>3. CASE \E active \in BOOLEAN : Show(active)
    <2>1. PICK active \in BOOLEAN : Show(active)
      BY <1>3
    <2>2. shows' \in [BOOLEAN -> Nat] /\ panel' \in BOOLEAN
      BY <2>1 DEF Show, TypeOK
    <2>3. UNCHANGED <<config, file, iface, stale, waiting, current, step, keys,
                      starts, clicks, faults>>
      BY <2>1 DEF Show, manager, counters
    <2> QED
      BY <2>2, <2>3 DEF TypeOK
  <1>4. CASE MadeOutside \/ RemovedOutside
    <2>1. iface' \in Interfaces \cup {None} /\ stale' \in BOOLEAN
      BY <1>4 DEF MadeOutside, RemovedOutside, TypeOK, Interfaces, NoPeers
    <2>2. UNCHANGED <<config, file, waiting, current, step, panel, shows, keys,
                      starts, clicks, faults>>
      BY <1>4 DEF MadeOutside, RemovedOutside, page, counters
    <2> QED
      BY <2>1, <2>2 DEF TypeOK
  <1>5. CASE Restart
    <2>1. /\ waiting' \in [Calls -> Nat] /\ shows' \in [BOOLEAN -> Nat]
          /\ stale' \in BOOLEAN /\ starts' \in Nat
      BY <1>5, TypesStartup DEF Restart, Up, TypeOK
    <2>2. /\ config' = None /\ file' = None /\ current' = None
          /\ step' = "start" /\ panel' = FALSE
          /\ UNCHANGED <<iface, keys, clicks, faults>>
      BY <1>5 DEF Restart
    <2> QED
      BY <2>1, <2>2 DEF TypeOK, Steps
  <1>6. CASE UNCHANGED vars
    BY <1>6 DEF vars, TypeOK
  <1> QED
    BY <1>1, <1>2, <1>3, <1>4, <1>5, <1>6, TypesServed DEF Next

\* The manager's state, the commands waiting and what the page is told keep
\* their types; wg-quick up runs only with a configuration.
THEOREM TypeCorrect == Spec => []TypeOK
  BY TypesInitially, TypesKept, PTL DEF Spec

-----------------------------------------------------------------------------
(* The file. *)

\* Unless something has failed, the file is the configuration except while a
\* teardown has removed the one and not yet the other, and while peers are
\* still to be saved.
FileFollows ==
    /\ TypeOK
    /\ faults = 0 =>
          /\ step \in {"start", "up"} => file = config
          /\ step = "delete" => file = None
          /\ step = "save" => (config = None => file = None)

LEMMA FileFollowsServed ==
    ASSUME FileFollows, Serve, faults' = 0
    PROVE  /\ step' \in {"start", "up"} => file' = config'
           /\ step' = "delete" => file' = None
           /\ step' = "save" => (config' = None => file' = None)
  <1>1. TypeOK
    BY DEF FileFollows
  <1>2. ~Fault
    BY <1>1, Faulty
  <1>3. CASE \/ SetupRefused \/ NothingStale \/ QuickDownNotRun \/ PeerRefused
             \/ Status \/ BringUp
    <2>1. /\ Return /\ step \in {"start", "up"} /\ faults' = faults
          /\ UNCHANGED <<config, file>>
      BY <1>3 DEF SetupRefused, NothingStale, QuickDownNotRun, PeerRefused,
         Status, BringUp, TearingDown, Running, manager, counters
    <2>2. step' = "start"
      BY <2>1 DEF Return
    <2> QED
      BY <2>1, <2>2 DEF FileFollows
  <1>4. CASE Setup
    <2>1. \/ file' = config' /\ step' = "up"
          \/ WriteFails([key |-> keys + 1, peers |-> NoPeers])
      BY <1>4 DEF Setup
    <2> QED
      BY <1>2, <2>1 DEF WriteFails
  <1>5. CASE QuickDown
    BY <1>2, <1>5 DEF QuickDown
  <1>6. CASE Delete
    <2>1. /\ Return /\ step = "delete" /\ config' = None
          /\ file' = file /\ faults' = faults
      BY <1>6 DEF Delete, TearingDown, Running, counters
    <2>2. step' = "start"
      BY <2>1 DEF Return
    <2> QED
      BY <2>1, <2>2 DEF FileFollows
  <1>7. CASE DeleteFails
    BY <1>2, <1>7 DEF DeleteFails
  <1>8. CASE AddPeer \/ RemovePeer
    <2>1. /\ step = "start" /\ step' = "save" /\ file' = file
          /\ faults' = faults
          /\ config' = None => config = None
      <3>1. config' = None => config = None
        <4>1. /\ iface # None
              /\ config' \in {Reconfigured(current.peer, current.ip),
                              Reconfigured(current.peer, None)}
              /\ current # None
          BY <1>8 DEF AddPeer, RemovePeer, Running, Up
        <4>2. current.ip \in IPs \cup {None}
          BY <1>1, <4>1 DEF TypeOK, Calls
        <4> QED
          BY <1>1, <4>1, <4>2, TypesReconfigured
      <3> QED
        BY <1>8, <3>1 DEF AddPeer, RemovePeer, Running, counters
    <2> QED
      BY <2>1 DEF FileFollows
  <1>9. CASE SavePeers
    <2>1. /\ Return /\ step = "save" /\ config' = config /\ faults' = faults
          /\ file' = IF config = None THEN file ELSE config
      BY <1>2, <1>9 DEF SavePeers, Running, WriteFails
    <2>2. step' = "start"
      BY <2>1 DEF Return
    <2> QED
      BY <2>1, <2>2 DEF FileFollows
  <1> QED
    BY <1>3, <1>4, <1>5, <1>6, <1>7, <1>8, <1>9 DEF Serve

LEMMA FaultsCounted ==
    ASSUME TypeOK, [Next]_vars, faults' = 0
    PROVE  faults = 0
  <1>1. CASE Serve
    <2>1. Fault \/ faults' = faults
      BY <1>1 DEF Serve, SetupRefused, Setup, BringUp, NothingStale, QuickDown,
         QuickDownNotRun, Delete, DeleteFails, PeerRefused, AddPeer, RemovePeer,
         SavePeers, WriteFails, Status, counters
    <2> QED
      BY <2>1, Faulty
  <1>2. CASE Click
    BY <1>2, Clicked
  <1>3. CASE ~Serve /\ ~Click
    BY <1>3 DEF Next, Acquire, Show, MadeOutside, RemovedOutside, Restart, vars,
       counters
  <1> QED
    BY <1>1, <1>2, <1>3

LEMMA FileFollowsKept == FileFollows /\ [Next]_vars => FileFollows'
  <1> SUFFICES ASSUME FileFollows, [Next]_vars, faults' = 0
               PROVE  /\ step' \in {"start", "up"} => file' = config'
                      /\ step' = "delete" => file' = None
                      /\ step' = "save" => (config' = None => file' = None)
    BY TypesKept DEF FileFollows
  <1>1. TypeOK /\ faults = 0
    BY FaultsCounted DEF FileFollows
  <1>2. CASE Serve
    BY <1>2, FileFollowsServed
  <1>3. CASE Restart
    BY <1>3 DEF Restart
  <1>4. CASE ~Serve /\ ~Restart
    <2>1. UNCHANGED <<config, file, step>>
      <3>1. CASE Click
        BY <1>1, <3>1, Clicked
      <3>2. CASE ~Click
        BY <1>4, <3>2 DEF Next, Acquire, Show, MadeOutside, RemovedOutside,
           vars, manager
      <3> QED
        BY <3>1, <3>2
    <2> QED
      BY <1>1, <2>1 DEF FileFollows
  <1> QED
    BY <1>2, <1>3, <1>4

\* Between commands the file is the configuration in memory unless something
\* has failed: the private key in it is the one in use, and it is gone with
\* the configuration.
THEOREM FileIsConfiguration == Spec => []FileIsConfig
  <1>1. Init => FileFollows
    BY TypesInitially DEF Init, FileFollows
  <1>2. FileFollows => FileIsConfig
    BY DEF FileFollows, FileIsConfig, TypeOK
  <1> QED
    BY <1>1, <1>2, FileFollowsKept, PTL DEF Spec

-----------------------------------------------------------------------------
(* The peers. *)

\* The interface has no other peers and addresses than the configuration, and
\* peers are only added with an address.
Covered ==
    (config # None /\ Up) =>
        \A p \in Peers :
            iface[p] # None =>
                /\ config.peers[p] # None
                /\ iface[p] \in {config.peers[p], NoIP}

PeersCovered ==
    /\ TypeOK
    /\ \A c \in Calls : c.what = "add" /\ waiting[c] > 0 => c.ip \in IPs
    /\ current # None /\ current.what = "add" => current.ip \in IPs
    /\ Covered

LEMMA CoveredServed ==
    ASSUME PeersCovered, Serve
    PROVE  Covered'
  <1>1. TypeOK /\ Covered
    BY DEF PeersCovered
  <1>2. CASE AddPeer \/ RemovePeer
    <2> SUFFICES ASSUME config' # None, NEW q \in Peers, iface'[q] # None
                 PROVE  /\ config'.peers[q] # None
                        /\ iface'[q] \in {config'.peers[q], NoIP}
      BY DEF Covered
    <2> DEFINE p == current.peer
    <2>1. current # None /\ iface # None /\ Up
      BY <1>2 DEF AddPeer, RemovePeer, Running, Up
    <2>2. iface \in Interfaces /\ current.ip \in IPs \cup {None}
      BY <1>1, <2>1 DEF TypeOK, Calls
    <2>3. config \in Configs /\ config.peers \in [Peers -> IPs \cup {None}]
      BY <1>1, <1>2 DEF AddPeer, RemovePeer, Reconfigured, TypeOK, Configs
    <2>4. iface[q] # None => /\ config.peers[q] # None
                             /\ iface[q] \in {config.peers[q], NoIP}
      BY <1>1, <2>1, <2>3, NoneAssumption DEF Covered
    <2>5. CASE AddPeer
      <3>1. current.ip \in IPs /\ None \notin IPs
        BY <2>1, <2>5, TunnelAssumption DEF PeersCovered, AddPeer, Running
      <3>2. config'.peers = [config.peers EXCEPT ![p] = current.ip]
        BY <2>3, <2>5, NoneAssumption DEF AddPeer, Reconfigured, Configs
      <3>3. iface'[q] = IF q = p THEN current.ip
                        ELSE IF iface[q] = current.ip THEN NoIP ELSE iface[q]
        BY <2>5 DEF AddPeer, Routed
      <3>4. CASE q = p
        BY <2>3, <3>1, <3>2, <3>3, <3>4
      <3>5. CASE q # p
        <4>1. config'.peers[q] = config.peers[q]
          BY <2>3, <3>2, <3>5
        <4>2. iface[q] # None
          BY <3>1, <3>3, <3>5
        <4> QED
          BY <2>4, <3>3, <3>5, <4>1, <4>2
      <3> QED
        BY <3>4, <3>5
    <2>6. CASE RemovePeer
      <3>1. config'.peers = [config.peers EXCEPT ![p] = None]
        BY <2>3, <2>6, NoneAssumption DEF RemovePeer, Reconfigured, Configs
      <3>2. iface' = [iface EXCEPT ![p] = None]
        BY <2>6 DEF RemovePeer
      <3>3. q # p /\ iface'[q] = iface[q]
        BY <2>2, <3>2 DEF Interfaces
      <3>4. config'.peers[q] = config.peers[q]
        BY <2>3, <3>1, <3>3
      <3> QED
        BY <2>4, <3>3, <3>4
    <2> QED
      BY <1>2, <2>5, <2>6
  <1>3. CASE Setup
    BY <1>3 DEF Setup, Up, Covered
  <1>4. CASE Delete
    BY <1>4 DEF Delete, Up, Covered
  <1>5. CASE ~AddPeer /\ ~RemovePeer /\ ~Setup /\ ~Delete
    <2>1. UNCHANGED <<config, iface>>
      BY <1>5 DEF Serve, SetupRefused, BringUp, NothingStale, QuickDown,
         QuickDownNotRun, DeleteFails, PeerRefused, SavePeers, Status, manager
    <2> QED
      BY <1>1, <2>1 DEF Covered, Up
  <1> QED
    BY <1>2, <1>3, <1>4, <1>5

\* Peers are only added with an address.
LEMMA AddsHaveAddress ==
    ASSUME PeersCovered, [Next]_vars
    PROVE  /\ \A c \in Calls : c.what = "add" /\ waiting'[c] > 0 => c.ip \in IPs
           /\ current' # None /\ current'.what = "add" => current'.ip \in IPs
  <1>1. /\ TypeOK
        /\ \A c \in Calls : c.what = "add" /\ waiting[c] > 0 => c.ip \in IPs
        /\ current # None /\ current.what = "add" => current.ip \in IPs
    BY DEF PeersCovered
  <1>2. CASE Serve
    <2>1. CASE Return
      BY <1>1, <2>1, Returned
    <2>2. CASE UNCHANGED <<waiting, current>>
      BY <1>1, <2>2
    <2> QED
      BY <1>2, <2>1, <2>2, Served
  <1>3. CASE Click
    <2>1. PICK d \in UserCalls : Await(d)
      BY <1>1, <1>3, Clicked
    <2>2. d \in Calls /\ (d.what = "add" => d.ip \in IPs)
      BY <2>1 DEF UserCalls
    <2>3. \A c \in Calls : c # d => waiting'[c] = waiting[c]
      BY <1>1, <2>1, <2>2, Awaited DEF TypeOK
    <2> QED
      BY <1>1, <1>3, <2>2, <2>3, Clicked
  <1>4. CASE Acquire
    <2>1. PICK d \in Calls : /\ waiting[d] > 0
                             /\ waiting' = [waiting EXCEPT ![d] = @ - 1]
                             /\ current' = d
      BY <1>4 DEF Acquire
    <2>2. \A c \in Calls : waiting'[c] > 0 => waiting[c] > 0
      BY <1>1, <2>1 DEF TypeOK
    <2> QED
      BY <1>1, <2>1, <2>2
  <1>5. CASE Restart
    <2>1. \A c \in Calls : c.what = "add" => waiting'[c] = 0
      BY <1>5 DEF Restart, Startup, Plain, Call
    <2> QED
      BY <1>5, <2>1 DEF Restart
  <1>6. CASE ~Serve /\ ~Click /\ ~Acquire /\ ~Restart
    <2>1. UNCHANGED <<waiting, current>>
      BY <1>6 DEF Next, Show, MadeOutside, RemovedOutside, vars
    <2> QED
      BY <1>1, <2>1
  <1> QED
    BY <1>2, <1>3, <1>4, <1>5, <1>6

LEMMA PeersCoveredKept == PeersCovered /\ [Next]_vars => PeersCovered'
  <1> SUFFICES ASSUME PeersCovered, [Next]_vars PROVE Covered'
    BY TypesKept, AddsHaveAddress DEF PeersCovered
  <1>1. TypeOK /\ Covered
    BY DEF PeersCovered
  <1>2. CASE Serve
    BY <1>2, CoveredServed
  <1>3. CASE MadeOutside
    BY <1>3 DEF MadeOutside, NoPeers, Covered
  <1>4. CASE RemovedOutside \/ Restart
    BY <1>4 DEF RemovedOutside, Restart, Up, Covered
  <1>5. CASE ~Serve /\ ~MadeOutside /\ ~RemovedOutside /\ ~Restart
    <2>1. UNCHANGED <<config, iface>>
      <3>1. CASE Click
        BY <1>1, <3>1, Clicked
      <3>2. CASE ~Click
        BY <1>5, <3>2 DEF Next, Acquire, Show, vars, manager
      <3> QED
        BY <3>1, <3>2
    <2> QED
      BY <1>1, <2>1 DEF Covered, Up
  <1> QED
    BY <1>2, <1>3, <1>4, <1>5

\* An interface has no peer that the configuration does not have, and routes
\* no other address to it.
THEOREM PeersOfInterface == Spec => []PeersAreConfigured
  <1>1. Init => PeersCovered
    <2> SUFFICES ASSUME Init PROVE PeersCovered
      OBVIOUS
    <2>1. \A c \in Calls : c.what = "add" => waiting[c] = 0
      BY DEF Init, Startup, Plain, Call
    <2> QED
      BY <2>1, TypesInitially DEF Init, PeersCovered, Covered
  <1>2. PeersCovered => PeersAreConfigured
    BY DEF PeersCovered, Covered, PeersAreConfigured
  <1> QED
    BY <1>1, <1>2, PeersCoveredKept, PTL DEF Spec

-----------------------------------------------------------------------------
(* The panel. *)

\* The panel shows an interface of a previous run, or will: a cleanup or a
\* status is still to run, or has told it so; and nothing tells it otherwise.
Looks == {"cleanup", "status"}
WillShow ==
    \/ panel
    \/ shows[TRUE] > 0
    \/ current # None /\ current.what \in Looks
    \/ \E c \in Calls : c.what \in Looks /\ waiting[c] > 0

ShownLater ==
    /\ TypeOK
    /\ stale => Up /\ shows[FALSE] = 0 /\ WillShow

LEMMA ShownServed ==
    ASSUME ShownLater, Serve, stale'
    PROVE  Up' /\ shows'[FALSE] = 0 /\ WillShow'
  <1>1. TypeOK
    BY DEF ShownLater
  <1>2. ~Delete
    BY DEF Delete
  <1>3. stale
    BY <1>2 DEF Serve, SetupRefused, Setup, BringUp, NothingStale, QuickDown,
       QuickDownNotRun, DeleteFails, PeerRefused, AddPeer, RemovePeer,
       SavePeers, Status, manager
  <1>4. Up /\ shows[FALSE] = 0 /\ WillShow
    BY <1>3 DEF ShownLater
  <1>5. Up'
    <2>1. CASE AddPeer \/ RemovePeer
      <3>1. /\ current # None /\ iface # None
        BY <2>1 DEF AddPeer, RemovePeer, Running, Up
      <3>2. current.ip \in IPs \cup {None} /\ iface \in Interfaces
        BY <1>1, <3>1 DEF TypeOK, Calls
      <3>3. iface' \in Interfaces
        BY <2>1, <3>2 DEF AddPeer, RemovePeer, Routed, Interfaces
      <3> QED
        BY <3>3, NoneAssumption DEF Up
    <2>2. CASE ~AddPeer /\ ~RemovePeer
      <3>1. iface' = iface
        BY <1>2, <2>2 DEF Serve, SetupRefused, Setup, BringUp, NothingStale,
           QuickDown, QuickDownNotRun, DeleteFails, PeerRefused, SavePeers,
           Status, manager
      <3> QED
        BY <1>4, <3>1 DEF Up
    <2> QED
      BY <2>1, <2>2
  <1>6. CASE Status
    <2>1. Tell(TRUE, 1)
      BY <1>4, <1>6 DEF Status, Up
    <2>2. shows'[TRUE] = shows[TRUE] + 1 /\ shows'[FALSE] = shows[FALSE]
      BY <1>1, <2>1, TypesTold DEF TypeOK
    <2>3. shows'[TRUE] > 0
      <3>1. shows[TRUE] \in Nat
        BY <1>1 DEF TypeOK
      <3>2. \A n \in Nat : n + 1 > 0
        OBVIOUS
      <3>3. shows[TRUE] + 1 > 0
        BY <3>1, <3>2
      <3> QED
        BY <2>2, <3>3, Zenon
    <2> QED
      BY <1>4, <1>5, <2>2, <2>3 DEF WillShow
  <1>7. CASE ~Status
    <2>1. shows' = shows /\ panel' = panel
      BY <1>2, <1>7 DEF Serve, SetupRefused, Setup, BringUp, NothingStale,
         QuickDown, QuickDownNotRun, DeleteFails, PeerRefused, AddPeer,
         RemovePeer, SavePeers, page
    <2>2. CASE Return
      <3>1. current # None /\ current.what # "status"
        BY <1>7, Served DEF Serve, SetupRefused, Setup, BringUp, NothingStale,
           QuickDown, QuickDownNotRun, Delete, DeleteFails, PeerRefused,
           AddPeer, RemovePeer, SavePeers, TearingDown, Running
      <3>2. /\ \A d \in Calls : waiting'[d] >= waiting[d]
            /\ waiting \in [Calls -> Nat] /\ waiting' \in [Calls -> Nat]
            /\ current.what = "cleanup" =>
                 \E d \in Calls : d.what = "status" /\ waiting'[d] > 0
        BY <1>1, <2>2, Returned DEF TypeOK
      <3>3. CASE current.what = "cleanup"
        BY <1>4, <1>5, <2>1, <3>2, <3>3 DEF WillShow, Looks
      <3>4. CASE \E c \in Calls : c.what \in Looks /\ waiting[c] > 0
        <4>1. PICK c \in Calls : c.what \in Looks /\ waiting[c] > 0
          BY <3>4
        <4>2. waiting'[c] > 0
          BY <3>2, <4>1
        <4> QED
          BY <1>4, <1>5, <2>1, <4>1, <4>2 DEF WillShow
      <3>5. CASE panel \/ shows[TRUE] > 0
        BY <1>4, <1>5, <2>1, <3>5 DEF WillShow
      <3> QED
        BY <1>4, <3>1, <3>3, <3>4, <3>5 DEF WillShow, Looks
    <2>3. CASE UNCHANGED <<waiting, current>>
      BY <1>4, <1>5, <2>1, <2>3 DEF WillShow
    <2> QED
      BY <2>2, <2>3, Served
  <1> QED
    BY <1>6, <1>7

LEMMA ShownLaterKept == ShownLater /\ [Next]_vars => ShownLater'
  <1> SUFFICES ASSUME ShownLater, [Next]_vars, stale'
               PROVE  Up' /\ shows'[FALSE] = 0 /\ WillShow'
    BY TypesKept DEF ShownLater
  <1>1. /\ TypeOK
        /\ stale => Up /\ shows[FALSE] = 0 /\ WillShow
    BY DEF ShownLater
  <1>2. CASE Serve
    BY <1>2, ShownServed
  <1>3. CASE Click
    <2>1. PICK d \in UserCalls : Await(d)
      BY <1>1, <1>3, Clicked
    <2>2. /\ \A c \in Calls : waiting'[c] >= waiting[c]
          /\ waiting \in [Calls -> Nat] /\ waiting' \in [Calls -> Nat]
      BY <1>1, <2>1, Awaited DEF TypeOK, UserCalls
    <2>3. Up /\ shows[FALSE] = 0 /\ WillShow
      BY <1>1, <1>3, Clicked
    <2>4. \A c \in Calls : waiting[c] > 0 => waiting'[c] > 0
      BY <2>2
    <2>5. WillShow'
      BY <1>1, <1>3, <2>3, <2>4, Clicked DEF WillShow
    <2> QED
      BY <1>1, <1>3, <2>3, <2>5, Clicked DEF Up
  <1>4. CASE Acquire
    <2>1. PICK d \in Calls : /\ waiting[d] > 0
                             /\ waiting' = [waiting EXCEPT ![d] = @ - 1]
                             /\ current' = d
      BY <1>4 DEF Acquire
    <2>2. UNCHANGED <<iface, stale, panel, shows>> /\ current = None
      BY <1>4 DEF Acquire, manager, page
    <2>3. current' # None
      BY <2>1, NoneAssumption
    <2>4. Up /\ shows[FALSE] = 0 /\ WillShow
      BY <1>1, <2>2
    <2>5. WillShow'
      <3>1. CASE d.what \in Looks
        BY <2>1, <2>3, <3>1 DEF WillShow
      <3>2. CASE d.what \notin Looks
        <4>1. \A c \in Calls : c # d => waiting'[c] = waiting[c]
          BY <1>1, <2>1 DEF TypeOK
        <4> QED
          BY <2>2, <2>4, <3>2, <4>1 DEF WillShow
      <3> QED
        BY <3>1, <3>2
    <2> QED
      BY <2>2, <2>4, <2>5 DEF Up
  <1>5. CASE \E active \in BOOLEAN : Show(active)
    <2>1. PICK active \in BOOLEAN : Show(active)
      BY <1>5
    <2>2. Up /\ shows[FALSE] = 0 /\ WillShow /\ iface' = iface
      BY <1>1, <2>1 DEF Show, manager
    <2>3. active = TRUE
      <3>1. shows[active] > 0
        BY <2>1 DEF Show
      <3>2. active # FALSE
        <4> SUFFICES ASSUME active = FALSE PROVE FALSE
          OBVIOUS
        <4>1. shows[FALSE] > 0
          BY <3>1
        <4> QED
          BY <2>2, <4>1
      <3> QED
        BY <3>2
    <2>4. panel' = TRUE /\ shows'[FALSE] = 0
      BY <1>1, <2>1, <2>2, <2>3 DEF Show, TypeOK
    <2> QED
      BY <2>2, <2>4 DEF WillShow, Up
  <1>6. CASE MadeOutside
    BY <1>1, <1>6 DEF MadeOutside
  <1>7. CASE RemovedOutside
    BY <1>7 DEF RemovedOutside
  <1>8. CASE Restart
    <2>1. /\ Plain("cleanup") \in Calls
          /\ Plain("cleanup").what \in Looks
      BY PlainCalls DEF Commands, Looks
    <2>2. waiting'[Plain("cleanup")] > 0 /\ shows'[FALSE] = 0
      BY <1>8, <2>1 DEF Restart, Startup, Nothing
    <2>3. Up'
      BY <1>8 DEF Restart, Up
    <2> QED
      BY <2>1, <2>2, <2>3 DEF WillShow
  <1>9. CASE UNCHANGED vars
    BY <1>1, <1>9 DEF vars, Up, WillShow
  <1> QED
    BY <1>2, <1>3, <1>4, <1>5, <1>6, <1>7, <1>8, <1>9 DEF Next

\* An interface of a previous run that is still there is shown as active once
\* all commands, answers and events are through, in whatever order they came.
THEOREM StaleTunnelIsShown == Spec => []StaleTunnelShown
  <1>1. Init => ShownLater
    <2> SUFFICES ASSUME Init PROVE ShownLater
      OBVIOUS
    <2>1. /\ Plain("cleanup") \in Calls
          /\ Plain("cleanup").what \in Looks
      BY PlainCalls DEF Commands, Looks
    <2>2. waiting[Plain("cleanup")] > 0 /\ shows[FALSE] = 0 /\ (stale => Up)
      BY <2>1 DEF Init, Startup, Nothing
    <2> QED
      BY <2>1, <2>2, TypesInitially DEF ShownLater, WillShow
  <1>2. ShownLater => StaleTunnelShown
    <2> SUFFICES ASSUME ShownLater, stale, current = None,
                        \A c \in Calls : waiting[c] = 0, shows[TRUE] = 0
                 PROVE  panel
      BY DEF StaleTunnelShown
    <2>1. WillShow
      BY DEF ShownLater
    <2> QED
      BY <2>1 DEF WillShow
  <1> QED
    BY <1>1, <1>2, ShownLaterKept, PTL DEF Spec
=============================================================================

------------------------------ MODULE WireGuard ------------------------------
(***************************************************************************)
(* The WireGuard tunnel of one machine: WireGuardManager of                *)
(* src-tauri/src/wireguard.rs, its commands in src-tauri/src/lib.rs and the *)
(* panel of src/main.ts they serve.                                        *)
(*                                                                         *)
(* The manager is behind one mutex.  Commands the page has called reach it *)
(* in any order, and the one that holds it runs its programs without an    *)
(* await.  What the page is told, by answers and by events, reaches it in  *)
(* any order too.                                                          *)
(*                                                                         *)
(* The programs are modelled as the code calls them.  ip and wg set work on *)
(* the interface INTERFACE_NAME.  wg-quick takes the interface from the    *)
(* name of the file it is given, and refuses a name of more than 15        *)
(* characters; config_path is wiretalk-wg-<uuid>.conf (wireguard.rs:58), so *)
(* it refuses each time, whether to bring the interface up or down.  An    *)
(* interface called INTERFACE_NAME is there only if someone else makes it: *)
(* by hand, or another version of the program.                             *)
(***************************************************************************)
EXTENDS Naturals

CONSTANTS
    Peers,      \* public keys of other machines
    IPs,        \* tunnel addresses
    None, NoIP,
    MaxKeys,    \* bound on the key pairs generated
    MaxFaults,  \* bound on the file operations and deletions that fail
    MaxStarts,  \* bound on the processes started
    MaxClicks   \* bound on the commands of the user

ASSUME TunnelAssumption ==
    /\ None \notin IPs /\ NoIP \notin IPs /\ None # NoIP
    /\ MaxKeys \in Nat
    /\ MaxFaults \in Nat
    /\ MaxStarts \in Nat
    /\ MaxClicks \in Nat

VARIABLES
    config,  \* WireGuardManager.config: our key, and the address of each peer
    file,    \* what is at config_path
    iface,   \* the interface in the kernel: the peers wg set gave it
    waiting, \* how many of each command wait for the mutex or are on their way
    current, \* the command that holds the mutex
    step,    \* where it is
    panel,   \* wgActive of the page
    shows,   \* answers and events on their way to the page, by the wgActive they set
    keys, starts, clicks, faults, \* counters against the bounds
    stale    \* history: the interface was there before the process and still is

vars == <<config, file, iface, waiting, current, step, panel, shows,
          keys, starts, clicks, faults, stale>>
manager == <<config, file, iface, stale>>
page == <<panel, shows>>
counters == <<keys, starts, clicks, faults>>

NoPeers == [p \in Peers |-> None]
Configs == [key : Nat, peers : [Peers -> IPs \cup {None}]]
\* NoIP: a peer whose address was given to another one.
Interfaces == [Peers -> IPs \cup {None, NoIP}]

\* A file of which only a part was written.
Broken == [key |-> 0, peers |-> NoPeers]

Commands == {"cleanup", "status", "setup", "teardown", "add", "remove"}
Calls == [what : Commands, peer : Peers \cup {None}, ip : IPs \cup {None}]
Call(what, peer, ip) == [what |-> what, peer |-> peer, ip |-> ip]
Plain(what) == Call(what, None, None)
ASSUME NoneAssumption == None \notin Interfaces \cup Calls \cup Configs

Up == iface # None

\* The constructor of the page asks for the cleanup twice, and shows the panel
\* of a tunnel that is not set up (main.ts:124-130).
Startup == [c \in Calls |-> IF c = Plain("cleanup") THEN 2 ELSE 0]
Nothing == [active \in BOOLEAN |-> 0]

Init ==
    /\ config = None
    /\ file = None
    /\ iface \in {None, NoPeers}
    /\ stale = Up
    /\ waiting = Startup
    /\ current = None
    /\ step = "start"
    /\ panel = FALSE
    /\ shows = Nothing
    /\ keys = 0 /\ starts = 1 /\ clicks = 0 /\ faults = 0

-----------------------------------------------------------------------------
(* The page. *)

Await(c) == waiting' = [waiting EXCEPT ![c] = @ + 1]

Clicks(c) ==
    /\ clicks < MaxClicks
    /\ clicks' = clicks + 1
    /\ Await(c)
    /\ UNCHANGED <<manager, current, step, page, keys, starts, faults>>

\* The buttons for setting up and adding are disabled while their command
\* runs; the one for tearing down is not.
UnderWay(what) ==
    \/ current # None /\ current.what = what
    \/ \E c \in Calls : c.what = what /\ waiting[c] > 0

\* The setup panel has the one button, the active panel the others; nothing
\* on the page removes a peer, but the command is there.
ClickSetup == ~panel /\ ~UnderWay("setup") /\ Clicks(Plain("setup"))
ClickTeardown == panel /\ Clicks(Plain("teardown"))
ClickAdd(p, ip) == panel /\ ~UnderWay("add") /\ Clicks(Call("add", p, ip))
Remove(p) == panel /\ Clicks(Call("remove", p, None))

\* An answer or an event arrives, whichever was sent first.
Show(active) ==
    /\ shows[active] > 0
    /\ shows' = [shows EXCEPT ![active] = @ - 1]
    /\ panel' = active
    /\ UNCHANGED <<manager, waiting, current, step, counters>>

\* n answers and events that set wgActive.
Tell(active, n) == shows' = [shows EXCEPT ![active] = @ + n]

-----------------------------------------------------------------------------
(* The mutex. *)

Acquire ==
    /\ current = None
    /\ \E c \in Calls :
          /\ waiting[c] > 0
          /\ waiting' = [waiting EXCEPT ![c] = @ - 1]
          /\ current' = c
    /\ UNCHANGED <<manager, step, page, counters>>

Running(what, at) ==
    /\ current # None
    /\ current.what = what
    /\ step = at

\* Mutant: no status is asked for after a cleanup.
ReturnWithoutStatus ==
    /\ current' = None
    /\ step' = "start"
    /\ UNCHANGED waiting

\* The command returns.  The page asks for the status when its cleanup is
\* over, however it ended (main.ts:997).
Return ==
    /\ current' = None
    /\ step' = "start"
    /\ IF current.what = "cleanup" THEN Await(Plain("status"))
                                   ELSE UNCHANGED waiting

Fault == faults < MaxFaults /\ faults' = faults + 1

-----------------------------------------------------------------------------
(* Setup. *)

\* What a failed write_config_file may leave: nothing new, part of it, or all
\* of it with the wrong mode.
WriteFails(contents) ==
    /\ Fault
    /\ file' \in {file, Broken, contents}

\* Refused: a tunnel that is up, an address that does not parse, or a wg that
\* is missing or fails.
SetupRefused ==
    /\ Running("setup", "start")
    /\ Return
    /\ UNCHANGED <<manager, page, counters>>

\* Mutant: the configuration is kept once the interface is up.
SetupKeepsLate ==
    LET new == [key |-> keys + 1, peers |-> NoPeers]
    IN  /\ Running("setup", "start")
        /\ ~Up
        /\ keys < MaxKeys
        /\ keys' = keys + 1
        /\ file' = new
        /\ step' = "up"
        /\ UNCHANGED <<config, iface, stale, waiting, current, page, starts,
                       clicks, faults>>

\* Without an interface setup generates a key pair and writes the file.  (Its
\* own test for a stale interface comes right after the command's and finds
\* none.)
Setup ==
    LET new == [key |-> keys + 1, peers |-> NoPeers]
    IN  /\ Running("setup", "start")
        /\ ~Up
        /\ keys < MaxKeys
        /\ keys' = keys + 1
        /\ \/ /\ file' = new
              /\ config' = new
              /\ step' = "up"
              /\ UNCHANGED <<waiting, current, faults>>
           \/ WriteFails(new) /\ Return /\ UNCHANGED config
        /\ UNCHANGED <<iface, stale, page, starts, clicks>>

\* wg-quick up refuses the name of the file: the command fails, and the
\* configuration and the file stay.
BringUp ==
    /\ Running("setup", "up")
    /\ Return
    /\ UNCHANGED <<manager, page, counters>>

-----------------------------------------------------------------------------
(* Teardown, for the user and for the cleanup. *)

\* cleanup_stale_wireguard has nothing to do.
NothingStale ==
    /\ Running("cleanup", "start")
    /\ ~Up
    /\ Return
    /\ UNCHANGED <<manager, page, counters>>

TearingDown(at) ==
    \/ Running("teardown", at)
    \/ Running("cleanup", at) /\ (at = "start" => Up)

\* Mutant: the file stays.
QuickDownKeepsFile ==
    /\ TearingDown("start")
    /\ step' = "delete"
    /\ UNCHANGED <<manager, waiting, current, page, counters>>

\* If there is a file: wg-quick down, which refuses its name, and the file is
\* removed, or stays without notice.
QuickDown ==
    /\ TearingDown("start")
    /\ step' = "delete"
    /\ \/ file' = None /\ UNCHANGED faults
       \/ file # None /\ Fault /\ UNCHANGED file
    /\ UNCHANGED <<config, iface, stale, waiting, current, page, keys, starts,
                   clicks>>

\* wg-quick cannot be run: the command fails with all as it was.
QuickDownNotRun ==
    /\ TearingDown("start")
    /\ file # None
    /\ Return
    /\ UNCHANGED <<manager, page, counters>>

\* An interface that is there is deleted, and the configuration with it.  A
\* teardown tells the page by its event and by its answer.
Delete ==
    /\ TearingDown("delete")
    /\ Return
    /\ iface' = None
    /\ stale' = FALSE
    /\ config' = None
    /\ IF current.what = "teardown" THEN Tell(FALSE, 2) ELSE UNCHANGED shows
    /\ UNCHANGED <<file, panel, counters>>

DeleteFails ==
    /\ TearingDown("delete")
    /\ Up
    /\ Fault
    /\ Return
    /\ UNCHANGED <<manager, page, keys, starts, clicks>>

-----------------------------------------------------------------------------
(* Peers. *)

\* add_peer and remove_peer need the interface, an address that parses and a
\* wg that works.
PeerRefused ==
    /\ \/ Running("add", "start")
       \/ Running("remove", "start")
    /\ Return
    /\ UNCHANGED <<manager, page, counters>>

\* The kernel gives an address to the last peer it was set for.
Routed(peers, p, ip) ==
    [q \in Peers |-> IF q = p THEN ip
                     ELSE IF peers[q] = ip THEN NoIP ELSE peers[q]]

\* Mutant: a peer that is known keeps its old address in the configuration.
AddPeerKeepsAddress ==
    LET p == current.peer
    IN  /\ Running("add", "start")
        /\ Up
        /\ iface' = Routed(iface, p, current.ip)
        /\ config' = IF config = None \/ config.peers[p] # None THEN config
                     ELSE [config EXCEPT !.peers[p] = current.ip]
        /\ step' = "save"
        /\ UNCHANGED <<file, stale, waiting, current, page, counters>>

\* The configuration, if this process has one, with another address for the
\* peer.
Reconfigured(p, ip) ==
    IF config = None THEN None
    ELSE [config EXCEPT !.peers = [@ EXCEPT ![p] = ip]]

\* wg set, and then the configuration.
AddPeer ==
    LET p == current.peer
    IN  /\ Running("add", "start")
        /\ Up
        /\ iface' = Routed(iface, p, current.ip)
        /\ config' = Reconfigured(p, current.ip)
        /\ step' = "save"
        /\ UNCHANGED <<file, stale, waiting, current, page, counters>>

RemovePeer ==
    LET p == current.peer
    IN  /\ Running("remove", "start")
        /\ Up
        /\ iface' = [iface EXCEPT ![p] = None]
        /\ config' = Reconfigured(p, None)
        /\ step' = "save"
        /\ UNCHANGED <<file, stale, waiting, current, page, counters>>

\* The snapshot is written to the file.
SavePeers ==
    /\ \/ Running("add", "save")
       \/ Running("remove", "save")
    /\ Return
    /\ \/ file' = (IF config = None THEN file ELSE config) /\ UNCHANGED faults
       \/ config # None /\ WriteFails(config)
    /\ UNCHANGED <<config, iface, stale, page, keys, starts, clicks>>

-----------------------------------------------------------------------------

\* get_wireguard_status; its answer comes later.
Status ==
    /\ Running("status", "start")
    /\ Return
    /\ Tell(Up, 1)
    /\ UNCHANGED <<manager, panel, counters>>

\* Someone makes an interface of this name.
MadeOutside ==
    /\ ~Up
    /\ iface' = NoPeers
    /\ UNCHANGED <<config, file, stale, waiting, current, step, page, counters>>

\* Someone deletes it.
RemovedOutside ==
    /\ Up
    /\ iface' = None
    /\ stale' = FALSE
    /\ UNCHANGED <<config, file, waiting, current, step, page, counters>>

\* The process dies or ends, and another is started: the interface stays, the
\* configuration and the path of its file are new.  (The old file stays
\* behind, and nothing reads it again.)
Restart ==
    /\ starts < MaxStarts
    /\ starts' = starts + 1
    /\ config' = None
    /\ file' = None
    /\ stale' = Up
    /\ waiting' = Startup
    /\ current' = None
    /\ step' = "start"
    /\ panel' = FALSE
    /\ shows' = Nothing
    /\ UNCHANGED <<iface, keys, clicks, faults>>

Click ==
    \/ ClickSetup \/ ClickTeardown
    \/ \E p \in Peers : Remove(p) \/ \E ip \in IPs : ClickAdd(p, ip)

Serve ==
    \/ SetupRefused \/ Setup \/ BringUp
    \/ NothingStale \/ QuickDown \/ QuickDownNotRun \/ Delete \/ DeleteFails
    \/ PeerRefused \/ AddPeer \/ RemovePeer \/ SavePeers
    \/ Status

Next ==
    \/ Click \/ Acquire \/ Serve
    \/ \E active \in BOOLEAN : Show(active)
    \/ MadeOutside \/ RemovedOutside \/ Restart

Spec == Init /\ [][Next]_vars

-----------------------------------------------------------------------------
(* Properties. *)

Steps == {"start", "up", "delete", "save"}

\* The type invariant; a command under way is one that has such a step, and
\* wg-quick up runs with a new configuration.
TypeOK ==
    /\ config \in Configs \cup {None}
    /\ file \in Configs \cup {None}
    /\ iface \in Interfaces \cup {None}
    /\ waiting \in [Calls -> Nat]
    /\ current \in Calls \cup {None}
    /\ step \in Steps
    /\ panel \in BOOLEAN
    /\ shows \in [BOOLEAN -> Nat]
    /\ keys \in Nat /\ starts \in Nat /\ clicks \in Nat /\ faults \in Nat
    /\ stale \in BOOLEAN
    /\ step # "start" => current # None
    /\ step = "up" => current.what = "setup" /\ config # None

\* Between two commands, unless writing, removing or deleting something has
\* failed, the file at config_path is the configuration in memory: the key it
\* holds is the one the public key shown belongs to, its peers are those
\* added and not removed, and it is gone when the configuration is, after
\* setups that fail, teardowns, cleanups, restarts and changes from outside
\* (wireguard.rs:156-161, 167-197, 258-269, 290-294).
FileIsConfig == (faults = 0 /\ current = None) => file = config

\* An interface that has come up since the configuration was made has only
\* peers of the configuration, and routes to none of them an address that the
\* configuration does not: setup does not replace a configuration while there
\* is an interface (wireguard.rs:144-147, 211-252, 271-286, lib.rs:1227).
PeersAreConfigured ==
    (config # None /\ Up) =>
        \A p \in Peers :
            iface[p] # None =>
                /\ config.peers[p] # None
                /\ iface[p] \in {config.peers[p], NoIP}

\* An interface of a previous run that the startup cleanups could not delete
\* is shown as active once all commands have returned and all answers and
\* events have come, in whatever order: the page offers to tear it down, and
\* without that every setup is refused (lib.rs:1227, main.ts:989-1018).
StaleTunnelShown ==
    (/\ stale
     /\ current = None
     /\ \A c \in Calls : waiting[c] = 0
     /\ \A active \in BOOLEAN : shows[active] = 0)
    => panel
=============================================================================

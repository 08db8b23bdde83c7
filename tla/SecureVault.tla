----------------------------- MODULE SecureVault -----------------------------
(***************************************************************************)
(* The encrypted vault of one WireTalk process and the tasks that use it:  *)
(* src-tauri/src/lib.rs with src-tauri/src/secure_storage.rs.              *)
(*                                                                         *)
(* AppState is a record of tokio mutexes.  Tauri commands run concurrently *)
(* with each other and with the task that drains the P2P events, and a     *)
(* handler takes and drops one mutex after the other, so one action below  *)
(* is what a handler does between two points where another task may run.   *)
(* A handler that changes persistent state ends in persist_secure_vault:   *)
(* copy the storage key, read the fields one mutex at a time, encrypt, and *)
(* overwrite the file in place (open with truncation, then write).         *)
(*                                                                         *)
(* Of the vault's fields the model keeps the message history and the       *)
(* crypto identity; the others are saved and loaded by the same steps.     *)
(***************************************************************************)
EXTENDS Integers, FiniteSets

CONSTANTS
    Commands,    \* slots for concurrently running Tauri commands
    Events,      \* the one task that handles P2P events
    Msgs,        \* chat messages that may be sent or received
    Ids,         \* identities MessageCrypto::new may generate
    Passwords,   \* passwords or PINs the user may type
    Salts,       \* salts drawn when a vault is created
    MaxRestarts, \* bound on process restarts
    MaxFailures, \* bound on failed file operations
    None

Tasks == Commands \cup {Events}

ASSUME VaultAssumption ==
    /\ Events \notin Commands
    /\ None \notin Msgs \cup Ids \cup Passwords \cup Salts
    /\ MaxRestarts \in Nat
    /\ MaxFailures \in Nat

VARIABLES
    messages,    \* AppState.messages
    crypto,      \* AppState.message_crypto: its identity, or None
    cryptoOwner, \* the task holding the message_crypto mutex across an await
    storage,     \* AppState.secure_storage
    file,        \* secure_vault.json
    started,     \* the network runs and Events drains its events
    uiUnlocked,  \* the frontend's own copy of "unlocked"
    pc,          \* where each task stands
    op,          \* the handler each task runs
    buf,         \* the handler's locals: key, salt and snapshot
    usedMsgs, usedIds,  \* what has been generated so far
    restarts, failures, \* counters against the two bounds
    written,     \* history: all an intact file has ever held
    overlapped,  \* history: two vault sections have overlapped in time
    torn         \* history: a write stopped half way

memory == <<messages, crypto, cryptoOwner>>
bounds == <<usedMsgs, usedIds, restarts, failures>>
history == <<written, overlapped, torn>>
vars == <<messages, crypto, cryptoOwner, storage, file, started, uiUnlocked,
          pc, op, buf, usedMsgs, usedIds, restarts, failures,
          written, overlapped, torn>>

-----------------------------------------------------------------------------
(* Types. *)

\* derive_key: Argon2 over the password and the salt, a different key for
\* each pair.
DeriveKey(pw, salt) == <<pw, salt>>

Keys == {DeriveKey(pw, s) : pw \in Passwords, s \in Salts}
IdOrNone == Ids \cup {None}
Content == [key : Keys \cup {None}, salt : Salts \cup {None},
            msgs : SUBSET Msgs, id : IdOrNone]
Blank == [key |-> None, salt |-> None, msgs |-> {}, id |-> None]

\* EncryptedStorageFile, plus the three ways it may not parse.
FileKinds == {"absent", "empty", "intact", "corrupt"}
FileState == [kind : FileKinds, data : Content]
NoData(kind) == [kind |-> kind, data |-> Blank]
Intact(content) == [kind |-> "intact", data |-> content]

\* Mutant: the key is emptied, not taken out.
LockedEmptied == [unlocked |-> FALSE, key |-> << >>, salt |-> None]

Locked == [unlocked |-> FALSE, key |-> None, salt |-> None]

Ops == {"none", "send", "receive", "save", "exchange", "start", "lock",
        "unlock", "create"}
PCs == {"idle", "crypto", "publish", "decrypt", "addKey", "identity",
        "clone", "snapMsgs", "snapCrypto", "open", "write", "reply",
        "dropKey", "clearMsgs", "clearCrypto", "return",
        "read", "loadMsgs", "loadCrypto", "store"}

\* The program counters between which a task works on the vault.
Section == {"clone", "snapMsgs", "snapCrypto", "open", "write", "dropKey",
            "clearMsgs", "clearCrypto", "read", "loadMsgs", "loadCrypto",
            "store"}
InSection(t) == pc[t] \in Section

-----------------------------------------------------------------------------
(* Initial state: AppState::new, no vault on disk. *)

Init ==
    /\ messages = {}
    /\ crypto = None
    /\ cryptoOwner = None
    /\ storage = Locked
    /\ file = NoData("absent")
    /\ started = FALSE
    /\ uiUnlocked = FALSE
    /\ pc = [t \in Tasks |-> "idle"]
    /\ op = [t \in Tasks |-> "none"]
    /\ buf = [t \in Tasks |-> Blank]
    /\ usedMsgs = {}
    /\ usedIds = {}
    /\ restarts = 0
    /\ failures = 0
    /\ written = [msgs |-> {}, ids |-> {}]
    /\ overlapped = FALSE
    /\ torn = FALSE

-----------------------------------------------------------------------------
(* Moving a task along. *)

Goto(t, label) == pc' = [pc EXCEPT ![t] = label]

Begin(t, handler, label) ==
    /\ pc[t] = "idle"
    /\ Goto(t, label)
    /\ op' = [op EXCEPT ![t] = handler]

Return(t) ==
    /\ Goto(t, "idle")
    /\ op' = [op EXCEPT ![t] = "none"]
    /\ buf' = [buf EXCEPT ![t] = Blank]

\* History: t enters its vault section while another task is inside one.
NoteEntry(t) ==
    overlapped' = (overlapped \/ \E u \in Tasks \ {t} : InSection(u))

-----------------------------------------------------------------------------
(* The handlers up to their call of persist_secure_vault. *)

\* A new message goes into the history.
Keep ==
    \E m \in Msgs \ usedMsgs :
        /\ messages' = messages \cup {m}
        /\ usedMsgs' = usedMsgs \cup {m}

\* send_p2p_message keeps the message locally before it is sent.
SendMessage(t) ==
    /\ t \in Commands
    /\ started
    /\ Begin(t, "send", "crypto")
    /\ Keep
    /\ UNCHANGED <<crypto, cryptoOwner, storage, file, started, uiUnlocked,
                   buf, usedIds, restarts, failures, history>>

\* With encryption on: take message_crypto and keep it while the network
\* loop is asked for its peers; without an identity the command fails here.
SendEncrypted(t) ==
    /\ pc[t] = "crypto"
    /\ cryptoOwner = None
    /\ \/ /\ crypto # None
          /\ cryptoOwner' = t
          /\ Goto(t, "publish")
          /\ UNCHANGED <<op, buf>>
       \/ /\ crypto = None
          /\ Return(t)
          /\ UNCHANGED cryptoOwner
    /\ UNCHANGED <<messages, crypto, storage, file, started, uiUnlocked,
                   bounds, history>>

\* Mutant: message_crypto stays locked when the command fails.
PublishLeaks(t) ==
    /\ pc[t] = "publish"
    /\ \/ cryptoOwner' = None /\ Goto(t, "clone") /\ NoteEntry(t)
          /\ UNCHANGED <<op, buf>>
       \/ Return(t) /\ UNCHANGED <<cryptoOwner, overlapped>>
    /\ UNCHANGED <<messages, crypto, storage, file, started, uiUnlocked,
                   bounds, written, torn>>

\* Publish and drop message_crypto, or fail because no peer key is known:
\* then the command returns and nothing is persisted.
Publish(t) ==
    /\ pc[t] = "publish"
    /\ cryptoOwner' = None
    /\ \/ Goto(t, "clone") /\ NoteEntry(t) /\ UNCHANGED <<op, buf>>
       \/ Return(t) /\ UNCHANGED overlapped
    /\ UNCHANGED <<messages, crypto, storage, file, started, uiUnlocked,
                   bounds, written, torn>>

\* With encryption off message_crypto is not touched.
SendPlain(t) ==
    /\ pc[t] = "crypto"
    /\ Goto(t, "clone")
    /\ NoteEntry(t)
    /\ UNCHANGED <<memory, storage, file, started, uiUnlocked, op, buf,
                   bounds, written, torn>>

\* MessageReceived, a plain message: keep it.
ReceivePlain ==
    /\ started
    /\ Begin(Events, "receive", "clone")
    /\ NoteEntry(Events)
    /\ Keep
    /\ UNCHANGED <<crypto, cryptoOwner, storage, file, started, uiUnlocked,
                   buf, usedIds, restarts, failures, written, torn>>

\* An encrypted one, neither a replay nor meant for another peer: wait for
\* message_crypto ...
ReceiveEncrypted ==
    /\ started
    /\ Begin(Events, "receive", "decrypt")
    /\ \E m \in Msgs \ usedMsgs :
          /\ buf' = [buf EXCEPT ![Events].msgs = {m}]
          /\ usedMsgs' = usedMsgs \cup {m}
    /\ UNCHANGED <<memory, storage, file, started, uiUnlocked, usedIds,
                   restarts, failures, history>>

\* ... decrypt, drop message_crypto and keep the message.
DecryptMessage ==
    /\ pc[Events] = "decrypt"
    /\ cryptoOwner = None
    /\ Goto(Events, "clone")
    /\ NoteEntry(Events)
    /\ messages' = messages \cup buf[Events].msgs
    /\ buf' = [buf EXCEPT ![Events].msgs = {}]
    /\ UNCHANGED <<crypto, cryptoOwner, storage, file, started, uiUnlocked,
                   op, bounds, written, torn>>

\* The handlers that change only fields left out here before they save:
\* toggle_encryption, update_username, the room commands, PeerJoined and
\* PeerLeft.
SaveOther(t) ==
    /\ started
    /\ Begin(t, "save", "clone")
    /\ NoteEntry(t)
    /\ UNCHANGED <<memory, storage, file, started, uiUnlocked, buf, bounds,
                   written, torn>>

\* KeyExchangeReceived: wait for message_crypto ...
ReceiveKeyExchange ==
    /\ started
    /\ Begin(Events, "exchange", "addKey")
    /\ UNCHANGED <<memory, storage, file, started, uiUnlocked, buf, bounds,
                   history>>

\* ... add the peer's key and go on to the save with message_crypto still
\* locked, or drop it because there is no identity or the key is refused.
AddPeerKey ==
    /\ pc[Events] = "addKey"
    /\ cryptoOwner = None
    /\ \/ /\ crypto # None
          /\ cryptoOwner' = Events
          /\ Goto(Events, "clone")
          /\ NoteEntry(Events)
          /\ UNCHANGED <<op, buf>>
       \/ Return(Events) /\ UNCHANGED <<cryptoOwner, overlapped>>
    /\ UNCHANGED <<messages, crypto, storage, file, started, uiUnlocked,
                   bounds, written, torn>>

\* After the save the key is sent back and message_crypto is dropped.
ReplyKey ==
    /\ pc[Events] = "reply"
    /\ cryptoOwner' = None
    /\ Return(Events)
    /\ UNCHANGED <<messages, crypto, storage, file, started, uiUnlocked,
                   bounds, history>>

\* start_p2p_network, which the frontend calls once, on an unlocked vault:
\* set up the swarm and wait for message_crypto ...
StartNetwork(t) ==
    /\ t \in Commands
    /\ uiUnlocked
    /\ ~started
    /\ \A u \in Tasks : op[u] # "start"
    /\ Ids \ usedIds # {}  \* a bound: one is left to generate
    /\ Begin(t, "start", "identity")
    /\ UNCHANGED <<memory, storage, file, started, uiUnlocked, buf, bounds,
                   history>>

\* ... reuse the identity in memory or generate one, start the event task
\* and go on to the save.
TakeIdentity(t) ==
    /\ pc[t] = "identity"
    /\ cryptoOwner = None
    /\ Goto(t, "clone")
    /\ NoteEntry(t)
    /\ \/ crypto # None /\ UNCHANGED <<crypto, usedIds>>
       \/ /\ crypto = None
          /\ \E i \in Ids \ usedIds :
                crypto' = i /\ usedIds' = usedIds \cup {i}
    /\ started' = TRUE
    /\ UNCHANGED <<messages, cryptoOwner, storage, file, uiUnlocked, op, buf,
                   usedMsgs, restarts, failures, written, torn>>

-----------------------------------------------------------------------------
(* persist_secure_vault and build_vault_data. *)

\* What the handler does once persist_secure_vault has returned Ok.
AfterPersist(t) ==
    CASE op[t] = "exchange" -> Goto(t, "reply") /\ UNCHANGED <<op, buf>>
      [] op[t] = "lock"     -> Goto(t, "dropKey") /\ UNCHANGED <<op, buf>>
      [] op[t] = "create"   -> Goto(t, "store") /\ UNCHANGED <<op, buf>>
      [] OTHER              -> Return(t)

\* A vault that is locked, or open without a key or a salt, is left alone.
Savable == storage.unlocked /\ storage.key # None /\ storage.salt # None

\* Copy secure_storage.
CloneStorage(t) ==
    /\ pc[t] = "clone"
    /\ \/ /\ Savable
          /\ Goto(t, "snapMsgs")
          /\ buf' = [buf EXCEPT ![t] =
                        [@ EXCEPT !.key = storage.key, !.salt = storage.salt]]
          /\ UNCHANGED op
       \/ ~Savable /\ AfterPersist(t)
    /\ UNCHANGED <<memory, storage, file, started, uiUnlocked, bounds,
                   history>>

SnapshotMessages(t) ==
    /\ pc[t] = "snapMsgs"
    /\ Goto(t, "snapCrypto")
    /\ buf' = [buf EXCEPT ![t].msgs = messages]
    /\ UNCHANGED <<memory, storage, file, started, uiUnlocked, op, bounds,
                   history>>

\* The mutex is not reentrant: this waits for cryptoOwner whoever it is.
SnapshotCrypto(t) ==
    /\ pc[t] = "snapCrypto"
    /\ cryptoOwner = None
    /\ Goto(t, "open")
    /\ buf' = [buf EXCEPT ![t].id = crypto]
    /\ UNCHANGED <<memory, storage, file, started, uiUnlocked, op, bounds,
                   history>>

\* tokio::fs::write opens the file with truncation ...
OpenVaultFile(t) ==
    /\ pc[t] = "open"
    /\ Goto(t, "write")
    /\ file' = NoData("empty")
    /\ UNCHANGED <<memory, storage, started, uiUnlocked, op, buf, bounds,
                   history>>

\* ... and writes from offset 0.  If another writer got its bytes in after
\* the truncation and they are more, its tail stays behind ours.
Fits(new, old) ==
    /\ old.msgs \subseteq new.msgs
    /\ old.id = None \/ new.id # None

AfterWrite(new) ==
    CASE file.kind = "empty" -> {Intact(new)}
      [] file.kind = "intact" /\ Fits(new, file.data) -> {Intact(new)}
      [] file.kind = "intact" /\ Fits(file.data, new)
             /\ ~Fits(new, file.data) -> {NoData("corrupt")}
      [] OTHER -> {Intact(new), NoData("corrupt")}

WriteVaultFile(t) ==
    /\ pc[t] = "write"
    /\ file' \in AfterWrite(buf[t])
    /\ AfterPersist(t)
    /\ written' = IF file'.kind # "intact" THEN written
                  ELSE [msgs |-> written.msgs \cup buf[t].msgs,
                        ids |-> written.ids \cup ({buf[t].id} \ {None})]
    /\ UNCHANGED <<memory, storage, started, uiUnlocked, bounds, overlapped,
                   torn>>

\* An I/O error: at the open nothing has changed, at the write the file has
\* already been truncated.  A command returns the error, the event task
\* ignores it (a key exchange never gets this far, see SelfBlocked), and the
\* frontend takes a failed creation for a locked vault.
PersistFails(t) ==
    /\ failures < MaxFailures
    /\ pc[t] \in {"open", "write"}
    /\ failures' = failures + 1
    /\ torn' = (torn \/ pc[t] = "write")
    /\ uiUnlocked' = (uiUnlocked /\ op[t] # "create")
    /\ Return(t)
    /\ UNCHANGED <<memory, storage, file, started, usedMsgs, usedIds,
                   restarts, written, overlapped>>

-----------------------------------------------------------------------------
(* unlock_secure_storage and load_vault_into_state. *)

\* The unlock button and the password field are enabled while the frontend
\* believes the vault locked; it always asks to create a missing vault.
UnlockExisting(t) ==
    /\ t \in Commands
    /\ ~uiUnlocked
    /\ file.kind # "absent"
    /\ Begin(t, "unlock", "read")
    /\ NoteEntry(t)
    /\ UNCHANGED <<memory, storage, file, started, uiUnlocked, buf, bounds,
                   written, torn>>

CreateVault(t) ==
    /\ t \in Commands
    /\ ~uiUnlocked
    /\ file.kind = "absent"
    /\ Begin(t, "create", "snapMsgs")
    /\ NoteEntry(t)
    /\ \E pw \in Passwords, s \in Salts :
          buf' = [buf EXCEPT ![t] =
                     [@ EXCEPT !.key = DeriveKey(pw, s), !.salt = s]]
    /\ UNCHANGED <<memory, storage, file, started, uiUnlocked, bounds,
                   written, torn>>

\* read_file and decrypt_payload: fails on a file that does not parse and on
\* a wrong password.
ReadVault(t) ==
    /\ pc[t] = "read"
    /\ \E pw \in Passwords :
          \/ /\ file.kind = "intact"
             /\ file.data.key = DeriveKey(pw, file.data.salt)
             /\ Goto(t, "loadMsgs")
             /\ buf' = [buf EXCEPT ![t] = file.data]
             /\ UNCHANGED <<op, uiUnlocked>>
          \/ /\ \/ file.kind # "intact"
                \/ file.data.key # DeriveKey(pw, file.data.salt)
             /\ Return(t)
             /\ uiUnlocked' = FALSE
    /\ UNCHANGED <<memory, storage, file, started, bounds, history>>

\* Mutant: the history in the vault is not loaded.
LoadMessagesSkipped(t) ==
    /\ pc[t] = "loadMsgs"
    /\ Goto(t, "loadCrypto")
    /\ UNCHANGED <<memory, storage, file, started, uiUnlocked, op, buf, bounds,
                   history>>

LoadMessages(t) ==
    /\ pc[t] = "loadMsgs"
    /\ Goto(t, "loadCrypto")
    /\ messages' = buf[t].msgs
    /\ UNCHANGED <<crypto, cryptoOwner, storage, file, started, uiUnlocked,
                   op, buf, bounds, history>>

\* Mutant: the identity in the vault is not loaded.
LoadCryptoSkipped(t) ==
    /\ pc[t] = "loadCrypto"
    /\ Goto(t, "store")
    /\ UNCHANGED <<memory, storage, file, started, uiUnlocked, op, buf, bounds,
                   history>>

\* A vault saved without an identity leaves the one in memory alone, and
\* then message_crypto is not locked either.
LoadCrypto(t) ==
    /\ pc[t] = "loadCrypto"
    /\ Goto(t, "store")
    /\ \/ /\ buf[t].id # None
          /\ cryptoOwner = None
          /\ crypto' = buf[t].id
       \/ buf[t].id = None /\ UNCHANGED crypto
    /\ UNCHANGED <<messages, cryptoOwner, storage, file, started, uiUnlocked,
                   op, buf, bounds, history>>

\* Mutant: the salt is taken from the file as it is by now.
StoreKeyRereads(t) ==
    /\ pc[t] = "store"
    /\ storage' = [unlocked |-> TRUE, key |-> buf[t].key,
                   salt |-> file.data.salt]
    /\ uiUnlocked' = TRUE
    /\ Return(t)
    /\ UNCHANGED <<memory, file, started, bounds, history>>

StoreKey(t) ==
    /\ pc[t] = "store"
    /\ storage' = [unlocked |-> TRUE, key |-> buf[t].key,
                   salt |-> buf[t].salt]
    /\ uiUnlocked' = TRUE
    /\ Return(t)
    /\ UNCHANGED <<memory, file, started, bounds, history>>

-----------------------------------------------------------------------------
(* lock_secure_storage. *)

LockVault(t) ==
    /\ t \in Commands
    /\ uiUnlocked
    /\ Begin(t, "lock", "clone")
    /\ NoteEntry(t)
    /\ UNCHANGED <<memory, storage, file, started, uiUnlocked, buf, bounds,
                   written, torn>>

DropKey(t) ==
    /\ pc[t] = "dropKey"
    /\ Goto(t, "clearMsgs")
    /\ storage' = Locked
    /\ UNCHANGED <<memory, file, started, uiUnlocked, op, buf, bounds,
                   history>>

ClearMessages(t) ==
    /\ pc[t] = "clearMsgs"
    /\ Goto(t, "clearCrypto")
    /\ messages' = {}
    /\ UNCHANGED <<crypto, cryptoOwner, storage, file, started, uiUnlocked,
                   op, buf, bounds, history>>

ClearCrypto(t) ==
    /\ pc[t] = "clearCrypto"
    /\ cryptoOwner = None
    /\ Goto(t, "return")
    /\ crypto' = None
    /\ UNCHANGED <<messages, cryptoOwner, storage, file, started, uiUnlocked,
                   op, buf, bounds, history>>

\* The frontend learns that the vault is locked.
LockReturns(t) ==
    /\ pc[t] = "return"
    /\ uiUnlocked' = FALSE
    /\ Return(t)
    /\ UNCHANGED <<memory, storage, file, started, bounds, history>>

-----------------------------------------------------------------------------
(* The process is killed or closed at any point and started again. *)

Restart ==
    /\ restarts < MaxRestarts
    /\ restarts' = restarts + 1
    /\ messages' = {}
    /\ crypto' = None
    /\ cryptoOwner' = None
    /\ storage' = Locked
    /\ started' = FALSE
    /\ uiUnlocked' = FALSE
    /\ pc' = [t \in Tasks |-> "idle"]
    /\ op' = [t \in Tasks |-> "none"]
    /\ buf' = [t \in Tasks |-> Blank]
    /\ torn' = (torn \/ \E t \in Tasks : pc[t] = "write")
    /\ UNCHANGED <<file, usedMsgs, usedIds, failures, written, overlapped>>

-----------------------------------------------------------------------------

Persist(t) ==
    \/ CloneStorage(t) \/ SnapshotMessages(t) \/ SnapshotCrypto(t)
    \/ OpenVaultFile(t) \/ WriteVaultFile(t)

\* What a running handler does next; new calls and events come from outside.
Continue(t) ==
    \/ SendEncrypted(t) \/ Publish(t) \/ SendPlain(t) \/ TakeIdentity(t)
    \/ Persist(t)
    \/ ReadVault(t) \/ LoadMessages(t) \/ LoadCrypto(t) \/ StoreKey(t)
    \/ DropKey(t) \/ ClearMessages(t) \/ ClearCrypto(t) \/ LockReturns(t)
    \/ (t = Events /\ (DecryptMessage \/ AddPeerKey \/ ReplyKey))

Call(t) ==
    \/ SendMessage(t) \/ SaveOther(t) \/ StartNetwork(t) \/ LockVault(t)
    \/ UnlockExisting(t) \/ CreateVault(t)

Next ==
    \/ \E t \in Tasks : Call(t) \/ Continue(t) \/ PersistFails(t)
    \/ ReceivePlain \/ ReceiveEncrypted \/ ReceiveKeyExchange
    \/ Restart

Spec == Init /\ [][Next]_vars

\* The runtime polls every task that can run, and tokio's mutexes are queues:
\* a handler waiting for message_crypto gets it if it is freed again and
\* again.  Nothing obliges the user, the network or the disk.
FairSpec == Spec /\ \A t \in Tasks : SF_vars(Continue(t))

-----------------------------------------------------------------------------
(* Properties. *)

\* The type invariant of AppState, the file and the tasks.
TypeOK ==
    /\ messages \in SUBSET Msgs
    /\ crypto \in IdOrNone
    /\ cryptoOwner \in Tasks \cup {None}
    /\ storage \in [unlocked : BOOLEAN, key : Keys \cup {None},
                    salt : Salts \cup {None}]
    /\ file \in FileState
    /\ started \in BOOLEAN
    /\ uiUnlocked \in BOOLEAN
    /\ pc \in [Tasks -> PCs]
    /\ op \in [Tasks -> Ops]
    /\ buf \in [Tasks -> Content]
    /\ usedMsgs \in SUBSET Msgs
    /\ usedIds \in SUBSET Ids
    /\ restarts \in Nat
    /\ failures \in Nat
    /\ written \in [msgs : SUBSET Msgs, ids : SUBSET Ids]
    /\ overlapped \in BOOLEAN
    /\ torn \in BOOLEAN

\* Every vault that parses opens with a password: the key it is encrypted
\* under was derived with the salt stored beside it, whichever of two
\* concurrent creations or saves wrote it (lib.rs:196-225, 361-372).
OpensWithItsSalt ==
    file.kind = "intact" =>
        \E pw \in Passwords :
            file.data.key = DeriveKey(pw, file.data.salt)

\* What the vault has once held it still holds, as long as no two vault
\* sections ran at the same time and no write stopped half way: the file
\* parses, no saved message is gone and the saved identity is the same
\* (lib.rs:191-278, 340-405, across locks, restarts and failed opens).
SavedStaysSaved ==
    (/\ ~overlapped /\ ~torn
     /\ \A t \in Tasks : pc[t] # "write"
     /\ file.kind # "absent")
    => /\ file.kind = "intact"
       /\ written.msgs \subseteq file.data.msgs
       /\ written.ids \subseteq {file.data.id}

\* Under the same conditions an unlocked process has in memory everything
\* the vault has ever held, so that the next save cannot lose any of it: a
\* process unlocks only after the whole vault is loaded (lib.rs:346-352) and
\* clears its memory only once it is locked (lib.rs:388-401).
MemoryCoversVault ==
    (/\ ~overlapped /\ ~torn
     /\ storage.unlocked)
    => /\ written.msgs \subseteq messages
       /\ written.ids \subseteq {crypto}

\* The handler of a key exchange waits for the mutex it holds itself.
SelfBlocked == pc[Events] = "snapCrypto" /\ cryptoOwner = Events

\* Every handler that has begun returns, unless the handler of a key
\* exchange has blocked itself: these locks have no other deadlock, though
\* send_p2p_message keeps message_crypto across awaits (lib.rs:871-921).
HandlersReturn ==
    \A t \in Tasks : (pc[t] # "idle") ~> (pc[t] = "idle" \/ SelfBlocked)

-----------------------------------------------------------------------------
(* What the comments and the README say and the code does not do. *)

\* "Key exchange messages establish peer identities and shared secrets"
\* (README.md:77): the handler of a key exchange gets to its end.
KeyExchangeReturns == (op[Events] = "exchange") ~> (op[Events] # "exchange")
=============================================================================

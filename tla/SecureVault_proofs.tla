------------------------- MODULE SecureVault_proofs -------------------------
(***************************************************************************)
(* What holds of SecureVault for every number of tasks, messages,          *)
(* identities, passwords and salts, and without any bound on failures.     *)
(***************************************************************************)
EXTENDS SecureVault, TLAPS

-----------------------------------------------------------------------------
(* Lemmas about the operators of the model. *)

\* A key is derived from a password and a salt, and is nothing else.
LEMMA DeriveKeyType ==
    ASSUME NEW pw \in Passwords, NEW s \in Salts
    PROVE  DeriveKey(pw, s) \in Keys
BY DEF Keys

\* The initial value of a handler's locals is a value of their type.
LEMMA BlankType == Blank \in Content
BY DEF Blank, Content, IdOrNone

\* write_file leaves the new content or something that does not parse.
LEMMA AfterWriteCases ==
    ASSUME NEW new
    PROVE  AfterWrite(new) \subseteq {Intact(new), NoData("corrupt")}
BY DEF AfterWrite

\* Whatever write_file leaves is a value of the file's type.
LEMMA FileTypes ==
    ASSUME NEW c \in Content
    PROVE  /\ Intact(c) \in FileState
           /\ \A k \in FileKinds : NoData(k) \in FileState
BY BlankType DEF Intact, NoData, FileState, FileKinds

\* A handler that returns keeps the types of pc, op and buf.
LEMMA ReturnType ==
    ASSUME TypeOK, NEW t \in Tasks, Return(t)
    PROVE  /\ pc' \in [Tasks -> PCs]
           /\ op' \in [Tasks -> Ops]
           /\ buf' \in [Tasks -> Content]
BY BlankType DEF TypeOK, Goto, Return, PCs, Ops

\* What a handler does after the save keeps the types of pc, op and buf.
LEMMA AfterPersistType ==
    ASSUME TypeOK, NEW t \in Tasks, AfterPersist(t)
    PROVE  /\ pc' \in [Tasks -> PCs]
           /\ op' \in [Tasks -> Ops]
           /\ buf' \in [Tasks -> Content]
BY ReturnType DEF TypeOK, AfterPersist, Goto, PCs

-----------------------------------------------------------------------------
(* The type invariant. *)

\* The state variables keep their types in every behaviour.
THEOREM TypeCorrect == Spec => []TypeOK
<1>1. Init => TypeOK
  <2> SUFFICES ASSUME Init
               PROVE  TypeOK
    OBVIOUS
  <2>1. file \in FileState
    BY BlankType, FileTypes DEF Init, FileKinds
  <2>2. /\ pc \in [Tasks -> PCs]
        /\ op \in [Tasks -> Ops]
        /\ buf \in [Tasks -> Content]
    BY BlankType DEF Init, PCs, Ops
  <2>3. storage \in [unlocked : BOOLEAN, key : Keys \cup {None},
                     salt : Salts \cup {None}]
    BY DEF Init, Locked
  <2> QED
    BY <2>1, <2>2, <2>3 DEF Init, TypeOK, IdOrNone
<1>2. TypeOK /\ [Next]_vars => TypeOK'
  <2> SUFFICES ASSUME TypeOK, [Next]_vars
               PROVE  TypeOK'
    OBVIOUS
  <2> USE DEF memory, bounds, history
  <2>1. ASSUME NEW t \in Tasks, SendMessage(t)
        PROVE  TypeOK'
    BY <2>1 DEF SendMessage, Keep, Begin, Goto, TypeOK, PCs, Ops
  <2>2. ASSUME NEW t \in Tasks, SaveOther(t)
        PROVE  TypeOK'
    BY <2>2 DEF SaveOther, Begin, Goto, NoteEntry, TypeOK, PCs, Ops
  <2>3. ASSUME NEW t \in Tasks, StartNetwork(t)
        PROVE  TypeOK'
    BY <2>3 DEF StartNetwork, Begin, Goto, TypeOK, PCs, Ops
  <2>4. ASSUME NEW t \in Tasks, LockVault(t)
        PROVE  TypeOK'
    BY <2>4 DEF LockVault, Begin, Goto, NoteEntry, TypeOK, PCs, Ops
  <2>5. ASSUME NEW t \in Tasks, UnlockExisting(t)
        PROVE  TypeOK'
    BY <2>5 DEF UnlockExisting, Begin, Goto, NoteEntry, TypeOK, PCs, Ops
  <2>6. ASSUME NEW t \in Tasks, CreateVault(t)
        PROVE  TypeOK'
    <3>1. PICK pw \in Passwords, s \in Salts :
             buf' = [buf EXCEPT ![t] =
                        [@ EXCEPT !.key = DeriveKey(pw, s), !.salt = s]]
      BY <2>6 DEF CreateVault
    <3>2. buf' \in [Tasks -> Content]
      <4>1. DeriveKey(pw, s) \in Keys
        BY DeriveKeyType
      <4>2. buf[t] \in Content
        BY DEF TypeOK
      <4>3. [buf[t] EXCEPT !.key = DeriveKey(pw, s), !.salt = s] \in Content
        BY <4>1, <4>2 DEF Content
      <4> QED
        BY <3>1, <4>3 DEF TypeOK
    <3> QED
      BY <2>6, <3>2 DEF CreateVault, Begin, Goto, NoteEntry, TypeOK, PCs, Ops
  <2>7. ASSUME NEW t \in Tasks, SendEncrypted(t)
        PROVE  TypeOK'
    <3>1. CASE crypto # None
      BY <2>7, <3>1 DEF SendEncrypted, Goto, TypeOK, PCs
    <3>2. CASE crypto = None
      BY <2>7, <3>2, ReturnType DEF SendEncrypted, TypeOK
    <3> QED
      BY <3>1, <3>2
  <2>8. ASSUME NEW t \in Tasks, Publish(t)
        PROVE  TypeOK'
    <3>1. CASE Goto(t, "clone") /\ NoteEntry(t) /\ UNCHANGED <<op, buf>>
      BY <2>8, <3>1 DEF Publish, Goto, NoteEntry, TypeOK, PCs
    <3>2. CASE Return(t) /\ UNCHANGED overlapped
      BY <2>8, <3>2, ReturnType DEF Publish, TypeOK
    <3> QED
      BY <2>8, <3>1, <3>2 DEF Publish
  <2>9. ASSUME NEW t \in Tasks, SendPlain(t)
        PROVE  TypeOK'
    BY <2>9 DEF SendPlain, Goto, NoteEntry, TypeOK, PCs
  <2>10. ASSUME NEW t \in Tasks, CloneStorage(t)
         PROVE  TypeOK'
    <3>1. CASE Savable
      <4>1. buf' \in [Tasks -> Content] /\ pc' \in [Tasks -> PCs]
               /\ UNCHANGED op
        <5>1. buf[t] \in Content /\ storage.key \in Keys \cup {None}
                 /\ storage.salt \in Salts \cup {None}
          BY DEF TypeOK
        <5>2. [buf[t] EXCEPT !.key = storage.key, !.salt = storage.salt]
                 \in Content
          BY <5>1 DEF Content
        <5> QED
          BY <2>10, <3>1, <5>2 DEF CloneStorage, Goto, TypeOK, PCs
      <4> QED
        BY <2>10, <4>1 DEF CloneStorage, TypeOK
    <3>2. CASE ~Savable
      BY <2>10, <3>2, AfterPersistType DEF CloneStorage, TypeOK
    <3> QED
      BY <3>1, <3>2
  <2>11. ASSUME NEW t \in Tasks, SnapshotMessages(t)
         PROVE  TypeOK'
    BY <2>11 DEF SnapshotMessages, Goto, TypeOK, Content, PCs
  <2>12. ASSUME NEW t \in Tasks, SnapshotCrypto(t)
         PROVE  TypeOK'
    BY <2>12 DEF SnapshotCrypto, Goto, TypeOK, Content, PCs
  <2>13. ASSUME NEW t \in Tasks, OpenVaultFile(t)
         PROVE  TypeOK'
    BY <2>13, BlankType
    DEF OpenVaultFile, Goto, TypeOK, PCs, NoData, FileState, FileKinds
  <2>14. ASSUME NEW t \in Tasks, WriteVaultFile(t)
         PROVE  TypeOK'
    <3>1. buf[t] \in Content
      BY DEF TypeOK
    <3>2. file' \in FileState
      <4>1. file' \in {Intact(buf[t]), NoData("corrupt")}
        BY <2>14, AfterWriteCases DEF WriteVaultFile
      <4>2. "corrupt" \in FileKinds
        BY DEF FileKinds
      <4> QED
        BY <3>1, <4>1, <4>2, FileTypes
    <3>3. written' \in [msgs : SUBSET Msgs, ids : SUBSET Ids]
      BY <2>14, <3>1 DEF WriteVaultFile, TypeOK, Content, IdOrNone
    <3>4. /\ pc' \in [Tasks -> PCs]
          /\ op' \in [Tasks -> Ops]
          /\ buf' \in [Tasks -> Content]
      BY <2>14, AfterPersistType DEF WriteVaultFile
    <3> QED
      <4>1. UNCHANGED <<memory, storage, started, uiUnlocked, bounds,
                        overlapped, torn>>
        BY <2>14 DEF WriteVaultFile
      <4> QED
        BY <3>2, <3>3, <3>4, <4>1 DEF TypeOK
  <2>15. ASSUME NEW t \in Tasks, ReadVault(t)
         PROVE  TypeOK'
    <3>1. file.data \in Content
      BY DEF TypeOK, FileState
    <3> QED
      <4>1. CASE /\ Goto(t, "loadMsgs")
                 /\ buf' = [buf EXCEPT ![t] = file.data]
                 /\ UNCHANGED <<op, uiUnlocked>>
        BY <2>15, <3>1, <4>1 DEF ReadVault, Goto, TypeOK, PCs
      <4>2. CASE Return(t) /\ uiUnlocked' = FALSE
        BY <2>15, <4>2, ReturnType DEF ReadVault, TypeOK
      <4> QED
        BY <2>15, <4>1, <4>2 DEF ReadVault
  <2>16. ASSUME NEW t \in Tasks, LoadMessages(t)
         PROVE  TypeOK'
    BY <2>16 DEF LoadMessages, Goto, TypeOK, Content, PCs
  <2>17. ASSUME NEW t \in Tasks, LoadCrypto(t)
         PROVE  TypeOK'
    BY <2>17 DEF LoadCrypto, Goto, TypeOK, Content, PCs
  <2>18. ASSUME NEW t \in Tasks, StoreKey(t)
         PROVE  TypeOK'
    BY <2>18, BlankType DEF StoreKey, Goto, Return, TypeOK, Content, PCs, Ops
  <2>19. ASSUME NEW t \in Tasks, DropKey(t)
         PROVE  TypeOK'
    BY <2>19 DEF DropKey, Goto, TypeOK, Locked, PCs
  <2>20. ASSUME NEW t \in Tasks, ClearMessages(t)
         PROVE  TypeOK'
    BY <2>20 DEF ClearMessages, Goto, TypeOK, PCs
  <2>21. ASSUME NEW t \in Tasks, ClearCrypto(t)
         PROVE  TypeOK'
    BY <2>21 DEF ClearCrypto, Goto, TypeOK, IdOrNone, PCs
  <2>22. ASSUME NEW t \in Tasks, LockReturns(t)
         PROVE  TypeOK'
    BY <2>22, BlankType DEF LockReturns, Goto, Return, TypeOK, PCs, Ops
  <2>23. ASSUME ReplyKey
         PROVE  TypeOK'
    BY <2>23, BlankType
    DEF ReplyKey, Goto, Return, TypeOK, PCs, Ops, Tasks
  <2>24. ASSUME NEW t \in Tasks, PersistFails(t)
         PROVE  TypeOK'
    BY <2>24, ReturnType DEF PersistFails, TypeOK
  <2>25. ASSUME ReceivePlain
         PROVE  TypeOK'
    BY <2>25
    DEF ReceivePlain, Keep, Begin, Goto, NoteEntry, TypeOK, PCs, Ops, Tasks
  <2>26. ASSUME ReceiveKeyExchange
         PROVE  TypeOK'
    BY <2>26 DEF ReceiveKeyExchange, Begin, Goto, TypeOK, PCs, Ops, Tasks
  <2>27. ASSUME Restart
         PROVE  TypeOK'
    <3>1. /\ pc' \in [Tasks -> PCs]
          /\ op' \in [Tasks -> Ops]
          /\ buf' \in [Tasks -> Content]
      BY <2>27, BlankType DEF Restart, PCs, Ops
    <3>2. /\ storage' \in [unlocked : BOOLEAN, key : Keys \cup {None},
                           salt : Salts \cup {None}]
          /\ torn' \in BOOLEAN
      BY <2>27 DEF Restart, Locked
    <3>3. /\ messages' = {} /\ crypto' = None /\ cryptoOwner' = None
          /\ started' = FALSE /\ uiUnlocked' = FALSE
          /\ UNCHANGED <<file, usedMsgs, usedIds, failures, written,
                         overlapped>>
      BY <2>27 DEF Restart
    <3>4. restarts' \in Nat
      BY <2>27 DEF Restart, TypeOK
    <3>5. /\ {} \in SUBSET Msgs
          /\ None \in IdOrNone
      BY DEF IdOrNone
    <3> QED
      BY <3>1, <3>2, <3>3, <3>4, <3>5, Zenon DEF TypeOK
  <2>28. CASE UNCHANGED vars
    BY <2>28 DEF vars, TypeOK
  <2>29. ASSUME NEW t \in Tasks, TakeIdentity(t)
         PROVE  TypeOK'
    BY <2>29 DEF TakeIdentity, Goto, NoteEntry, TypeOK, PCs, IdOrNone
  <2>30. ASSUME ReceiveEncrypted
         PROVE  TypeOK'
    <3>1. PICK m \in Msgs \ usedMsgs :
             /\ buf' = [buf EXCEPT ![Events].msgs = {m}]
             /\ usedMsgs' = usedMsgs \cup {m}
      BY <2>30 DEF ReceiveEncrypted
    <3>2. buf' \in [Tasks -> Content]
      BY <3>1 DEF TypeOK, Content, Tasks
    <3> QED
      BY <2>30, <3>1, <3>2
      DEF ReceiveEncrypted, Begin, Goto, TypeOK, PCs, Ops, Tasks
  <2>31. ASSUME DecryptMessage
         PROVE  TypeOK'
    <3>1. buf[Events] \in Content
      BY DEF TypeOK, Tasks
    <3>2. buf' \in [Tasks -> Content] /\ messages' \in SUBSET Msgs
      BY <2>31, <3>1 DEF DecryptMessage, TypeOK, Content, Tasks
    <3> QED
      BY <2>31, <3>2
      DEF DecryptMessage, Goto, NoteEntry, TypeOK, PCs, Tasks
  <2>32. ASSUME AddPeerKey
         PROVE  TypeOK'
    <3>1. CASE Return(Events) /\ UNCHANGED <<cryptoOwner, overlapped>>
      BY <2>32, <3>1, ReturnType DEF AddPeerKey, TypeOK, Tasks
    <3>2. CASE /\ cryptoOwner' = Events
               /\ Goto(Events, "clone")
               /\ NoteEntry(Events)
               /\ UNCHANGED <<op, buf>>
      BY <2>32, <3>2 DEF AddPeerKey, Goto, NoteEntry, TypeOK, PCs, Tasks
    <3> QED
      BY <2>32, <3>1, <3>2 DEF AddPeerKey
  <2> QED
    BY <2>1, <2>2, <2>3, <2>4, <2>5, <2>6, <2>7, <2>8, <2>9, <2>10, <2>11,
       <2>12, <2>13, <2>14, <2>15, <2>16, <2>17, <2>18, <2>19, <2>20, <2>21,
       <2>22, <2>23, <2>24, <2>25, <2>26, <2>27, <2>28, <2>29, <2>30, <2>31,
       <2>32
    DEF Next, Call, Continue, Persist
<1> QED
  BY <1>1, <1>2, PTL DEF Spec

-----------------------------------------------------------------------------
(* The vault opens with a password. *)

\* A key and salt that belong together, in a file, in memory or in a buffer.
Openable(c) == \E pw \in Passwords : c.key = DeriveKey(pw, c.salt)

\* The program counters at which a handler's buffer holds a key and a salt.
Holding == {"snapMsgs", "snapCrypto", "open", "write", "loadMsgs",
            "loadCrypto", "store"}

\* Those at which it has yet to copy the storage state.
Before == {"crypto", "publish", "decrypt", "addKey", "identity", "clone"}

\* The inductive invariant: the file gets its key and salt from a buffer, a
\* buffer from the storage state, from the file or from a creation, and the
\* storage state from a buffer.  A handler that has yet to copy the storage
\* state is not a creation, which would go on to store what it copied.
KeysMatchSalts ==
    /\ file.kind = "intact" => Openable(file.data)
    /\ storage.unlocked => Openable(storage)
    /\ \A t \in Tasks : pc[t] \in Holding => Openable(buf[t])
    /\ \A t \in Tasks : pc[t] \in Before => op[t] # "create"

\* The conjuncts on the tasks survive every step that moves one task to a
\* place where its buffer matters no more than before.
LEMMA BuffersKept ==
    ASSUME TypeOK, KeysMatchSalts, NEW t \in Tasks, NEW label \in PCs,
           Goto(t, label), UNCHANGED op,
           \A u \in Tasks \ {t} : buf'[u] = buf[u],
           label \in Holding => Openable(buf'[t]),
           label \in Before => op[t] # "create"
    PROVE  /\ \A u \in Tasks : pc'[u] \in Holding => Openable(buf'[u])
           /\ \A u \in Tasks : pc'[u] \in Before => op'[u] # "create"
BY DEF TypeOK, KeysMatchSalts, Goto, Openable

\* So does the start of a handler other than a creation.
LEMMA BuffersKeptByBegin ==
    ASSUME TypeOK, KeysMatchSalts, NEW t \in Tasks, NEW handler, NEW label,
           Begin(t, handler, label), handler # "create", UNCHANGED buf,
           label \notin Holding
    PROVE  /\ \A u \in Tasks : pc'[u] \in Holding => Openable(buf'[u])
           /\ \A u \in Tasks : pc'[u] \in Before => op'[u] # "create"
BY DEF TypeOK, KeysMatchSalts, Begin, Goto, Openable

\* And the return of one.
LEMMA BuffersKeptByReturn ==
    ASSUME TypeOK, KeysMatchSalts, NEW t \in Tasks, Return(t)
    PROVE  /\ \A u \in Tasks : pc'[u] \in Holding => Openable(buf'[u])
           /\ \A u \in Tasks : pc'[u] \in Before => op'[u] # "create"
BY DEF TypeOK, KeysMatchSalts, Return, Goto, Openable, Holding, Before

\* And what follows a save: only a creation keeps its buffer in use.
LEMMA BuffersKeptAfterPersist ==
    ASSUME TypeOK, KeysMatchSalts, NEW t \in Tasks, AfterPersist(t),
           op[t] = "create" => Openable(buf[t])
    PROVE  /\ \A u \in Tasks : pc'[u] \in Holding => Openable(buf'[u])
           /\ \A u \in Tasks : pc'[u] \in Before => op'[u] # "create"
<1>1. CASE op[t] \in {"exchange", "lock", "create"}
  <2>1. PICK label \in {"reply", "dropKey", "store"} :
           /\ Goto(t, label)
           /\ label = "store" => op[t] = "create"
    BY <1>1 DEF AfterPersist
  <2>2. UNCHANGED <<op, buf>>
    BY <1>1 DEF AfterPersist
  <2>3. /\ label \in PCs \ Before
        /\ label \in Holding => label = "store"
    BY DEF PCs, Holding, Before
  <2> QED
    BY <2>1, <2>2, <2>3, BuffersKept
<1>2. CASE op[t] \notin {"exchange", "lock", "create"}
  BY <1>2, BuffersKeptByReturn DEF AfterPersist
<1> QED
  BY <1>1, <1>2

\* The inductive step.
LEMMA KeysMatchSaltsStep ==
    TypeOK /\ KeysMatchSalts /\ [Next]_vars => KeysMatchSalts'
<1> SUFFICES ASSUME TypeOK, KeysMatchSalts, [Next]_vars
             PROVE  KeysMatchSalts'
  OBVIOUS
<1> USE DEF memory, bounds, history, Before
\* A step that leaves the file and the storage state alone and keeps the
\* buffers keeps the invariant.
<1> DEFINE Kept == /\ \A u \in Tasks : pc'[u] \in Holding => Openable(buf'[u])
                   /\ \A u \in Tasks : pc'[u] \in Before => op'[u] # "create"
<1>a. ASSUME Kept, UNCHANGED <<file, storage>>
      PROVE  KeysMatchSalts'
  BY <1>a DEF KeysMatchSalts, Openable
<1>1. ASSUME NEW t \in Tasks, SendMessage(t)
      PROVE  KeysMatchSalts'
  BY <1>1, <1>a, BuffersKeptByBegin DEF SendMessage, Holding
<1>2. ASSUME NEW t \in Tasks, SaveOther(t)
      PROVE  KeysMatchSalts'
  BY <1>2, <1>a, BuffersKeptByBegin DEF SaveOther, Holding
<1>3. ASSUME NEW t \in Tasks, StartNetwork(t)
      PROVE  KeysMatchSalts'
  BY <1>3, <1>a, BuffersKeptByBegin DEF StartNetwork, Holding
<1>4. ASSUME NEW t \in Tasks, LockVault(t)
      PROVE  KeysMatchSalts'
  BY <1>4, <1>a, BuffersKeptByBegin DEF LockVault, Holding
<1>5. ASSUME NEW t \in Tasks, UnlockExisting(t)
      PROVE  KeysMatchSalts'
  BY <1>5, <1>a, BuffersKeptByBegin DEF UnlockExisting, Holding
<1>6. ASSUME NEW t \in Tasks, CreateVault(t)
      PROVE  KeysMatchSalts'
  <2>1. PICK pw \in Passwords, s \in Salts :
           buf' = [buf EXCEPT ![t] =
                      [@ EXCEPT !.key = DeriveKey(pw, s), !.salt = s]]
    BY <1>6 DEF CreateVault
  <2>2. Openable(buf'[t])
    <3>1. /\ buf[t] \in Content
          /\ buf'[t] = [buf[t] EXCEPT !.key = DeriveKey(pw, s), !.salt = s]
      BY <2>1 DEF TypeOK
    <3>2. buf'[t].key = DeriveKey(pw, buf'[t].salt)
      BY <3>1 DEF Content
    <3> QED
      BY <3>2 DEF Openable
  <2>3. \A u \in Tasks \ {t} : buf'[u] = buf[u]
    BY <2>1 DEF TypeOK
  <2>4. Kept
    BY <1>6, <2>2, <2>3
    DEF CreateVault, Begin, Goto, TypeOK, KeysMatchSalts, Openable
  <2> QED
    BY <1>6, <2>4, <1>a DEF CreateVault
<1>7. ASSUME NEW t \in Tasks, SendEncrypted(t)
      PROVE  KeysMatchSalts'
  <2>1. CASE crypto # None
    <3>1. op[t] # "create"
      BY <1>7 DEF SendEncrypted, KeysMatchSalts
    <3> QED
      BY <1>7, <2>1, <3>1, <1>a, BuffersKept DEF SendEncrypted, Holding, PCs
  <2>2. CASE crypto = None
    BY <1>7, <2>2, <1>a, BuffersKeptByReturn DEF SendEncrypted
  <2> QED
    BY <2>1, <2>2
<1>8. ASSUME NEW t \in Tasks, Publish(t)
      PROVE  KeysMatchSalts'
  <2>1. op[t] # "create"
    BY <1>8 DEF Publish, KeysMatchSalts
  <2>2. CASE Goto(t, "clone") /\ UNCHANGED <<op, buf>>
    BY <1>8, <2>1, <2>2, <1>a, BuffersKept DEF Publish, Holding, PCs
  <2>3. CASE Return(t)
    BY <1>8, <2>3, <1>a, BuffersKeptByReturn DEF Publish
  <2> QED
    BY <1>8, <2>2, <2>3 DEF Publish
<1>9. ASSUME NEW t \in Tasks, SendPlain(t)
      PROVE  KeysMatchSalts'
  <2>1. op[t] # "create"
    BY <1>9 DEF SendPlain, KeysMatchSalts
  <2> QED
    BY <1>9, <2>1, <1>a, BuffersKept DEF SendPlain, Holding, PCs
<1>10. ASSUME NEW t \in Tasks, CloneStorage(t)
       PROVE  KeysMatchSalts'
  <2>1. CASE Savable
    <3>1. Openable(buf'[t])
      <4>1. /\ buf[t] \in Content
            /\ buf'[t] = [buf[t] EXCEPT !.key = storage.key,
                                        !.salt = storage.salt]
        BY <1>10, <2>1 DEF CloneStorage, TypeOK
      <4>2. buf'[t].key = storage.key /\ buf'[t].salt = storage.salt
        BY <4>1 DEF Content
      <4> QED
        BY <2>1, <4>2 DEF KeysMatchSalts, Openable, Savable
    <3>2. \A u \in Tasks \ {t} : buf'[u] = buf[u]
      BY <1>10, <2>1 DEF CloneStorage, TypeOK
    <3> QED
      BY <1>10, <2>1, <3>1, <3>2, <1>a, BuffersKept
      DEF CloneStorage, Holding, PCs
  <2>2. CASE ~Savable
    <3>1. op[t] # "create"
      BY <1>10 DEF CloneStorage, KeysMatchSalts
    <3> QED
      BY <1>10, <2>2, <3>1, <1>a, BuffersKeptAfterPersist DEF CloneStorage
  <2> QED
    BY <2>1, <2>2
<1>11. ASSUME NEW t \in Tasks, SnapshotMessages(t)
       PROVE  KeysMatchSalts'
  <2>1. Openable(buf[t])
    BY <1>11 DEF SnapshotMessages, KeysMatchSalts, Holding
  <2>2. /\ buf[t] \in Content
        /\ buf'[t] = [buf[t] EXCEPT !.msgs = messages]
        /\ \A u \in Tasks \ {t} : buf'[u] = buf[u]
    BY <1>11 DEF SnapshotMessages, TypeOK
  <2>3. Openable(buf'[t])
    BY <2>1, <2>2 DEF Openable, Content
  <2> QED
    BY <1>11, <2>2, <2>3, <1>a, BuffersKept
    DEF SnapshotMessages, PCs
<1>12. ASSUME NEW t \in Tasks, SnapshotCrypto(t)
       PROVE  KeysMatchSalts'
  <2>1. Openable(buf[t])
    BY <1>12 DEF SnapshotCrypto, KeysMatchSalts, Holding
  <2>2. /\ buf[t] \in Content
        /\ buf'[t] = [buf[t] EXCEPT !.id = crypto]
        /\ \A u \in Tasks \ {t} : buf'[u] = buf[u]
    BY <1>12 DEF SnapshotCrypto, TypeOK
  <2>3. Openable(buf'[t])
    BY <2>1, <2>2 DEF Openable, Content
  <2> QED
    BY <1>12, <2>2, <2>3, <1>a, BuffersKept DEF SnapshotCrypto, PCs
<1>13. ASSUME NEW t \in Tasks, OpenVaultFile(t)
       PROVE  KeysMatchSalts'
  <2>1. Openable(buf[t])
    BY <1>13 DEF OpenVaultFile, KeysMatchSalts, Holding
  <2>2. Kept
    BY <1>13, <2>1, BuffersKept DEF OpenVaultFile, PCs
  <2>3. file'.kind = "empty" /\ UNCHANGED storage
    BY <1>13 DEF OpenVaultFile, NoData
  <2> QED
    BY <2>2, <2>3 DEF KeysMatchSalts, Openable
<1>14. ASSUME NEW t \in Tasks, WriteVaultFile(t)
       PROVE  KeysMatchSalts'
  <2>1. Openable(buf[t])
    BY <1>14 DEF WriteVaultFile, KeysMatchSalts, Holding
  <2>2. Kept
    BY <1>14, <2>1, BuffersKeptAfterPersist DEF WriteVaultFile
  <2>3. file' \in {Intact(buf[t]), NoData("corrupt")} /\ UNCHANGED storage
    BY <1>14, AfterWriteCases DEF WriteVaultFile
  <2>4. file'.kind = "intact" => file'.data = buf[t]
    BY <2>3 DEF Intact, NoData
  <2> QED
    BY <2>1, <2>2, <2>3, <2>4 DEF KeysMatchSalts, Openable
<1>15. ASSUME NEW t \in Tasks, ReadVault(t)
       PROVE  KeysMatchSalts'
  <2>1. CASE /\ file.kind = "intact"
             /\ Goto(t, "loadMsgs")
             /\ buf' = [buf EXCEPT ![t] = file.data]
             /\ UNCHANGED op
    <3>1. Openable(buf'[t]) /\ \A u \in Tasks \ {t} : buf'[u] = buf[u]
      BY <2>1 DEF TypeOK, KeysMatchSalts
    <3> QED
      BY <1>15, <2>1, <3>1, <1>a, BuffersKept DEF ReadVault, Holding, PCs
  <2>2. CASE Return(t)
    BY <1>15, <2>2, <1>a, BuffersKeptByReturn DEF ReadVault
  <2> QED
    BY <1>15, <2>1, <2>2 DEF ReadVault
<1>16. ASSUME NEW t \in Tasks, LoadMessages(t)
       PROVE  KeysMatchSalts'
  <2>1. Openable(buf[t])
    BY <1>16 DEF LoadMessages, KeysMatchSalts, Holding
  <2> QED
    BY <1>16, <2>1, <1>a, BuffersKept DEF LoadMessages, PCs
<1>17. ASSUME NEW t \in Tasks, LoadCrypto(t)
       PROVE  KeysMatchSalts'
  <2>1. Openable(buf[t])
    BY <1>17 DEF LoadCrypto, KeysMatchSalts, Holding
  <2> QED
    BY <1>17, <2>1, <1>a, BuffersKept DEF LoadCrypto, PCs
<1>18. ASSUME NEW t \in Tasks, StoreKey(t)
       PROVE  KeysMatchSalts'
  <2>1. Openable(buf[t])
    BY <1>18 DEF StoreKey, KeysMatchSalts, Holding
  <2>2. Openable(storage') /\ UNCHANGED file
    BY <1>18, <2>1 DEF StoreKey, Openable
  <2>3. Kept
    BY <1>18, BuffersKeptByReturn DEF StoreKey
  <2> QED
    BY <2>2, <2>3 DEF KeysMatchSalts, Openable
<1>19. ASSUME NEW t \in Tasks, DropKey(t)
       PROVE  KeysMatchSalts'
  <2>1. ~storage'.unlocked /\ UNCHANGED file
    BY <1>19 DEF DropKey, Locked
  <2>2. Kept
    BY <1>19, BuffersKept DEF DropKey, Holding, PCs
  <2> QED
    BY <2>1, <2>2 DEF KeysMatchSalts, Openable
<1>20. ASSUME NEW t \in Tasks, ClearMessages(t)
       PROVE  KeysMatchSalts'
  BY <1>20, <1>a, BuffersKept DEF ClearMessages, Holding, PCs
<1>21. ASSUME NEW t \in Tasks, ClearCrypto(t)
       PROVE  KeysMatchSalts'
  BY <1>21, <1>a, BuffersKept DEF ClearCrypto, Holding, PCs
<1>22. ASSUME NEW t \in Tasks, LockReturns(t)
       PROVE  KeysMatchSalts'
  BY <1>22, <1>a, BuffersKeptByReturn DEF LockReturns
<1>23. ASSUME ReplyKey
       PROVE  KeysMatchSalts'
  BY <1>23, <1>a, BuffersKeptByReturn DEF ReplyKey, Tasks
<1>24. ASSUME NEW t \in Tasks, PersistFails(t)
       PROVE  KeysMatchSalts'
  BY <1>24, <1>a, BuffersKeptByReturn DEF PersistFails
<1>25. ASSUME ReceivePlain
       PROVE  KeysMatchSalts'
  BY <1>25, <1>a, BuffersKeptByBegin DEF ReceivePlain, Holding, Tasks
<1>26. ASSUME ReceiveKeyExchange
       PROVE  KeysMatchSalts'
  BY <1>26, <1>a, BuffersKeptByBegin DEF ReceiveKeyExchange, Holding, Tasks
<1>27. ASSUME Restart
       PROVE  KeysMatchSalts'
  <2>1. ~storage'.unlocked /\ UNCHANGED file
    BY <1>27 DEF Restart, Locked
  <2>2. \A t \in Tasks : pc'[t] = "idle"
    BY <1>27 DEF Restart
  <2> QED
    BY <2>1, <2>2 DEF KeysMatchSalts, Openable, Holding, Before
<1>28. CASE UNCHANGED vars
  BY <1>28 DEF vars, KeysMatchSalts, Openable
<1>29. ASSUME NEW t \in Tasks, TakeIdentity(t)
       PROVE  KeysMatchSalts'
  <2>1. op[t] # "create"
    BY <1>29 DEF TakeIdentity, KeysMatchSalts
  <2> QED
    BY <1>29, <2>1, <1>a, BuffersKept DEF TakeIdentity, Holding, PCs
<1>30. ASSUME ReceiveEncrypted
       PROVE  KeysMatchSalts'
  <2>1. /\ Begin(Events, "receive", "decrypt")
        /\ \A u \in Tasks \ {Events} : buf'[u] = buf[u]
        /\ UNCHANGED <<file, storage>>
    BY <1>30 DEF ReceiveEncrypted, TypeOK
  <2>2. Kept
    BY <2>1
    DEF TypeOK, KeysMatchSalts, Begin, Goto, Openable, Holding, Tasks
  <2> QED
    BY <2>1, <2>2, <1>a
<1>31. ASSUME DecryptMessage
       PROVE  KeysMatchSalts'
  <2>1. /\ op[Events] # "create"
        /\ Events \in Tasks
    BY <1>31 DEF DecryptMessage, KeysMatchSalts, Tasks
  <2>2. \A u \in Tasks \ {Events} : buf'[u] = buf[u]
    BY <1>31 DEF DecryptMessage, TypeOK
  <2> QED
    BY <1>31, <2>1, <2>2, <1>a, BuffersKept DEF DecryptMessage, Holding, PCs
<1>32. ASSUME AddPeerKey
       PROVE  KeysMatchSalts'
  <2>1. /\ op[Events] # "create"
        /\ Events \in Tasks
    BY <1>32 DEF AddPeerKey, KeysMatchSalts, Tasks
  <2>2. CASE Goto(Events, "clone") /\ UNCHANGED <<op, buf>>
    BY <1>32, <2>1, <2>2, <1>a, BuffersKept DEF AddPeerKey, Holding, PCs
  <2>3. CASE Return(Events)
    BY <1>32, <2>1, <2>3, <1>a, BuffersKeptByReturn DEF AddPeerKey
  <2> QED
    BY <1>32, <2>2, <2>3 DEF AddPeerKey
<1> QED
  BY <1>1, <1>2, <1>3, <1>4, <1>5, <1>6, <1>7, <1>8, <1>9, <1>10, <1>11,
     <1>12, <1>13, <1>14, <1>15, <1>16, <1>17, <1>18, <1>19, <1>20, <1>21,
     <1>22, <1>23, <1>24, <1>25, <1>26, <1>27, <1>28, <1>29, <1>30, <1>31,
     <1>32
  DEF Next, Call, Continue, Persist

LEMMA KeysMatchSaltsInv == Spec => []KeysMatchSalts
<1>1. Init => KeysMatchSalts
  BY DEF Init, KeysMatchSalts, NoData, Locked, Holding, Before
<1> QED
  BY <1>1, KeysMatchSaltsStep, TypeCorrect, PTL DEF Spec

\* Every vault file that parses opens with a password.
THEOREM VaultOpensWithItsSalt == Spec => []OpensWithItsSalt
<1>1. KeysMatchSalts => OpensWithItsSalt
  BY DEF KeysMatchSalts, Openable, OpensWithItsSalt
<1> QED
  BY <1>1, KeysMatchSaltsInv, PTL

-----------------------------------------------------------------------------
(* What the vault has held it still holds. *)

\* All the vault has ever held is in memory, or in c.
InMemory == written.msgs \subseteq messages /\ written.ids \subseteq {crypto}
HeldIn(c) == written.msgs \subseteq c.msgs /\ written.ids \subseteq {c.id}

NeverWritten == written.msgs = {} /\ written.ids = {}
Undamaged == ~overlapped /\ ~torn

\* What is known of the place where a task stands in its vault section.
Place(t) ==
    /\ pc[t] \in {"snapMsgs", "snapCrypto", "store"} => InMemory
    /\ pc[t] = "snapCrypto" => written.msgs \subseteq buf[t].msgs
    /\ pc[t] \in {"open", "write"} => HeldIn(buf[t]) /\ buf[t].id = crypto
    /\ pc[t] \in {"snapCrypto", "open", "write"} => buf[t].msgs \subseteq messages
    /\ pc[t] = "write" => file.kind = "empty"
    /\ pc[t] \in {"loadMsgs", "loadCrypto"} => HeldIn(buf[t])
    /\ pc[t] = "loadCrypto" => written.msgs \subseteq messages
    /\ pc[t] \in {"clearMsgs", "clearCrypto"} => ~storage.unlocked

\* The program counters of which Place says something.
Placed == {"snapMsgs", "snapCrypto", "open", "write", "loadMsgs", "loadCrypto",
           "clearMsgs", "clearCrypto", "store"}

OneAtATime ==
    ~overlapped =>
        \A t, u \in Tasks : InSection(t) /\ InSection(u) => t = u

\* The file between two saves.
FileHolds ==
    (\A t \in Tasks : pc[t] # "write") =>
        /\ file.kind \in {"absent", "intact"}
        /\ file.kind = "intact" => HeldIn(file.data)

\* The inductive invariant: while handlers work on the vault one at a time,
\* all it has held is in the file between two saves, in memory while the
\* vault is open, and at each place of a handler in what it saves or loads.
NothingLost ==
    /\ file.kind = "absent" => NeverWritten
    /\ OneAtATime
    /\ Undamaged => /\ storage.unlocked => InMemory
                    /\ FileHolds
                    /\ \A t \in Tasks : Place(t)

\* A step of t to label that notes it when it enters its section.
Moves(t, label) ==
    /\ Goto(t, label)
    /\ \/ NoteEntry(t)
       \/ overlapped' = overlapped /\ (label \in Section => InSection(t))

\* Such steps keep sections apart, or note that they did not.
LEMMA SectionsApart ==
    ASSUME TypeOK, OneAtATime, NEW t \in Tasks, NEW label, Moves(t, label)
    PROVE  /\ OneAtATime'
           /\ ~overlapped' => ~overlapped
           /\ \A u \in Tasks \ {t} : pc'[u] = pc[u]
           /\ pc'[t] = label
<1>1. pc' = [pc EXCEPT ![t] = label] /\ pc \in [Tasks -> PCs]
  BY DEF Moves, Goto, TypeOK
<1>2. /\ \A u \in Tasks \ {t} : pc'[u] = pc[u]
      /\ pc'[t] = label
  BY <1>1
<1>3. ~overlapped' => ~overlapped
  BY DEF Moves, NoteEntry
<1>4. ASSUME ~overlapped', NEW x \in Tasks, NEW y \in Tasks,
             pc'[x] \in Section, pc'[y] \in Section
      PROVE  x = y
  <2>1. CASE NoteEntry(t)
    <3>1. \A u \in Tasks \ {t} : pc[u] \notin Section
      BY <1>4, <2>1 DEF NoteEntry, InSection
    <3> QED
      BY <1>2, <1>4, <3>1
  <2>2. CASE label \in Section => InSection(t)
    <3>1. \A u \in Tasks : pc'[u] \in Section => pc[u] \in Section
      BY <1>2, <2>2 DEF InSection
    <3> QED
      BY <1>3, <1>4, <3>1 DEF OneAtATime, InSection
  <2> QED
    BY <2>1, <2>2 DEF Moves
<1> QED
  BY <1>2, <1>3, <1>4 DEF OneAtATime, InSection

\* While one task is in its section, nothing is said of the others.
LEMMA OthersNotPlaced ==
    ASSUME TypeOK, OneAtATime, NEW t \in Tasks, NEW label, Moves(t, label),
           label \in Section \/ InSection(t), ~overlapped'
    PROVE  \A u \in Tasks \ {t} : Place(u)' /\ pc[u] # "write" /\ pc'[u] # "write"
<1> SUFFICES ASSUME NEW u \in Tasks \ {t}
             PROVE  pc[u] \notin Section
  BY SectionsApart DEF Place, Section
<1>1. CASE label \in Section
  BY <1>1, SectionsApart DEF OneAtATime, InSection
<1>2. CASE InSection(t)
  BY <1>2, SectionsApart DEF OneAtATime, InSection
<1> QED
  BY <1>1, <1>2

\* What has been written are identities, and None is not one of them.
LEMMA WrittenIds ==
    ASSUME TypeOK
    PROVE  None \notin written.ids
BY VaultAssumption DEF TypeOK

\* A step to a place of which nothing is said, with memory only growing.
LEMMA LostNothingOutside ==
    ASSUME TypeOK, NothingLost, NEW t \in Tasks, NEW label, label \notin Placed,
           Moves(t, label), pc[t] # "write",
           \A u \in Tasks \ {t} : buf'[u] = buf[u],
           messages \subseteq messages',
           UNCHANGED <<crypto, storage, file, written, torn>>
    PROVE  NothingLost'
<1>1. /\ OneAtATime'
      /\ ~overlapped' => ~overlapped
      /\ \A u \in Tasks \ {t} : pc'[u] = pc[u]
      /\ pc'[t] = label
  BY SectionsApart DEF NothingLost
<1>2. Undamaged' => Undamaged
  BY <1>1 DEF Undamaged
<1>3. InMemory => InMemory'
  BY DEF InMemory
<1>4. ASSUME NEW u \in Tasks \ {t}, Place(u)
      PROVE  Place(u)'
  BY <1>1, <1>3, <1>4 DEF Place, HeldIn
<1>5. Place(t)'
  BY <1>1 DEF Place, Placed
<1>6. FileHolds => FileHolds'
  <2>1. label # "write"
    BY DEF Placed
  <2>2. (\A u \in Tasks : pc'[u] # "write") => \A u \in Tasks : pc[u] # "write"
    BY <1>1
  <2> QED
    BY <2>2 DEF FileHolds, HeldIn
<1>7. file'.kind = "absent" => NeverWritten'
  BY DEF NothingLost, NeverWritten
<1>8. Undamaged' => \A u \in Tasks : Place(u)'
  BY <1>2, <1>4, <1>5 DEF NothingLost
<1>9. Undamaged' => (storage'.unlocked => InMemory') /\ FileHolds'
  BY <1>2, <1>3, <1>6 DEF NothingLost
<1> QED
  BY <1>1, <1>7, <1>8, <1>9 DEF NothingLost

\* A handler that returns.
LEMMA LostNothingOnReturn ==
    ASSUME TypeOK, NothingLost, NEW t \in Tasks, Return(t), pc[t] # "write",
           UNCHANGED <<messages, crypto, storage, file, written, torn, overlapped>>
    PROVE  NothingLost'
<1>1. Moves(t, "idle") /\ "idle" \notin Placed
  BY DEF Moves, Return, Section, Placed
<1>2. \A u \in Tasks \ {t} : buf'[u] = buf[u]
  BY DEF Return, TypeOK
<1> QED
  BY <1>1, <1>2, LostNothingOutside

\* A step of t inside its section, or into it.  What it has to show is about
\* the memory, the file and t only.
LEMMA LostNothingInside ==
    ASSUME TypeOK, NothingLost, NEW t \in Tasks, NEW label, Moves(t, label),
           label \in Section \/ InSection(t),
           torn' = torn,
           file'.kind = "absent" => NeverWritten',
           Undamaged => /\ storage'.unlocked => InMemory'
                        /\ FileHolds'
                        /\ Place(t)'
    PROVE  NothingLost'
<1>1. OneAtATime' /\ (~overlapped' => ~overlapped)
  BY SectionsApart DEF NothingLost
<1>2. Undamaged' => Undamaged
  BY <1>1 DEF Undamaged
<1>3. Undamaged' => \A u \in Tasks : Place(u)'
  <2>1. Undamaged' => \A u \in Tasks \ {t} : Place(u)'
    BY OthersNotPlaced DEF NothingLost, Undamaged
  <2> QED
    BY <1>2, <2>1
<1> QED
  BY <1>1, <1>2, <1>3 DEF NothingLost

\* What follows a save that has not written.
LEMMA LostNothingAfterPersist ==
    ASSUME TypeOK, NothingLost, NEW t \in Tasks, AfterPersist(t),
           op[t] # "create", pc[t] = "clone",
           UNCHANGED <<messages, crypto, storage, file, written, torn, overlapped>>
    PROVE  NothingLost'
<1>1. CASE op[t] \in {"exchange", "lock"}
  <2>1. PICK label \in {"reply", "dropKey"} : Goto(t, label)
    BY <1>1 DEF AfterPersist
  <2>2. Moves(t, label) /\ label \notin Placed
    BY <2>1 DEF Moves, InSection, Section, Placed
  <2>3. UNCHANGED buf
    BY <1>1 DEF AfterPersist
  <2> QED
    BY <2>2, <2>3, LostNothingOutside
<1>2. CASE op[t] \notin {"exchange", "lock"}
  BY <1>2, LostNothingOnReturn DEF AfterPersist
<1> QED
  BY <1>1, <1>2

\* Writing the file: what was copied holds all that was written before.
LEMMA LostNothingOnWrite ==
    ASSUME TypeOK, NothingLost, NEW t \in Tasks, WriteVaultFile(t)
    PROVE  NothingLost'
<1> DEFINE new == buf[t]
<1>1. /\ pc[t] = "write" /\ InSection(t)
      /\ file' \in AfterWrite(new)
      /\ AfterPersist(t)
      /\ UNCHANGED <<messages, crypto, storage, overlapped, torn>>
  BY DEF WriteVaultFile, memory, InSection, Section
<1>2. file'.kind # "absent"
  BY <1>1, AfterWriteCases DEF Intact, NoData
<1>3. PICK label \in {"reply", "dropKey", "store", "idle"} :
         Moves(t, label)
  BY <1>1 DEF AfterPersist, Return, Moves, Section
<1>4. ASSUME Undamaged
      PROVE  /\ storage'.unlocked => InMemory'
             /\ FileHolds'
             /\ Place(t)'
  <2>1. /\ HeldIn(new) /\ new.id = crypto /\ new.msgs \subseteq messages
        /\ file.kind = "empty"
    BY <1>1, <1>4 DEF NothingLost, Place
  <2>2. file' = Intact(new)
    BY <1>1, <2>1 DEF AfterWrite
  <2>3. file'.kind = "intact" /\ file'.data = new
    BY <2>2 DEF Intact
  <2>4. written' = [msgs |-> written.msgs \cup new.msgs,
                    ids |-> written.ids \cup ({new.id} \ {None})]
    BY <2>3 DEF WriteVaultFile
  <2>5. /\ written'.msgs = written.msgs \cup new.msgs
        /\ written'.ids = written.ids \cup ({new.id} \ {None})
    BY <2>4
  <2>6. InMemory'
    <3>1. written.msgs \subseteq messages /\ written.ids \subseteq {crypto}
      BY <2>1 DEF HeldIn
    <3> QED
      BY <1>1, <2>1, <2>5, <3>1 DEF InMemory
  <2>7. FileHolds'
    BY <2>1, <2>3, <2>5 DEF FileHolds, HeldIn
  <2>8. Place(t)'
    <3>1. pc'[t] = label
      BY <1>3, SectionsApart DEF NothingLost
    <3> QED
      BY <2>6, <3>1 DEF Place
  <2> QED
    BY <2>6, <2>7, <2>8
<1> QED
  BY <1>1, <1>2, <1>3, <1>4, LostNothingInside

\* The inductive step.
LEMMA NothingLostStep ==
    TypeOK /\ KeysMatchSalts /\ NothingLost /\ [Next]_vars => NothingLost'
<1> SUFFICES ASSUME TypeOK, KeysMatchSalts, NothingLost, [Next]_vars
             PROVE  NothingLost'
  OBVIOUS
<1> USE DEF memory, bounds, history
<1>a. Undamaged => /\ storage.unlocked => InMemory
                   /\ FileHolds
                   /\ \A t \in Tasks : Place(t)
  BY DEF NothingLost
<1>b. file.kind = "absent" => NeverWritten
  BY DEF NothingLost
\* Steps outside the section, and into it without a copy.
<1>1. ASSUME NEW t \in Tasks, SendMessage(t)
      PROVE  NothingLost'
  <2>1. Moves(t, "crypto") /\ "crypto" \notin Placed /\ pc[t] # "write"
    BY <1>1 DEF SendMessage, Begin, Moves, Section, Placed
  <2> QED
    BY <1>1, <2>1, LostNothingOutside DEF SendMessage, Keep
<1>2. ASSUME NEW t \in Tasks, SaveOther(t)
      PROVE  NothingLost'
  <2>1. Moves(t, "clone") /\ "clone" \notin Placed /\ pc[t] # "write"
    BY <1>2 DEF SaveOther, Begin, Moves, Placed
  <2> QED
    BY <1>2, <2>1, LostNothingOutside DEF SaveOther
<1>3. ASSUME NEW t \in Tasks, StartNetwork(t)
      PROVE  NothingLost'
  <2>1. Moves(t, "identity") /\ "identity" \notin Placed /\ pc[t] # "write"
    BY <1>3 DEF StartNetwork, Begin, Moves, Section, Placed
  <2> QED
    BY <1>3, <2>1, LostNothingOutside DEF StartNetwork
<1>4. ASSUME NEW t \in Tasks, LockVault(t)
      PROVE  NothingLost'
  <2>1. Moves(t, "clone") /\ "clone" \notin Placed /\ pc[t] # "write"
    BY <1>4 DEF LockVault, Begin, Moves, Placed
  <2> QED
    BY <1>4, <2>1, LostNothingOutside DEF LockVault
<1>5. ASSUME NEW t \in Tasks, UnlockExisting(t)
      PROVE  NothingLost'
  <2>1. Moves(t, "read") /\ "read" \notin Placed /\ pc[t] # "write"
    BY <1>5 DEF UnlockExisting, Begin, Moves, Placed
  <2> QED
    BY <1>5, <2>1, LostNothingOutside DEF UnlockExisting
<1>6. ASSUME NEW t \in Tasks, CreateVault(t)
      PROVE  NothingLost'
  <2>1. Moves(t, "snapMsgs") /\ "snapMsgs" \in Section
    BY <1>6 DEF CreateVault, Begin, Moves, Section
  <2>2. UNCHANGED <<messages, crypto, storage, file, written, torn>>
    BY <1>6 DEF CreateVault
  <2>3. NeverWritten /\ file.kind = "absent"
    BY <1>6, <1>b DEF CreateVault
  <2>4. InMemory' /\ NeverWritten'
    BY <2>2, <2>3 DEF InMemory, NeverWritten
  <2>5. Place(t)'
    <3>1. pc'[t] = "snapMsgs"
      BY <2>1, SectionsApart DEF NothingLost
    <3> QED
      BY <2>4, <3>1 DEF Place
  <2>6. FileHolds'
    BY <2>2, <2>3 DEF FileHolds
  <2> QED
    BY <2>1, <2>2, <2>4, <2>5, <2>6, LostNothingInside
<1>7. ASSUME NEW t \in Tasks, SendEncrypted(t)
      PROVE  NothingLost'
  <2>1. CASE crypto # None
    <3>1. Moves(t, "publish") /\ "publish" \notin Placed /\ pc[t] # "write"
      BY <1>7, <2>1 DEF SendEncrypted, Moves, Section, Placed
    <3> QED
      BY <1>7, <2>1, <3>1, LostNothingOutside DEF SendEncrypted
  <2>2. CASE crypto = None
    BY <1>7, <2>2, LostNothingOnReturn DEF SendEncrypted
  <2> QED
    BY <2>1, <2>2
<1>8. ASSUME NEW t \in Tasks, Publish(t)
      PROVE  NothingLost'
  <2>1. CASE Goto(t, "clone") /\ NoteEntry(t) /\ UNCHANGED <<op, buf>>
    <3>1. Moves(t, "clone") /\ "clone" \notin Placed /\ pc[t] # "write"
      BY <1>8, <2>1 DEF Publish, Moves, Placed
    <3> QED
      BY <1>8, <2>1, <3>1, LostNothingOutside DEF Publish
  <2>2. CASE Return(t) /\ UNCHANGED overlapped
    BY <1>8, <2>2, LostNothingOnReturn DEF Publish
  <2> QED
    BY <1>8, <2>1, <2>2 DEF Publish
<1>9. ASSUME NEW t \in Tasks, SendPlain(t)
      PROVE  NothingLost'
  <2>1. Moves(t, "clone") /\ "clone" \notin Placed /\ pc[t] # "write"
    BY <1>9 DEF SendPlain, Moves, Placed
  <2> QED
    BY <1>9, <2>1, LostNothingOutside DEF SendPlain
\* Copying, and the file.
<1>10. ASSUME NEW t \in Tasks, CloneStorage(t)
       PROVE  NothingLost'
  <2>1. CASE Savable
    <3>1. /\ Moves(t, "snapMsgs") /\ "snapMsgs" \in Section
          /\ UNCHANGED <<messages, crypto, storage, file, written, torn>>
      BY <1>10, <2>1 DEF CloneStorage, Moves, InSection, Section
    <3>2. pc'[t] = "snapMsgs" /\ \A u \in Tasks \ {t} : pc'[u] = pc[u]
      BY <3>1, SectionsApart DEF NothingLost
    <3>3. Undamaged => InMemory'
      BY <1>a, <2>1, <3>1 DEF InMemory, Savable
    <3>4. Undamaged => Place(t)'
      BY <3>2, <3>3 DEF Place
    <3>5. FileHolds => FileHolds'
      BY <1>10, <3>1, <3>2 DEF FileHolds, HeldIn, CloneStorage
    <3>6. file'.kind = "absent" => NeverWritten'
      BY <1>b, <3>1 DEF NeverWritten
    <3> QED
      BY <1>a, <3>1, <3>3, <3>4, <3>5, <3>6, LostNothingInside
  <2>2. CASE ~Savable
    <3>1. op[t] # "create"
      BY <1>10 DEF CloneStorage, KeysMatchSalts, Before
    <3> QED
      BY <1>10, <2>2, <3>1, LostNothingAfterPersist DEF CloneStorage
  <2> QED
    BY <2>1, <2>2
<1>11. ASSUME NEW t \in Tasks, SnapshotMessages(t)
       PROVE  NothingLost'
  <2>1. /\ pc[t] = "snapMsgs" /\ Moves(t, "snapCrypto") /\ InSection(t)
        /\ UNCHANGED <<messages, crypto, storage, file, written, torn>>
    BY <1>11 DEF SnapshotMessages, Moves, InSection, Section
  <2>2. pc'[t] = "snapCrypto" /\ \A u \in Tasks \ {t} : pc'[u] = pc[u]
    BY <2>1, SectionsApart DEF NothingLost
  <2>3. buf'[t].msgs = messages
    BY <1>11 DEF SnapshotMessages, TypeOK, Content
  <2>4. Undamaged => InMemory
    BY <1>a, <2>1 DEF Place
  <2>5. Undamaged => Place(t)'
    BY <2>1, <2>2, <2>3, <2>4 DEF Place, InMemory
  <2>6. FileHolds => FileHolds'
    BY <2>1, <2>2 DEF FileHolds, HeldIn
  <2>7. file'.kind = "absent" => NeverWritten'
    BY <1>b, <2>1 DEF NeverWritten
  <2>8. InMemory => InMemory'
    BY <2>1 DEF InMemory
  <2> QED
    BY <1>a, <2>1, <2>4, <2>5, <2>6, <2>7, <2>8, LostNothingInside
<1>12. ASSUME NEW t \in Tasks, SnapshotCrypto(t)
       PROVE  NothingLost'
  <2>1. /\ pc[t] = "snapCrypto" /\ Moves(t, "open") /\ InSection(t)
        /\ UNCHANGED <<messages, crypto, storage, file, written, torn>>
    BY <1>12 DEF SnapshotCrypto, Moves, InSection, Section
  <2>2. pc'[t] = "open" /\ \A u \in Tasks \ {t} : pc'[u] = pc[u]
    BY <2>1, SectionsApart DEF NothingLost
  <2>3. buf'[t].msgs = buf[t].msgs /\ buf'[t].id = crypto
    BY <1>12 DEF SnapshotCrypto, TypeOK, Content
  <2>4. Undamaged => /\ InMemory /\ written.msgs \subseteq buf[t].msgs
                     /\ buf[t].msgs \subseteq messages
    BY <1>a, <2>1 DEF Place
  <2>5. Undamaged => Place(t)'
    BY <2>1, <2>2, <2>3, <2>4 DEF Place, InMemory, HeldIn
  <2>6. FileHolds => FileHolds'
    BY <2>1, <2>2 DEF FileHolds, HeldIn
  <2>7. file'.kind = "absent" => NeverWritten'
    BY <1>b, <2>1 DEF NeverWritten
  <2>8. InMemory => InMemory'
    BY <2>1 DEF InMemory
  <2> QED
    BY <1>a, <2>1, <2>4, <2>5, <2>6, <2>7, <2>8, LostNothingInside
<1>13. ASSUME NEW t \in Tasks, OpenVaultFile(t)
       PROVE  NothingLost'
  <2>1. /\ pc[t] = "open" /\ Moves(t, "write") /\ InSection(t)
        /\ file'.kind = "empty"
        /\ UNCHANGED <<messages, crypto, storage, buf, written, torn>>
    BY <1>13 DEF OpenVaultFile, NoData, Moves, InSection, Section
  <2>2. pc'[t] = "write"
    BY <2>1, SectionsApart DEF NothingLost
  <2>3. Undamaged => Place(t)'
    BY <1>a, <2>1, <2>2 DEF Place, HeldIn
  <2>4. FileHolds'
    BY <2>2 DEF FileHolds
  <2>5. InMemory => InMemory'
    BY <2>1 DEF InMemory
  <2> QED
    BY <1>a, <2>1, <2>3, <2>4, <2>5, LostNothingInside
<1>14. ASSUME NEW t \in Tasks, WriteVaultFile(t)
       PROVE  NothingLost'
  BY <1>14, LostNothingOnWrite
\* Unlocking.
<1>15. ASSUME NEW t \in Tasks, ReadVault(t)
       PROVE  NothingLost'
  <2>1. CASE /\ file.kind = "intact"
             /\ Goto(t, "loadMsgs")
             /\ buf' = [buf EXCEPT ![t] = file.data]
    <3>1. /\ pc[t] = "read" /\ Moves(t, "loadMsgs") /\ InSection(t)
          /\ UNCHANGED <<messages, crypto, storage, file, written, torn>>
      BY <1>15, <2>1 DEF ReadVault, Moves, InSection, Section
    <3>2. pc'[t] = "loadMsgs" /\ \A u \in Tasks \ {t} : pc'[u] = pc[u]
      BY <3>1, SectionsApart DEF NothingLost
    <3>3. buf'[t] = file.data
      BY <2>1 DEF TypeOK
    <3>4. ASSUME Undamaged
          PROVE  HeldIn(file.data)
      <4>1. \A u \in Tasks : pc[u] # "write"
        <5>1. pc[t] # "write" /\ Undamaged
          BY <3>1, <3>4
        <5>2. \A u \in Tasks \ {t} : ~InSection(u)
          BY <3>1, <3>4 DEF NothingLost, OneAtATime, Undamaged
        <5> QED
          BY <5>1, <5>2 DEF InSection, Section
      <4> QED
        BY <1>a, <2>1, <3>4, <4>1 DEF FileHolds
    <3>5. Undamaged => Place(t)'
      BY <3>1, <3>2, <3>3, <3>4 DEF Place, HeldIn
    <3>6. FileHolds => FileHolds'
      BY <3>1, <3>2 DEF FileHolds, HeldIn
    <3>7. InMemory => InMemory'
      BY <3>1 DEF InMemory
    <3> QED
      BY <1>a, <2>1, <3>1, <3>5, <3>6, <3>7, LostNothingInside
  <2>2. CASE Return(t)
    BY <1>15, <2>2, LostNothingOnReturn DEF ReadVault
  <2> QED
    BY <1>15, <2>1, <2>2 DEF ReadVault
<1>16. ASSUME NEW t \in Tasks, LoadMessages(t)
       PROVE  NothingLost'
  <2>1. /\ pc[t] = "loadMsgs" /\ Moves(t, "loadCrypto") /\ InSection(t)
        /\ messages' = buf[t].msgs
        /\ UNCHANGED <<crypto, storage, file, buf, written, torn>>
    BY <1>16 DEF LoadMessages, Moves, InSection, Section
  <2>2. pc'[t] = "loadCrypto" /\ \A u \in Tasks \ {t} : pc'[u] = pc[u]
    BY <2>1, SectionsApart DEF NothingLost
  <2>3. Undamaged => HeldIn(buf[t])
    BY <1>a, <2>1 DEF Place
  <2>4. Undamaged => Place(t)'
    BY <2>1, <2>2, <2>3 DEF Place, HeldIn
  <2>5. Undamaged /\ InMemory => InMemory'
    BY <2>1, <2>3 DEF InMemory, HeldIn
  <2>6. FileHolds => FileHolds'
    BY <2>1, <2>2 DEF FileHolds, HeldIn
  <2>7. file'.kind = "absent" => NeverWritten'
    BY <1>b, <2>1 DEF NeverWritten
  <2> QED
    BY <1>a, <2>1, <2>4, <2>5, <2>6, <2>7, LostNothingInside
<1>17. ASSUME NEW t \in Tasks, LoadCrypto(t)
       PROVE  NothingLost'
  <2>1. /\ pc[t] = "loadCrypto" /\ Moves(t, "store") /\ InSection(t)
        /\ crypto' = buf[t].id \/ (buf[t].id = None /\ crypto' = crypto)
        /\ UNCHANGED <<messages, storage, file, buf, written, torn>>
    BY <1>17 DEF LoadCrypto, Moves, InSection, Section
  <2>2. pc'[t] = "store" /\ \A u \in Tasks \ {t} : pc'[u] = pc[u]
    BY <2>1, SectionsApart DEF NothingLost
  <2>3. Undamaged => HeldIn(buf[t]) /\ written.msgs \subseteq messages
    BY <1>a, <2>1 DEF Place
  <2>4. Undamaged => InMemory'
    BY <2>1, <2>3, WrittenIds DEF InMemory, HeldIn
  <2>5. Undamaged => Place(t)'
    BY <2>2, <2>4 DEF Place
  <2>6. FileHolds => FileHolds'
    BY <2>1, <2>2 DEF FileHolds, HeldIn
  <2>7. file'.kind = "absent" => NeverWritten'
    BY <1>b, <2>1 DEF NeverWritten
  <2> QED
    BY <1>a, <2>1, <2>4, <2>5, <2>6, <2>7, LostNothingInside
<1>18. ASSUME NEW t \in Tasks, StoreKey(t)
       PROVE  NothingLost'
  <2>1. /\ pc[t] = "store" /\ Moves(t, "idle") /\ InSection(t)
        /\ UNCHANGED <<messages, crypto, file, written, torn>>
    BY <1>18 DEF StoreKey, Return, Moves, InSection, Section
  <2>2. pc'[t] = "idle" /\ \A u \in Tasks \ {t} : pc'[u] = pc[u]
    BY <2>1, SectionsApart DEF NothingLost
  <2>3. Undamaged => InMemory'
    BY <1>a, <2>1 DEF Place, InMemory
  <2>4. Place(t)'
    BY <2>2 DEF Place
  <2>5. FileHolds => FileHolds'
    BY <2>1, <2>2 DEF FileHolds, HeldIn
  <2>6. file'.kind = "absent" => NeverWritten'
    BY <1>b, <2>1 DEF NeverWritten
  <2> QED
    BY <1>a, <2>1, <2>3, <2>4, <2>5, <2>6, LostNothingInside
\* Locking.
<1>19. ASSUME NEW t \in Tasks, DropKey(t)
       PROVE  NothingLost'
  <2>1. /\ pc[t] = "dropKey" /\ Moves(t, "clearMsgs") /\ InSection(t)
        /\ ~storage'.unlocked
        /\ UNCHANGED <<messages, crypto, file, written, torn>>
    BY <1>19 DEF DropKey, Locked, Moves, InSection, Section
  <2>2. pc'[t] = "clearMsgs" /\ \A u \in Tasks \ {t} : pc'[u] = pc[u]
    BY <2>1, SectionsApart DEF NothingLost
  <2>3. Place(t)'
    BY <2>1, <2>2 DEF Place
  <2>4. FileHolds => FileHolds'
    BY <2>1, <2>2 DEF FileHolds, HeldIn
  <2>5. file'.kind = "absent" => NeverWritten'
    BY <1>b, <2>1 DEF NeverWritten
  <2> QED
    BY <1>a, <2>1, <2>3, <2>4, <2>5, LostNothingInside
<1>20. ASSUME NEW t \in Tasks, ClearMessages(t) \/ ClearCrypto(t)
       PROVE  NothingLost'
  <2>1. PICK label \in {"clearCrypto", "return"} :
           /\ pc[t] \in {"clearMsgs", "clearCrypto"}
           /\ Moves(t, label) /\ InSection(t)
           /\ UNCHANGED <<storage, file, written, torn>>
    BY <1>20 DEF ClearMessages, ClearCrypto, Moves, InSection, Section
  <2>2. pc'[t] = label /\ \A u \in Tasks \ {t} : pc'[u] = pc[u]
    BY <2>1, SectionsApart DEF NothingLost
  <2>3. Undamaged => ~storage'.unlocked
    BY <1>a, <2>1 DEF Place
  <2>4. Undamaged => Place(t)'
    BY <2>2, <2>3 DEF Place
  <2>5. FileHolds => FileHolds'
    BY <2>1, <2>2 DEF FileHolds, HeldIn
  <2>6. file'.kind = "absent" => NeverWritten'
    BY <1>b, <2>1 DEF NeverWritten
  <2> QED
    BY <1>a, <2>1, <2>3, <2>4, <2>5, <2>6, LostNothingInside
<1>21. ASSUME NEW t \in Tasks, LockReturns(t)
       PROVE  NothingLost'
  BY <1>21, LostNothingOnReturn DEF LockReturns
\* The event task.
<1>22. ASSUME ReplyKey
       PROVE  NothingLost'
  BY <1>22, LostNothingOnReturn DEF ReplyKey, Tasks
<1>23. ASSUME ReceivePlain
       PROVE  NothingLost'
  <2>1. /\ Events \in Tasks /\ Moves(Events, "clone") /\ "clone" \notin Placed
        /\ pc[Events] # "write"
    BY <1>23 DEF ReceivePlain, Begin, Moves, Placed, Tasks
  <2> QED
    BY <1>23, <2>1, LostNothingOutside DEF ReceivePlain, Keep
<1>24. ASSUME ReceiveKeyExchange
       PROVE  NothingLost'
  <2>1. /\ Events \in Tasks /\ Moves(Events, "addKey") /\ "addKey" \notin Placed
        /\ pc[Events] # "write"
    BY <1>24 DEF ReceiveKeyExchange, Begin, Moves, Section, Placed, Tasks
  <2> QED
    BY <1>24, <2>1, LostNothingOutside DEF ReceiveKeyExchange
<1>25. ASSUME ReceiveEncrypted
       PROVE  NothingLost'
  <2>1. /\ Events \in Tasks /\ Moves(Events, "decrypt") /\ "decrypt" \notin Placed
        /\ pc[Events] # "write"
    BY <1>25 DEF ReceiveEncrypted, Begin, Moves, Section, Placed, Tasks
  <2>2. \A u \in Tasks \ {Events} : buf'[u] = buf[u]
    BY <1>25 DEF ReceiveEncrypted, TypeOK
  <2> QED
    BY <1>25, <2>1, <2>2, LostNothingOutside DEF ReceiveEncrypted
<1>26. ASSUME DecryptMessage
       PROVE  NothingLost'
  <2>1. /\ Events \in Tasks /\ Moves(Events, "clone") /\ "clone" \notin Placed
        /\ pc[Events] # "write"
    BY <1>26 DEF DecryptMessage, Moves, Placed, Tasks
  <2>2. \A u \in Tasks \ {Events} : buf'[u] = buf[u]
    BY <1>26 DEF DecryptMessage, TypeOK
  <2> QED
    BY <1>26, <2>1, <2>2, LostNothingOutside DEF DecryptMessage
<1>27. ASSUME AddPeerKey
       PROVE  NothingLost'
  <2>1. CASE Goto(Events, "clone") /\ NoteEntry(Events) /\ UNCHANGED <<op, buf>>
    <3>1. /\ Events \in Tasks /\ Moves(Events, "clone") /\ "clone" \notin Placed
          /\ pc[Events] # "write"
      BY <1>27, <2>1 DEF AddPeerKey, Moves, Placed, Tasks
    <3> QED
      BY <1>27, <2>1, <3>1, LostNothingOutside DEF AddPeerKey
  <2>2. CASE Return(Events) /\ UNCHANGED overlapped
    BY <1>27, <2>2, LostNothingOnReturn DEF AddPeerKey, Tasks
  <2> QED
    BY <1>27, <2>1, <2>2 DEF AddPeerKey
\* The identity: a new one is generated only when none was saved, or when
\* the vault is closed.
<1>28. ASSUME NEW t \in Tasks, TakeIdentity(t)
       PROVE  NothingLost'
  <2>1. /\ pc[t] = "identity" /\ Moves(t, "clone") /\ "clone" \in Section
        /\ crypto' = crypto \/ crypto = None
        /\ UNCHANGED <<messages, storage, file, written, torn>>
    BY <1>28 DEF TakeIdentity, Moves, Section
  <2>2. pc'[t] = "clone" /\ \A u \in Tasks \ {t} : pc'[u] = pc[u]
    BY <2>1, SectionsApart DEF NothingLost
  <2>3. InMemory => InMemory'
    BY <2>1, WrittenIds DEF InMemory
  <2>4. Place(t)'
    BY <2>2 DEF Place
  <2>5. FileHolds => FileHolds'
    BY <2>1, <2>2 DEF FileHolds, HeldIn
  <2>6. file'.kind = "absent" => NeverWritten'
    BY <1>b, <2>1 DEF NeverWritten
  <2> QED
    BY <1>a, <2>1, <2>3, <2>4, <2>5, <2>6, LostNothingInside
\* Failures and restarts.
<1>29. ASSUME NEW t \in Tasks, PersistFails(t)
       PROVE  NothingLost'
  <2>1. CASE pc[t] = "open"
    BY <1>29, <2>1, LostNothingOnReturn DEF PersistFails, TypeOK
  <2>2. CASE pc[t] = "write"
    <3>1. /\ Moves(t, "idle") /\ torn'
          /\ UNCHANGED <<file, written>>
      BY <1>29, <2>2 DEF PersistFails, Return, Moves, Section
    <3>2. OneAtATime'
      BY <3>1, SectionsApart DEF NothingLost
    <3> QED
      BY <1>b, <3>1, <3>2 DEF NothingLost, Undamaged, NeverWritten
  <2> QED
    BY <1>29, <2>1, <2>2 DEF PersistFails
<1>30. ASSUME Restart
       PROVE  NothingLost'
  <2>1. /\ UNCHANGED <<file, written, overlapped>>
        /\ ~storage'.unlocked
        /\ \A t \in Tasks : pc'[t] = "idle"
        /\ torn' = (torn \/ \E t \in Tasks : pc[t] = "write")
    BY <1>30 DEF Restart, Locked
  <2>2. OneAtATime'
    BY <2>1 DEF OneAtATime, InSection, Section
  <2>3. \A t \in Tasks : Place(t)'
    BY <2>1 DEF Place
  <2>4. Undamaged' => FileHolds'
    BY <1>a, <2>1 DEF Undamaged, FileHolds, HeldIn
  <2>5. file'.kind = "absent" => NeverWritten'
    BY <1>b, <2>1 DEF NeverWritten
  <2> QED
    BY <2>1, <2>2, <2>3, <2>4, <2>5 DEF NothingLost
<1>31. CASE UNCHANGED vars
  BY <1>31
  DEF vars, NothingLost, NeverWritten, OneAtATime, InSection, Undamaged,
      InMemory, FileHolds, HeldIn, Place
<1> QED
  BY <1>1, <1>2, <1>3, <1>4, <1>5, <1>6, <1>7, <1>8, <1>9, <1>10, <1>11,
     <1>12, <1>13, <1>14, <1>15, <1>16, <1>17, <1>18, <1>19, <1>20, <1>21,
     <1>22, <1>23, <1>24, <1>25, <1>26, <1>27, <1>28, <1>29, <1>30, <1>31
  DEF Next, Call, Continue, Persist

LEMMA NothingLostInitially == Init => NothingLost
<1> SUFFICES ASSUME Init PROVE NothingLost
  OBVIOUS
<1>1. OneAtATime
  BY DEF Init, OneAtATime, InSection, Section
<1>2. file.kind = "absent" /\ NeverWritten /\ ~storage.unlocked
  BY DEF Init, NoData, NeverWritten, Locked
<1>3. \A t \in Tasks : Place(t)
  BY DEF Init, Place
<1> QED
  BY <1>1, <1>2, <1>3 DEF NothingLost, FileHolds

\* What the vault has held it still holds, for any number of tasks and
\* restarts, unless vault sections overlapped or a write stopped half way.
THEOREM NothingSavedIsLost == Spec => []SavedStaysSaved
<1>1. NothingLost => SavedStaysSaved
  BY DEF NothingLost, Undamaged, FileHolds, HeldIn, SavedStaysSaved
<1> QED
  BY <1>1, NothingLostInitially, NothingLostStep, KeysMatchSaltsInv, TypeCorrect,
     PTL DEF Spec

\* In the same conditions an open vault's memory has all the vault has held.
THEOREM MemoryHoldsVault == Spec => []MemoryCoversVault
<1>1. NothingLost => MemoryCoversVault
  BY DEF NothingLost, Undamaged, InMemory, MemoryCoversVault
<1> QED
  BY <1>1, NothingLostInitially, NothingLostStep, KeysMatchSaltsInv, TypeCorrect,
     PTL DEF Spec
=============================================================================

---------------------------- MODULE Rooms_proofs ----------------------------
(***************************************************************************)
(* Theorems about Rooms, for any rooms and tasks and any bounds.           *)
(***************************************************************************)
EXTENDS Rooms, Lists_proofs

-----------------------------------------------------------------------------
(* Where a handler stands. *)

\* The steps that follow each other in the handlers, and those that may end
\* one.
Follows ==
    {<<"check", "add">>, <<"add", "focus">>, <<"addAbsent", "focus">>,
     <<"require", "focus">>, <<"focus", "subscribe">>,
     <<"focus", "saveJoined">>, <<"subscribe", "saveJoined">>,
     <<"remove", "unfocus">>, <<"unfocus", "unsubscribe">>,
     <<"unsubscribe", "saveJoined">>, <<"launch", "saveJoined">>,
     <<"saveJoined", "saveCurrent">>, <<"saveCurrent", "write">>,
     <<"write", "seal">>, <<"seal", "clearJoined">>,
     <<"clearJoined", "clearCurrent">>, <<"read", "loadJoined">>,
     <<"loadJoined", "loadCurrent">>, <<"loadCurrent", "unseal">>}
Endings == {"write", "subscribe", "clearCurrent", "unseal"}

\* What is left of a handler: only switch_room saves right after it has set
\* the current room.
Scripts ==
    {s \in Seq(Steps) :
        /\ \A i \in DOMAIN s : i + 1 \in DOMAIN s => <<s[i], s[i + 1]>> \in Follows
        /\ \A i \in DOMAIN s : i + 1 \notin DOMAIN s => s[i] \in Endings
        /\ \A i \in DOMAIN s : (i + 2 \in DOMAIN s /\ s[i + 1] = "focus") =>
              (s[i] = "require" <=> s[i + 2] = "saveJoined")}

\* The next step of a handler; "refocus" is that of switch_room.
NextStep(s) ==
    IF s = << >> THEN "idle"
    ELSE IF s[1] = "focus" /\ 2 \in DOMAIN s /\ s[2] = "saveJoined"
         THEN "refocus" ELSE s[1]
Place(t) == NextStep(todo[t])

\* Places at which a handler still has to tell the loop of its room.
Untold == {"check", "add", "addAbsent", "focus", "subscribe", "remove",
           "unfocus", "unsubscribe"}

-----------------------------------------------------------------------------
(* The invariant. *)

\* Types, and what a handler's room is before it is used.
Typed ==
    /\ TypeOK
    /\ \A t \in Tasks :
          /\ todo[t] \in Scripts
          /\ Place(t) \in Untold \cup {"require", "refocus"} => arg[t] \in RoomIds

\* A room that is listed anywhere has its identifier in use.
InUse ==
    /\ Range(joined) \cup Range(saved.joined) \subseteq used
    /\ \A t \in Tasks : Range(buf[t].joined) \cup ({arg[t]} \ {None}) \subseteq used

\* One handler at a time.
Alone == \A t, u \in Tasks : ~Idle(t) /\ ~Idle(u) => t = u

CurrentJoined == current \in Range(joined) \cup {None}
VaultSound ==
    /\ Distinct(joined) /\ Distinct(saved.joined)
    /\ saved.current \in Range(saved.joined) \cup {None}

\* What the rooms are like when the handler of t stands at p.
Standing(t, p) ==
    /\ p \notin {"unfocus", "clearCurrent", "loadCurrent"} => CurrentJoined
    /\ p = "unfocus" => current \in Range(joined) \cup {arg[t], None}
    /\ p \in {"add", "unfocus", "unsubscribe"} => ~IsJoined(arg[t])
    /\ p \in {"focus", "refocus", "subscribe"} => IsJoined(arg[t])
    /\ p \in {"saveCurrent", "write"} => buf[t].joined = joined /\ unlocked
    /\ p = "write" => buf[t].current = current
    /\ p \in {"clearJoined", "clearCurrent", "read", "loadJoined", "loadCurrent",
              "unseal"} => ~unlocked
    /\ p \in {"loadJoined", "loadCurrent"} => buf[t] = saved
    /\ p \in {"loadCurrent", "unseal"} => joined = saved.joined

\* The vault's rooms are in memory while it is open, but for one the handler
\* of t has removed and will save without.
Covered(t, p) ==
    unlocked =>
        \A r \in Range(saved.joined) :
            IsJoined(r) \/ /\ r = arg[t]
                           /\ p \in {"unfocus", "unsubscribe", "saveJoined",
                                     "saveCurrent", "write"}

\* The room is subscribed to when the loop has run its commands.
WillSubscribe(r) ==
    \/ \E i \in DOMAIN queue :
          /\ queue[i] = [type |-> "join", room |-> r]
          /\ \A j \in DOMAIN queue : queue[j].room = r => j <= i
    \/ r \in subscribed /\ \A j \in DOMAIN queue : queue[j].room # r

\* Topics and list agree on all rooms but the one the handler of t has still
\* to tell the loop of.
TopicsAgree(t, p) ==
    \A r \in RoomIds :
        (WillSubscribe(r) <=> IsJoined(r)) \/ (r = arg[t] /\ p \in Untold)

OneHandler ==
    ~overlapped =>
        /\ Alone
        /\ VaultSound
        /\ \A t \in Tasks : ~Idle(t) => Standing(t, Place(t)) /\ Covered(t, Place(t))
        /\ AllIdle => CurrentJoined /\ Covered(Events, "idle")

Topics ==
    /\ ~network => queue = << >> /\ subscribed = {}
    /\ (~overlapped /\ ~reloaded /\ network) =>
          /\ \A t \in Tasks : Idle(t) \/ TopicsAgree(t, Place(t))
          /\ AllIdle => TopicsAgree(Events, "idle")

-----------------------------------------------------------------------------
(* Scripts. *)

LEMMA ScriptDropped ==
    ASSUME NEW s \in Scripts, NEW k \in Nat, k <= Len(s), NEW m, m = k + 1
    PROVE  /\ SubSeq(s, m, Len(s)) \in Scripts
           /\ DOMAIN s = 1..Len(s)
           /\ DOMAIN SubSeq(s, m, Len(s)) = 1..(Len(s) - k)
           /\ \A i \in DOMAIN SubSeq(s, m, Len(s)) :
                 SubSeq(s, m, Len(s))[i] = s[i + k]
  <1> DEFINE u == SubSeq(s, m, Len(s))
  <1>1. s \in Seq(Steps) /\ Len(s) \in Nat /\ DOMAIN s = 1..Len(s)
        /\ \A i \in 1..Len(s) : s[i] \in Steps
    BY LenProperties DEF Scripts
  <1>2. /\ u \in Seq(Steps)
        /\ Len(u) = IF k + 1 <= Len(s) THEN Len(s) - (k + 1) + 1 ELSE 0
        /\ \A i \in 1..(Len(s) - (k + 1) + 1) : u[i] = s[(k + 1) + i - 1]
    <2>1. k + 1 \in Int /\ Len(s) \in Int /\ \A i \in (k + 1)..Len(s) : s[i] \in Steps
      BY <1>1
    <2>2. /\ SubSeq(s, k + 1, Len(s)) \in Seq(Steps)
          /\ Len(SubSeq(s, k + 1, Len(s)))
                = IF k + 1 <= Len(s) THEN Len(s) - (k + 1) + 1 ELSE 0
          /\ \A i \in 1..(Len(s) - (k + 1) + 1) :
                SubSeq(s, k + 1, Len(s))[i] = s[(k + 1) + i - 1]
      BY <2>1, SubSeqProperties
    <2> QED
      BY <2>2
  <1> HIDE DEF u
  <1>3. /\ DOMAIN u = 1..(Len(s) - k)
        /\ \A i \in DOMAIN u : u[i] = s[i + k] /\ i + k \in DOMAIN s
    <2>1. Len(u) = Len(s) - k /\ DOMAIN u = 1..Len(u)
      <3>1. Len(s) - (k + 1) + 1 = Len(s) - k /\ (k + 1 <= Len(s) \/ Len(s) - k = 0)
        <4>1. \A a, b \in Nat : a <= b =>
                  b - (a + 1) + 1 = b - a /\ (a + 1 <= b \/ b - a = 0)
          OBVIOUS
        <4> QED
          BY <1>1, <4>1, Zenon
      <3>2. Len(u) = Len(s) - k
        BY <1>2, <3>1
      <3> QED
        BY <1>2, <3>2, LenProperties
    <2>2. ASSUME NEW i \in 1..(Len(s) - k)
          PROVE  u[i] = s[i + k] /\ i + k \in 1..Len(s)
      <3>1. (k + 1) + i - 1 = i + k /\ i \in 1..(Len(s) - (k + 1) + 1)
        BY <1>1
      <3>2. u[i] = s[(k + 1) + i - 1]
        BY <1>2, <3>1
      <3> QED
        BY <1>1, <3>1, <3>2
    <2> QED
      BY <1>1, <2>1, <2>2
  <1>4. ASSUME NEW i \in DOMAIN u, i + 1 \in DOMAIN u
        PROVE  <<u[i], u[i + 1]>> \in Follows
    <2>1. u[i] = s[i + k] /\ u[i + 1] = s[(i + k) + 1] /\ (i + k) + 1 \in DOMAIN s
      BY <1>1, <1>3, <1>4
    <2> QED
      BY <1>3, <2>1 DEF Scripts
  <1>5. ASSUME NEW i \in DOMAIN u, i + 1 \notin DOMAIN u
        PROVE  u[i] \in Endings
    <2>1. (i + k) + 1 \notin DOMAIN s
      BY <1>1, <1>3, <1>5
    <2> QED
      BY <1>3, <2>1 DEF Scripts
  <1>6. ASSUME NEW i \in DOMAIN u, i + 2 \in DOMAIN u, u[i + 1] = "focus"
        PROVE  u[i] = "require" <=> u[i + 2] = "saveJoined"
    <2>1. /\ u[i] = s[i + k] /\ i + k \in DOMAIN s
          /\ i + 1 \in DOMAIN u /\ u[i + 1] = s[(i + k) + 1]
          /\ u[i + 2] = s[(i + k) + 2] /\ (i + k) + 2 \in DOMAIN s
      <3>1. i \in Nat /\ i + 1 \in DOMAIN u
        BY <1>1, <1>3, <1>6
      <3>2. \A a, b \in Nat : (a + 1) + b = (a + b) + 1 /\ (a + 2) + b = (a + b) + 2
        OBVIOUS
      <3> QED
        <4>1. /\ u[i + 1] = s[(i + 1) + k] /\ u[i + 2] = s[(i + 2) + k]
              /\ (i + 2) + k \in DOMAIN s /\ u[i] = s[i + k] /\ i + k \in DOMAIN s
          BY <1>3, <1>6, <3>1, Zenon
        <4>2. (i + 1) + k = (i + k) + 1 /\ (i + 2) + k = (i + k) + 2
          BY <3>1, <3>2, Zenon
        <4> QED
          BY <3>1, <4>1, <4>2, Zenon
    <2> QED
      BY <1>6, <2>1 DEF Scripts
  <1> QED
    <2>1. u \in Scripts
      BY <1>2, <1>4, <1>5, <1>6 DEF Scripts
    <2> QED
      BY <1>1, <1>3, <2>1 DEF u

LEMMA ScriptStarts ==
    ASSUME NEW s \in Scripts, s # << >>
    PROVE  /\ 1 \in DOMAIN s /\ Head(s) = s[1] /\ s[1] \in Steps
           /\ DOMAIN s = 1..Len(s) /\ Len(s) \in Nat \ {0}
           /\ Tail(s) = SubSeq(s, 2, Len(s))
           /\ 2 \in DOMAIN s => <<s[1], s[2]>> \in Follows
           /\ 2 \notin DOMAIN s => s[1] \in Endings
           /\ 3 \in DOMAIN s /\ s[2] = "focus" => (s[1] = "require" <=> s[3] = "saveJoined")
           /\ 3 \in DOMAIN s => <<s[2], s[3]>> \in Follows
           /\ 2 \in DOMAIN s /\ 3 \notin DOMAIN s => s[2] \in Endings
           /\ 4 \in DOMAIN s => <<s[3], s[4]>> \in Follows
           /\ 3 \in DOMAIN s /\ 4 \notin DOMAIN s => s[3] \in Endings
           /\ 4 \in DOMAIN s /\ s[3] = "focus" => (s[2] = "require" <=> s[4] = "saveJoined")
           /\ NextStep(s) \in Steps \cup {"refocus"}
           /\ NextStep(s) = "refocus" <=> s[1] = "focus" /\ 2 \in DOMAIN s /\ s[2] = "saveJoined"
           /\ NextStep(s) # "refocus" => NextStep(s) = s[1]
  <1>1. s \in Seq(Steps) /\ DOMAIN s = 1..Len(s) /\ Len(s) \in Nat \ {0}
        /\ 1 \in DOMAIN s /\ Head(s) = s[1] /\ s[1] \in Steps
    BY LenProperties, EmptySeq DEF Scripts
  <1>2. Tail(s) = SubSeq(s, 2, Len(s))
    BY <1>1, TailIsSubSeq
  <1>3. 1 + 1 = 2 /\ 2 + 1 = 3 /\ 3 + 1 = 4 /\ 1 + 2 = 3 /\ 2 + 2 = 4
        /\ (2 \in DOMAIN s => 1 \in DOMAIN s) /\ (3 \in DOMAIN s => 2 \in DOMAIN s)
        /\ (4 \in DOMAIN s => 3 \in DOMAIN s)
    BY <1>1
  <1>4. \A i \in DOMAIN s : i + 1 \in DOMAIN s => <<s[i], s[i + 1]>> \in Follows
    BY DEF Scripts
  <1>5. \A i \in DOMAIN s : i + 1 \notin DOMAIN s => s[i] \in Endings
    BY DEF Scripts
  <1>6. \A i \in DOMAIN s : (i + 2 \in DOMAIN s /\ s[i + 1] = "focus") =>
              (s[i] = "require" <=> s[i + 2] = "saveJoined")
    BY DEF Scripts
  <1>7. /\ 2 \in DOMAIN s => <<s[1], s[2]>> \in Follows
        /\ 3 \in DOMAIN s => <<s[2], s[3]>> \in Follows
        /\ 4 \in DOMAIN s => <<s[3], s[4]>> \in Follows
    BY <1>1, <1>3, <1>4
  <1>8. /\ 2 \notin DOMAIN s => s[1] \in Endings
        /\ 2 \in DOMAIN s /\ 3 \notin DOMAIN s => s[2] \in Endings
        /\ 3 \in DOMAIN s /\ 4 \notin DOMAIN s => s[3] \in Endings
    BY <1>1, <1>3, <1>5
  <1>9. /\ 3 \in DOMAIN s /\ s[2] = "focus" => (s[1] = "require" <=> s[3] = "saveJoined")
        /\ 4 \in DOMAIN s /\ s[3] = "focus" => (s[2] = "require" <=> s[4] = "saveJoined")
    BY <1>1, <1>3, <1>6
  <1>10. /\ NextStep(s) \in Steps \cup {"refocus"}
         /\ NextStep(s) = "refocus" <=> s[1] = "focus" /\ 2 \in DOMAIN s /\ s[2] = "saveJoined"
         /\ NextStep(s) # "refocus" => NextStep(s) = s[1]
    BY <1>1 DEF NextStep, Steps
  <1> QED
    BY <1>1, <1>2, <1>7, <1>8, <1>9, <1>10

\* From one place to the next; "idle" is the end of the handler.
Moves ==
    {<<"check", "add">>, <<"add", "focus">>, <<"addAbsent", "focus">>,
     <<"require", "refocus">>, <<"refocus", "saveJoined">>,
     <<"focus", "subscribe">>, <<"subscribe", "saveJoined">>,
     <<"subscribe", "idle">>, <<"remove", "unfocus">>,
     <<"unfocus", "unsubscribe">>, <<"unsubscribe", "saveJoined">>,
     <<"launch", "saveJoined">>, <<"saveJoined", "saveCurrent">>,
     <<"saveCurrent", "write">>, <<"write", "idle">>, <<"write", "seal">>,
     <<"seal", "clearJoined">>, <<"clearJoined", "clearCurrent">>,
     <<"clearCurrent", "idle">>, <<"read", "loadJoined">>,
     <<"loadJoined", "loadCurrent">>, <<"loadCurrent", "unseal">>,
     <<"unseal", "idle">>}

\* The step after this one.
LEMMA ScriptTail ==
    ASSUME NEW s \in Scripts, s # << >>
    PROVE  Tail(s) \in Scripts /\ <<NextStep(s), NextStep(Tail(s))>> \in Moves
  <1> DEFINE u == Tail(s)
  <1>1. u = SubSeq(s, 2, Len(s)) /\ Len(s) \in Nat \ {0}
    BY ScriptStarts
  <1>2. /\ u \in Scripts /\ DOMAIN u = 1..(Len(s) - 1) /\ DOMAIN s = 1..Len(s)
        /\ \A i \in DOMAIN u : u[i] = s[i + 1]
    <2>1. 1 <= Len(s) /\ 1 \in Nat /\ 2 = 1 + 1
      BY <1>1
    <2> DEFINE w == SubSeq(s, 2, Len(s))
    <2>2. /\ w \in Scripts /\ DOMAIN w = 1..(Len(s) - 1) /\ DOMAIN s = 1..Len(s)
          /\ \A i \in DOMAIN w : w[i] = s[i + 1]
      BY <2>1, ScriptDropped
    <2> QED
      BY <1>1, <2>2, Zenon
  <1>3. /\ 1 \in DOMAIN u <=> 2 \in DOMAIN s
        /\ 2 \in DOMAIN u <=> 3 \in DOMAIN s
        /\ 1 \in DOMAIN u => u[1] = s[2]
        /\ 2 \in DOMAIN u => u[2] = s[3]
        /\ 3 \in DOMAIN s => 2 \in DOMAIN s
    BY <1>1, <1>2
  <1>4. u = << >> <=> 2 \notin DOMAIN s
    <2>1. u \in Seq(Steps)
      BY <1>2 DEF Scripts
    <2>2. u = << >> <=> DOMAIN u = {}
      BY <2>1, EmptySeq, LenProperties
    <2> QED
      BY <1>1, <1>2, <2>2
  <1>5. NextStep(u) = IF 2 \notin DOMAIN s THEN "idle"
                      ELSE IF s[2] = "focus" /\ 3 \in DOMAIN s /\ s[3] = "saveJoined"
                           THEN "refocus" ELSE s[2]
    BY <1>3, <1>4 DEF NextStep
  <1> HIDE DEF u
  <1>6. CASE 2 \notin DOMAIN s
    <2>1. s[1] \in Endings /\ NextStep(u) = "idle" /\ NextStep(s) = s[1]
      BY <1>5, <1>6, ScriptStarts
    <2> QED
      BY <1>2, <2>1 DEF Endings, Moves, u
  <1>7. CASE 2 \in DOMAIN s
    <2>1. <<s[1], s[2]>> \in Follows
      BY <1>7, ScriptStarts
    <2>2. s[2] = "focus" => 3 \in DOMAIN s /\ (s[1] = "require" <=> s[3] = "saveJoined")
      BY <1>7, ScriptStarts DEF Endings
    <2>3. /\ NextStep(s) = IF s[1] = "focus" /\ s[2] = "saveJoined"
                            THEN "refocus" ELSE s[1]
          /\ NextStep(u) = IF s[2] = "focus" /\ s[1] = "require"
                           THEN "refocus" ELSE s[2]
      BY <1>5, <1>7, <2>2, ScriptStarts
    <2>4. <<NextStep(s), NextStep(u)>> \in Moves
      <3> DEFINE a == s[1]
                 b == s[2]
                 p == NextStep(s)
                 q == NextStep(u)
      <3>1. /\ <<a, b>> \in Follows
            /\ p = IF a = "focus" /\ b = "saveJoined" THEN "refocus" ELSE a
            /\ q = IF b = "focus" /\ a = "require" THEN "refocus" ELSE b
        BY <2>1, <2>3
      <3> HIDE DEF a, b, p, q
      <3>2. <<p, q>> \in Moves
        BY <3>1 DEF Follows, Moves
      <3> QED
        BY <3>2 DEF p, q
    <2> QED
      BY <1>2, <2>4 DEF u
  <1> QED
    BY <1>6, <1>7

\* The steps after those that are left out.
LEMMA ScriptSkip ==
    ASSUME NEW s \in Scripts, s # << >>, NEW k \in Nat, k <= Len(s),
           k > 0
    PROVE  LET u == SubSeq(s, (k - 1) + 2, Len(s))
           IN  /\ u \in Scripts
               /\ k = 2 /\ NextStep(s) = "check" => NextStep(u) = "focus"
               /\ k = 3 /\ NextStep(s) = "saveJoined" => NextStep(u) \in {"idle", "seal"}
               /\ k = Len(s) => NextStep(u) = "idle"
  <1> DEFINE u == SubSeq(s, (k - 1) + 2, Len(s))
  <1>1. (k - 1) + 2 = k + 1
    OBVIOUS
  <1>2. /\ u \in Scripts /\ DOMAIN u = 1..(Len(s) - k) /\ DOMAIN s = 1..Len(s)
        /\ \A i \in DOMAIN u : u[i] = s[i + k]
    <2>1. u = SubSeq(s, k + 1, Len(s))
      BY <1>1
    <2> QED
      BY <1>1, ScriptDropped
  <1>3. Len(s) \in Nat \ {0}
    BY ScriptStarts
  <1>4. u = << >> <=> k = Len(s)
    <2>1. u \in Seq(Steps)
      BY <1>2 DEF Scripts
    <2>2. u = << >> <=> DOMAIN u = {}
      BY <2>1, EmptySeq, LenProperties
    <2> HIDE DEF u
    <2>3. 1..(Len(s) - k) = {} <=> k = Len(s)
      <3>1. Len(s) - k \in Nat /\ (Len(s) - k = 0 <=> k = Len(s))
        BY <1>3
      <3>2. \A n \in Nat : 1..n = {} <=> n = 0
        <4>1. \A n \in Nat : n # 0 => 1 \in 1..n
          OBVIOUS
        <4> QED
          BY <4>1
      <3> QED
        BY <3>1, <3>2, Zenon
    <2> QED
      BY <1>2, <2>2, <2>3
  <1> HIDE DEF u
  <1>5. ASSUME k = 2, NextStep(s) = "check"
        PROVE  NextStep(u) = "focus"
    <2>1. s[1] = "check"
      BY <1>5, ScriptStarts
    <2>2. 2 \in DOMAIN s /\ s[2] = "add"
      BY <2>1, ScriptStarts DEF Endings, Follows
    <2>3. 3 \in DOMAIN s /\ s[3] = "focus"
      BY <2>2, ScriptStarts DEF Endings, Follows
    <2>4. 4 \in DOMAIN s /\ s[4] # "saveJoined"
      BY <2>2, <2>3, ScriptStarts DEF Endings
    <2>5. 1 \in DOMAIN u /\ u[1] = s[3] /\ 2 \in DOMAIN u /\ u[2] = s[4]
      BY <1>2, <1>3, <1>5, <2>4
    <2> QED
      <3>1. u # << >>
        BY <2>5, EmptySeq
      <3> QED
        BY <2>3, <2>4, <2>5, <3>1 DEF NextStep
  <1>6. ASSUME k = 3, NextStep(s) = "saveJoined"
        PROVE  NextStep(u) \in {"idle", "seal"}
    <2>1. s[1] = "saveJoined"
      BY <1>6, ScriptStarts
    <2>2. 2 \in DOMAIN s /\ s[2] = "saveCurrent"
      BY <2>1, ScriptStarts DEF Endings, Follows
    <2>3. 3 \in DOMAIN s /\ s[3] = "write"
      BY <2>2, ScriptStarts DEF Endings, Follows
    <2>4. CASE 4 \in DOMAIN s
      <3>1. s[4] = "seal"
        BY <2>3, <2>4, ScriptStarts DEF Follows
      <3>2. 1 \in DOMAIN u /\ u[1] = s[4]
        BY <1>2, <1>3, <1>6, <2>4
      <3> QED
        BY <3>1, <3>2 DEF NextStep
    <2>5. CASE 4 \notin DOMAIN s
      <3>1. k = Len(s)
        BY <1>2, <1>3, <1>6, <2>5
      <3> QED
        BY <1>4, <3>1 DEF NextStep
    <2> QED
      BY <2>4, <2>5
  <1>7. k = Len(s) => NextStep(u) = "idle"
    BY <1>4 DEF NextStep
  <1> QED
    BY <1>2, <1>5, <1>6, <1>7 DEF u

\* The handlers, written out.
LEMMA HandlersWritten ==
    /\ CreateRoom = <<"add", "focus", "subscribe", "saveJoined", "saveCurrent", "write">>
    /\ JoinRoom = <<"check", "add", "focus", "subscribe", "saveJoined",
                    "saveCurrent", "write">>
    /\ LeaveRoom = <<"remove", "unfocus", "unsubscribe", "saveJoined",
                     "saveCurrent", "write">>
    /\ SwitchRoom = <<"require", "focus", "saveJoined", "saveCurrent", "write">>
    /\ StartNetwork = <<"launch", "saveJoined", "saveCurrent", "write">>
    /\ LockVault = <<"saveJoined", "saveCurrent", "write", "seal",
                     "clearJoined", "clearCurrent">>
  <1>1. CreateRoom = <<"add", "focus", "subscribe", "saveJoined", "saveCurrent", "write">>
    <2> DEFINE s == <<"add", "focus", "subscribe">>
               t == <<"saveJoined", "saveCurrent", "write">>
               u == <<"add", "focus", "subscribe", "saveJoined", "saveCurrent", "write">>
    <2>1. /\ s \in Seq(Steps) /\ t \in Seq(Steps) /\ u \in Seq(Steps)
          /\ Len(s) = 3 /\ Len(t) = 3 /\ Len(u) = 6
      BY DEF Steps
    <2>2. \A i \in 1..6 : u[i] = IF i <= 3 THEN s[i] ELSE t[i - 3]
      OBVIOUS
    <2>3. CreateRoom = s \o t
      BY DEF CreateRoom, Save
    <2> HIDE DEF s, t, u
    <2>4. Len(u) = Len(s) + Len(t)
          /\ \A i \in 1..Len(u) : u[i] = IF i <= Len(s) THEN s[i] ELSE t[i - Len(s)]
      BY <2>1, <2>2
    <2>5. s \o t = u
      BY <2>1, <2>4, ConcatIs, Zenon
    <2> QED
      BY <2>3, <2>5 DEF u
  <1>2. JoinRoom = <<"check", "add", "focus", "subscribe", "saveJoined", "saveCurrent", "write">>
    <2> DEFINE s == <<"check", "add", "focus", "subscribe">>
               t == <<"saveJoined", "saveCurrent", "write">>
               u == <<"check", "add", "focus", "subscribe", "saveJoined", "saveCurrent", "write">>
    <2>1. /\ s \in Seq(Steps) /\ t \in Seq(Steps) /\ u \in Seq(Steps)
          /\ Len(s) = 4 /\ Len(t) = 3 /\ Len(u) = 7
      BY DEF Steps
    <2>2. \A i \in 1..7 : u[i] = IF i <= 4 THEN s[i] ELSE t[i - 4]
      OBVIOUS
    <2>3. JoinRoom = s \o t
      BY DEF JoinRoom, Save
    <2> HIDE DEF s, t, u
    <2>4. Len(u) = Len(s) + Len(t)
          /\ \A i \in 1..Len(u) : u[i] = IF i <= Len(s) THEN s[i] ELSE t[i - Len(s)]
      BY <2>1, <2>2
    <2>5. s \o t = u
      BY <2>1, <2>4, ConcatIs, Zenon
    <2> QED
      BY <2>3, <2>5 DEF u
  <1>3. LeaveRoom = <<"remove", "unfocus", "unsubscribe", "saveJoined", "saveCurrent", "write">>
    <2> DEFINE s == <<"remove", "unfocus", "unsubscribe">>
               t == <<"saveJoined", "saveCurrent", "write">>
               u == <<"remove", "unfocus", "unsubscribe", "saveJoined", "saveCurrent", "write">>
    <2>1. /\ s \in Seq(Steps) /\ t \in Seq(Steps) /\ u \in Seq(Steps)
          /\ Len(s) = 3 /\ Len(t) = 3 /\ Len(u) = 6
      BY DEF Steps
    <2>2. \A i \in 1..6 : u[i] = IF i <= 3 THEN s[i] ELSE t[i - 3]
      OBVIOUS
    <2>3. LeaveRoom = s \o t
      BY DEF LeaveRoom, Save
    <2> HIDE DEF s, t, u
    <2>4. Len(u) = Len(s) + Len(t)
          /\ \A i \in 1..Len(u) : u[i] = IF i <= Len(s) THEN s[i] ELSE t[i - Len(s)]
      BY <2>1, <2>2
    <2>5. s \o t = u
      BY <2>1, <2>4, ConcatIs, Zenon
    <2> QED
      BY <2>3, <2>5 DEF u
  <1>4. SwitchRoom = <<"require", "focus", "saveJoined", "saveCurrent", "write">>
    <2> DEFINE s == <<"require", "focus">>
               t == <<"saveJoined", "saveCurrent", "write">>
               u == <<"require", "focus", "saveJoined", "saveCurrent", "write">>
    <2>1. /\ s \in Seq(Steps) /\ t \in Seq(Steps) /\ u \in Seq(Steps)
          /\ Len(s) = 2 /\ Len(t) = 3 /\ Len(u) = 5
      BY DEF Steps
    <2>2. \A i \in 1..5 : u[i] = IF i <= 2 THEN s[i] ELSE t[i - 2]
      OBVIOUS
    <2>3. SwitchRoom = s \o t
      BY DEF SwitchRoom, Save
    <2> HIDE DEF s, t, u
    <2>4. Len(u) = Len(s) + Len(t)
          /\ \A i \in 1..Len(u) : u[i] = IF i <= Len(s) THEN s[i] ELSE t[i - Len(s)]
      BY <2>1, <2>2
    <2>5. s \o t = u
      BY <2>1, <2>4, ConcatIs, Zenon
    <2> QED
      BY <2>3, <2>5 DEF u
  <1>5. StartNetwork = <<"launch", "saveJoined", "saveCurrent", "write">>
    <2> DEFINE s == <<"launch">>
               t == <<"saveJoined", "saveCurrent", "write">>
               u == <<"launch", "saveJoined", "saveCurrent", "write">>
    <2>1. /\ s \in Seq(Steps) /\ t \in Seq(Steps) /\ u \in Seq(Steps)
          /\ Len(s) = 1 /\ Len(t) = 3 /\ Len(u) = 4
      BY DEF Steps
    <2>2. \A i \in 1..4 : u[i] = IF i <= 1 THEN s[i] ELSE t[i - 1]
      OBVIOUS
    <2>3. StartNetwork = s \o t
      BY DEF StartNetwork, Save
    <2> HIDE DEF s, t, u
    <2>4. Len(u) = Len(s) + Len(t)
          /\ \A i \in 1..Len(u) : u[i] = IF i <= Len(s) THEN s[i] ELSE t[i - Len(s)]
      BY <2>1, <2>2
    <2>5. s \o t = u
      BY <2>1, <2>4, ConcatIs, Zenon
    <2> QED
      BY <2>3, <2>5 DEF u
  <1>6. LockVault = <<"saveJoined", "saveCurrent", "write", "seal", "clearJoined", "clearCurrent">>
    <2> DEFINE s == <<"saveJoined", "saveCurrent", "write">>
               t == <<"seal", "clearJoined", "clearCurrent">>
               u == <<"saveJoined", "saveCurrent", "write", "seal", "clearJoined", "clearCurrent">>
    <2>1. /\ s \in Seq(Steps) /\ t \in Seq(Steps) /\ u \in Seq(Steps)
          /\ Len(s) = 3 /\ Len(t) = 3 /\ Len(u) = 6
      BY DEF Steps
    <2>2. \A i \in 1..6 : u[i] = IF i <= 3 THEN s[i] ELSE t[i - 3]
      OBVIOUS
    <2>3. LockVault = s \o t
      BY DEF LockVault, Save
    <2> HIDE DEF s, t, u
    <2>4. Len(u) = Len(s) + Len(t)
          /\ \A i \in 1..Len(u) : u[i] = IF i <= Len(s) THEN s[i] ELSE t[i - Len(s)]
      BY <2>1, <2>2
    <2>5. s \o t = u
      BY <2>1, <2>4, ConcatIs, Zenon
    <2> QED
      BY <2>3, <2>5 DEF u
  <1> QED
    BY <1>1, <1>2, <1>3, <1>4, <1>5, <1>6

LEMMA HandlersScripts ==
    {CreateRoom, JoinRoom, LeaveRoom, SwitchRoom, StartNetwork, Invitation,
     Save, LockVault, UnlockVault} \subseteq Scripts
  <1>1. CreateRoom \in Scripts
    BY HandlersWritten DEF Scripts, Follows, Endings, Steps
  <1>2. JoinRoom \in Scripts
    BY HandlersWritten DEF Scripts, Follows, Endings, Steps
  <1>3. LeaveRoom \in Scripts
    BY HandlersWritten DEF Scripts, Follows, Endings, Steps
  <1>4. SwitchRoom \in Scripts
    BY HandlersWritten DEF Scripts, Follows, Endings, Steps
  <1>5. StartNetwork \in Scripts
    BY HandlersWritten DEF Scripts, Follows, Endings, Steps
  <1>6. Invitation \in Scripts
    BY DEF Invitation, Scripts, Follows, Endings, Steps
  <1>7. Save \in Scripts
    BY DEF Save, Scripts, Follows, Endings, Steps
  <1>8. LockVault \in Scripts
    BY HandlersWritten DEF Scripts, Follows, Endings, Steps
  <1>9. UnlockVault \in Scripts
    BY DEF UnlockVault, Scripts, Follows, Endings, Steps
  <1> QED
    BY <1>1, <1>2, <1>3, <1>4, <1>5, <1>6, <1>7, <1>8, <1>9

\* The first step of each.
LEMMA HandlersStart ==
    /\ NextStep(CreateRoom) = "add" /\ NextStep(JoinRoom) = "check"
    /\ NextStep(LeaveRoom) = "remove" /\ NextStep(SwitchRoom) = "require"
    /\ NextStep(StartNetwork) = "launch" /\ NextStep(Invitation) = "addAbsent"
    /\ NextStep(Save) = "saveJoined" /\ NextStep(LockVault) = "saveJoined"
    /\ NextStep(UnlockVault) = "read"
  BY HandlersWritten DEF NextStep, Invitation, Save, UnlockVault

-----------------------------------------------------------------------------
(* A step moves one handler. *)

\* The handler of t goes from p to q.
Moved(t, p, q) ==
    /\ ~Idle(t) /\ NextStep(todo[t]) = p /\ NextStep(todo'[t]) = q
    /\ todo' \in [Tasks -> Seq(Steps)]
    /\ \A u \in Tasks : todo'[u] \in Scripts
    /\ \A u \in Tasks \ {t} : todo'[u] = todo[u]
    /\ UNCHANGED <<arg, used, calls, restarts, overlapped>>

LEMMA IdlePlace ==
    ASSUME NEW s \in Scripts
    PROVE  NextStep(s) = "idle" <=> s = << >>
  <1>1. s # << >> => NextStep(s) \in Steps \cup {"refocus"}
    BY ScriptStarts
  <1> QED
    BY <1>1 DEF NextStep, Steps

LEMMA TakeMoves ==
    ASSUME Typed, NEW t \in Tasks, NEW label, Take(t, label)
    PROVE  \E p, q : /\ Moved(t, p, q)
                     /\ <<p, q>> \in Moves
                     /\ p = label \/ (label = "focus" /\ p = "refocus")
  <1> DEFINE s == todo[t]
             u == Tail(s)
  <1>1. s \in Scripts /\ s # << >> /\ Head(s) = label
    BY DEF Take, Idle, Typed
  <1>2. u \in Scripts /\ <<NextStep(s), NextStep(u)>> \in Moves
    BY <1>1, ScriptTail
  <1>3. NextStep(s) = label \/ (label = "focus" /\ NextStep(s) = "refocus")
    BY <1>1, ScriptStarts
  <1>4. /\ todo \in [Tasks -> Seq(Steps)] /\ todo' = [todo EXCEPT ![t] = u]
        /\ UNCHANGED <<arg, used, calls, restarts, overlapped>>
    BY DEF Take, Typed, TypeOK
  <1>5. u \in Seq(Steps) /\ \A v \in Tasks : todo[v] \in Scripts
    BY <1>2 DEF Scripts, Typed
  <1>6. todo' \in [Tasks -> Seq(Steps)] /\ todo'[t] = u
        /\ \A v \in Tasks \ {t} : todo'[v] = todo[v]
    BY <1>4, <1>5
  <1>7. \A v \in Tasks : todo'[v] \in Scripts
    BY <1>2, <1>5, <1>6
  <1>8. Moved(t, NextStep(s), NextStep(u))
    BY <1>1, <1>4, <1>6, <1>7 DEF Moved, Idle
  <1> QED
    BY <1>2, <1>3, <1>8

LEMMA SkipMoves ==
    ASSUME Typed, NEW t \in Tasks, NEW label, NEW n \in Nat,
           ~Idle(t) => n < Len(todo[t]), TakeAndSkip(t, label, n)
    PROVE  \E p, q : /\ Moved(t, p, q)
                     /\ p = label \/ (label = "focus" /\ p = "refocus")
                     /\ n = 1 /\ p = "check" => q = "focus"
                     /\ n = 2 /\ p = "saveJoined" => q \in {"idle", "seal"}
                     /\ n = Len(todo[t]) - 1 => q = "idle"
  <1> DEFINE s == todo[t]
             u == SubSeq(s, n + 2, Len(s))
  <1>1. s \in Scripts /\ s # << >> /\ Head(s) = label
    BY DEF TakeAndSkip, Idle, Typed
  <1>2. Len(s) \in Nat \ {0} /\ n + 1 <= Len(s)
    <2>1. Len(s) \in Nat \ {0}
      BY <1>1, ScriptStarts
    <2>2. n < Len(s)
      BY DEF TakeAndSkip
    <2> QED
      BY <2>1, <2>2
  <1>3. NextStep(s) = label \/ (label = "focus" /\ NextStep(s) = "refocus")
    BY <1>1, ScriptStarts
  <1>4. /\ u \in Scripts
        /\ n = 1 /\ NextStep(s) = "check" => NextStep(u) = "focus"
        /\ n = 2 /\ NextStep(s) = "saveJoined" => NextStep(u) \in {"idle", "seal"}
        /\ n = Len(s) - 1 => NextStep(u) = "idle"
    <2> DEFINE k == n + 1
               w == SubSeq(s, (k - 1) + 2, Len(s))
    <2>1. k \in Nat /\ k > 0 /\ (k - 1) + 2 = n + 2 /\ k <= Len(s)
          /\ (n = 1 => k = 2) /\ (n = 2 => k = 3) /\ (n = Len(s) - 1 => k = Len(s))
      BY <1>2
    <2> HIDE DEF k, s
    <2>2. /\ w \in Scripts
          /\ k = 2 /\ NextStep(s) = "check" => NextStep(w) = "focus"
          /\ k = 3 /\ NextStep(s) = "saveJoined" => NextStep(w) \in {"idle", "seal"}
          /\ k = Len(s) => NextStep(w) = "idle"
      BY <1>1, <2>1, ScriptSkip, Zenon
    <2>3. w = u
      BY <2>1
    <2> QED
      BY <2>1, <2>2, <2>3
  <1>5. /\ todo \in [Tasks -> Seq(Steps)] /\ todo' = [todo EXCEPT ![t] = u]
        /\ UNCHANGED <<arg, used, calls, restarts, overlapped>>
    BY DEF TakeAndSkip, Typed, TypeOK
  <1>6. u \in Seq(Steps) /\ \A v \in Tasks : todo[v] \in Scripts
    BY <1>4 DEF Scripts, Typed
  <1> HIDE DEF u
  <1>7. todo' \in [Tasks -> Seq(Steps)] /\ todo'[t] = u
        /\ \A v \in Tasks \ {t} : todo'[v] = todo[v]
    BY <1>5, <1>6
  <1>8. \A v \in Tasks : todo'[v] \in Scripts
    BY <1>4, <1>6, <1>7
  <1>9. Moved(t, NextStep(s), NextStep(u))
    BY <1>1, <1>5, <1>7, <1>8 DEF Moved, Idle
  <1> QED
    BY <1>3, <1>4, <1>9

\* The places between which each step moves its handler.
LEMMA Places ==
    ASSUME Typed, NEW t \in Tasks
    PROVE  /\ Add(t) => Moved(t, "add", "focus")
           /\ AddAbsent(t) => Moved(t, "addAbsent", "focus")
           /\ Remove(t) => Moved(t, "remove", "unfocus")
           /\ Unfocus(t) => Moved(t, "unfocus", "unsubscribe")
           /\ Subscribe(t) => Moved(t, "subscribe", "saveJoined") \/ Moved(t, "subscribe", "idle")
           /\ Unsubscribe(t) => Moved(t, "unsubscribe", "saveJoined")
           /\ Launch(t) => Moved(t, "launch", "saveJoined")
           /\ SaveCurrent(t) => Moved(t, "saveCurrent", "write")
           /\ Write(t) => Moved(t, "write", "idle") \/ Moved(t, "write", "seal")
           /\ Seal(t) => Moved(t, "seal", "clearJoined")
           /\ ClearJoined(t) => Moved(t, "clearJoined", "clearCurrent")
           /\ ClearCurrent(t) => Moved(t, "clearCurrent", "idle")
           /\ Read(t) => Moved(t, "read", "loadJoined")
           /\ LoadJoined(t) => Moved(t, "loadJoined", "loadCurrent")
           /\ LoadCurrent(t) => Moved(t, "loadCurrent", "unseal")
           /\ Unseal(t) => Moved(t, "unseal", "idle")
           /\ Focus(t) => Moved(t, "focus", "subscribe") \/ Moved(t, "refocus", "saveJoined")
           /\ Check(t) => \/ ~IsJoined(arg[t]) /\ Moved(t, "check", "add")
                          \/ IsJoined(arg[t]) /\ Moved(t, "check", "focus")
           /\ Require(t) => \/ IsJoined(arg[t]) /\ Moved(t, "require", "refocus")
                            \/ Moved(t, "require", "idle")
           /\ SaveJoined(t) => \/ /\ unlocked /\ Moved(t, "saveJoined", "saveCurrent")
                                  /\ buf' = [buf EXCEPT ![t].joined = joined]
                               \/ /\ ~unlocked /\ UNCHANGED buf
                                  /\ \/ Moved(t, "saveJoined", "idle")
                                     \/ Moved(t, "saveJoined", "seal")
  <1>1. Add(t) => Moved(t, "add", "focus")
    BY TakeMoves DEF Add, Moves
  <1>2. AddAbsent(t) => Moved(t, "addAbsent", "focus")
    BY TakeMoves DEF AddAbsent, Moves
  <1>3. Remove(t) => Moved(t, "remove", "unfocus")
    BY TakeMoves DEF Remove, Moves
  <1>4. Unfocus(t) => Moved(t, "unfocus", "unsubscribe")
    BY TakeMoves DEF Unfocus, Moves
  <1>5. Subscribe(t) => Moved(t, "subscribe", "saveJoined") \/ Moved(t, "subscribe", "idle")
    BY TakeMoves DEF Subscribe, Enqueue, Moves
  <1>6. Unsubscribe(t) => Moved(t, "unsubscribe", "saveJoined")
    BY TakeMoves DEF Unsubscribe, Enqueue, Moves
  <1>7. Launch(t) => Moved(t, "launch", "saveJoined")
    BY TakeMoves DEF Launch, Moves
  <1>8. SaveCurrent(t) => Moved(t, "saveCurrent", "write")
    BY TakeMoves DEF SaveCurrent, Moves
  <1>9. Write(t) => Moved(t, "write", "idle") \/ Moved(t, "write", "seal")
    BY TakeMoves DEF Write, Moves
  <1>10. Seal(t) => Moved(t, "seal", "clearJoined")
    BY TakeMoves DEF Seal, Moves
  <1>11. ClearJoined(t) => Moved(t, "clearJoined", "clearCurrent")
    BY TakeMoves DEF ClearJoined, Moves
  <1>12. ClearCurrent(t) => Moved(t, "clearCurrent", "idle")
    BY TakeMoves DEF ClearCurrent, Moves
  <1>13. Read(t) => Moved(t, "read", "loadJoined")
    BY TakeMoves DEF Read, Moves
  <1>14. LoadJoined(t) => Moved(t, "loadJoined", "loadCurrent")
    BY TakeMoves DEF LoadJoined, Moves
  <1>15. LoadCurrent(t) => Moved(t, "loadCurrent", "unseal")
    BY TakeMoves DEF LoadCurrent, Moves
  <1>16. Unseal(t) => Moved(t, "unseal", "idle")
    BY TakeMoves DEF Unseal, Moves
  <1>17. Focus(t) => Moved(t, "focus", "subscribe") \/ Moved(t, "refocus", "saveJoined")
    BY TakeMoves DEF Focus, Moves
  <1>18. ASSUME Check(t)
         PROVE  \/ ~IsJoined(arg[t]) /\ Moved(t, "check", "add")
                \/ IsJoined(arg[t]) /\ Moved(t, "check", "focus")
    <2>1. CASE ~IsJoined(arg[t]) /\ Take(t, "check")
      BY <2>1, TakeMoves DEF Moves
    <2>2. CASE IsJoined(arg[t]) /\ TakeAndSkip(t, "check", 1)
      <3>1. ~Idle(t) /\ todo[t] \in Scripts /\ todo[t] # << >> /\ todo[t][1] = "check"
        BY <2>2, ScriptStarts DEF TakeAndSkip, Typed, Idle
      <3>2. 2 \in DOMAIN todo[t]
        BY <3>1, ScriptStarts DEF Endings
      <3>3. 1 < Len(todo[t])
        BY <3>1, <3>2, ScriptStarts
      <3> QED
        BY <2>2, <3>3, SkipMoves
    <2> QED
      BY <1>18, <2>1, <2>2 DEF Check
  <1>19. ASSUME Require(t)
         PROVE  \/ IsJoined(arg[t]) /\ Moved(t, "require", "refocus")
                \/ Moved(t, "require", "idle")
    <2>1. CASE IsJoined(arg[t]) /\ Take(t, "require")
      BY <2>1, TakeMoves DEF Moves
    <2>2. CASE TakeAndSkip(t, "require", Len(todo[t]) - 1)
      <3>1. Len(todo[t]) \in Nat \ {0}
        BY <2>2, ScriptStarts DEF TakeAndSkip, Typed, Idle
      <3>2. Len(todo[t]) - 1 \in Nat /\ Len(todo[t]) - 1 < Len(todo[t])
        BY <3>1
      <3> QED
        BY <2>2, <3>2, SkipMoves
    <2> QED
      BY <1>19, <2>1, <2>2 DEF Require
  <1>20. ASSUME SaveJoined(t)
         PROVE  \/ /\ unlocked /\ Moved(t, "saveJoined", "saveCurrent")
                   /\ buf' = [buf EXCEPT ![t].joined = joined]
                \/ /\ ~unlocked /\ UNCHANGED buf
                   /\ \/ Moved(t, "saveJoined", "idle")
                      \/ Moved(t, "saveJoined", "seal")
    <2>1. CASE unlocked /\ Take(t, "saveJoined") /\ buf' = [buf EXCEPT ![t].joined = joined]
      BY <2>1, TakeMoves DEF Moves
    <2>2. CASE ~unlocked /\ TakeAndSkip(t, "saveJoined", 2) /\ UNCHANGED buf
      <3>1. ~Idle(t) /\ todo[t] \in Scripts /\ todo[t] # << >> /\ todo[t][1] = "saveJoined"
        BY <2>2, ScriptStarts DEF TakeAndSkip, Typed, Idle
      <3>2. 2 \in DOMAIN todo[t] /\ todo[t][2] = "saveCurrent"
        BY <3>1, ScriptStarts DEF Endings, Follows
      <3>3. 3 \in DOMAIN todo[t]
        BY <3>1, <3>2, ScriptStarts DEF Endings
      <3>4. 2 < Len(todo[t])
        BY <3>1, <3>3, ScriptStarts
      <3> QED
        BY <2>2, <3>4, SkipMoves
    <2> QED
      BY <1>20, <2>1, <2>2 DEF SaveJoined
  <1> QED
    BY <1>1, <1>2, <1>3, <1>4, <1>5, <1>6, <1>7, <1>8, <1>9, <1>10, <1>11, <1>12, <1>13, <1>14, <1>15, <1>16, <1>17,
       <1>18, <1>19, <1>20

-----------------------------------------------------------------------------
(* What a step has to show. *)

Data ==
    /\ joined \in Seq(RoomIds) /\ current \in RoomOrNone
    /\ queue \in Seq([type : {"join", "leave"}, room : RoomIds])
    /\ subscribed \in SUBSET RoomIds
    /\ network \in BOOLEAN /\ unlocked \in BOOLEAN
    /\ saved \in RoomData
    /\ buf \in [Tasks -> RoomData]
    /\ reloaded \in BOOLEAN

\* The places at which the handler's room is used are followed by none but
\* such places, by the saves and by the end.
LEMMA MovedTyped ==
    ASSUME Typed, NEW t \in Tasks, NEW p, NEW q, Moved(t, p, q), Data',
           q \in Untold \cup {"require", "refocus"} => p \in Untold \cup {"require", "refocus"}
    PROVE  Typed'
  <1>1. TypeOK'
    BY DEF Typed, TypeOK, Moved, Data
  <1>2. ASSUME NEW u \in Tasks
        PROVE  /\ todo'[u] \in Scripts
               /\ Place(u)' \in Untold \cup {"require", "refocus"} => arg'[u] \in RoomIds
    BY DEF Typed, Moved, Place
  <1> QED
    BY <1>1, <1>2 DEF Typed

\* While handlers run one at a time, the one that moves is alone, and what it
\* shows of its next place is the invariant.
LEMMA MovedAlone ==
    ASSUME Typed, OneHandler, NEW t \in Tasks, NEW p, NEW q, Moved(t, p, q),
           ~overlapped
    PROVE  /\ VaultSound /\ Standing(t, p) /\ Covered(t, p)
           /\ \A u \in Tasks \ {t} : Idle(u) /\ Idle(u)'
           /\ ~Idle(t) /\ (Idle(t)' <=> q = "idle")
  <1>1. ~Idle(t) /\ Place(t) = p /\ todo'[t] \in Scripts
    BY DEF Moved, Place
  <1>2. \A u \in Tasks \ {t} : Idle(u) /\ Idle(u)'
    BY <1>1 DEF OneHandler, Alone, Moved, Idle
  <1>3. Idle(t)' <=> q = "idle"
    BY <1>1, IdlePlace DEF Moved, Idle
  <1> QED
    BY <1>1, <1>2, <1>3 DEF OneHandler

LEMMA MovedOne ==
    ASSUME Typed, OneHandler, NEW t \in Tasks, NEW p, NEW q, Moved(t, p, q),
           ~overlapped => VaultSound' /\ Standing(t, q)' /\ Covered(t, q)'
    PROVE  OneHandler'
  <1> SUFFICES ASSUME ~overlapped
               PROVE  /\ Alone'
                      /\ VaultSound'
                      /\ \A u \in Tasks : ~Idle(u)' => Standing(u, Place(u))' /\ Covered(u, Place(u))'
                      /\ AllIdle' => CurrentJoined' /\ Covered(Events, "idle")'
    BY DEF OneHandler, Moved
  <1>1. /\ \A u \in Tasks \ {t} : Idle(u)'
        /\ Idle(t)' <=> q = "idle"
    BY MovedAlone
  <1>2. Alone'
    BY <1>1 DEF Alone
  <1>3. ASSUME NEW u \in Tasks, ~Idle(u)'
        PROVE  Standing(u, Place(u))' /\ Covered(u, Place(u))'
    <2>1. u = t /\ Place(t)' = q
      BY <1>1, <1>3 DEF Moved, Place
    <2> QED
      BY <2>1 DEF Standing, Covered
  <1>4. ASSUME AllIdle'
        PROVE  CurrentJoined' /\ Covered(Events, "idle")'
    <2>1. q = "idle" /\ Standing(t, q)' /\ Covered(t, q)'
      BY <1>1, <1>4 DEF AllIdle
    <2>2. CurrentJoined'
      BY <2>1 DEF Standing
    <2>3. Covered(Events, "idle")'
      BY <2>1 DEF Covered
    <2> QED
      BY <2>2, <2>3
  <1> QED
    BY <1>2, <1>3, <1>4

LEMMA MovedTopics ==
    ASSUME Typed, OneHandler, Topics, NEW t \in Tasks, NEW p, NEW q, Moved(t, p, q),
           ~network' => queue' = << >> /\ subscribed' = {},
           (/\ ~overlapped /\ ~reloaded' /\ network'
            /\ ~reloaded /\ network => TopicsAgree(t, p)) => TopicsAgree(t, q)'
    PROVE  Topics'
  <1> SUFFICES ASSUME ~overlapped, ~reloaded', network'
               PROVE  /\ \A u \in Tasks : Idle(u)' \/ TopicsAgree(u, Place(u))'
                      /\ AllIdle' => TopicsAgree(Events, "idle")'
    BY DEF Topics, Moved
  <1>1. /\ \A u \in Tasks \ {t} : Idle(u)'
        /\ Idle(t)' <=> q = "idle"
        /\ ~Idle(t) /\ Place(t) = p /\ Place(t)' = q
    BY MovedAlone DEF Moved, Place
  <1>2. ~reloaded /\ network => TopicsAgree(t, p)
    BY <1>1 DEF Topics
  <1>3. TopicsAgree(t, q)'
    BY <1>2
  <1>4. ASSUME NEW u \in Tasks, ~Idle(u)'
        PROVE  TopicsAgree(u, Place(u))'
    <2>1. u = t
      BY <1>1, <1>4
    <2> QED
      BY <1>1, <1>3, <2>1 DEF TopicsAgree
  <1>5. ASSUME AllIdle'
        PROVE  TopicsAgree(Events, "idle")'
    <2>1. q = "idle"
      BY <1>1, <1>5 DEF AllIdle
    <2> QED
      BY <1>3, <2>1 DEF TopicsAgree, Untold
  <1> QED
    BY <1>4, <1>5

\* The room of a handler that is about one.
LEMMA RoomKnown ==
    ASSUME Typed, NEW t \in Tasks, NEW p, NEW q, Moved(t, p, q),
           p \in Untold \cup {"require", "refocus"}
    PROVE  arg[t] \in RoomIds
  BY DEF Typed, Moved, Place

LEMMA TypedStep ==
    ASSUME Typed, NEW t \in Tasks, Step(t)
    PROVE  Typed'
  <1>1. Data
    BY DEF Typed, TypeOK, Data
  <1>2. ASSUME Add(t)
         PROVE  Typed'
    <2>1. Moved(t, "add", "focus")
      BY <1>2, Places
    <2>2. arg[t] \in RoomIds
      BY <2>1, RoomKnown DEF Untold
    <2>3. Append(joined, arg[t]) \in Seq(RoomIds)
      BY <1>1, <2>2, AppendHas DEF Data
    <2>4. Data'
      BY <1>1, <1>2, <2>3 DEF Add, Data
    <2> QED
      BY <2>1, <2>4, MovedTyped DEF Untold
  <1>3. ASSUME AddAbsent(t)
         PROVE  Typed'
    <2>1. Moved(t, "addAbsent", "focus")
      BY <1>3, Places
    <2>2. arg[t] \in RoomIds
      BY <2>1, RoomKnown DEF Untold
    <2>3. Append(joined, arg[t]) \in Seq(RoomIds)
      BY <1>1, <2>2, AppendHas DEF Data
    <2>4. Data'
      BY <1>1, <1>3, <2>3 DEF AddAbsent, Data
    <2> QED
      BY <2>1, <2>4, MovedTyped DEF Untold
  <1>4. ASSUME Remove(t)
         PROVE  Typed'
    <2>1. Moved(t, "remove", "unfocus")
      BY <1>4, Places
    <2>2. Retain(joined, RoomIds \ {arg[t]}) \in Seq(RoomIds)
      BY <1>1, RetainHas DEF Data
    <2>3. Data'
      BY <1>1, <1>4, <2>2 DEF Remove, Data
    <2> QED
      BY <2>1, <2>3, MovedTyped DEF Untold
  <1>5. ASSUME Unfocus(t)
         PROVE  Typed'
    <2>1. Moved(t, "unfocus", "unsubscribe")
      BY <1>5, Places
    <2>2. Data'
      BY <1>1, <1>5 DEF Unfocus, Data, state, RoomData, RoomOrNone
    <2> QED
      BY <2>1, <2>2, MovedTyped DEF Untold
  <1>6. ASSUME Focus(t)
         PROVE  Typed'
    <2>1. Moved(t, "focus", "subscribe") \/ Moved(t, "refocus", "saveJoined")
      BY <1>6, Places
    <2>2. arg[t] \in RoomIds
      BY <2>1, RoomKnown DEF Untold
    <2>3. Data'
      BY <1>1, <1>6, <2>2 DEF Focus, Data, RoomOrNone
    <2> QED
      BY <2>1, <2>3, MovedTyped DEF Untold
  <1>7. ASSUME Subscribe(t)
         PROVE  Typed'
    <2>1. Moved(t, "subscribe", "saveJoined") \/ Moved(t, "subscribe", "idle")
      BY <1>7, Places
    <2>2. arg[t] \in RoomIds
      BY <2>1, RoomKnown DEF Untold
    <2> DEFINE C == [type : {"join", "leave"}, room : RoomIds]
    <2>3. /\ [type |-> "join", room |-> arg[t]] \in C
          /\ [type |-> "leave", room |-> arg[t]] \in C
      BY <2>2
    <2>4. queue' \in Seq(C)
      <3>1. queue \in Seq(C)
        BY <1>1 DEF Data
      <3> HIDE DEF C
      <3>2. /\ Append(queue, [type |-> "join", room |-> arg[t]]) \in Seq(C)
            /\ Append(queue, [type |-> "leave", room |-> arg[t]]) \in Seq(C)
        BY <2>3, <3>1, AppendHas
      <3> QED
        BY <1>7, <3>1, <3>2 DEF Subscribe, Enqueue
    <2>5. Data'
      BY <1>1, <1>7, <2>4 DEF Subscribe, Enqueue, Data
    <2> QED
      BY <2>1, <2>5, MovedTyped DEF Untold
  <1>8. ASSUME Unsubscribe(t)
         PROVE  Typed'
    <2>1. Moved(t, "unsubscribe", "saveJoined")
      BY <1>8, Places
    <2>2. arg[t] \in RoomIds
      BY <2>1, RoomKnown DEF Untold
    <2> DEFINE C == [type : {"join", "leave"}, room : RoomIds]
    <2>3. /\ [type |-> "join", room |-> arg[t]] \in C
          /\ [type |-> "leave", room |-> arg[t]] \in C
      BY <2>2
    <2>4. queue' \in Seq(C)
      <3>1. queue \in Seq(C)
        BY <1>1 DEF Data
      <3> HIDE DEF C
      <3>2. /\ Append(queue, [type |-> "join", room |-> arg[t]]) \in Seq(C)
            /\ Append(queue, [type |-> "leave", room |-> arg[t]]) \in Seq(C)
        BY <2>3, <3>1, AppendHas
      <3> QED
        BY <1>8, <3>1, <3>2 DEF Unsubscribe, Enqueue
    <2>5. Data'
      BY <1>1, <1>8, <2>4 DEF Unsubscribe, Enqueue, Data
    <2> QED
      BY <2>1, <2>5, MovedTyped DEF Untold
  <1>9. ASSUME Launch(t)
         PROVE  Typed'
    <2>1. Moved(t, "launch", "saveJoined")
      BY <1>9, Places
    <2>2. Data'
      BY <1>1, <1>9 DEF Launch, Data, state, RoomData, RoomOrNone
    <2> QED
      BY <2>1, <2>2, MovedTyped DEF Untold
  <1>10. ASSUME SaveCurrent(t)
         PROVE  Typed'
    <2>1. Moved(t, "saveCurrent", "write")
      BY <1>10, Places
    <2>2. buf' \in [Tasks -> RoomData]
      BY <1>1, <1>10 DEF SaveCurrent, Data, RoomData
    <2>3. Data'
      BY <1>1, <1>10, <2>2 DEF SaveCurrent, Data, state
    <2> QED
      BY <2>1, <2>3, MovedTyped DEF Untold
  <1>11. ASSUME Write(t)
         PROVE  Typed'
    <2>1. Moved(t, "write", "idle") \/ Moved(t, "write", "seal")
      BY <1>11, Places
    <2>2. Data'
      BY <1>1, <1>11 DEF Write, Data, state, RoomData, RoomOrNone
    <2> QED
      BY <2>1, <2>2, MovedTyped DEF Untold
  <1>12. ASSUME Seal(t)
         PROVE  Typed'
    <2>1. Moved(t, "seal", "clearJoined")
      BY <1>12, Places
    <2>2. Data'
      BY <1>1, <1>12 DEF Seal, Data, state, RoomData, RoomOrNone
    <2> QED
      BY <2>1, <2>2, MovedTyped DEF Untold
  <1>13. ASSUME ClearJoined(t)
         PROVE  Typed'
    <2>1. Moved(t, "clearJoined", "clearCurrent")
      BY <1>13, Places
    <2>2. Data'
      BY <1>1, <1>13 DEF ClearJoined, Data, state, RoomData, RoomOrNone
    <2> QED
      BY <2>1, <2>2, MovedTyped DEF Untold
  <1>14. ASSUME ClearCurrent(t)
         PROVE  Typed'
    <2>1. Moved(t, "clearCurrent", "idle")
      BY <1>14, Places
    <2>2. Data'
      BY <1>1, <1>14 DEF ClearCurrent, Data, state, RoomData, RoomOrNone
    <2> QED
      BY <2>1, <2>2, MovedTyped DEF Untold
  <1>15. ASSUME Read(t)
         PROVE  Typed'
    <2>1. Moved(t, "read", "loadJoined")
      BY <1>15, Places
    <2>2. Data'
      BY <1>1, <1>15 DEF Read, Data, state, RoomData, RoomOrNone
    <2> QED
      BY <2>1, <2>2, MovedTyped DEF Untold
  <1>16. ASSUME LoadJoined(t)
         PROVE  Typed'
    <2>1. Moved(t, "loadJoined", "loadCurrent")
      BY <1>16, Places
    <2>2. Data'
      BY <1>1, <1>16 DEF LoadJoined, Data, state, RoomData, RoomOrNone
    <2> QED
      BY <2>1, <2>2, MovedTyped DEF Untold
  <1>17. ASSUME LoadCurrent(t)
         PROVE  Typed'
    <2>1. Moved(t, "loadCurrent", "unseal")
      BY <1>17, Places
    <2>2. Data'
      BY <1>1, <1>17 DEF LoadCurrent, Data, state, RoomData, RoomOrNone
    <2> QED
      BY <2>1, <2>2, MovedTyped DEF Untold
  <1>18. ASSUME Unseal(t)
         PROVE  Typed'
    <2>1. Moved(t, "unseal", "idle")
      BY <1>18, Places
    <2>2. Data'
      BY <1>1, <1>18 DEF Unseal, Data, state, RoomData, RoomOrNone
    <2> QED
      BY <2>1, <2>2, MovedTyped DEF Untold
  <1>19. ASSUME Check(t)
         PROVE  Typed'
    <2>1. Moved(t, "check", "add") \/ Moved(t, "check", "focus")
      BY <1>19, Places
    <2>2. Data'
      BY <1>1, <1>19 DEF Check, Data, state, RoomData, RoomOrNone
    <2> QED
      BY <2>1, <2>2, MovedTyped DEF Untold
  <1>20. ASSUME Require(t)
         PROVE  Typed'
    <2>1. Moved(t, "require", "refocus") \/ Moved(t, "require", "idle")
      BY <1>20, Places
    <2>2. Data'
      BY <1>1, <1>20 DEF Require, Data, state, RoomData, RoomOrNone
    <2> QED
      BY <2>1, <2>2, MovedTyped DEF Untold
  <1>21. ASSUME SaveJoined(t)
         PROVE  Typed'
    <2>1. \/ Moved(t, "saveJoined", "saveCurrent")
          \/ Moved(t, "saveJoined", "idle")
          \/ Moved(t, "saveJoined", "seal")
      BY <1>21, Places
    <2>2. buf' \in [Tasks -> RoomData]
      BY <1>1, <1>21 DEF SaveJoined, Data, RoomData
    <2>3. Data'
      BY <1>1, <1>21, <2>2 DEF SaveJoined, Data, state
    <2> QED
      BY <2>1, <2>3, MovedTyped DEF Untold
  <1> QED
    BY <1>2, <1>3, <1>4, <1>5, <1>6, <1>7, <1>8, <1>9, <1>10, <1>11, <1>12, <1>13, <1>14,
       <1>15, <1>16, <1>17, <1>18, <1>19, <1>20, <1>21 DEF Step

LEMMA InUseStep ==
    ASSUME Typed, InUse, NEW t \in Tasks, Step(t)
    PROVE  InUse'
  <1>1. Data /\ UNCHANGED <<arg, used>>
    <2>1. Data
      BY DEF Typed, TypeOK, Data
    <2>2. UNCHANGED <<arg, used>>
      BY Places DEF Moved, Step
    <2> QED
      BY <2>1, <2>2
  <1>2. /\ Range(joined) \subseteq used /\ Range(saved.joined) \subseteq used
        /\ \A u \in Tasks : Range(buf[u].joined) \subseteq used
        /\ \A u \in Tasks : {arg[u]} \ {None} \subseteq used
    BY DEF InUse
  <1>3. Range(joined') \subseteq used
    <2>1. CASE Add(t) \/ AddAbsent(t)
      <3>1. arg[t] \in RoomIds
        BY <2>1, Places, RoomKnown DEF Untold
      <3>2. Range(Append(joined, arg[t])) = Range(joined) \cup {arg[t]}
        BY <1>1, <3>1, AppendHas DEF Data
      <3>3. joined' \in {joined, Append(joined, arg[t])} /\ arg[t] \in used
        BY <1>2, <2>1, <3>1, RoomAssumption DEF Add, AddAbsent
      <3> QED
        BY <1>2, <3>2, <3>3
    <2>2. CASE Remove(t)
      <3>1. Range(joined') \subseteq Range(joined)
        BY <1>1, <2>2, RetainHas DEF Remove, Data
      <3> QED
        BY <1>2, <3>1
    <2>3. CASE ClearJoined(t)
      BY <2>3 DEF ClearJoined, Range
    <2>4. CASE LoadJoined(t)
      BY <1>2, <2>4 DEF LoadJoined
    <2>5. CASE UNCHANGED joined
      BY <1>2, <2>5
    <2> QED
      BY <2>1, <2>2, <2>3, <2>4, <2>5
      DEF Step, Check, Require, Focus, Unfocus, Subscribe, Unsubscribe, Enqueue,
          Launch, SaveJoined, SaveCurrent, Write, Seal, ClearCurrent, Read,
          LoadCurrent, Unseal, state
  <1>4. Range(saved'.joined) \subseteq used
    <2>1. CASE Write(t)
      BY <1>2, <2>1 DEF Write
    <2>2. CASE UNCHANGED saved
      BY <1>2, <2>2
    <2> QED
      BY <2>1, <2>2
      DEF Step, Add, Check, AddAbsent, Require, Focus, Remove, Unfocus, Subscribe,
          Unsubscribe, Enqueue, Launch, SaveJoined, SaveCurrent, Seal, ClearJoined,
          ClearCurrent, Read, LoadJoined, LoadCurrent, Unseal, state
  <1>5. \A u \in Tasks : Range(buf'[u].joined) \subseteq used
    <2>1. CASE SaveJoined(t)
      BY <1>1, <1>2, <2>1 DEF SaveJoined, Data, RoomData
    <2>2. CASE SaveCurrent(t)
      BY <1>1, <1>2, <2>2 DEF SaveCurrent, Data, RoomData
    <2>3. CASE Read(t)
      BY <1>1, <1>2, <2>3 DEF Read, Data, RoomData
    <2>4. CASE UNCHANGED buf
      BY <1>2, <2>4
    <2> QED
      BY <2>1, <2>2, <2>3, <2>4
      DEF Step, Add, Check, AddAbsent, Require, Focus, Remove, Unfocus, Subscribe,
          Unsubscribe, Enqueue, Launch, Write, Seal, ClearJoined, ClearCurrent,
          LoadJoined, LoadCurrent, Unseal
  <1> QED
    BY <1>1, <1>2, <1>3, <1>4, <1>5 DEF InUse

-----------------------------------------------------------------------------
(* A handler begins. *)

\* What the calls have in common.
Begins(t, steps, r) ==
    /\ Begin(t, steps, r)
    /\ steps \in Scripts /\ steps # << >> /\ r \in RoomOrNone
    /\ NextStep(steps) \in {"add", "check", "remove", "require", "launch",
                            "addAbsent", "saveJoined", "read"}
    /\ NextStep(steps) \in {"add", "check", "remove", "require", "addAbsent"}
          => r \in RoomIds
    /\ NextStep(steps) = "add" => r \notin used
    /\ NextStep(steps) = "read" => ~unlocked

LEMMA CallsBegin ==
    ASSUME Typed, NEW t \in Tasks,
           Call(t) \/ CallSave(t) \/ (t = Events /\ ReceiveInvitation)
    PROVE  \E steps, r : Begins(t, steps, r)
  <1>1. {CreateRoom, JoinRoom, LeaveRoom, SwitchRoom, StartNetwork, Invitation,
         Save, LockVault, UnlockVault} \subseteq Scripts
    BY HandlersScripts
  <1>2. /\ CreateRoom # << >> /\ JoinRoom # << >> /\ LeaveRoom # << >>
        /\ SwitchRoom # << >> /\ StartNetwork # << >> /\ Invitation # << >>
        /\ Save # << >> /\ LockVault # << >> /\ UnlockVault # << >>
    BY <1>1, HandlersStart, IdlePlace
  <1>3. used \subseteq RoomIds
    BY DEF Typed, TypeOK
  <1>4. ASSUME CallCreate(t)
        PROVE  \E steps, r : Begins(t, steps, r)
    <2>1. PICK r \in RoomIds \ used : Begin(t, CreateRoom, r)
      BY <1>4 DEF CallCreate
    <2>2. Begins(t, CreateRoom, r)
      BY <1>1, <1>2, <2>1, HandlersStart DEF Begins, RoomOrNone
    <2> QED
      BY <2>2
  <1>5. ASSUME CallJoin(t)
        PROVE  \E steps, r : Begins(t, steps, r)
    <2>1. PICK r \in RoomIds : Begin(t, JoinRoom, r)
      BY <1>5 DEF CallJoin
    <2>2. Begins(t, JoinRoom, r)
      BY <1>1, <1>2, <2>1, HandlersStart DEF Begins, RoomOrNone
    <2> QED
      BY <2>2
  <1>6. ASSUME CallLeave(t)
        PROVE  \E steps, r : Begins(t, steps, r)
    <2>1. PICK r \in used : Begin(t, LeaveRoom, r)
      BY <1>6 DEF CallLeave
    <2>2. Begins(t, LeaveRoom, r)
      BY <1>1, <1>2, <1>3, <2>1, HandlersStart DEF Begins, RoomOrNone
    <2> QED
      BY <2>2
  <1>7. ASSUME CallSwitch(t)
        PROVE  \E steps, r : Begins(t, steps, r)
    <2>1. PICK r \in used : Begin(t, SwitchRoom, r)
      BY <1>7 DEF CallSwitch
    <2>2. Begins(t, SwitchRoom, r)
      BY <1>1, <1>2, <1>3, <2>1, HandlersStart DEF Begins, RoomOrNone
    <2> QED
      BY <2>2
  <1>8. ASSUME CallStart(t)
        PROVE  \E steps, r : Begins(t, steps, r)
    <2>1. Begins(t, StartNetwork, None)
      BY <1>1, <1>2, <1>8, HandlersStart DEF CallStart, Begins, RoomOrNone
    <2> QED
      BY <2>1
  <1>9. ASSUME CallLock(t)
        PROVE  \E steps, r : Begins(t, steps, r)
    <2>1. Begins(t, LockVault, None)
      BY <1>1, <1>2, <1>9, HandlersStart DEF CallLock, Begins, RoomOrNone
    <2> QED
      BY <2>1
  <1>10. ASSUME CallUnlock(t)
         PROVE  \E steps, r : Begins(t, steps, r)
    <2>1. Begins(t, UnlockVault, None)
      BY <1>1, <1>2, <1>10, HandlersStart DEF CallUnlock, Begins, RoomOrNone
    <2> QED
      BY <2>1
  <1>11. ASSUME CallSave(t)
         PROVE  \E steps, r : Begins(t, steps, r)
    <2>1. Begins(t, Save, None)
      BY <1>1, <1>2, <1>11, HandlersStart DEF CallSave, Begins, RoomOrNone
    <2> QED
      BY <2>1
  <1>12. ASSUME t = Events, ReceiveInvitation
         PROVE  \E steps, r : Begins(t, steps, r)
    <2>1. PICK r \in RoomIds : Begin(Events, Invitation, r)
      BY <1>12 DEF ReceiveInvitation
    <2>2. Begins(t, Invitation, r)
      BY <1>1, <1>2, <1>12, <2>1, HandlersStart DEF Begins, RoomOrNone
    <2> QED
      BY <2>2
  <1> QED
    BY <1>4, <1>5, <1>6, <1>7, <1>8, <1>9, <1>10, <1>11, <1>12 DEF Call

LEMMA BeginTyped ==
    ASSUME Typed, InUse, NEW t \in Tasks, NEW steps, NEW r, Begins(t, steps, r)
    PROVE  Typed' /\ InUse'
  <1>1. /\ steps \in Seq(Steps)
        /\ r \in RoomOrNone
        /\ todo' = [todo EXCEPT ![t] = steps]
        /\ arg' = [arg EXCEPT ![t] = r]
        /\ used' = used \cup ({r} \ {None})
        /\ overlapped' = (overlapped \/ \E u \in Tasks \ {t} : ~Idle(u))
        /\ calls < MaxCalls /\ calls' = calls + 1
        /\ UNCHANGED <<state, buf, restarts, reloaded>>
    BY DEF Begins, Begin, Scripts
  <1>2. TypeOK
    BY DEF Typed
  <1>3. TypeOK'
    <2>1. todo' \in [Tasks -> Seq(Steps)] /\ arg' \in [Tasks -> RoomOrNone]
      BY <1>1, <1>2 DEF TypeOK
    <2>2. used' \in SUBSET RoomIds
      BY <1>1, <1>2 DEF TypeOK, RoomOrNone
    <2>3. calls' \in 0..MaxCalls
      BY <1>1, <1>2, RoomAssumption DEF TypeOK
    <2>4. overlapped' \in BOOLEAN
      BY <1>1, <1>2 DEF TypeOK
    <2> QED
      BY <1>1, <1>2, <2>1, <2>2, <2>3, <2>4 DEF TypeOK, state
  <1>4. ASSUME NEW u \in Tasks
        PROVE  /\ todo'[u] \in Scripts
               /\ Place(u)' \in Untold \cup {"require", "refocus"} => arg'[u] \in RoomIds
    <2>1. CASE u = t
      <3>1. todo'[u] = steps /\ arg'[u] = r
        BY <1>1, <1>2, <2>1 DEF TypeOK
      <3> QED
        BY <3>1 DEF Begins, Place, Untold
    <2>2. CASE u # t
      <3>1. todo'[u] = todo[u] /\ arg'[u] = arg[u]
        BY <1>1, <1>2, <2>2 DEF TypeOK
      <3> QED
        BY <3>1 DEF Typed, Place
    <2> QED
      BY <2>1, <2>2
  <1>5. InUse'
    BY <1>1, <1>2 DEF InUse, TypeOK, state
  <1> QED
    BY <1>3, <1>4, <1>5 DEF Typed

-----------------------------------------------------------------------------
(* One handler at a time. *)

LEMMA BeginOne ==
    ASSUME Typed, InUse, OneHandler, NEW t \in Tasks, NEW steps, NEW r,
           Begins(t, steps, r)
    PROVE  OneHandler'
  <1> SUFFICES ASSUME ~overlapped'
               PROVE  /\ Alone' /\ VaultSound' /\ ~AllIdle'
                      /\ \A u \in Tasks : ~Idle(u)' =>
                            Standing(u, Place(u))' /\ Covered(u, Place(u))'
    BY DEF OneHandler
  <1>1. /\ ~overlapped /\ UNCHANGED <<state, buf>>
        /\ \A u \in Tasks \ {t} : Idle(u) /\ todo'[u] = todo[u]
        /\ Idle(t) /\ todo'[t] = steps /\ arg'[t] = r
    BY DEF Begins, Begin, Typed, TypeOK
  <1>2. /\ VaultSound /\ CurrentJoined /\ Covered(Events, "idle")
    BY <1>1 DEF OneHandler, AllIdle
  <1>3. /\ \A u \in Tasks \ {t} : Idle(u)'
        /\ ~Idle(t)'
    BY <1>1 DEF Idle, Begins
  <1>4. Alone' /\ ~AllIdle'
    BY <1>3 DEF Alone, AllIdle
  <1>5. VaultSound'
    BY <1>1, <1>2 DEF VaultSound, state
  <1>6. Place(t)' \in {"add", "check", "remove", "require", "launch",
                      "addAbsent", "saveJoined", "read"}
        /\ Place(t)' = NextStep(steps)
    BY <1>1 DEF Begins, Place
  <1>7. Standing(t, Place(t))'
    <2>1. Place(t)' = "add" => ~IsJoined(arg[t])'
      BY <1>1, <1>6 DEF Begins, InUse, IsJoined, state
    <2>2. Place(t)' = "read" => ~unlocked'
      BY <1>1, <1>6 DEF Begins, state
    <2>3. CurrentJoined'
      BY <1>1, <1>2 DEF CurrentJoined, state
    <2> QED
      BY <1>6, <2>1, <2>2, <2>3 DEF Standing
  <1>8. Covered(t, Place(t))'
    BY <1>1, <1>2 DEF Covered, IsJoined, state
  <1> QED
    BY <1>3, <1>4, <1>5, <1>7, <1>8

LEMMA OneStep ==
    ASSUME Typed, OneHandler, NEW t \in Tasks, Step(t)
    PROVE  OneHandler'
  <1>1. Data
    BY DEF Typed, TypeOK, Data
  <1>2. ASSUME Add(t)
         PROVE  OneHandler'
    <2>1. ASSUME Moved(t, "add", "focus")
          PROVE  OneHandler'
      <3> SUFFICES ASSUME ~overlapped
                   PROVE  VaultSound' /\ Standing(t, "focus")' /\ Covered(t, "focus")'
        BY <2>1, MovedOne
      <3>1. /\ VaultSound /\ Standing(t, "add") /\ Covered(t, "add")
            /\ arg' = arg
        BY <2>1, MovedAlone DEF Moved
      <3>2. arg[t] \in RoomIds
        BY <2>1, RoomKnown DEF Untold
      <3>3. /\ Range(Append(joined, arg[t])) = Range(joined) \cup {arg[t]}
            /\ ~IsJoined(arg[t]) => Distinct(Append(joined, arg[t]))
        BY <1>1, <3>1, <3>2, AppendHas DEF Data, VaultSound, IsJoined
      <3> QED
        BY <1>1, <1>2, <2>1, <3>1, <3>3
        DEF Add, VaultSound, Standing, Covered, CurrentJoined, IsJoined, state
    <2> QED
      BY <1>2, <2>1, Places
  <1>3. ASSUME AddAbsent(t)
         PROVE  OneHandler'
    <2>1. ASSUME Moved(t, "addAbsent", "focus")
          PROVE  OneHandler'
      <3> SUFFICES ASSUME ~overlapped
                   PROVE  VaultSound' /\ Standing(t, "focus")' /\ Covered(t, "focus")'
        BY <2>1, MovedOne
      <3>1. /\ VaultSound /\ Standing(t, "addAbsent") /\ Covered(t, "addAbsent")
            /\ arg' = arg
        BY <2>1, MovedAlone DEF Moved
      <3>2. arg[t] \in RoomIds
        BY <2>1, RoomKnown DEF Untold
      <3>3. /\ Range(Append(joined, arg[t])) = Range(joined) \cup {arg[t]}
            /\ ~IsJoined(arg[t]) => Distinct(Append(joined, arg[t]))
        BY <1>1, <3>1, <3>2, AppendHas DEF Data, VaultSound, IsJoined
      <3> QED
        BY <1>1, <1>3, <2>1, <3>1, <3>3
        DEF AddAbsent, VaultSound, Standing, Covered, CurrentJoined, IsJoined, state
    <2> QED
      BY <1>3, <2>1, Places
  <1>4. ASSUME Remove(t)
         PROVE  OneHandler'
    <2>1. ASSUME Moved(t, "remove", "unfocus")
          PROVE  OneHandler'
      <3> SUFFICES ASSUME ~overlapped
                   PROVE  VaultSound' /\ Standing(t, "unfocus")' /\ Covered(t, "unfocus")'
        BY <2>1, MovedOne
      <3>1. /\ VaultSound /\ Standing(t, "remove") /\ Covered(t, "remove")
            /\ arg' = arg
        BY <2>1, MovedAlone DEF Moved
      <3>2. /\ Range(joined') = Range(joined) \ {arg[t]}
            /\ Distinct(joined')
        <4>1. Range(joined) \subseteq RoomIds
          BY <1>1, LenProperties DEF Data, Range
        <4> QED
          BY <1>1, <1>4, <3>1, <4>1, RetainHas DEF Remove, Data, VaultSound
      <3> QED
        BY <1>1, <1>4, <2>1, <3>1, <3>2
        DEF Remove, VaultSound, Standing, Covered, CurrentJoined, IsJoined, state
    <2> QED
      BY <1>4, <2>1, Places
  <1>5. ASSUME Unfocus(t)
         PROVE  OneHandler'
    <2>1. ASSUME Moved(t, "unfocus", "unsubscribe")
          PROVE  OneHandler'
      <3> SUFFICES ASSUME ~overlapped
                   PROVE  VaultSound' /\ Standing(t, "unsubscribe")' /\ Covered(t, "unsubscribe")'
        BY <2>1, MovedOne
      <3>1. /\ VaultSound /\ Standing(t, "unfocus") /\ Covered(t, "unfocus")
            /\ arg' = arg
        BY <2>1, MovedAlone DEF Moved
      <3> QED
        BY <1>1, <1>5, <2>1, <3>1
        DEF Unfocus, VaultSound, Standing, Covered, CurrentJoined, IsJoined, state
    <2> QED
      BY <1>5, <2>1, Places
  <1>6. ASSUME Focus(t)
         PROVE  OneHandler'
    <2>1. ASSUME Moved(t, "focus", "subscribe")
          PROVE  OneHandler'
      <3> SUFFICES ASSUME ~overlapped
                   PROVE  VaultSound' /\ Standing(t, "subscribe")' /\ Covered(t, "subscribe")'
        BY <2>1, MovedOne
      <3>1. /\ VaultSound /\ Standing(t, "focus") /\ Covered(t, "focus")
            /\ arg' = arg
        BY <2>1, MovedAlone DEF Moved
      <3> QED
        BY <1>1, <1>6, <2>1, <3>1
        DEF Focus, VaultSound, Standing, Covered, CurrentJoined, IsJoined, state
    <2>2. ASSUME Moved(t, "refocus", "saveJoined")
          PROVE  OneHandler'
      <3> SUFFICES ASSUME ~overlapped
                   PROVE  VaultSound' /\ Standing(t, "saveJoined")' /\ Covered(t, "saveJoined")'
        BY <2>2, MovedOne
      <3>1. /\ VaultSound /\ Standing(t, "refocus") /\ Covered(t, "refocus")
            /\ arg' = arg
        BY <2>2, MovedAlone DEF Moved
      <3> QED
        BY <1>1, <1>6, <2>2, <3>1
        DEF Focus, VaultSound, Standing, Covered, CurrentJoined, IsJoined, state
    <2> QED
      BY <1>6, <2>1, <2>2, Places
  <1>7. ASSUME Subscribe(t)
         PROVE  OneHandler'
    <2>1. ASSUME Moved(t, "subscribe", "saveJoined")
          PROVE  OneHandler'
      <3> SUFFICES ASSUME ~overlapped
                   PROVE  VaultSound' /\ Standing(t, "saveJoined")' /\ Covered(t, "saveJoined")'
        BY <2>1, MovedOne
      <3>1. /\ VaultSound /\ Standing(t, "subscribe") /\ Covered(t, "subscribe")
            /\ arg' = arg
        BY <2>1, MovedAlone DEF Moved
      <3> QED
        BY <1>1, <1>7, <2>1, <3>1
        DEF Subscribe, Enqueue, VaultSound, Standing, Covered, CurrentJoined, IsJoined, state
    <2>2. ASSUME Moved(t, "subscribe", "idle")
          PROVE  OneHandler'
      <3> SUFFICES ASSUME ~overlapped
                   PROVE  VaultSound' /\ Standing(t, "idle")' /\ Covered(t, "idle")'
        BY <2>2, MovedOne
      <3>1. /\ VaultSound /\ Standing(t, "subscribe") /\ Covered(t, "subscribe")
            /\ arg' = arg
        BY <2>2, MovedAlone DEF Moved
      <3> QED
        BY <1>1, <1>7, <2>2, <3>1
        DEF Subscribe, Enqueue, VaultSound, Standing, Covered, CurrentJoined, IsJoined, state
    <2> QED
      BY <1>7, <2>1, <2>2, Places
  <1>8. ASSUME Unsubscribe(t)
         PROVE  OneHandler'
    <2>1. ASSUME Moved(t, "unsubscribe", "saveJoined")
          PROVE  OneHandler'
      <3> SUFFICES ASSUME ~overlapped
                   PROVE  VaultSound' /\ Standing(t, "saveJoined")' /\ Covered(t, "saveJoined")'
        BY <2>1, MovedOne
      <3>1. /\ VaultSound /\ Standing(t, "unsubscribe") /\ Covered(t, "unsubscribe")
            /\ arg' = arg
        BY <2>1, MovedAlone DEF Moved
      <3> QED
        BY <1>1, <1>8, <2>1, <3>1
        DEF Unsubscribe, Enqueue, VaultSound, Standing, Covered, CurrentJoined, IsJoined, state
    <2> QED
      BY <1>8, <2>1, Places
  <1>9. ASSUME Launch(t)
         PROVE  OneHandler'
    <2>1. ASSUME Moved(t, "launch", "saveJoined")
          PROVE  OneHandler'
      <3> SUFFICES ASSUME ~overlapped
                   PROVE  VaultSound' /\ Standing(t, "saveJoined")' /\ Covered(t, "saveJoined")'
        BY <2>1, MovedOne
      <3>1. /\ VaultSound /\ Standing(t, "launch") /\ Covered(t, "launch")
            /\ arg' = arg
        BY <2>1, MovedAlone DEF Moved
      <3> QED
        BY <1>1, <1>9, <2>1, <3>1
        DEF Launch, VaultSound, Standing, Covered, CurrentJoined, IsJoined, state
    <2> QED
      BY <1>9, <2>1, Places
  <1>10. ASSUME SaveCurrent(t)
         PROVE  OneHandler'
    <2>1. ASSUME Moved(t, "saveCurrent", "write")
          PROVE  OneHandler'
      <3> SUFFICES ASSUME ~overlapped
                   PROVE  VaultSound' /\ Standing(t, "write")' /\ Covered(t, "write")'
        BY <2>1, MovedOne
      <3>1. /\ VaultSound /\ Standing(t, "saveCurrent") /\ Covered(t, "saveCurrent")
            /\ arg' = arg
        BY <2>1, MovedAlone DEF Moved
      <3> QED
        BY <1>1, <1>10, <2>1, <3>1
        DEF SaveCurrent, VaultSound, Standing, Covered, CurrentJoined, IsJoined, state, Data, RoomData
    <2> QED
      BY <1>10, <2>1, Places
  <1>11. ASSUME Write(t)
         PROVE  OneHandler'
    <2>1. ASSUME Moved(t, "write", "idle")
          PROVE  OneHandler'
      <3> SUFFICES ASSUME ~overlapped
                   PROVE  VaultSound' /\ Standing(t, "idle")' /\ Covered(t, "idle")'
        BY <2>1, MovedOne
      <3>1. /\ VaultSound /\ Standing(t, "write") /\ Covered(t, "write")
            /\ arg' = arg
        BY <2>1, MovedAlone DEF Moved
      <3> QED
        BY <1>1, <1>11, <2>1, <3>1
        DEF Write, VaultSound, Standing, Covered, CurrentJoined, IsJoined, state, Data, RoomData
    <2>2. ASSUME Moved(t, "write", "seal")
          PROVE  OneHandler'
      <3> SUFFICES ASSUME ~overlapped
                   PROVE  VaultSound' /\ Standing(t, "seal")' /\ Covered(t, "seal")'
        BY <2>2, MovedOne
      <3>1. /\ VaultSound /\ Standing(t, "write") /\ Covered(t, "write")
            /\ arg' = arg
        BY <2>2, MovedAlone DEF Moved
      <3> QED
        BY <1>1, <1>11, <2>2, <3>1
        DEF Write, VaultSound, Standing, Covered, CurrentJoined, IsJoined, state, Data, RoomData
    <2> QED
      BY <1>11, <2>1, <2>2, Places
  <1>12. ASSUME Seal(t)
         PROVE  OneHandler'
    <2>1. ASSUME Moved(t, "seal", "clearJoined")
          PROVE  OneHandler'
      <3> SUFFICES ASSUME ~overlapped
                   PROVE  VaultSound' /\ Standing(t, "clearJoined")' /\ Covered(t, "clearJoined")'
        BY <2>1, MovedOne
      <3>1. /\ VaultSound /\ Standing(t, "seal") /\ Covered(t, "seal")
            /\ arg' = arg
        BY <2>1, MovedAlone DEF Moved
      <3> QED
        BY <1>1, <1>12, <2>1, <3>1
        DEF Seal, VaultSound, Standing, Covered, CurrentJoined, IsJoined, state
    <2> QED
      BY <1>12, <2>1, Places
  <1>13. ASSUME ClearJoined(t)
         PROVE  OneHandler'
    <2>1. ASSUME Moved(t, "clearJoined", "clearCurrent")
          PROVE  OneHandler'
      <3> SUFFICES ASSUME ~overlapped
                   PROVE  VaultSound' /\ Standing(t, "clearCurrent")' /\ Covered(t, "clearCurrent")'
        BY <2>1, MovedOne
      <3>1. /\ VaultSound /\ Standing(t, "clearJoined") /\ Covered(t, "clearJoined")
            /\ arg' = arg
        BY <2>1, MovedAlone DEF Moved
      <3>2. Range(joined') = {} /\ Distinct(joined')
        BY <1>13 DEF ClearJoined, Range, Distinct
      <3> QED
        BY <1>1, <1>13, <2>1, <3>1, <3>2
        DEF ClearJoined, VaultSound, Standing, Covered, CurrentJoined, IsJoined, state
    <2> QED
      BY <1>13, <2>1, Places
  <1>14. ASSUME ClearCurrent(t)
         PROVE  OneHandler'
    <2>1. ASSUME Moved(t, "clearCurrent", "idle")
          PROVE  OneHandler'
      <3> SUFFICES ASSUME ~overlapped
                   PROVE  VaultSound' /\ Standing(t, "idle")' /\ Covered(t, "idle")'
        BY <2>1, MovedOne
      <3>1. /\ VaultSound /\ Standing(t, "clearCurrent") /\ Covered(t, "clearCurrent")
            /\ arg' = arg
        BY <2>1, MovedAlone DEF Moved
      <3> QED
        BY <1>1, <1>14, <2>1, <3>1
        DEF ClearCurrent, VaultSound, Standing, Covered, CurrentJoined, IsJoined, state
    <2> QED
      BY <1>14, <2>1, Places
  <1>15. ASSUME Read(t)
         PROVE  OneHandler'
    <2>1. ASSUME Moved(t, "read", "loadJoined")
          PROVE  OneHandler'
      <3> SUFFICES ASSUME ~overlapped
                   PROVE  VaultSound' /\ Standing(t, "loadJoined")' /\ Covered(t, "loadJoined")'
        BY <2>1, MovedOne
      <3>1. /\ VaultSound /\ Standing(t, "read") /\ Covered(t, "read")
            /\ arg' = arg
        BY <2>1, MovedAlone DEF Moved
      <3> QED
        BY <1>1, <1>15, <2>1, <3>1
        DEF Read, VaultSound, Standing, Covered, CurrentJoined, IsJoined, state, Data, RoomData
    <2> QED
      BY <1>15, <2>1, Places
  <1>16. ASSUME LoadJoined(t)
         PROVE  OneHandler'
    <2>1. ASSUME Moved(t, "loadJoined", "loadCurrent")
          PROVE  OneHandler'
      <3> SUFFICES ASSUME ~overlapped
                   PROVE  VaultSound' /\ Standing(t, "loadCurrent")' /\ Covered(t, "loadCurrent")'
        BY <2>1, MovedOne
      <3>1. /\ VaultSound /\ Standing(t, "loadJoined") /\ Covered(t, "loadJoined")
            /\ arg' = arg
        BY <2>1, MovedAlone DEF Moved
      <3> QED
        BY <1>1, <1>16, <2>1, <3>1
        DEF LoadJoined, VaultSound, Standing, Covered, CurrentJoined, IsJoined, state
    <2> QED
      BY <1>16, <2>1, Places
  <1>17. ASSUME LoadCurrent(t)
         PROVE  OneHandler'
    <2>1. ASSUME Moved(t, "loadCurrent", "unseal")
          PROVE  OneHandler'
      <3> SUFFICES ASSUME ~overlapped
                   PROVE  VaultSound' /\ Standing(t, "unseal")' /\ Covered(t, "unseal")'
        BY <2>1, MovedOne
      <3>1. /\ VaultSound /\ Standing(t, "loadCurrent") /\ Covered(t, "loadCurrent")
            /\ arg' = arg
        BY <2>1, MovedAlone DEF Moved
      <3> QED
        BY <1>1, <1>17, <2>1, <3>1
        DEF LoadCurrent, VaultSound, Standing, Covered, CurrentJoined, IsJoined, state
    <2> QED
      BY <1>17, <2>1, Places
  <1>18. ASSUME Unseal(t)
         PROVE  OneHandler'
    <2>1. ASSUME Moved(t, "unseal", "idle")
          PROVE  OneHandler'
      <3> SUFFICES ASSUME ~overlapped
                   PROVE  VaultSound' /\ Standing(t, "idle")' /\ Covered(t, "idle")'
        BY <2>1, MovedOne
      <3>1. /\ VaultSound /\ Standing(t, "unseal") /\ Covered(t, "unseal")
            /\ arg' = arg
        BY <2>1, MovedAlone DEF Moved
      <3> QED
        BY <1>1, <1>18, <2>1, <3>1
        DEF Unseal, VaultSound, Standing, Covered, CurrentJoined, IsJoined, state
    <2> QED
      BY <1>18, <2>1, Places
  <1>19. ASSUME Check(t)
         PROVE  OneHandler'
    <2>1. ASSUME Moved(t, "check", "add"),
                  ~IsJoined(arg[t])
          PROVE  OneHandler'
      <3> SUFFICES ASSUME ~overlapped
                   PROVE  VaultSound' /\ Standing(t, "add")' /\ Covered(t, "add")'
        BY <2>1, MovedOne
      <3>1. /\ VaultSound /\ Standing(t, "check") /\ Covered(t, "check")
            /\ arg' = arg
        BY <2>1, MovedAlone DEF Moved
      <3> QED
        BY <1>1, <1>19, <2>1, <3>1
        DEF Check, VaultSound, Standing, Covered, CurrentJoined, IsJoined, state
    <2>2. ASSUME Moved(t, "check", "focus"),
                  IsJoined(arg[t])
          PROVE  OneHandler'
      <3> SUFFICES ASSUME ~overlapped
                   PROVE  VaultSound' /\ Standing(t, "focus")' /\ Covered(t, "focus")'
        BY <2>2, MovedOne
      <3>1. /\ VaultSound /\ Standing(t, "check") /\ Covered(t, "check")
            /\ arg' = arg
        BY <2>2, MovedAlone DEF Moved
      <3> QED
        BY <1>1, <1>19, <2>2, <3>1
        DEF Check, VaultSound, Standing, Covered, CurrentJoined, IsJoined, state
    <2> QED
      BY <1>19, <2>1, <2>2, Places
  <1>20. ASSUME Require(t)
         PROVE  OneHandler'
    <2>1. ASSUME Moved(t, "require", "refocus"),
                  IsJoined(arg[t])
          PROVE  OneHandler'
      <3> SUFFICES ASSUME ~overlapped
                   PROVE  VaultSound' /\ Standing(t, "refocus")' /\ Covered(t, "refocus")'
        BY <2>1, MovedOne
      <3>1. /\ VaultSound /\ Standing(t, "require") /\ Covered(t, "require")
            /\ arg' = arg
        BY <2>1, MovedAlone DEF Moved
      <3> QED
        BY <1>1, <1>20, <2>1, <3>1
        DEF Require, VaultSound, Standing, Covered, CurrentJoined, IsJoined, state
    <2>2. ASSUME Moved(t, "require", "idle")
          PROVE  OneHandler'
      <3> SUFFICES ASSUME ~overlapped
                   PROVE  VaultSound' /\ Standing(t, "idle")' /\ Covered(t, "idle")'
        BY <2>2, MovedOne
      <3>1. /\ VaultSound /\ Standing(t, "require") /\ Covered(t, "require")
            /\ arg' = arg
        BY <2>2, MovedAlone DEF Moved
      <3> QED
        BY <1>1, <1>20, <2>2, <3>1
        DEF Require, VaultSound, Standing, Covered, CurrentJoined, IsJoined, state
    <2> QED
      BY <1>20, <2>1, <2>2, Places
  <1>21. ASSUME SaveJoined(t)
         PROVE  OneHandler'
    <2>1. ASSUME Moved(t, "saveJoined", "saveCurrent"),
                  unlocked, buf' = [buf EXCEPT ![t].joined = joined]
          PROVE  OneHandler'
      <3> SUFFICES ASSUME ~overlapped
                   PROVE  VaultSound' /\ Standing(t, "saveCurrent")' /\ Covered(t, "saveCurrent")'
        BY <2>1, MovedOne
      <3>1. /\ VaultSound /\ Standing(t, "saveJoined") /\ Covered(t, "saveJoined")
            /\ arg' = arg
        BY <2>1, MovedAlone DEF Moved
      <3> QED
        BY <1>1, <1>21, <2>1, <3>1
        DEF SaveJoined, VaultSound, Standing, Covered, CurrentJoined, IsJoined, state, Data, RoomData
    <2>2. ASSUME Moved(t, "saveJoined", "idle"),
                  ~unlocked
          PROVE  OneHandler'
      <3> SUFFICES ASSUME ~overlapped
                   PROVE  VaultSound' /\ Standing(t, "idle")' /\ Covered(t, "idle")'
        BY <2>2, MovedOne
      <3>1. /\ VaultSound /\ Standing(t, "saveJoined") /\ Covered(t, "saveJoined")
            /\ arg' = arg
        BY <2>2, MovedAlone DEF Moved
      <3> QED
        BY <1>1, <1>21, <2>2, <3>1
        DEF SaveJoined, VaultSound, Standing, Covered, CurrentJoined, IsJoined, state, Data, RoomData
    <2>3. ASSUME Moved(t, "saveJoined", "seal"),
                  ~unlocked
          PROVE  OneHandler'
      <3> SUFFICES ASSUME ~overlapped
                   PROVE  VaultSound' /\ Standing(t, "seal")' /\ Covered(t, "seal")'
        BY <2>3, MovedOne
      <3>1. /\ VaultSound /\ Standing(t, "saveJoined") /\ Covered(t, "saveJoined")
            /\ arg' = arg
        BY <2>3, MovedAlone DEF Moved
      <3> QED
        BY <1>1, <1>21, <2>3, <3>1
        DEF SaveJoined, VaultSound, Standing, Covered, CurrentJoined, IsJoined, state, Data, RoomData
    <2> QED
      BY <1>21, <2>1, <2>2, <2>3, Places
  <1> QED
    BY <1>2, <1>3, <1>4, <1>5, <1>6, <1>7, <1>8, <1>9, <1>10, <1>11, <1>12, <1>13, <1>14,
       <1>15, <1>16, <1>17, <1>18, <1>19, <1>20, <1>21 DEF Step

-----------------------------------------------------------------------------
(* Topics. *)

Request == [type : {"join", "leave"}, room : RoomIds]

\* A request at the end of the queue decides about its room.
LEMMA RequestDecides ==
    ASSUME queue \in Seq(Request), NEW c \in Request,
           queue' = Append(queue, c), subscribed' = subscribed, NEW r
    PROVE  /\ c.room = r => (WillSubscribe(r)' <=> c.type = "join")
           /\ c.room # r => (WillSubscribe(r)' <=> WillSubscribe(r))
  <1> DEFINE n == Len(queue)
  <1>1. /\ n \in Nat /\ DOMAIN queue = 1..n /\ DOMAIN queue' = 1..(n + 1)
        /\ \A i \in 1..n : queue'[i] = queue[i] /\ queue[i] \in Request
        /\ queue'[n + 1] = c
    <2>1. \A i \in 1..n : queue[i] \in Request
      BY ElementOfSeq
    <2> HIDE DEF Request
    <2> QED
      BY <2>1, AppendHas
  <1> HIDE DEF n
  <1>2. /\ \A i \in 1..(n + 1) : i \in 1..n \/ i = n + 1
        /\ \A i \in 1..n : i \in 1..(n + 1) /\ i # n + 1 /\ i <= n + 1 /\ ~(n + 1 <= i)
        /\ n + 1 \in 1..(n + 1) /\ n + 1 <= n + 1
    BY <1>1
  <1>3. ASSUME c.room = r
        PROVE  WillSubscribe(r)' <=> c.type = "join"
    <2>1. c = [type |-> c.type, room |-> r]
      BY <1>3 DEF Request
    <2>2. c.type = "join" => WillSubscribe(r)'
      BY <1>1, <1>2, <2>1 DEF WillSubscribe
    <2>3. ASSUME WillSubscribe(r)'
          PROVE  c.type = "join"
      <3>1. n + 1 \in DOMAIN queue' /\ queue'[n + 1].room = r
        BY <1>1, <1>2, <1>3
      <3>2. PICK i \in DOMAIN queue' :
               /\ queue'[i] = [type |-> "join", room |-> r]
               /\ \A j \in DOMAIN queue' : queue'[j].room = r => j <= i
        BY <2>3, <3>1 DEF WillSubscribe
      <3>3. i = n + 1
        BY <1>1, <1>2, <3>1, <3>2
      <3> QED
        BY <1>1, <3>2, <3>3
    <2> QED
      BY <2>2, <2>3
  <1>4. ASSUME c.room # r
        PROVE  WillSubscribe(r)' <=> WillSubscribe(r)
    <2>1. \A j \in DOMAIN queue' : queue'[j].room = r => j \in DOMAIN queue
      BY <1>1, <1>2, <1>4
    <2>2. \A j \in DOMAIN queue : j \in DOMAIN queue' /\ queue'[j] = queue[j]
      BY <1>1, <1>2
    <2>3. [type |-> "join", room |-> r].room = r
      OBVIOUS
    <2> QED
      BY <2>1, <2>2, <2>3 DEF WillSubscribe
  <1> QED
    BY <1>3, <1>4

\* Running the first request changes nothing of what will be.
LEMMA RequestRuns ==
    ASSUME queue \in Seq(Request), RunCommand, NEW r \in RoomIds
    PROVE  WillSubscribe(r)' <=> WillSubscribe(r)
  <1> DEFINE n == Len(queue)
             c == queue[1]
  <1>1. /\ n \in Nat \ {0} /\ DOMAIN queue = 1..n /\ DOMAIN queue' = 1..(n - 1)
        /\ \A i \in 1..(n - 1) : queue'[i] = queue[i + 1]
        /\ c \in Request /\ Head(queue) = c
    <2>1. queue # << >> /\ queue' = Tail(queue)
      BY DEF RunCommand
    <2> HIDE DEF Request
    <2> QED
      BY <2>1, TailHas
  <1>2. subscribed' = IF c.type = "join" THEN subscribed \cup {c.room}
                                         ELSE subscribed \ {c.room}
    BY <1>1 DEF RunCommand
  <1> HIDE DEF n, c
  <1>3. /\ \A i \in 1..n : i = 1 \/ (i - 1 \in 1..(n - 1) /\ (i - 1) + 1 = i)
        /\ \A i \in 1..(n - 1) : i + 1 \in 1..n /\ i + 1 # 1 /\ ~(i + 1 <= 1)
        /\ \A i, j \in 1..(n - 1) : i + 1 <= j + 1 <=> i <= j
        /\ 1 \in 1..n /\ \A i \in 1..n : 1 <= i
    BY <1>1
  <1>4. c.type \in {"join", "leave"} /\ c.room \in RoomIds
        /\ c = [type |-> c.type, room |-> c.room]
    BY <1>1 DEF Request
  <1>5. CASE \E j \in 1..(n - 1) : queue'[j].room = r
    <2>1. PICK k \in 1..(n - 1) : queue'[k].room = r
      BY <1>5
    <2>2. queue[k + 1].room = r /\ k + 1 \in 1..n /\ ~(k + 1 <= 1)
      BY <1>1, <1>3, <2>1
    <2>3. ASSUME WillSubscribe(r)
          PROVE  WillSubscribe(r)'
      <3>1. PICK i \in 1..n : /\ queue[i] = [type |-> "join", room |-> r]
                              /\ \A j \in 1..n : queue[j].room = r => j <= i
        BY <1>1, <2>2, <2>3 DEF WillSubscribe
      <3>2. i # 1
        BY <2>2, <3>1
      <3>3. i - 1 \in 1..(n - 1) /\ (i - 1) + 1 = i
        BY <1>3, <3>2
      <3>4. queue'[i - 1] = [type |-> "join", room |-> r]
        BY <1>1, <3>1, <3>3
      <3>5. ASSUME NEW j \in 1..(n - 1), queue'[j].room = r
            PROVE  j <= i - 1
        <4>1. queue[j + 1].room = r /\ j + 1 \in 1..n
          BY <1>1, <1>3, <3>5
        <4>2. j + 1 <= i
          BY <3>1, <4>1
        <4> QED
          BY <1>1, <4>2
      <3> QED
        BY <1>1, <3>3, <3>4, <3>5 DEF WillSubscribe
    <2>4. ASSUME WillSubscribe(r)'
          PROVE  WillSubscribe(r)
      <3>1. PICK i \in 1..(n - 1) :
                /\ queue'[i] = [type |-> "join", room |-> r]
                /\ \A j \in 1..(n - 1) : queue'[j].room = r => j <= i
        BY <1>1, <2>1, <2>4 DEF WillSubscribe
      <3>2. queue[i + 1] = [type |-> "join", room |-> r] /\ i + 1 \in 1..n
        BY <1>1, <1>3, <3>1
      <3>3. ASSUME NEW j \in 1..n, queue[j].room = r
            PROVE  j <= i + 1
        <4>1. CASE j = 1
          BY <1>3, <3>2, <4>1
        <4>2. CASE j - 1 \in 1..(n - 1) /\ (j - 1) + 1 = j
          <5>1. queue'[j - 1].room = r
            BY <1>1, <3>3, <4>2
          <5>2. j - 1 <= i
            BY <3>1, <4>2, <5>1
          <5> QED
            BY <1>1, <5>2
        <4> QED
          BY <1>3, <4>1, <4>2
      <3> QED
        BY <1>1, <3>2, <3>3 DEF WillSubscribe
    <2> QED
      BY <2>3, <2>4
  <1>6. CASE \A j \in 1..(n - 1) : queue'[j].room # r
    <2>1. WillSubscribe(r)' <=> r \in subscribed'
      <3>1. \A i \in 1..(n - 1) : queue'[i] # [type |-> "join", room |-> r]
        BY <1>6
      <3> QED
        BY <1>1, <1>6, <3>1 DEF WillSubscribe
    <2>2. ASSUME NEW j \in 1..n, queue[j].room = r
          PROVE  j = 1
      <3>1. j = 1 \/ (j - 1 \in 1..(n - 1) /\ (j - 1) + 1 = j)
        BY <1>3
      <3>2. j - 1 \in 1..(n - 1) => queue'[j - 1] = queue[(j - 1) + 1]
        BY <1>1
      <3> QED
        BY <1>6, <2>2, <3>1, <3>2
    <2>3. CASE c.room = r
      <3>1. queue[1].room = r
        BY <2>3 DEF c
      <3>2. WillSubscribe(r) <=> c = [type |-> "join", room |-> r]
        <4>1. ASSUME WillSubscribe(r)
              PROVE  c = [type |-> "join", room |-> r]
          <5>1. PICK i \in 1..n : queue[i] = [type |-> "join", room |-> r]
            BY <1>1, <1>3, <3>1, <4>1 DEF WillSubscribe
          <5>2. i = 1
            BY <2>2, <5>1
          <5> QED
            BY <5>1, <5>2 DEF c
        <4>2. ASSUME c = [type |-> "join", room |-> r]
              PROVE  WillSubscribe(r)
          <5>1. queue[1] = [type |-> "join", room |-> r] /\ 1 \in 1..n
            BY <1>3, <4>2 DEF c
          <5>2. \A j \in 1..n : queue[j].room = r => j <= 1
            BY <1>3, <2>2
          <5> QED
            BY <1>1, <5>1, <5>2 DEF WillSubscribe
        <4> QED
          BY <4>1, <4>2
      <3>3. c = [type |-> "join", room |-> r] <=> c.type = "join"
        BY <1>4, <2>3
      <3> QED
        BY <1>2, <2>1, <2>3, <3>2, <3>3
    <2>4. CASE c.room # r
      <3>1. \A j \in 1..n : queue[j].room # r
        BY <2>2, <2>4 DEF c
      <3>2. WillSubscribe(r) <=> r \in subscribed
        <4>1. \A i \in 1..n : queue[i] # [type |-> "join", room |-> r]
          BY <3>1
        <4> QED
          BY <1>1, <3>1, <4>1 DEF WillSubscribe
      <3> QED
        BY <1>2, <2>1, <2>4, <3>2
    <2> QED
      BY <2>3, <2>4
  <1> QED
    BY <1>5, <1>6

\* Nothing is requested and no room listed or taken off.
LEMMA TopicsStay ==
    ASSUME NEW t, NEW p, NEW q, TopicsAgree(t, p), p \in Untold => q \in Untold,
           UNCHANGED <<joined, queue, subscribed, arg>>
    PROVE  TopicsAgree(t, q)'
  BY DEF TopicsAgree, WillSubscribe, IsJoined

LEMMA TopicsStep ==
    ASSUME Typed, OneHandler, Topics, NEW t \in Tasks, Step(t)
    PROVE  Topics'
  <1>1. Data /\ (~network => queue = << >> /\ subscribed = {})
    BY DEF Typed, TypeOK, Data, Topics
  <1>2. ASSUME Add(t)
         PROVE  Topics'
    <2>1. ASSUME Moved(t, "add", "focus")
          PROVE  Topics'
      <3>1. arg[t] \in RoomIds /\ arg' = arg
        BY <2>1, RoomKnown DEF Untold, Moved
      <3>2. /\ UNCHANGED <<queue, subscribed, network, reloaded>>
            /\ Range(joined') \ {arg[t]} = Range(joined) \ {arg[t]}
        <4>1. Range(Append(joined, arg[t])) = Range(joined) \cup {arg[t]}
          BY <1>1, <3>1, AppendHas DEF Data
        <4> QED
          BY <1>2, <4>1 DEF Add
      <3>3. TopicsAgree(t, "add") => TopicsAgree(t, "focus")'
        <4> SUFFICES ASSUME TopicsAgree(t, "add"), NEW r \in RoomIds, r # arg[t]
                     PROVE  WillSubscribe(r)' <=> IsJoined(r)'
          BY <3>1 DEF TopicsAgree, Untold
        <4>1. WillSubscribe(r) <=> IsJoined(r)
          BY DEF TopicsAgree
        <4>2. WillSubscribe(r)' <=> WillSubscribe(r)
          BY <3>2 DEF WillSubscribe
        <4>3. IsJoined(r)' <=> IsJoined(r)
          BY <3>2 DEF IsJoined
        <4> QED
          BY <4>1, <4>2, <4>3
      <3> QED
        BY <1>1, <2>1, <3>2, <3>3, MovedTopics
    <2> QED
      BY <1>2, <2>1, Places
  <1>3. ASSUME AddAbsent(t)
         PROVE  Topics'
    <2>1. ASSUME Moved(t, "addAbsent", "focus")
          PROVE  Topics'
      <3>1. arg[t] \in RoomIds /\ arg' = arg
        BY <2>1, RoomKnown DEF Untold, Moved
      <3>2. /\ UNCHANGED <<queue, subscribed, network, reloaded>>
            /\ Range(joined') \ {arg[t]} = Range(joined) \ {arg[t]}
        <4>1. Range(Append(joined, arg[t])) = Range(joined) \cup {arg[t]}
          BY <1>1, <3>1, AppendHas DEF Data
        <4> QED
          BY <1>3, <4>1 DEF AddAbsent
      <3>3. TopicsAgree(t, "addAbsent") => TopicsAgree(t, "focus")'
        <4> SUFFICES ASSUME TopicsAgree(t, "addAbsent"), NEW r \in RoomIds, r # arg[t]
                     PROVE  WillSubscribe(r)' <=> IsJoined(r)'
          BY <3>1 DEF TopicsAgree, Untold
        <4>1. WillSubscribe(r) <=> IsJoined(r)
          BY DEF TopicsAgree
        <4>2. WillSubscribe(r)' <=> WillSubscribe(r)
          BY <3>2 DEF WillSubscribe
        <4>3. IsJoined(r)' <=> IsJoined(r)
          BY <3>2 DEF IsJoined
        <4> QED
          BY <4>1, <4>2, <4>3
      <3> QED
        BY <1>1, <2>1, <3>2, <3>3, MovedTopics
    <2> QED
      BY <1>3, <2>1, Places
  <1>4. ASSUME Remove(t)
         PROVE  Topics'
    <2>1. ASSUME Moved(t, "remove", "unfocus")
          PROVE  Topics'
      <3>1. arg[t] \in RoomIds /\ arg' = arg
        BY <2>1, RoomKnown DEF Untold, Moved
      <3>2. /\ UNCHANGED <<queue, subscribed, network, reloaded>>
            /\ Range(joined') \ {arg[t]} = Range(joined) \ {arg[t]}
        <4>1. Range(joined') = Range(joined) \cap (RoomIds \ {arg[t]})
          BY <1>1, <1>4, RetainHas DEF Remove, Data
        <4>2. Range(joined) \subseteq RoomIds
          BY <1>1, LenProperties DEF Data, Range
        <4> QED
          BY <1>4, <4>1, <4>2 DEF Remove
      <3>3. TopicsAgree(t, "remove") => TopicsAgree(t, "unfocus")'
        <4> SUFFICES ASSUME TopicsAgree(t, "remove"), NEW r \in RoomIds, r # arg[t]
                     PROVE  WillSubscribe(r)' <=> IsJoined(r)'
          BY <3>1 DEF TopicsAgree, Untold
        <4>1. WillSubscribe(r) <=> IsJoined(r)
          BY DEF TopicsAgree
        <4>2. WillSubscribe(r)' <=> WillSubscribe(r)
          BY <3>2 DEF WillSubscribe
        <4>3. IsJoined(r)' <=> IsJoined(r)
          BY <3>2 DEF IsJoined
        <4> QED
          BY <4>1, <4>2, <4>3
      <3> QED
        BY <1>1, <2>1, <3>2, <3>3, MovedTopics
    <2> QED
      BY <1>4, <2>1, Places
  <1>5. ASSUME Subscribe(t)
         PROVE  Topics'
    <2>1. ASSUME Moved(t, "subscribe", "saveJoined")
          PROVE  Topics'
      <3>1. arg[t] \in RoomIds /\ arg' = arg /\ overlapped' = overlapped
        BY <2>1, RoomKnown DEF Untold, Moved
      <3>2. /\ UNCHANGED <<joined, subscribed, network, reloaded>>
            /\ network => queue' = Append(queue, [type |-> "join", room |-> arg[t]])
            /\ ~network => queue' = queue
        BY <1>5 DEF Subscribe, Enqueue
      <3>3. ASSUME ~overlapped, network, TopicsAgree(t, "subscribe")
            PROVE  TopicsAgree(t, "saveJoined")'
        <4> DEFINE c == [type |-> "join", room |-> arg[t]]
        <4>1. IsJoined(arg[t])
          BY <2>1, <3>3, MovedAlone DEF Standing
        <4>2. queue \in Seq(Request) /\ c \in Request
          BY <1>1, <3>1 DEF Data, Request
        <4>3. c.room = arg[t] /\ c.type = "join"
          OBVIOUS
        <4> HIDE DEF c
        <4>4. \A r : /\ arg[t] = r => (WillSubscribe(r)' <=> TRUE)
                     /\ arg[t] # r => (WillSubscribe(r)' <=> WillSubscribe(r))
          <5>1. queue' = Append(queue, c) /\ subscribed' = subscribed
            BY <3>2, <3>3 DEF c
          <5> QED
            BY <4>2, <4>3, <5>1, RequestDecides
        <4>5. \A r : IsJoined(r)' <=> IsJoined(r)
          BY <3>2 DEF IsJoined
        <4> QED
          BY <3>1, <3>3, <4>1, <4>4, <4>5 DEF TopicsAgree
      <3> QED
        BY <1>1, <2>1, <3>2, <3>3, MovedTopics
    <2>2. ASSUME Moved(t, "subscribe", "idle")
          PROVE  Topics'
      <3>1. arg[t] \in RoomIds /\ arg' = arg /\ overlapped' = overlapped
        BY <2>2, RoomKnown DEF Untold, Moved
      <3>2. /\ UNCHANGED <<joined, subscribed, network, reloaded>>
            /\ network => queue' = Append(queue, [type |-> "join", room |-> arg[t]])
            /\ ~network => queue' = queue
        BY <1>5 DEF Subscribe, Enqueue
      <3>3. ASSUME ~overlapped, network, TopicsAgree(t, "subscribe")
            PROVE  TopicsAgree(t, "idle")'
        <4> DEFINE c == [type |-> "join", room |-> arg[t]]
        <4>1. IsJoined(arg[t])
          BY <2>2, <3>3, MovedAlone DEF Standing
        <4>2. queue \in Seq(Request) /\ c \in Request
          BY <1>1, <3>1 DEF Data, Request
        <4>3. c.room = arg[t] /\ c.type = "join"
          OBVIOUS
        <4> HIDE DEF c
        <4>4. \A r : /\ arg[t] = r => (WillSubscribe(r)' <=> TRUE)
                     /\ arg[t] # r => (WillSubscribe(r)' <=> WillSubscribe(r))
          <5>1. queue' = Append(queue, c) /\ subscribed' = subscribed
            BY <3>2, <3>3 DEF c
          <5> QED
            BY <4>2, <4>3, <5>1, RequestDecides
        <4>5. \A r : IsJoined(r)' <=> IsJoined(r)
          BY <3>2 DEF IsJoined
        <4> QED
          BY <3>1, <3>3, <4>1, <4>4, <4>5 DEF TopicsAgree
      <3> QED
        BY <1>1, <2>2, <3>2, <3>3, MovedTopics
    <2> QED
      BY <1>5, <2>1, <2>2, Places
  <1>6. ASSUME Unsubscribe(t)
         PROVE  Topics'
    <2>1. ASSUME Moved(t, "unsubscribe", "saveJoined")
          PROVE  Topics'
      <3>1. arg[t] \in RoomIds /\ arg' = arg /\ overlapped' = overlapped
        BY <2>1, RoomKnown DEF Untold, Moved
      <3>2. /\ UNCHANGED <<joined, subscribed, network, reloaded>>
            /\ network => queue' = Append(queue, [type |-> "leave", room |-> arg[t]])
            /\ ~network => queue' = queue
        BY <1>6 DEF Unsubscribe, Enqueue
      <3>3. ASSUME ~overlapped, network, TopicsAgree(t, "unsubscribe")
            PROVE  TopicsAgree(t, "saveJoined")'
        <4> DEFINE c == [type |-> "leave", room |-> arg[t]]
        <4>1. ~IsJoined(arg[t])
          BY <2>1, <3>3, MovedAlone DEF Standing
        <4>2. queue \in Seq(Request) /\ c \in Request
          BY <1>1, <3>1 DEF Data, Request
        <4>3. c.room = arg[t] /\ c.type = "leave"
          OBVIOUS
        <4> HIDE DEF c
        <4>4. \A r : /\ arg[t] = r => (WillSubscribe(r)' <=> FALSE)
                     /\ arg[t] # r => (WillSubscribe(r)' <=> WillSubscribe(r))
          <5>1. queue' = Append(queue, c) /\ subscribed' = subscribed
            BY <3>2, <3>3 DEF c
          <5> QED
            BY <4>2, <4>3, <5>1, RequestDecides
        <4>5. \A r : IsJoined(r)' <=> IsJoined(r)
          BY <3>2 DEF IsJoined
        <4> QED
          BY <3>1, <3>3, <4>1, <4>4, <4>5 DEF TopicsAgree
      <3> QED
        BY <1>1, <2>1, <3>2, <3>3, MovedTopics
    <2> QED
      BY <1>6, <2>1, Places
  <1>7. ASSUME Launch(t)
         PROVE  Topics'
    <2>1. ASSUME Moved(t, "launch", "saveJoined")
          PROVE  Topics'
      <3>1. /\ UNCHANGED <<joined, queue, subscribed>> /\ network' = TRUE
            /\ reloaded' = (reloaded \/ joined # << >>)
        BY <1>7 DEF Launch
      <3>2. ASSUME ~reloaded', network, TopicsAgree(t, "launch")
            PROVE  TopicsAgree(t, "saveJoined")'
        BY <2>1, <3>1, <3>2, TopicsStay DEF Moved, Untold
      <3>3. ASSUME ~reloaded', ~network
            PROVE  TopicsAgree(t, "saveJoined")'
        <4>1. joined' = << >> /\ queue' = << >> /\ subscribed' = {}
          BY <1>1, <3>1, <3>3
        <4>2. Range(joined') = {} /\ DOMAIN queue' = {}
          BY <4>1 DEF Range
        <4> QED
          BY <4>1, <4>2 DEF TopicsAgree, WillSubscribe, IsJoined
      <3>4. (~reloaded' /\ (~reloaded /\ network => TopicsAgree(t, "launch")))
                => TopicsAgree(t, "saveJoined")'
        BY <3>1, <3>2, <3>3
      <3> QED
        BY <1>1, <2>1, <3>1, <3>4, MovedTopics
    <2> QED
      BY <1>7, <2>1, Places
  <1>8. ASSUME ClearJoined(t)
         PROVE  Topics'
    <2>1. ASSUME Moved(t, "clearJoined", "clearCurrent")
          PROVE  Topics'
      <3>1. UNCHANGED <<queue, subscribed, network>> /\ reloaded' = (reloaded \/ network)
        BY <1>8 DEF ClearJoined
      <3> QED
        BY <1>1, <2>1, <3>1, MovedTopics
    <2> QED
      BY <1>8, <2>1, Places
  <1>9. ASSUME LoadJoined(t)
         PROVE  Topics'
    <2>1. ASSUME Moved(t, "loadJoined", "loadCurrent")
          PROVE  Topics'
      <3>1. UNCHANGED <<queue, subscribed, network>> /\ reloaded' = (reloaded \/ network)
        BY <1>9 DEF LoadJoined
      <3> QED
        BY <1>1, <2>1, <3>1, MovedTopics
    <2> QED
      BY <1>9, <2>1, Places
  <1>10. ASSUME Unfocus(t)
         PROVE  Topics'
    <2>1. UNCHANGED <<joined, queue, subscribed, network, reloaded>>
      BY <1>10 DEF Unfocus, state
    <2>2. ASSUME Moved(t, "unfocus", "unsubscribe")
          PROVE  Topics'
      <3>1. TopicsAgree(t, "unfocus") => TopicsAgree(t, "unsubscribe")'
        BY <2>1, <2>2, TopicsStay DEF Moved, Untold
      <3> QED
        BY <1>1, <2>1, <2>2, <3>1, MovedTopics
    <2> QED
      BY <1>10, <2>2, Places
  <1>11. ASSUME Focus(t)
         PROVE  Topics'
    <2>1. UNCHANGED <<joined, queue, subscribed, network, reloaded>>
      BY <1>11 DEF Focus, state
    <2>2. ASSUME Moved(t, "focus", "subscribe")
          PROVE  Topics'
      <3>1. TopicsAgree(t, "focus") => TopicsAgree(t, "subscribe")'
        BY <2>1, <2>2, TopicsStay DEF Moved, Untold
      <3> QED
        BY <1>1, <2>1, <2>2, <3>1, MovedTopics
    <2>3. ASSUME Moved(t, "refocus", "saveJoined")
          PROVE  Topics'
      <3>1. TopicsAgree(t, "refocus") => TopicsAgree(t, "saveJoined")'
        BY <2>1, <2>3, TopicsStay DEF Moved, Untold
      <3> QED
        BY <1>1, <2>1, <2>3, <3>1, MovedTopics
    <2> QED
      BY <1>11, <2>2, <2>3, Places
  <1>12. ASSUME SaveCurrent(t)
         PROVE  Topics'
    <2>1. UNCHANGED <<joined, queue, subscribed, network, reloaded>>
      BY <1>12 DEF SaveCurrent, state
    <2>2. ASSUME Moved(t, "saveCurrent", "write")
          PROVE  Topics'
      <3>1. TopicsAgree(t, "saveCurrent") => TopicsAgree(t, "write")'
        BY <2>1, <2>2, TopicsStay DEF Moved, Untold
      <3> QED
        BY <1>1, <2>1, <2>2, <3>1, MovedTopics
    <2> QED
      BY <1>12, <2>2, Places
  <1>13. ASSUME Write(t)
         PROVE  Topics'
    <2>1. UNCHANGED <<joined, queue, subscribed, network, reloaded>>
      BY <1>13 DEF Write, state
    <2>2. ASSUME Moved(t, "write", "idle")
          PROVE  Topics'
      <3>1. TopicsAgree(t, "write") => TopicsAgree(t, "idle")'
        BY <2>1, <2>2, TopicsStay DEF Moved, Untold
      <3> QED
        BY <1>1, <2>1, <2>2, <3>1, MovedTopics
    <2>3. ASSUME Moved(t, "write", "seal")
          PROVE  Topics'
      <3>1. TopicsAgree(t, "write") => TopicsAgree(t, "seal")'
        BY <2>1, <2>3, TopicsStay DEF Moved, Untold
      <3> QED
        BY <1>1, <2>1, <2>3, <3>1, MovedTopics
    <2> QED
      BY <1>13, <2>2, <2>3, Places
  <1>14. ASSUME Seal(t)
         PROVE  Topics'
    <2>1. UNCHANGED <<joined, queue, subscribed, network, reloaded>>
      BY <1>14 DEF Seal, state
    <2>2. ASSUME Moved(t, "seal", "clearJoined")
          PROVE  Topics'
      <3>1. TopicsAgree(t, "seal") => TopicsAgree(t, "clearJoined")'
        BY <2>1, <2>2, TopicsStay DEF Moved, Untold
      <3> QED
        BY <1>1, <2>1, <2>2, <3>1, MovedTopics
    <2> QED
      BY <1>14, <2>2, Places
  <1>15. ASSUME ClearCurrent(t)
         PROVE  Topics'
    <2>1. UNCHANGED <<joined, queue, subscribed, network, reloaded>>
      BY <1>15 DEF ClearCurrent, state
    <2>2. ASSUME Moved(t, "clearCurrent", "idle")
          PROVE  Topics'
      <3>1. TopicsAgree(t, "clearCurrent") => TopicsAgree(t, "idle")'
        BY <2>1, <2>2, TopicsStay DEF Moved, Untold
      <3> QED
        BY <1>1, <2>1, <2>2, <3>1, MovedTopics
    <2> QED
      BY <1>15, <2>2, Places
  <1>16. ASSUME Read(t)
         PROVE  Topics'
    <2>1. UNCHANGED <<joined, queue, subscribed, network, reloaded>>
      BY <1>16 DEF Read, state
    <2>2. ASSUME Moved(t, "read", "loadJoined")
          PROVE  Topics'
      <3>1. TopicsAgree(t, "read") => TopicsAgree(t, "loadJoined")'
        BY <2>1, <2>2, TopicsStay DEF Moved, Untold
      <3> QED
        BY <1>1, <2>1, <2>2, <3>1, MovedTopics
    <2> QED
      BY <1>16, <2>2, Places
  <1>17. ASSUME LoadCurrent(t)
         PROVE  Topics'
    <2>1. UNCHANGED <<joined, queue, subscribed, network, reloaded>>
      BY <1>17 DEF LoadCurrent, state
    <2>2. ASSUME Moved(t, "loadCurrent", "unseal")
          PROVE  Topics'
      <3>1. TopicsAgree(t, "loadCurrent") => TopicsAgree(t, "unseal")'
        BY <2>1, <2>2, TopicsStay DEF Moved, Untold
      <3> QED
        BY <1>1, <2>1, <2>2, <3>1, MovedTopics
    <2> QED
      BY <1>17, <2>2, Places
  <1>18. ASSUME Unseal(t)
         PROVE  Topics'
    <2>1. UNCHANGED <<joined, queue, subscribed, network, reloaded>>
      BY <1>18 DEF Unseal, state
    <2>2. ASSUME Moved(t, "unseal", "idle")
          PROVE  Topics'
      <3>1. TopicsAgree(t, "unseal") => TopicsAgree(t, "idle")'
        BY <2>1, <2>2, TopicsStay DEF Moved, Untold
      <3> QED
        BY <1>1, <2>1, <2>2, <3>1, MovedTopics
    <2> QED
      BY <1>18, <2>2, Places
  <1>19. ASSUME Check(t)
         PROVE  Topics'
    <2>1. UNCHANGED <<joined, queue, subscribed, network, reloaded>>
      BY <1>19 DEF Check, state
    <2>2. ASSUME Moved(t, "check", "add")
          PROVE  Topics'
      <3>1. TopicsAgree(t, "check") => TopicsAgree(t, "add")'
        BY <2>1, <2>2, TopicsStay DEF Moved, Untold
      <3> QED
        BY <1>1, <2>1, <2>2, <3>1, MovedTopics
    <2>3. ASSUME Moved(t, "check", "focus")
          PROVE  Topics'
      <3>1. TopicsAgree(t, "check") => TopicsAgree(t, "focus")'
        BY <2>1, <2>3, TopicsStay DEF Moved, Untold
      <3> QED
        BY <1>1, <2>1, <2>3, <3>1, MovedTopics
    <2> QED
      BY <1>19, <2>2, <2>3, Places
  <1>20. ASSUME Require(t)
         PROVE  Topics'
    <2>1. UNCHANGED <<joined, queue, subscribed, network, reloaded>>
      BY <1>20 DEF Require, state
    <2>2. ASSUME Moved(t, "require", "refocus")
          PROVE  Topics'
      <3>1. TopicsAgree(t, "require") => TopicsAgree(t, "refocus")'
        BY <2>1, <2>2, TopicsStay DEF Moved, Untold
      <3> QED
        BY <1>1, <2>1, <2>2, <3>1, MovedTopics
    <2>3. ASSUME Moved(t, "require", "idle")
          PROVE  Topics'
      <3>1. TopicsAgree(t, "require") => TopicsAgree(t, "idle")'
        BY <2>1, <2>3, TopicsStay DEF Moved, Untold
      <3> QED
        BY <1>1, <2>1, <2>3, <3>1, MovedTopics
    <2> QED
      BY <1>20, <2>2, <2>3, Places
  <1>21. ASSUME SaveJoined(t)
         PROVE  Topics'
    <2>1. UNCHANGED <<joined, queue, subscribed, network, reloaded>>
      BY <1>21 DEF SaveJoined, state
    <2>2. ASSUME Moved(t, "saveJoined", "saveCurrent")
          PROVE  Topics'
      <3>1. TopicsAgree(t, "saveJoined") => TopicsAgree(t, "saveCurrent")'
        BY <2>1, <2>2, TopicsStay DEF Moved, Untold
      <3> QED
        BY <1>1, <2>1, <2>2, <3>1, MovedTopics
    <2>3. ASSUME Moved(t, "saveJoined", "idle")
          PROVE  Topics'
      <3>1. TopicsAgree(t, "saveJoined") => TopicsAgree(t, "idle")'
        BY <2>1, <2>3, TopicsStay DEF Moved, Untold
      <3> QED
        BY <1>1, <2>1, <2>3, <3>1, MovedTopics
    <2>4. ASSUME Moved(t, "saveJoined", "seal")
          PROVE  Topics'
      <3>1. TopicsAgree(t, "saveJoined") => TopicsAgree(t, "seal")'
        BY <2>1, <2>4, TopicsStay DEF Moved, Untold
      <3> QED
        BY <1>1, <2>1, <2>4, <3>1, MovedTopics
    <2> QED
      BY <1>21, <2>2, <2>3, <2>4, Places
  <1> QED
    BY <1>2, <1>3, <1>4, <1>5, <1>6, <1>7, <1>8, <1>9, <1>10, <1>11, <1>12, <1>13, <1>14,
       <1>15, <1>16, <1>17, <1>18, <1>19, <1>20, <1>21 DEF Step

LEMMA BeginTopics ==
    ASSUME Typed, OneHandler, Topics, NEW t \in Tasks, NEW steps, NEW r,
           Begins(t, steps, r)
    PROVE  Topics'
  <1>1. UNCHANGED <<state, reloaded>>
    BY DEF Begins, Begin
  <1>2. (~network => queue = << >> /\ subscribed = {})'
    BY <1>1 DEF Topics, state
  <1>3. ASSUME ~overlapped', ~reloaded', network'
        PROVE  /\ \A u \in Tasks : Idle(u)' \/ TopicsAgree(u, Place(u))'
               /\ ~AllIdle'
    <2>1. /\ ~overlapped /\ ~reloaded /\ network
          /\ \A u \in Tasks \ {t} : Idle(u)
          /\ Idle(t) /\ todo'[t] = steps /\ steps # << >>
      <3>1. /\ overlapped' = (overlapped \/ \E u \in Tasks \ {t} : ~Idle(u))
            /\ todo' = [todo EXCEPT ![t] = steps] /\ Idle(t) /\ steps # << >>
        BY DEF Begins, Begin
      <3>2. todo \in [Tasks -> Seq(Steps)]
        BY DEF Typed, TypeOK
      <3> QED
        BY <1>1, <1>3, <3>1, <3>2 DEF state
    <2>2. TopicsAgree(Events, "idle")
      BY <2>1 DEF Topics, AllIdle
    <2>3. ~AllIdle'
      BY <2>1 DEF AllIdle, Idle
    <2>4. ASSUME NEW u \in Tasks
          PROVE  TopicsAgree(u, Place(u))'
      BY <1>1, <2>2 DEF TopicsAgree, WillSubscribe, IsJoined, Untold, state
    <2> QED
      BY <2>3, <2>4
  <1> QED
    BY <1>2, <1>3 DEF Topics

-----------------------------------------------------------------------------
(* The network loop, and the process. *)

LEMMA LoopKeeps ==
    ASSUME Typed, InUse, OneHandler, Topics, RunCommand
    PROVE  Typed' /\ InUse' /\ OneHandler' /\ Topics'
  <1>1. /\ UNCHANGED <<joined, current, network, unlocked, saved, todo, arg, buf,
                       used, calls, restarts, overlapped, reloaded>>
        /\ queue # << >> /\ queue' = Tail(queue)
    BY DEF RunCommand, history
  <1>2. queue \in Seq(Request)
    BY DEF Typed, TypeOK, Request
  <1>3. Head(queue) \in Request /\ Tail(queue) \in Seq(Request)
    <2> HIDE DEF Request
    <2> QED
      BY <1>1, <1>2, TailHas
  <1>4. TypeOK'
    <2>1. subscribed' \in SUBSET RoomIds
      BY <1>3 DEF RunCommand, Typed, TypeOK, Request
    <2>2. (queue \in Seq([type : {"join", "leave"}, room : RoomIds]))'
      BY <1>1, <1>3 DEF Request
    <2> QED
      BY <1>1, <2>1, <2>2 DEF Typed, TypeOK
  <1>5. Typed'
    BY <1>1, <1>4 DEF Typed, Place
  <1>6. InUse'
    BY <1>1 DEF InUse
  <1>7. OneHandler'
    BY <1>1 DEF OneHandler, Alone, VaultSound, Standing, Covered, CurrentJoined,
                AllIdle, Idle, IsJoined, Place
  <1>8. Topics'
    <2>1. network /\ network'
      BY <1>1 DEF Topics, Typed, TypeOK
    <2>2. ASSUME NEW u, NEW q, TopicsAgree(u, q)
          PROVE  TopicsAgree(u, q)'
      <3>1. \A r \in RoomIds : WillSubscribe(r)' <=> WillSubscribe(r)
        BY <1>2, RequestRuns
      <3> SUFFICES ASSUME NEW r \in RoomIds, ~(r = arg[u] /\ q \in Untold)
                   PROVE  WillSubscribe(r)' <=> IsJoined(r)'
        BY <1>1 DEF TopicsAgree
      <3>2. WillSubscribe(r) <=> IsJoined(r)
        BY <2>2 DEF TopicsAgree
      <3>3. IsJoined(r)' <=> IsJoined(r)
        BY <1>1 DEF IsJoined
      <3> QED
        BY <1>2, <3>2, <3>3, RequestRuns
    <2>3. ASSUME ~overlapped, ~reloaded
          PROVE  /\ \A u \in Tasks : Idle(u) \/ TopicsAgree(u, Place(u))'
                 /\ AllIdle => TopicsAgree(Events, "idle")'
      <3>1. ASSUME NEW u \in Tasks, ~Idle(u)
            PROVE  TopicsAgree(u, Place(u))'
        <4>1. TopicsAgree(u, Place(u))
          BY <2>1, <2>3, <3>1 DEF Topics
        <4>2. Place(u)' = Place(u)
          BY <1>1 DEF Place
        <4>3. ASSUME NEW z, z = Place(u)
              PROVE  TopicsAgree(u, z)'
          BY <2>2, <4>1, <4>3
        <4> QED
          BY <4>2, <4>3 DEF TopicsAgree
      <3> QED
        BY <2>1, <2>2, <2>3, <3>1 DEF Topics
    <2> QED
      BY <1>1, <2>1, <2>3 DEF Topics, AllIdle, Idle
  <1> QED
    BY <1>5, <1>6, <1>7, <1>8

LEMMA RestartKeeps ==
    ASSUME Typed, InUse, OneHandler, Topics, Restart
    PROVE  Typed' /\ InUse' /\ OneHandler' /\ Topics'
  <1>1. TypeOK /\ TypeOK'
    <2>1. TypeOK
      BY DEF Typed
    <2>2. NoRooms \in RoomData /\ << >> \in Seq(RoomIds) /\ << >> \in Seq(Steps)
          /\ << >> \in Seq([type : {"join", "leave"}, room : RoomIds])
      BY EmptySeq DEF NoRooms, RoomData, RoomOrNone
    <2>3. restarts' \in 0..MaxRestarts
      BY <2>1, RoomAssumption DEF Restart, TypeOK
    <2> QED
      BY <2>1, <2>2, <2>3 DEF Restart, TypeOK, RoomOrNone
  <1>2. ASSUME NEW u \in Tasks
        PROVE  todo'[u] = << >> /\ arg'[u] = None /\ buf'[u] = NoRooms
    BY DEF Restart
  <1>3. << >> \in Scripts /\ NextStep(<< >>) = "idle"
    BY EmptySeq DEF Scripts, NextStep
  <1>4. Typed'
    BY <1>1, <1>2, <1>3 DEF Typed, Place, Untold
  <1>5. Range(<< >>) = {}
    BY DEF Range
  <1>6. InUse'
    BY <1>2, <1>5 DEF InUse, Restart, NoRooms
  <1>7. \A u \in Tasks : Idle(u)'
    BY <1>2 DEF Idle
  <1>8. OneHandler'
    <2>1. VaultSound => VaultSound'
      BY <1>5 DEF Restart, VaultSound, Distinct
    <2>2. Alone'
      BY <1>7 DEF Alone
    <2>3. CurrentJoined' /\ Covered(Events, "idle")'
      BY DEF Restart, CurrentJoined, Covered
    <2>4. overlapped' = overlapped
      BY DEF Restart
    <2> QED
      BY <1>7, <2>1, <2>2, <2>3, <2>4 DEF OneHandler
  <1>9. Topics'
    BY DEF Restart, Topics
  <1> QED
    BY <1>4, <1>6, <1>8, <1>9

-----------------------------------------------------------------------------
(* The theorems. *)

Inv == Typed /\ InUse /\ OneHandler /\ Topics

LEMMA InitInv ==
    Init => Inv
  <1> SUFFICES ASSUME Init
               PROVE  Inv
    OBVIOUS
  <1>1. TypeOK
    <2>1. NoRooms \in RoomData /\ << >> \in Seq(RoomIds) /\ << >> \in Seq(Steps)
          /\ << >> \in Seq([type : {"join", "leave"}, room : RoomIds])
      BY EmptySeq DEF NoRooms, RoomData, RoomOrNone
    <2>2. 0 \in 0..MaxCalls /\ 0 \in 0..MaxRestarts
      BY RoomAssumption
    <2>3. /\ joined \in Seq(RoomIds) /\ saved \in RoomData
          /\ queue \in Seq([type : {"join", "leave"}, room : RoomIds])
          /\ current \in RoomOrNone
      BY <2>1 DEF Init, RoomOrNone
    <2>4. /\ todo \in [Tasks -> Seq(Steps)] /\ arg \in [Tasks -> RoomOrNone]
          /\ buf \in [Tasks -> RoomData]
      BY <2>1 DEF Init, RoomOrNone
    <2> QED
      BY <2>2, <2>3, <2>4 DEF Init, TypeOK
  <1>2. << >> \in Scripts /\ NextStep(<< >>) = "idle" /\ Range(<< >>) = {}
    BY EmptySeq DEF Scripts, NextStep, Range
  <1>3. Typed
    BY <1>1, <1>2 DEF Typed, Init, Place, Untold
  <1>4. InUse
    BY <1>2 DEF InUse, Init, NoRooms
  <1>5. OneHandler
    <2>1. \A u \in Tasks : Idle(u)
      BY DEF Idle, Init
    <2>2. VaultSound
      BY <1>2 DEF Init, VaultSound, NoRooms, Distinct
    <2>3. CurrentJoined /\ Covered(Events, "idle")
      BY DEF Init, CurrentJoined, Covered
    <2> QED
      BY <2>1, <2>2, <2>3 DEF OneHandler, Alone
  <1>6. Topics
    BY DEF Init, Topics
  <1> QED
    BY <1>3, <1>4, <1>5, <1>6 DEF Inv

LEMMA NextInv ==
    Inv /\ [Next]_vars => Inv'
  <1> SUFFICES ASSUME Inv, [Next]_vars
               PROVE  Inv'
    OBVIOUS
  <1>1. Typed /\ InUse /\ OneHandler /\ Topics
    BY DEF Inv
  <1>2. ASSUME NEW t \in Tasks, Step(t)
        PROVE  Inv'
    BY <1>1, <1>2, TypedStep, InUseStep, OneStep, TopicsStep DEF Inv
  <1>3. ASSUME NEW t \in Tasks,
               Call(t) \/ CallSave(t) \/ (t = Events /\ ReceiveInvitation)
        PROVE  Inv'
    <2>1. PICK steps, r : Begins(t, steps, r)
      BY <1>1, <1>3, CallsBegin
    <2> QED
      BY <1>1, <2>1, BeginTyped, BeginOne, BeginTopics DEF Inv
  <1>4. CASE RunCommand
    BY <1>1, <1>4, LoopKeeps DEF Inv
  <1>5. CASE Restart
    BY <1>1, <1>5, RestartKeeps DEF Inv
  <1>6. CASE UNCHANGED vars
    BY <1>1, <1>6
    DEF Inv, Typed, TypeOK, InUse, OneHandler, Topics, vars, Alone, VaultSound,
        Standing, Covered, CurrentJoined, AllIdle, Idle, IsJoined, Place,
        TopicsAgree, WillSubscribe
  <1> QED
    BY <1>2, <1>3, <1>4, <1>5, <1>6 DEF Next, Tasks

LEMMA Invariant ==
    Spec => []Inv
  BY InitInv, NextInv, PTL DEF Spec

\* The state of the rooms has its types, whatever handlers run.
THEOREM TypeCorrect ==
    Spec => []TypeOK
  <1>1. Inv => TypeOK
    BY DEF Inv, Typed
  <1> QED
    BY <1>1, Invariant, PTL

\* As long as handlers run one at a time, in any number of rooms and over any
\* number of restarts: no room is listed twice, in memory or in the vault, and
\* the current room is a joined one (lib.rs:650-667, 954-1124).
THEOREM RoomsAreConsistent ==
    Spec => []RoomsConsistent
  <1>1. Inv => RoomsConsistent
    <2> SUFFICES ASSUME Inv, ~overlapped
                 PROVE  /\ NoDuplicates(joined) /\ NoDuplicates(saved.joined)
                        /\ saved.current \in Range(saved.joined) \cup {None}
                        /\ AllIdle => current \in Range(joined) \cup {None}
      BY DEF RoomsConsistent
    <2>1. joined \in Seq(RoomIds) /\ saved.joined \in Seq(RoomIds)
      BY DEF Inv, Typed, TypeOK, RoomData
    <2>2. VaultSound /\ (AllIdle => CurrentJoined)
      BY DEF Inv, OneHandler
    <2>3. NoDuplicates(joined) /\ NoDuplicates(saved.joined)
      BY <2>1, <2>2, DistinctLen DEF VaultSound, NoDuplicates
    <2> QED
      BY <2>2, <2>3 DEF VaultSound, CurrentJoined
  <1> QED
    BY <1>1, Invariant, PTL

\* As long as handlers run one at a time on a network started without rooms
\* and a vault that was left open: when all is done, the topics are those of
\* the joined rooms (lib.rs:972-979, 1025-1032, 1064-1071).
THEOREM TopicsAreFollowed ==
    Spec => []TopicsFollowRooms
  <1>1. Inv => TopicsFollowRooms
    <2> SUFFICES ASSUME Inv, ~overlapped, ~reloaded, network, AllIdle, queue = << >>
                 PROVE  subscribed = Range(joined)
      BY DEF TopicsFollowRooms
    <2>1. TopicsAgree(Events, "idle")
      BY DEF Inv, Topics
    <2>2. \A r \in RoomIds : WillSubscribe(r) <=> r \in Range(joined)
      BY <2>1 DEF TopicsAgree, IsJoined, Untold
    <2>3. \A r : WillSubscribe(r) <=> r \in subscribed
      BY DEF WillSubscribe
    <2>4. subscribed \subseteq RoomIds /\ Range(joined) \subseteq RoomIds
      BY LenProperties DEF Inv, Typed, TypeOK, Range
    <2> QED
      BY <2>2, <2>3, <2>4
  <1> QED
    BY <1>1, Invariant, PTL

\* As long as handlers run one at a time, a room leaves the vault only with
\* the save of a handler that is about it, once it is off the list in memory:
\* no lock, restart or other save loses one (lib.rs:381-405, 1043-1082).
THEOREM SavedRoomsStay ==
    Spec => SavedUntilLeft
  <1>1. ASSUME Inv, [Next]_vars
        PROVE  [~overlapped =>
                  \A r \in Range(saved.joined) \ Range(saved'.joined) :
                     \E t \in Tasks : ~Idle(t) /\ arg[t] = r /\ ~IsJoined(r)]_vars
    <2>1. CASE UNCHANGED saved
      BY <2>1
    <2>2. ASSUME NEW t \in Tasks, Write(t), ~overlapped,
                 NEW r \in Range(saved.joined) \ Range(saved'.joined)
          PROVE  ~Idle(t) /\ arg[t] = r /\ ~IsJoined(r)
      <3>1. PICK q \in {"idle", "seal"} : Moved(t, "write", q)
        BY <1>1, <2>2, Places DEF Inv
      <3>2. Standing(t, "write") /\ Covered(t, "write") /\ ~Idle(t)
        BY <1>1, <2>2, <3>1, MovedAlone DEF Inv
      <3>3. saved'.joined = joined /\ unlocked
        BY <2>2, <3>2 DEF Write, Standing
      <3> QED
        BY <2>2, <3>2, <3>3 DEF Covered, IsJoined
    <2>3. \A t \in Tasks : Step(t) => Write(t) \/ UNCHANGED saved
      BY DEF Step, Add, Check, AddAbsent, Require, Focus, Remove, Unfocus, Subscribe,
             Unsubscribe, Enqueue, Launch, SaveJoined, SaveCurrent, Seal, ClearJoined,
             ClearCurrent, Read, LoadJoined, LoadCurrent, Unseal, state
    <2>4. ASSUME NEW t \in Tasks,
                 Call(t) \/ CallSave(t) \/ (t = Events /\ ReceiveInvitation)
          PROVE  UNCHANGED saved
      <3>1. PICK steps, r : Begins(t, steps, r)
        BY <1>1, <2>4, CallsBegin DEF Inv
      <3> QED
        BY <3>1 DEF Begins, Begin, state
    <2>5. RunCommand \/ Restart \/ UNCHANGED vars => UNCHANGED saved
      BY DEF RunCommand, Restart, vars
    <2> QED
      BY <1>1, <2>1, <2>2, <2>3, <2>4, <2>5 DEF Next, Tasks
  <1> QED
    BY <1>1, Invariant, PTL DEF Spec, SavedUntilLeft
=============================================================================

--------------------------- MODULE Frontend_proofs ---------------------------
(***************************************************************************)
(* Theorems about Frontend, for any rooms and any bounds.                  *)
(***************************************************************************)
EXTENDS Frontend, SequenceTheorems, TLAPS

-----------------------------------------------------------------------------
(* A list of calls or events that changes. *)

LEMMA Removed ==
    ASSUME NEW S, NEW s \in Seq(S), NEW i \in DOMAIN s
    PROVE  /\ RemoveAt(s, i) \in Seq(S)
           /\ DOMAIN RemoveAt(s, i) = 1..(Len(s) - 1)
           /\ \A k \in 1..(Len(s) - 1) :
                 RemoveAt(s, i)[k] = IF k < i THEN s[k] ELSE s[k + 1]
  <1> DEFINE front == SubSeq(s, 1, i - 1)
             back == SubSeq(s, i + 1, Len(s))
  <1>1. /\ DOMAIN s = 1..Len(s) /\ Len(s) \in Nat /\ i \in 1..Len(s)
        /\ \A k \in 1..Len(s) : s[k] \in S
    BY LenProperties
  <1>2. /\ front \in Seq(S) /\ Len(front) = i - 1
        /\ \A k \in 1..(i - 1) : front[k] = s[k]
    <2>1. \A k \in 1..(i - 1) : s[k] \in S
      BY <1>1
    <2>2. 1 \in Int /\ i - 1 \in Int
      BY <1>1
    <2>3. /\ front \in Seq(S)
          /\ Len(front) = IF 1 <= i - 1 THEN i - 1 - 1 + 1 ELSE 0
          /\ \A k \in 1..(i - 1 - 1 + 1) : front[k] = s[1 + k - 1]
      BY <2>1, <2>2, SubSeqProperties
    <2> HIDE DEF front
    <2> QED
      BY <1>1, <2>3
  <1>3. /\ back \in Seq(S) /\ Len(back) = Len(s) - i
        /\ \A k \in 1..(Len(s) - i) : back[k] = s[i + k]
    <2>1. \A k \in (i + 1)..Len(s) : s[k] \in S
      BY <1>1
    <2>2. i + 1 \in Int /\ Len(s) \in Int
      BY <1>1
    <2>3. /\ back \in Seq(S)
          /\ Len(back) = IF i + 1 <= Len(s) THEN Len(s) - (i + 1) + 1 ELSE 0
          /\ \A k \in 1..(Len(s) - (i + 1) + 1) : back[k] = s[i + 1 + k - 1]
      BY <2>1, <2>2, SubSeqProperties
    <2> HIDE DEF back
    <2>4. Len(s) - (i + 1) + 1 = Len(s) - i
      BY <1>1
    <2>5. Len(back) = Len(s) - i
      BY <1>1, <2>3, <2>4
    <2>6. ASSUME NEW k \in 1..(Len(s) - i)
          PROVE  back[k] = s[i + k]
      <3>1. back[k] = s[i + 1 + k - 1]
        BY <2>3, <2>4, <2>6
      <3>2. i + 1 + k - 1 = i + k
        BY <1>1, <2>6
      <3> QED
        BY <3>1, <3>2
    <2> QED
      BY <2>3, <2>5, <2>6
  <1>4. RemoveAt(s, i) = front \o back
    BY DEF RemoveAt
  <1>5. front \in Seq(S) /\ back \in Seq(S)
    BY <1>2, <1>3
  <1> HIDE DEF front, back
  <1>6. /\ front \o back \in Seq(S)
        /\ Len(front \o back) = Len(front) + Len(back)
        /\ \A k \in 1..(Len(front) + Len(back)) :
              (front \o back)[k] = IF k <= Len(front) THEN front[k]
                                   ELSE back[k - Len(front)]
    BY <1>5, ConcatProperties
  <1>7. Len(front) + Len(back) = Len(s) - 1
    BY <1>1, <1>2, <1>3
  <1>8. DOMAIN (front \o back) = 1..(Len(s) - 1)
    BY <1>6, <1>7, LenProperties
  <1>9. ASSUME NEW k \in 1..(Len(s) - 1)
        PROVE  (front \o back)[k] = IF k < i THEN s[k] ELSE s[k + 1]
    <2>1. CASE k < i
      BY <1>1, <1>2, <1>6, <1>7, <2>1
    <2>2. CASE ~(k < i)
      <3>1. k - (i - 1) \in 1..(Len(s) - i) /\ i + (k - (i - 1)) = k + 1
        BY <1>1, <2>2
      <3>2. (front \o back)[k] = back[k - (i - 1)]
        BY <1>1, <1>2, <1>6, <1>7, <2>2
      <3> QED
        BY <1>3, <2>2, <3>1, <3>2
    <2> QED
      BY <2>1, <2>2
  <1> QED
    BY <1>4, <1>6, <1>8, <1>9

LEMMA Appended ==
    ASSUME NEW S, NEW s \in Seq(S), NEW v \in S
    PROVE  /\ Append(s, v) \in Seq(S)
           /\ DOMAIN Append(s, v) = 1..(Len(s) + 1)
           /\ DOMAIN s = 1..Len(s) /\ Len(s) \in Nat
           /\ \A k \in 1..Len(s) : Append(s, v)[k] = s[k]
           /\ Append(s, v)[Len(s) + 1] = v
  <1>1. /\ Append(s, v) \in Seq(S) /\ Len(Append(s, v)) = Len(s) + 1
        /\ \A k \in 1..Len(s) : Append(s, v)[k] = s[k]
        /\ Append(s, v)[Len(s) + 1] = v
    BY AppendProperties
  <1> QED
    BY <1>1, LenProperties

LEMMA Shortened ==
    ASSUME NEW S, NEW s \in Seq(S), s # << >>
    PROVE  /\ Head(s) \in S /\ Head(s) = s[1] /\ 1 \in DOMAIN s
           /\ Tail(s) \in Seq(S)
           /\ DOMAIN Tail(s) = 1..(Len(s) - 1)
           /\ DOMAIN s = 1..Len(s) /\ Len(s) \in Nat \ {0}
           /\ \A k \in 1..(Len(s) - 1) : Tail(s)[k] = s[k + 1]
  <1>1. /\ Tail(s) \in Seq(S) /\ Head(s) \in S /\ Len(Tail(s)) = Len(s) - 1
        /\ \A k \in 1..Len(Tail(s)) : Tail(s)[k] = s[k + 1]
    BY HeadTailProperties
  <1>2. Len(s) \in Nat \ {0} /\ DOMAIN s = 1..Len(s)
    BY EmptySeq, LenProperties
  <1>3. DOMAIN Tail(s) = 1..(Len(s) - 1)
    BY <1>1, LenProperties
  <1>4. Head(s) = s[1]
    OBVIOUS
  <1> QED
    BY <1>1, <1>2, <1>3, <1>4

\* What is in the list, and that at most one entry is in V.
Lone(s, V) == \A i, j \in DOMAIN s : s[i] \in V /\ s[j] \in V => i = j

LEMMA ReplacedHas ==
    ASSUME NEW S, NEW s \in Seq(S), NEW i \in DOMAIN s, NEW v \in S,
           NEW u \in Seq(S), DOMAIN u = DOMAIN s,
           \A k \in DOMAIN s : u[k] = IF k = i THEN v ELSE s[k]
    PROVE  /\ v \in ToSet(u)
           /\ ToSet(u) \subseteq ToSet(s) \cup {v}
           /\ ToSet(s) \subseteq ToSet(u) \cup {s[i]}
           /\ \A V : Lone(s, V) /\ (v \in V => s[i] \in V) => Lone(u, V)
           /\ \A V : Lone(s, V) /\ s[i] \in V => ToSet(u) \cap V \subseteq {v}
  BY DEF ToSet, Lone

LEMMA AppendedHas ==
    ASSUME NEW S, NEW s \in Seq(S), NEW v \in S
    PROVE  /\ Append(s, v) \in Seq(S)
           /\ ToSet(Append(s, v)) = ToSet(s) \cup {v}
           /\ \A V : Lone(s, V) /\ (v \in V => ToSet(s) \cap V = {})
                    => Lone(Append(s, v), V)
  <1> DEFINE u == Append(s, v)
  <1>1. /\ u \in Seq(S) /\ DOMAIN u = 1..(Len(s) + 1) /\ DOMAIN s = 1..Len(s)
        /\ Len(s) \in Nat /\ \A k \in 1..Len(s) : u[k] = s[k]
        /\ u[Len(s) + 1] = v
    BY Appended
  <1> HIDE DEF u
  <1>2. \A k \in DOMAIN u : k \in DOMAIN s \/ k = Len(s) + 1
    BY <1>1
  <1>3. ToSet(u) = ToSet(s) \cup {v}
    BY <1>1, <1>2 DEF ToSet
  <1>4. ASSUME NEW V, Lone(s, V), v \in V => ToSet(s) \cap V = {}
        PROVE  Lone(u, V)
    BY <1>1, <1>2, <1>4 DEF ToSet, Lone
  <1> QED
    BY <1>1, <1>3, <1>4 DEF u

LEMMA RemovedHas ==
    ASSUME NEW S, NEW s \in Seq(S), NEW i \in DOMAIN s,
           NEW u, u = RemoveAt(s, i)
    PROVE  /\ u \in Seq(S)
           /\ ToSet(u) \subseteq ToSet(s)
           /\ ToSet(s) \subseteq ToSet(u) \cup {s[i]}
           /\ \A V : Lone(s, V) => Lone(u, V)
           /\ \A V : Lone(s, V) /\ s[i] \in V => ToSet(u) \cap V = {}
  <1>1. /\ u \in Seq(S) /\ DOMAIN u = 1..(Len(s) - 1)
        /\ \A k \in 1..(Len(s) - 1) : u[k] = IF k < i THEN s[k] ELSE s[k + 1]
    BY Removed
  <1>2. DOMAIN s = 1..Len(s) /\ Len(s) \in Nat /\ i \in 1..Len(s)
    BY LenProperties
  <1> DEFINE old(k) == IF k < i THEN k ELSE k + 1
  <1>3. \A k \in DOMAIN u : old(k) \in DOMAIN s /\ old(k) # i /\ u[k] = s[old(k)]
    BY <1>1, <1>2
  <1>4. \A k, l \in DOMAIN u : old(k) = old(l) => k = l
    BY <1>1, <1>2
  <1>5. \A j \in DOMAIN s : j # i => \E k \in DOMAIN u : u[k] = s[j]
    <2>1. ASSUME NEW j \in DOMAIN s, j < i
          PROVE  \E k \in DOMAIN u : u[k] = s[j]
      BY <1>1, <1>2, <2>1
    <2>2. ASSUME NEW j \in DOMAIN s, j > i
          PROVE  \E k \in DOMAIN u : u[k] = s[j]
      <3>1. j - 1 \in DOMAIN u /\ u[j - 1] = s[j - 1 + 1] /\ j - 1 + 1 = j
        BY <1>1, <1>2, <2>2
      <3> QED
        BY <3>1
    <2> QED
      BY <1>2, <2>1, <2>2
  <1> HIDE DEF old
  <1>6. ToSet(u) \subseteq ToSet(s) /\ ToSet(s) \subseteq ToSet(u) \cup {s[i]}
    BY <1>3, <1>5 DEF ToSet
  <1>7. ASSUME NEW V, Lone(s, V)
        PROVE  Lone(u, V) /\ (s[i] \in V => ToSet(u) \cap V = {})
    BY <1>3, <1>4, <1>7 DEF ToSet, Lone
  <1> QED
    BY <1>1, <1>6, <1>7

LEMMA ShortenedHas ==
    ASSUME NEW S, NEW s \in Seq(S), s # << >>, NEW u, u = Tail(s)
    PROVE  /\ u \in Seq(S)
           /\ Head(s) \in ToSet(s)
           /\ ToSet(u) \subseteq ToSet(s)
           /\ ToSet(s) \subseteq ToSet(u) \cup {Head(s)}
  <1>1. /\ Head(s) = s[1] /\ 1 \in DOMAIN s /\ u \in Seq(S)
        /\ DOMAIN u = 1..(Len(s) - 1) /\ DOMAIN s = 1..Len(s)
        /\ Len(s) \in Nat \ {0}
        /\ \A k \in 1..(Len(s) - 1) : u[k] = s[k + 1]
    BY Shortened
  <1>2. \A k \in DOMAIN u : k + 1 \in DOMAIN s
    BY <1>1
  <1>3. \A j \in DOMAIN s : j # 1 => \E k \in DOMAIN u : u[k] = s[j]
    <2>1. ASSUME NEW j \in DOMAIN s, j # 1
          PROVE  j - 1 \in DOMAIN u /\ u[j - 1] = s[j - 1 + 1] /\ j - 1 + 1 = j
      BY <1>1, <2>1
    <2> QED
      BY <2>1
  <1> QED
    BY <1>1, <1>2, <1>3 DEF ToSet

-----------------------------------------------------------------------------
(* What a step does to the commands under way. *)

Steps == {"start", "save", "publish", "switch", "shut", "clear", "done",
          "saved", "refused"}

\* The command c is now v, is new, or is over.
Turned(c, v) ==
    /\ calls' \in Seq(Calls)
    /\ v \in Calls /\ c \in Calls
    /\ c \in ToSet(calls) /\ v \in ToSet(calls')
    /\ ToSet(calls') \subseteq ToSet(calls) \cup {v}
    /\ ToSet(calls) \subseteq ToSet(calls') \cup {c}
    /\ \A V : Lone(calls, V) /\ (v \in V => c \in V) => Lone(calls', V)
    /\ \A V : Lone(calls, V) /\ c \in V => ToSet(calls') \cap V \subseteq {v}

Began(v) ==
    /\ calls' \in Seq(Calls)
    /\ v \in Calls
    /\ ToSet(calls') = ToSet(calls) \cup {v}
    /\ \A V : Lone(calls, V) /\ (v \in V => ToSet(calls) \cap V = {}) => Lone(calls', V)

Over(c) ==
    /\ calls' \in Seq(Calls)
    /\ c \in Calls
    /\ c \in ToSet(calls)
    /\ ToSet(calls') \subseteq ToSet(calls)
    /\ ToSet(calls) \subseteq ToSet(calls') \cup {c}
    /\ \A V : Lone(calls, V) => Lone(calls', V)
    /\ \A V : Lone(calls, V) /\ c \in V => ToSet(calls') \cap V = {}

LEMMA InCalls ==
    ASSUME calls \in Seq(Calls), NEW i \in DOMAIN calls
    PROVE  calls[i] \in Calls /\ calls[i] \in ToSet(calls)
  BY DEF ToSet

LEMMA Turns ==
    ASSUME calls \in Seq(Calls), NEW i \in DOMAIN calls, NEW v \in Calls,
           calls' = [calls EXCEPT ![i] = v]
    PROVE  Turned(calls[i], v)
  <1>1. calls[i] \in Calls /\ calls[i] \in ToSet(calls)
    BY InCalls
  <1>2. /\ calls' \in Seq(Calls) /\ DOMAIN calls' = DOMAIN calls
        /\ \A k \in DOMAIN calls : calls'[k] = IF k = i THEN v ELSE calls[k]
    <2>1. [calls EXCEPT ![i] = v] \in Seq(Calls)
      BY ExceptSeq, LenProperties
    <2> QED
      BY <2>1
  <1> DEFINE u == calls'
  <1> HIDE DEF u
  <1>3. /\ v \in ToSet(u)
        /\ ToSet(u) \subseteq ToSet(calls) \cup {v}
        /\ ToSet(calls) \subseteq ToSet(u) \cup {calls[i]}
        /\ \A V : Lone(calls, V) /\ (v \in V => calls[i] \in V) => Lone(u, V)
        /\ \A V : Lone(calls, V) /\ calls[i] \in V => ToSet(u) \cap V \subseteq {v}
    <2>1. /\ u \in Seq(Calls) /\ DOMAIN u = DOMAIN calls
          /\ \A k \in DOMAIN calls : u[k] = IF k = i THEN v ELSE calls[k]
      BY <1>2 DEF u
    <2> QED
      BY <2>1, ReplacedHas
  <1> QED
    BY <1>1, <1>2, <1>3 DEF Turned, u

LEMMA Begins ==
    ASSUME calls \in Seq(Calls), NEW v \in Calls, calls' = Append(calls, v)
    PROVE  Began(v)
  <1> DEFINE u == Append(calls, v)
  <1>1. /\ u \in Seq(Calls)
        /\ ToSet(u) = ToSet(calls) \cup {v}
        /\ \A V : Lone(calls, V) /\ (v \in V => ToSet(calls) \cap V = {})
                  => Lone(u, V)
    BY AppendedHas
  <1>2. calls' = u
    OBVIOUS
  <1> HIDE DEF u
  <1> QED
    BY <1>1, <1>2 DEF Began

LEMMA IsOver ==
    ASSUME calls \in Seq(Calls), NEW i \in DOMAIN calls, Ends(i)
    PROVE  Over(calls[i])
  <1>1. calls' = RemoveAt(calls, i)
    BY DEF Ends
  <1> QED
    BY <1>1, RemovedHas, InCalls DEF Over

LEMMA GoesTo ==
    ASSUME calls \in Seq(Calls), NEW i \in DOMAIN calls, NEW step \in Steps,
           Goto(i, step)
    PROVE  \E v \in Calls :
              /\ Turned(calls[i], v)
              /\ v.what = calls[i].what /\ v.step = step
              /\ v.room = calls[i].room /\ v.got = calls[i].got
              /\ v.on = calls[i].on
  <1> DEFINE v == [calls[i] EXCEPT !.step = step]
  <1>1. calls[i] \in Calls
    BY InCalls
  <1>2. /\ v \in Calls /\ v.what = calls[i].what /\ v.step = step
        /\ v.room = calls[i].room /\ v.got = calls[i].got /\ v.on = calls[i].on
    BY <1>1 DEF Calls, Steps
  <1>3. calls' = [calls EXCEPT ![i] = v]
    BY DEF Goto
  <1> HIDE DEF v
  <1>4. Turned(calls[i], v)
    BY <1>2, <1>3, Turns
  <1> QED
    BY <1>2, <1>4

\* The commands that go on and change more than their step.
LEMMA KeepGoes ==
    ASSUME TypeOK, NEW i \in DOMAIN calls, Keep(i)
    PROVE  \E v \in Calls :
              /\ Turned(calls[i], v)
              /\ v.what = "send" /\ v.step = "publish" /\ v.got = calls[i].got
  <1> DEFINE v == [calls[i] EXCEPT !.step = "publish", !.on = enabled]
  <1>1. calls \in Seq(Calls) /\ enabled \in BOOLEAN /\ calls[i] \in Calls
    BY InCalls DEF TypeOK
  <1>2. /\ v \in Calls /\ v.what = "send" /\ v.step = "publish"
        /\ v.got = calls[i].got
    BY <1>1 DEF Calls, Keep, At
  <1>3. calls' = [calls EXCEPT ![i] = v]
    BY DEF Keep
  <1> HIDE DEF v
  <1>4. Turned(calls[i], v)
    BY <1>1, <1>2, <1>3, Turns
  <1> QED
    BY <1>2, <1>4

LEMMA GetMessagesGoes ==
    ASSUME TypeOK, NEW i \in DOMAIN calls, GetMessages(i)
    PROVE  \E v \in Calls :
              /\ Turned(calls[i], v)
              /\ v.what = "load" /\ v.step = "done"
              /\ v.got = InRoom(history, calls[i].room)
  <1> DEFINE answer == InRoom(history, calls[i].room)
             v == [calls[i] EXCEPT !.step = "done", !.got = answer]
  <1>1. calls \in Seq(Calls) /\ calls[i] \in Calls /\ answer \subseteq Messages
    BY InCalls DEF TypeOK, InRoom
  <1>2. calls' = [calls EXCEPT ![i] = v]
    BY DEF GetMessages
  <1> HIDE DEF answer
  <1>3. v \in Calls /\ v.what = "load" /\ v.step = "done" /\ v.got = answer
    BY <1>1 DEF Calls, GetMessages, At
  <1> HIDE DEF v
  <1>4. Turned(calls[i], v)
    BY <1>1, <1>2, <1>3, Turns
  <1> QED
    BY <1>3, <1>4 DEF answer

LEMMA LoadMessagesGoes ==
    ASSUME TypeOK, NEW i \in DOMAIN calls, LoadMessages(i)
    PROVE  \E v \in Calls :
              Turned(calls[i], v) /\ v.what = "unlock" /\ v.step = "switch"
  <1> DEFINE v == [calls[i] EXCEPT !.step = "switch", !.on = vault.enabled]
  <1>1. calls \in Seq(Calls) /\ calls[i] \in Calls /\ vault.enabled \in BOOLEAN
    BY InCalls DEF TypeOK, LoadMessages, Vaults
  <1>2. calls' = [calls EXCEPT ![i] = v]
    BY DEF LoadMessages
  <1>3. v \in Calls /\ v.what = "unlock" /\ v.step = "switch"
    BY <1>1 DEF Calls, LoadMessages, At
  <1> HIDE DEF v
  <1>4. Turned(calls[i], v)
    BY <1>1, <1>2, <1>3, Turns
  <1> QED
    BY <1>3, <1>4

-----------------------------------------------------------------------------
(* Types. *)

Whats == {"send", "enter", "leave", "toggle", "unlock", "lock", "connect", "load"}

LEMMA CallTyped ==
    ASSUME NEW what \in Whats
    PROVE  /\ Call(what) \in Calls
           /\ \A r \in Rooms \cup {None} : [Call(what) EXCEPT !.room = r] \in Calls
           /\ \A on \in BOOLEAN : [Call(what) EXCEPT !.on = on] \in Calls
           /\ \A got \in SUBSET Messages, shown \in BOOLEAN :
                 [Call(what) EXCEPT !.got = got, !.shown = shown] \in Calls
  <1>1. Call(what) \in Calls
    BY DEF Call, Calls, Whats
  <1> DEFINE c == Call(what)
  <1> HIDE DEF c
  <1>2. c \in Calls
    BY <1>1 DEF c
  <1>3. ASSUME NEW r \in Rooms \cup {None}
        PROVE  [c EXCEPT !.room = r] \in Calls
    BY <1>2 DEF Calls
  <1>4. ASSUME NEW on \in BOOLEAN
        PROVE  [c EXCEPT !.on = on] \in Calls
    BY <1>2 DEF Calls
  <1>5. ASSUME NEW got \in SUBSET Messages, NEW shown \in BOOLEAN
        PROVE  [c EXCEPT !.got = got, !.shown = shown] \in Calls
    BY <1>5 DEF c, Call, Calls, Whats
  <1> QED
    BY <1>2, <1>3, <1>4, <1>5 DEF c

LEMMA EmitAdds ==
    ASSUME events \in Seq(Events), NEW e \in Events, Emit(e)
    PROVE  events' \in Seq(Events) /\ ToSet(events') = ToSet(events) \cup {e}
  <1> DEFINE u == Append(events, e)
  <1>1. u \in Seq(Events) /\ ToSet(u) = ToSet(events) \cup {e}
    BY AppendedHas
  <1>2. events' = u
    BY DEF Emit
  <1> HIDE DEF u
  <1> QED
    BY <1>1, <1>2

LEMMA EventTyped ==
    ASSUME NEW what \in {"enter", "leave", "message", "toggled", "locked"},
           NEW r \in Rooms \cup {None}, NEW messages \in SUBSET Messages,
           NEW on \in BOOLEAN
    PROVE  Event(what, r, messages, on) \in Events
  BY DEF Event, Events

\* The numbers and the ghosts, and what is neither a call nor an event.
Plain ==
    /\ history \subseteq Messages
    /\ enabled \in BOOLEAN
    /\ unlocked \in BOOLEAN
    /\ vault \in Vaults \cup {None}
    /\ connected \in BOOLEAN
    /\ task \in Messages \cup {None}
    /\ room \in Rooms \cup {None}
    /\ pane \subseteq Messages
    /\ showsOn \in BOOLEAN
    /\ checkbox \in BOOLEAN
    /\ count \in Nat /\ clicks \in Nat /\ toggles \in Nat /\ faults \in Nat
    /\ failed \subseteq Messages
    /\ unsettled \in BOOLEAN
    /\ exposed \subseteq Messages

LEMMA TypeParts ==
    TypeOK <=> Plain /\ calls \in Seq(Calls) /\ events \in Seq(Events)
  BY DEF TypeOK, Plain

LEMMA TypePartsNext ==
    TypeOK' <=> Plain' /\ calls' \in Seq(Calls) /\ events' \in Seq(Events)
  BY DEF TypeOK, Plain

LEMMA TypeInitially == Init => TypeOK
  <1> SUFFICES ASSUME Init PROVE TypeOK
    OBVIOUS
  <1>1. calls \in Seq(Calls) /\ events \in Seq(Events)
    BY EmptySeq DEF Init
  <1>2. OldMessages \subseteq Messages
    BY FrontendAssumption DEF OldMessages, Messages
  <1>3. /\ history \subseteq Messages /\ vault \in Vaults \cup {None}
        /\ unlocked \in BOOLEAN /\ connected \in BOOLEAN
        /\ room \in Rooms \cup {None} /\ pane \subseteq Messages
    <2>1. CASE NewProcess
      <3>1. vault \in Vaults \cup {None}
        <4>1. ASSUME NEW on \in BOOLEAN
              PROVE  [messages |-> OldMessages, enabled |-> on] \in Vaults
          BY <1>2 DEF Vaults
        <4> QED
          BY <2>1, <4>1 DEF NewProcess
      <3> QED
        BY <2>1, <3>1 DEF NewProcess
    <2>2. CASE RunningProcess
      <3>1. vault = [messages |-> OldMessages, enabled |-> TRUE]
        BY <2>2 DEF RunningProcess
      <3>2. vault \in Vaults
        BY <1>2, <3>1 DEF Vaults
      <3>3. /\ history = OldMessages /\ pane = InRoom(history, room)
            /\ unlocked = TRUE /\ connected = TRUE /\ room \in Rooms
        BY <2>2 DEF RunningProcess
      <3>4. pane \subseteq Messages
        BY <1>2, <3>3 DEF InRoom
      <3> QED
        BY <1>2, <3>2, <3>3, <3>4
    <2> QED
      BY <2>1, <2>2 DEF Init
  <1> QED
    BY <1>1, <1>3, TypeParts DEF Init, Plain

LEMMA SaveTyped ==
    ASSUME Plain, Save \/ SaveFails
    PROVE  vault' \in Vaults \cup {None} /\ faults' \in Nat
  BY DEF Plain, Save, SaveFails, Saved, Vaults

LEMMA NewMessage ==
    ASSUME Plain, count < MaxMessages, NEW r \in Rooms
    PROVE  count + 1 \in Nat /\ [id |-> count + 1, room |-> r] \in Messages
  BY FrontendAssumption DEF Plain, Messages

LEMMA TypeOfClicks ==
    ASSUME TypeOK, UserClicks
    PROVE  TypeOK'
  <1> USE DEF Whats
  <1>1. Plain /\ calls \in Seq(Calls) /\ events \in Seq(Events)
    BY TypeParts
  <1>2. ASSUME NEW c \in Calls, Click(c)
        PROVE  /\ calls' \in Seq(Calls) /\ events' \in Seq(Events)
               /\ clicks' \in Nat
    BY <1>1, <1>2, Begins DEF Click, Plain, Began
  <1>3. CASE ClickSend
    <2> DEFINE got == {[id |-> count', room |-> room]}
               c == [Call("send") EXCEPT !.got = got, !.shown = showsOn]
    <2>1. room \in Rooms /\ showsOn \in BOOLEAN /\ count' = count + 1
      BY <1>1, <1>3 DEF ClickSend, Plain
    <2>2. got \in SUBSET Messages /\ count' \in Nat
      BY <1>1, <1>3, <2>1, NewMessage DEF ClickSend
    <2>3. Click(c)
      BY <1>3 DEF ClickSend
    <2> HIDE DEF got
    <2>4. c \in Calls
      BY <2>1, <2>2, CallTyped
    <2> HIDE DEF c
    <2> QED
      BY <1>1, <1>2, <1>3, <2>2, <2>3, <2>4, TypePartsNext
         DEF ClickSend, Click, Plain, memory
  <1>4. CASE ClickToggle
    <2> DEFINE c == [Call("toggle") EXCEPT !.on = checkbox']
    <2>1. checkbox' \in BOOLEAN /\ toggles' \in Nat /\ unsettled' \in BOOLEAN
      BY <1>1, <1>4 DEF ClickToggle, Plain, UnderWay
    <2>2. c \in Calls
      BY <2>1, CallTyped
    <2>3. Click(c)
      BY <1>4 DEF ClickToggle
    <2> HIDE DEF c
    <2> QED
      BY <1>1, <1>2, <1>4, <2>1, <2>2, <2>3, TypePartsNext
         DEF ClickToggle, Click, Plain, memory
  <1>5. CASE ClickVault
    <2>1. PICK what \in {"lock", "unlock"} : Click(Call(what))
      BY <1>5 DEF ClickVault
    <2> QED
      BY <1>1, <1>2, <1>5, <2>1, CallTyped, TypePartsNext
         DEF ClickVault, Click, Plain, memory
  <1>6. CASE ClickConnect
    BY <1>1, <1>2, <1>6, CallTyped, TypePartsNext DEF ClickConnect, Click, Plain, memory
  <1>7. ASSUME NEW r \in Rooms, ClickEnter(r) \/ ClickLeave(r)
        PROVE  TypeOK'
    <2>1. PICK what \in {"enter", "leave"} : Click([Call(what) EXCEPT !.room = r])
      BY <1>7 DEF ClickEnter, ClickLeave
    <2> DEFINE c == [Call(what) EXCEPT !.room = r]
    <2>2. c \in Calls
      BY CallTyped
    <2> HIDE DEF c
    <2>3. Click(c)
      BY <2>1 DEF c
    <2>4. UNCHANGED <<checkbox, count, toggles, unsettled>>
      BY <1>7 DEF ClickEnter, ClickLeave
    <2> QED
      BY <1>1, <1>2, <2>2, <2>3, <2>4, TypePartsNext DEF Click, Plain, memory
  <1> QED
    BY <1>3, <1>4, <1>5, <1>6, <1>7 DEF UserClicks

LEMMA TypeOfRun ==
    ASSUME TypeOK, NEW i \in DOMAIN calls, Run(i)
    PROVE  TypeOK'
  <1>1. /\ Plain /\ calls \in Seq(Calls) /\ events \in Seq(Events)
        /\ calls[i] \in Calls
    BY TypeParts, InCalls
  <1>2. ASSUME NEW step \in Steps, Goto(i, step)
        PROVE  calls' \in Seq(Calls)
    BY <1>1, <1>2, GoesTo DEF Turned
  <1>3. Ends(i) => calls' \in Seq(Calls)
    BY <1>1, IsOver DEF Over
  <1>4. ASSUME Save \/ SaveFails
        PROVE  vault' \in Vaults \cup {None} /\ faults' \in Nat
    BY <1>1, <1>4, SaveTyped
  <1>5. ASSUME NEW e \in Events, Emit(e)
        PROVE  events' \in Seq(Events)
    BY <1>1, <1>5, EmitAdds
  <1>6. /\ calls[i].got \in SUBSET Messages /\ calls[i].on \in BOOLEAN
        /\ calls[i].room \in Rooms \cup {None}
    BY <1>1 DEF Calls
  <1> USE DEF Steps
  <1>7. CASE StartNetwork(i)
    <2>1. vault' \in Vaults \cup {None} /\ faults' \in Nat /\ connected' \in BOOLEAN
      BY <1>1, <1>4, <1>7 DEF StartNetwork, Plain
    <2> QED
      BY <1>1, <1>3, <1>7, <2>1, TypePartsNext
         DEF StartNetwork, Plain, memory, page, ghosts
  <1>8. CASE Keep(i)
    <2>1. calls' \in Seq(Calls)
      BY <1>8, KeepGoes DEF Turned
    <2>2. history' \subseteq Messages
      BY <1>1, <1>6, <1>8 DEF Keep, Plain
    <2> QED
      BY <1>1, <1>8, <2>1, <2>2, TypePartsNext DEF Keep, Plain, page, counters, ghosts
  <1>9. CASE Publish(i)
    <2> DEFINE e == Event("message", None, calls[i].got, FALSE)
    <2>1. e \in Events
      BY <1>6, EventTyped
    <2>2. Emit(e) /\ Goto(i, "save")
      BY <1>9 DEF Publish
    <2> HIDE DEF e
    <2>3. exposed' \subseteq Messages
      BY <1>1, <1>6, <1>9 DEF Publish, Plain
    <2> QED
      BY <1>1, <1>2, <1>5, <1>9, <2>1, <2>2, <2>3, TypePartsNext
         DEF Publish, Plain, memory, page, counters
  <1>10. CASE PublishFails(i)
    <2>1. failed' \subseteq Messages
      BY <1>1, <1>6, <1>10 DEF PublishFails, Plain
    <2> QED
      BY <1>1, <1>3, <1>10, <2>1, TypePartsNext
         DEF PublishFails, Plain, memory, page, counters
  <1>11. CASE SendSaves(i)
    BY <1>1, <1>3, <1>4, <1>11, TypePartsNext
       DEF SendSaves, Plain, memory, page, ghosts
  <1>12. CASE RoomCommand(i)
    <2> DEFINE e == Event(calls[i].what, calls[i].room, {}, FALSE)
    <2>1. calls[i].what \in {"enter", "leave"}
      BY <1>12 DEF RoomCommand
    <2>2. e \in Events
      BY <1>6, <2>1, EventTyped
    <2>3. (Emit(e) /\ (Save \/ SaveFails)) \/ UNCHANGED <<events, vault, faults>>
      BY <1>12 DEF RoomCommand
    <2> HIDE DEF e
    <2>4. /\ events' \in Seq(Events) /\ vault' \in Vaults \cup {None}
          /\ faults' \in Nat
      BY <1>1, <1>4, <1>5, <2>2, <2>3 DEF Plain
    <2> QED
      BY <1>1, <1>3, <1>12, <2>4, TypePartsNext
         DEF RoomCommand, Plain, memory, page, ghosts
  <1>13. CASE Toggle(i)
    <2> DEFINE e == Event("toggled", None, {}, calls[i].on)
    <2>1. e \in Events
      BY <1>6, EventTyped
    <2>2. Emit(e) /\ Goto(i, "save") /\ enabled' = calls[i].on
      BY <1>13 DEF Toggle
    <2> HIDE DEF e
    <2> QED
      BY <1>1, <1>2, <1>5, <1>6, <1>13, <2>1, <2>2, TypePartsNext
         DEF Toggle, Plain, page, counters, ghosts
  <1>14. CASE ToggleSaved(i)
    BY <1>1, <1>2, <1>4, <1>14, TypePartsNext
       DEF ToggleSaved, Plain, memory, page, ghosts
  <1>15. CASE GetMessages(i)
    BY <1>1, <1>15, GetMessagesGoes, TypePartsNext
       DEF GetMessages, Turned, Plain, memory, page, counters, ghosts
  <1>16. CASE UnlockFails(i)
    BY <1>1, <1>3, <1>16, TypePartsNext
       DEF UnlockFails, Plain, memory, page, counters, ghosts
  <1>17. CASE CreateVault(i)
    <2>1. vault' \in Vaults
      BY <1>1, <1>17 DEF CreateVault, Plain, Vaults
    <2> QED
      BY <1>1, <1>2, <1>17, <2>1, TypePartsNext
         DEF CreateVault, Plain, page, counters, ghosts
  <1>18. CASE LoadMessages(i)
    <2>1. calls' \in Seq(Calls)
      BY <1>18, LoadMessagesGoes DEF Turned
    <2>2. history' \subseteq Messages
      BY <1>1, <1>18 DEF LoadMessages, Plain, Vaults
    <2> QED
      BY <1>1, <1>18, <2>1, <2>2, TypePartsNext
         DEF LoadMessages, Plain, page, counters, ghosts
  <1>19. CASE LoadSwitch(i)
    BY <1>1, <1>2, <1>6, <1>19, TypePartsNext
       DEF LoadSwitch, Plain, page, counters
  <1>20. CASE LockSaves(i)
    BY <1>1, <1>2, <1>3, <1>4, <1>20, TypePartsNext
       DEF LockSaves, Plain, memory, page, ghosts
  <1>21. CASE Shut(i)
    BY <1>1, <1>2, <1>21, TypePartsNext DEF Shut, Plain, page, counters, ghosts
  <1>22. CASE ClearHistory(i)
    <2> DEFINE e == Event("locked", None, {}, FALSE)
    <2>1. e \in Events
      BY EventTyped
    <2>2. Emit(e) /\ Goto(i, "done") /\ history' = {}
      BY <1>22 DEF ClearHistory
    <2> HIDE DEF e
    <2> QED
      BY <1>1, <1>2, <1>5, <1>22, <2>1, <2>2, TypePartsNext
         DEF ClearHistory, Plain, page, counters, ghosts
  <1> QED
    BY <1>7, <1>8, <1>9, <1>10, <1>11, <1>12, <1>13, <1>14, <1>15, <1>16, <1>17,
       <1>18, <1>19, <1>20, <1>21, <1>22 DEF Run

LEMMA TypeOfAnswers ==
    ASSUME TypeOK, NEW i \in DOMAIN calls, Answered(i)
    PROVE  TypeOK'
  <1>1. /\ Plain /\ calls \in Seq(Calls) /\ events \in Seq(Events)
        /\ calls[i] \in Calls
    BY TypeParts, InCalls
  <1>2. RemoveAt(calls, i) \in Seq(Calls)
    BY <1>1, Removed
  <1>3. /\ calls[i].got \in SUBSET Messages /\ calls[i].on \in BOOLEAN
    BY <1>1 DEF Calls
  <1>4. UNCHANGED <<memory, vault, connected, task, events, counters, ghosts>>
    BY DEF Answered
  <1>5. CASE Loaded(i)
    BY <1>1, <1>2, <1>3, <1>4, <1>5, TypePartsNext
       DEF Loaded, Display, InRoom, Ends, Plain, memory, counters, ghosts
  <1>6. CASE Unlocked(i)
    <2>1. ClearAndLoad(room, RemoveAt(calls, i)) /\ UNCHANGED <<room, showsOn, checkbox>>
      BY <1>6 DEF Unlocked
    <2>2. CASE room = None
      BY <1>1, <1>2, <1>4, <2>1, <2>2, TypePartsNext
         DEF ClearAndLoad, Plain, memory, counters, ghosts
    <2>3. CASE room # None
      <3> DEFINE c == [Call("load") EXCEPT !.room = room]
      <3>1. c \in Calls
        BY <1>1, <2>3, CallTyped DEF Plain, Whats
      <3>2. calls' = Append(RemoveAt(calls, i), c) /\ pane' = {}
        BY <2>1, <2>3 DEF ClearAndLoad
      <3> HIDE DEF c
      <3>3. calls' \in Seq(Calls)
        BY <1>2, <3>1, <3>2, AppendProperties
      <3> QED
        BY <1>1, <1>4, <2>1, <3>2, <3>3, TypePartsNext DEF Plain, memory, counters, ghosts
    <2> QED
      BY <2>2, <2>3
  <1>7. CASE Locked(i)
    <2>1. calls' \in Seq(Calls) /\ pane' = {} /\ UNCHANGED <<room, showsOn, checkbox>>
      BY <1>2, <1>7 DEF Locked, Ends
    <2> QED
      BY <1>1, <1>4, <2>1, TypePartsNext DEF Plain, memory, counters, ghosts
  <1>8. CASE Toggled(i)
    <2>1. calls' \in Seq(Calls) /\ UNCHANGED <<room, pane>>
      BY <1>2, <1>8 DEF Toggled, Ends
    <2>2. showsOn' \in BOOLEAN /\ checkbox' \in BOOLEAN
      BY <1>1, <1>3, <1>8 DEF Toggled, Plain
    <2> QED
      BY <1>1, <1>4, <2>1, <2>2, TypePartsNext DEF Plain, memory, counters, ghosts
  <1> QED
    BY <1>5, <1>6, <1>7, <1>8 DEF Answered

LEMMA TypeOfListen ==
    ASSUME TypeOK, Listen
    PROVE  TypeOK'
  <1>1. Plain /\ calls \in Seq(Calls) /\ events \in Seq(Events)
    BY TypeParts
  <1> DEFINE e == Head(events)
  <1>2. e \in Events /\ Tail(events) \in Seq(Events)
    BY <1>1, Shortened DEF Listen
  <1>3. /\ OnEnter(e) \/ OnLeave(e) \/ OnMessage(e) \/ OnToggled(e) \/ OnLocked(e)
        /\ events' = Tail(events)
        /\ UNCHANGED <<memory, vault, connected, task, counters, ghosts>>
    BY DEF Listen
  <1> HIDE DEF e
  <1>4. e.room \in Rooms \cup {None} /\ e.got \in SUBSET Messages /\ e.on \in BOOLEAN
    BY <1>2 DEF Events
  <1>5. /\ room' \in Rooms \cup {None} /\ pane' \subseteq Messages
        /\ showsOn' \in BOOLEAN /\ checkbox' \in BOOLEAN /\ calls' \in Seq(Calls)
    <2>1. CASE OnEnter(e)
      <3>1. ClearAndLoad(e.room, calls) /\ room' = e.room /\ UNCHANGED <<showsOn, checkbox>>
        BY <2>1 DEF OnEnter
      <3>2. CASE e.room = None
        BY <1>1, <1>4, <3>1, <3>2 DEF ClearAndLoad, Plain
      <3>3. CASE e.room # None
        <4> DEFINE c == [Call("load") EXCEPT !.room = e.room]
        <4>1. c \in Calls
          BY <1>4, CallTyped DEF Whats
        <4>2. calls' = Append(calls, c) /\ pane' = {}
          BY <3>1, <3>3 DEF ClearAndLoad
        <4> HIDE DEF c
        <4>3. calls' \in Seq(Calls)
          BY <1>1, <4>1, <4>2, AppendProperties
        <4> QED
          BY <1>1, <1>4, <3>1, <4>2, <4>3 DEF Plain
      <3> QED
        BY <3>2, <3>3
    <2>2. CASE OnLeave(e)
      BY <1>1, <2>2 DEF OnLeave, Plain
    <2>3. CASE OnMessage(e)
      BY <1>1, <1>4, <2>3 DEF OnMessage, Display, InRoom, Plain
    <2>4. CASE OnToggled(e)
      BY <1>1, <1>4, <2>4 DEF OnToggled, Plain
    <2>5. CASE OnLocked(e)
      BY <1>1, <2>5 DEF OnLocked, Plain
    <2> QED
      BY <1>3, <2>1, <2>2, <2>3, <2>4, <2>5
  <1> QED
    BY <1>1, <1>2, <1>3, <1>5, TypePartsNext DEF Plain, memory, counters, ghosts, e

LEMMA TypeOfTask ==
    ASSUME TypeOK, TellReceived \/ \E r \in Rooms : Receive(r) \/ Invited(r)
    PROVE  TypeOK'
  <1>1. Plain /\ calls \in Seq(Calls) /\ events \in Seq(Events)
    BY TypeParts
  <1>2. ASSUME NEW e \in Events, Emit(e)
        PROVE  events' \in Seq(Events)
    BY <1>1, <1>2, EmitAdds
  <1>3. CASE TellReceived
    <2> DEFINE e == Event("message", None, {task}, FALSE)
    <2>1. {task} \in SUBSET Messages
      BY <1>1, <1>3 DEF TellReceived, Plain
    <2>2. e \in Events
      BY <2>1, EventTyped
    <2>3. Emit(e)
      BY <1>3 DEF TellReceived
    <2> HIDE DEF e
    <2>4. vault' \in Vaults \cup {None} /\ faults' \in Nat
      BY <1>1, <1>3, SaveTyped DEF TellReceived
    <2> QED
      BY <1>1, <1>2, <1>3, <2>2, <2>3, <2>4, TypePartsNext
         DEF TellReceived, Plain, memory, page, ghosts
  <1>4. ASSUME NEW r \in Rooms, Receive(r)
        PROVE  TypeOK'
    <2>1. count' \in Nat /\ task' \in Messages /\ history' \subseteq Messages
      BY <1>1, <1>4, NewMessage DEF Receive, Plain
    <2> QED
      BY <1>1, <1>4, <2>1, TypePartsNext DEF Receive, Plain, page, ghosts
  <1>5. ASSUME NEW r \in Rooms, Invited(r)
        PROVE  TypeOK'
    <2> DEFINE e == Event("enter", r, {}, FALSE)
    <2>1. e \in Events
      BY EventTyped
    <2>2. Emit(e) /\ clicks' = clicks + 1
      BY <1>5 DEF Invited
    <2> HIDE DEF e
    <2> QED
      BY <1>1, <1>2, <1>5, <2>1, <2>2, TypePartsNext
         DEF Invited, Plain, memory, page, ghosts
  <1>6. CASE \E r \in Rooms : Receive(r) \/ Invited(r)
    <2>1. PICK r \in Rooms : Receive(r) \/ Invited(r)
      BY <1>6
    <2> QED
      BY <1>4, <1>5, <2>1
  <1> QED
    BY <1>3, <1>6

LEMMA TypeStep ==
    ASSUME TypeOK, [Next]_vars
    PROVE  TypeOK'
  <1>1. CASE Next
    BY <1>1, TypeOfClicks, TypeOfRun, TypeOfAnswers, TypeOfListen, TypeOfTask DEF Next
  <1>2. CASE UNCHANGED vars
    BY <1>2, TypeParts, TypePartsNext DEF Plain, vars, memory, page, counters, ghosts
  <1> QED
    BY <1>1, <1>2

\* Whatever the user, the network and the answers do, every part of the page
\* and of the memory it shows keeps its type: TypeOK of the runs, for any
\* rooms and bounds.
THEOREM TypeCorrect == Spec => []TypeOK
  <1> QED
    BY TypeInitially, TypeStep, PTL DEF Spec

\* However late an answer or an event, the page shows messages of the current
\* room only: what changes the room also clears the page, and what adds to
\* the page looks at the room of the message (main.ts:712-714, 823-833).
THEOREM OneRoomShown == Spec => []PaneInRoom
  <1>1. Init => PaneInRoom
    BY DEF Init, NewProcess, RunningProcess, PaneInRoom, InRoom
  <1>2. ASSUME PaneInRoom, [Next]_vars
        PROVE  PaneInRoom'
    <2>1. CASE UNCHANGED <<room, pane>>
      BY <1>2, <2>1 DEF PaneInRoom, InRoom
    <2>2. CASE Listen
      BY <1>2, <2>2 DEF Listen, OnEnter, OnLeave, OnMessage, OnToggled, OnLocked,
                        ClearAndLoad, Display, PaneInRoom, InRoom
    <2>3. ASSUME NEW i \in DOMAIN calls, Answered(i)
          PROVE  PaneInRoom'
      BY <1>2, <2>3 DEF Answered, Loaded, Unlocked, Locked, Toggled,
                        ClearAndLoad, Display, PaneInRoom, InRoom
    <2>4. UserClicks => UNCHANGED <<room, pane>>
      BY DEF UserClicks, ClickSend, ClickToggle, ClickVault, ClickConnect,
             ClickEnter, ClickLeave, Click
    <2>5. ASSUME NEW i \in DOMAIN calls, Run(i)
          PROVE  UNCHANGED page
      BY <2>5 DEF Run, StartNetwork, Keep, Publish, PublishFails, SendSaves,
                  RoomCommand, Toggle, ToggleSaved, GetMessages, UnlockFails,
                  CreateVault, LoadMessages, LoadSwitch, LockSaves, Shut,
                  ClearHistory
    <2>6. TellReceived \/ (\E r \in Rooms : Receive(r) \/ Invited(r)) => UNCHANGED page
      BY DEF TellReceived, Receive, Invited
    <2> QED
      BY <1>2, <2>1, <2>2, <2>3, <2>4, <2>5, <2>6 DEF Next, vars, page
  <1> QED
    BY <1>1, <1>2, PTL DEF Spec

-----------------------------------------------------------------------------
(* Unlocking and locking, one command at a time. *)

Vaulting == {c \in Calls : c.what \in {"unlock", "lock"}}

\* While the command runs its step says whether the vault is open.
Agrees(c) ==
    /\ c.what = "unlock" /\ c.step \in {"start", "switch"} => ~unlocked
    /\ c.what = "lock" /\ c.step \in {"clear", "done"} => ~unlocked

\* One command about the vault at a time, each in step with the vault; while
\* the page has yet to be told that the vault is locked, it stays locked.
VaultOrder ==
    /\ Lone(calls, Vaulting)
    /\ \A c \in ToSet(calls) : Agrees(c)
    /\ \A e \in ToSet(events) : e.what = "locked" =>
          /\ ~unlocked
          /\ \A c \in ToSet(calls) : c.what # "unlock"

LEMMA UnderWayHas ==
    ASSUME NEW whats
    PROVE  UnderWay(whats) <=> \E c \in ToSet(calls) : c.what \in whats
  BY DEF UnderWay, ToSet

LEMMA EmittedHas ==
    ASSUME NEW what
    PROVE  Emitted(what) <=> \E e \in ToSet(events) : e.what = what
  BY DEF Emitted, ToSet

\* Steps that leave all of this alone: a command of another kind goes on, or
\* begins, or is over, and what is emitted is not "locked".
LEMMA OrderAside ==
    ASSUME TypeOK, VaultOrder, unlocked' = unlocked,
           \A e \in ToSet(events') : e \in ToSet(events) \/ e.what # "locked",
           \/ calls' = calls
           \/ \E c \in Calls : Over(c)
           \/ \E v \in Calls : Began(v) /\ v \notin Vaulting
           \/ \E c, v \in Calls : Turned(c, v) /\ v \notin Vaulting
    PROVE  VaultOrder'
  <1>1. Lone(calls', Vaulting)
    BY DEF VaultOrder, Over, Began, Turned
  <1>2. ASSUME NEW c \in ToSet(calls')
        PROVE  c \in ToSet(calls) \/ (c \in Calls /\ c \notin Vaulting)
    BY <1>2 DEF Over, Began, Turned
  <1>3. ASSUME NEW c \in ToSet(calls')
        PROVE  Agrees(c)'
    BY <1>2, <1>3 DEF VaultOrder, Agrees, Vaulting
  <1>4. ASSUME NEW e \in ToSet(events'), e.what = "locked"
        PROVE  ~unlocked' /\ \A c \in ToSet(calls') : c.what # "unlock"
    BY <1>2, <1>4 DEF VaultOrder, Vaulting
  <1> QED
    BY <1>1, <1>3, <1>4 DEF VaultOrder

\* A click begins one command.
LEMMA ClickBegins ==
    ASSUME TypeOK, UserClicks
    PROVE  \E v \in Calls :
              /\ Began(v)
              /\ v.step = "start"
              /\ \/ /\ v.what \in {"send", "enter", "leave", "connect"}
                    /\ UNCHANGED <<checkbox, unsettled>>
                 \/ v.what = "toggle" /\ v.on = checkbox' /\ ClickToggle
                 \/ /\ v.what = IF unlocked THEN "lock" ELSE "unlock"
                    /\ ClickVault
  <1>1. calls \in Seq(Calls) /\ Plain
    BY TypeParts
  <1>2. \A c \in Calls : Click(c) => Began(c)
    BY <1>1, Begins DEF Click
  <1>3. CASE ClickSend
    <2> DEFINE got == {[id |-> count', room |-> room]}
               c == [Call("send") EXCEPT !.got = got, !.shown = showsOn]
    <2>1. room \in Rooms /\ showsOn \in BOOLEAN /\ count' = count + 1
      BY <1>1, <1>3 DEF ClickSend, Plain
    <2>2. got \in SUBSET Messages
      BY <1>1, <1>3, <2>1, NewMessage DEF ClickSend
    <2>3. Click(c)
      BY <1>3 DEF ClickSend
    <2> HIDE DEF got
    <2>4. c \in Calls
      BY <2>1, <2>2, CallTyped DEF Whats
    <2>5. c.what = "send" /\ c.step = "start"
      BY DEF Call
    <2> HIDE DEF c
    <2> QED
      BY <1>2, <1>3, <2>3, <2>4, <2>5 DEF ClickSend
  <1>4. CASE ClickToggle
    <2> DEFINE c == [Call("toggle") EXCEPT !.on = checkbox']
    <2>1. checkbox' \in BOOLEAN /\ Click(c)
      BY <1>1, <1>4 DEF ClickToggle, Plain
    <2>2. c \in Calls
      BY <2>1, CallTyped DEF Whats
    <2>3. c.what = "toggle" /\ c.step = "start" /\ c.on = checkbox'
      BY DEF Call
    <2> HIDE DEF c
    <2> QED
      BY <1>2, <1>4, <2>1, <2>2, <2>3
  <1>5. CASE ClickVault
    <2> DEFINE what == IF unlocked THEN "lock" ELSE "unlock"
               c == Call(what)
    <2>1. Click(c)
      BY <1>5 DEF ClickVault
    <2>2. what \in {"lock", "unlock"}
      OBVIOUS
    <2> HIDE DEF what
    <2>3. c \in Calls /\ c.what = what /\ c.step = "start"
      BY <2>2, CallTyped DEF Whats, Call
    <2> HIDE DEF c
    <2> QED
      BY <1>2, <1>5, <2>1, <2>3 DEF what
  <1>6. CASE ClickConnect
    <2>1. /\ Call("connect") \in Calls /\ Call("connect").what = "connect"
          /\ Call("connect").step = "start"
      BY CallTyped DEF Whats, Call
    <2> QED
      BY <1>2, <1>6, <2>1 DEF ClickConnect
  <1>7. ASSUME NEW r \in Rooms, ClickEnter(r) \/ ClickLeave(r)
        PROVE  \E v \in Calls :
                  /\ Began(v) /\ v.step = "start" /\ v.what \in {"enter", "leave"}
                  /\ UNCHANGED <<checkbox, unsettled>>
    <2>1. PICK what \in {"enter", "leave"} : Click([Call(what) EXCEPT !.room = r])
      BY <1>7 DEF ClickEnter, ClickLeave
    <2> DEFINE c == [Call(what) EXCEPT !.room = r]
    <2>2. c \in Calls
      BY CallTyped DEF Whats
    <2>3. c.what = what /\ c.step = "start"
      BY DEF Call
    <2> HIDE DEF c
    <2>4. Click(c)
      BY <2>1 DEF c
    <2>5. UNCHANGED <<checkbox, unsettled>>
      BY <1>7 DEF ClickEnter, ClickLeave
    <2> QED
      BY <1>2, <2>2, <2>3, <2>4, <2>5
  <1> QED
    BY <1>3, <1>4, <1>5, <1>6, <1>7 DEF UserClicks

LEMMA OrderOnClicks ==
    ASSUME TypeOK, VaultOrder, UserClicks
    PROVE  VaultOrder'
  <1>1. unlocked' = unlocked /\ events' = events /\ unlocked \in BOOLEAN
    BY TypeParts DEF UserClicks, ClickSend, ClickToggle, ClickVault, ClickConnect,
           ClickEnter, ClickLeave, Click, memory, Plain
  <1>2. PICK v \in Calls :
           /\ Began(v) /\ v.step = "start"
           /\ \/ v.what \in {"send", "enter", "leave", "connect", "toggle"}
              \/ v.what = (IF unlocked THEN "lock" ELSE "unlock") /\ ClickVault
    BY ClickBegins
  <1>3. CASE v \notin Vaulting
    BY <1>1, <1>2, <1>3, OrderAside
  <1>4. CASE v \in Vaulting
    <2>1. v.what = (IF unlocked THEN "lock" ELSE "unlock") /\ ClickVault
      BY <1>2, <1>4 DEF Vaulting
    <2>2. \A c \in ToSet(calls) : c.what \notin {"unlock", "lock"}
      BY <2>1, UnderWayHas DEF ClickVault
    <2>3. \A e \in ToSet(events) : e.what # "locked"
      BY <2>1, EmittedHas DEF ClickVault
    <2>4. Lone(calls', Vaulting)
      <3>1. ToSet(calls) \cap Vaulting = {}
        BY <2>2 DEF Vaulting
      <3> QED
        BY <1>2, <3>1 DEF Began, VaultOrder
    <2>5. ASSUME NEW c \in ToSet(calls')
          PROVE  Agrees(c)'
      BY <1>1, <1>2, <2>1, <2>5 DEF VaultOrder, Agrees, Began
    <2> QED
      BY <1>1, <2>3, <2>4, <2>5 DEF VaultOrder
  <1> QED
    BY <1>3, <1>4

LEMMA OrderOnRun ==
    ASSUME TypeOK, VaultOrder, NEW i \in DOMAIN calls, Run(i)
    PROVE  VaultOrder'
  <1>1. /\ calls \in Seq(Calls) /\ events \in Seq(Events) /\ Plain
        /\ calls[i] \in Calls /\ calls[i] \in ToSet(calls)
    BY TypeParts, InCalls
  <1>2. ASSUME Ends(i), unlocked' = unlocked, events' = events
        PROVE  VaultOrder'
    BY <1>1, <1>2, IsOver, OrderAside
  <1>3. ASSUME NEW step \in Steps, Goto(i, step), unlocked' = unlocked,
               calls[i].what \notin {"unlock", "lock"},
               \A e \in ToSet(events') : e \in ToSet(events) \/ e.what # "locked"
        PROVE  VaultOrder'
    <2>1. PICK v \in Calls : Turned(calls[i], v) /\ v.what = calls[i].what
      BY <1>1, <1>3, GoesTo
    <2> QED
      BY <1>1, <1>3, <2>1, OrderAside DEF Vaulting
  <1>4. CASE StartNetwork(i)
    BY <1>2, <1>4 DEF StartNetwork, memory
  <1>5. CASE Keep(i)
    <2>1. PICK v \in Calls : Turned(calls[i], v) /\ v.what = "send"
      BY <1>5, KeepGoes
    <2> QED
      BY <1>1, <1>5, <2>1, OrderAside DEF Vaulting, Keep
  <1>6. CASE Publish(i)
    <2> DEFINE e == Event("message", None, calls[i].got, FALSE)
    <2>1. e \in Events /\ e.what = "message"
      BY <1>1, EventTyped DEF Calls, Event
    <2>2. Emit(e) /\ Goto(i, "save") /\ calls[i].what = "send" /\ unlocked' = unlocked
      BY <1>6 DEF Publish, At, memory
    <2> HIDE DEF e
    <2>3. ToSet(events') = ToSet(events) \cup {e}
      BY <1>1, <2>1, <2>2, EmitAdds
    <2> QED
      BY <1>3, <2>1, <2>2, <2>3 DEF Steps
  <1>7. CASE PublishFails(i)
    BY <1>2, <1>7 DEF PublishFails, memory
  <1>8. CASE SendSaves(i)
    BY <1>2, <1>8 DEF SendSaves, memory
  <1>9. CASE RoomCommand(i)
    <2> DEFINE e == Event(calls[i].what, calls[i].room, {}, FALSE)
    <2>1. calls[i].what \in {"enter", "leave"} /\ Ends(i) /\ unlocked' = unlocked
      BY <1>9 DEF RoomCommand, memory
    <2>2. e \in Events /\ e.what \in {"enter", "leave"}
      BY <1>1, <2>1, EventTyped DEF Calls, Event
    <2>3. Emit(e) \/ events' = events
      BY <1>9 DEF RoomCommand
    <2> HIDE DEF e
    <2>4. \A x \in ToSet(events') : x \in ToSet(events) \/ x.what # "locked"
      BY <1>1, <2>2, <2>3, EmitAdds
    <2> QED
      BY <1>1, <2>1, <2>4, IsOver, OrderAside
  <1>10. CASE Toggle(i)
    <2> DEFINE e == Event("toggled", None, {}, calls[i].on)
    <2>1. e \in Events /\ e.what = "toggled"
      BY <1>1, EventTyped DEF Calls, Event
    <2>2. Emit(e) /\ Goto(i, "save") /\ calls[i].what = "toggle" /\ unlocked' = unlocked
      BY <1>10 DEF Toggle, At
    <2> HIDE DEF e
    <2>3. ToSet(events') = ToSet(events) \cup {e}
      BY <1>1, <2>1, <2>2, EmitAdds
    <2> QED
      BY <1>3, <2>1, <2>2, <2>3 DEF Steps
  <1>11. CASE ToggleSaved(i)
    <2>1. /\ calls[i].what = "toggle" /\ unlocked' = unlocked /\ events' = events
          /\ \E step \in Steps : Goto(i, step)
      BY <1>11 DEF ToggleSaved, At, memory, Steps
    <2> QED
      BY <1>3, <2>1
  <1>12. CASE GetMessages(i)
    <2>1. PICK v \in Calls : Turned(calls[i], v) /\ v.what = "load"
      BY <1>12, GetMessagesGoes
    <2> QED
      BY <1>1, <1>12, <2>1, OrderAside DEF Vaulting, GetMessages, memory
  <1>13. CASE UnlockFails(i)
    BY <1>2, <1>13 DEF UnlockFails, memory
  <1>14. CASE LockSaves(i) /\ Ends(i)
    BY <1>2, <1>14 DEF LockSaves, memory
  \* The steps of the commands about the vault.
  <1>15. ASSUME NEW v \in Calls, Turned(calls[i], v), v.what = calls[i].what,
                v \in Vaulting, Agrees(v)',
                \A e \in ToSet(events') : e \in ToSet(events) \/ e.what # "locked",
                \/ unlocked' = unlocked
                \/ ~unlocked'
                \/ calls[i].what = "unlock"
         PROVE  VaultOrder'
    <2>1. calls[i] \in Vaulting
      BY <1>1, <1>15 DEF Vaulting
    <2>2. Lone(calls', Vaulting) /\ ToSet(calls') \cap Vaulting \subseteq {v}
      BY <1>15, <2>1 DEF Turned, VaultOrder
    <2>3. ASSUME NEW c \in ToSet(calls')
          PROVE  Agrees(c)' /\ (c.what = "unlock" => c = v)
      <3>1. c \in Calls
        BY <1>15, <2>3 DEF Turned, ToSet
      <3> QED
        BY <1>15, <2>2, <2>3, <3>1 DEF Vaulting, Agrees
    <2>4. ASSUME NEW e \in ToSet(events'), e.what = "locked"
          PROVE  ~unlocked' /\ \A c \in ToSet(calls') : c.what # "unlock"
      <3>1. ~unlocked /\ calls[i].what # "unlock"
        BY <1>1, <1>15, <2>4 DEF VaultOrder
      <3> QED
        BY <1>15, <2>3, <3>1
    <2> QED
      BY <2>2, <2>3, <2>4 DEF VaultOrder
  <1>16. CASE CreateVault(i)
    <2>1. PICK v \in Calls : /\ Turned(calls[i], v) /\ v.what = "unlock"
                             /\ v.step = "done" /\ calls[i].what = "unlock"
      BY <1>1, <1>16, GoesTo DEF CreateVault, At, Steps
    <2> QED
      BY <1>15, <1>16, <2>1 DEF CreateVault, Vaulting, Agrees
  <1>17. CASE LoadMessages(i)
    <2>1. PICK v \in Calls : /\ Turned(calls[i], v) /\ v.what = "unlock"
                             /\ v.step = "switch"
      BY <1>17, LoadMessagesGoes
    <2>2. /\ calls[i].what = "unlock" /\ calls[i].step = "start"
          /\ unlocked' = unlocked /\ events' = events
      BY <1>17 DEF LoadMessages, At
    <2>3. ~unlocked
      BY <1>1, <2>2 DEF VaultOrder, Agrees
    <2> QED
      BY <1>15, <2>1, <2>2, <2>3 DEF Vaulting, Agrees
  <1>18. CASE LoadSwitch(i)
    <2>1. PICK v \in Calls : /\ Turned(calls[i], v) /\ v.what = "unlock"
                             /\ v.step = "done" /\ calls[i].what = "unlock"
      BY <1>1, <1>18, GoesTo DEF LoadSwitch, At, Steps
    <2> QED
      BY <1>15, <1>18, <2>1 DEF LoadSwitch, Vaulting, Agrees
  <1>19. CASE LockSaves(i) /\ Goto(i, "shut")
    <2>1. PICK v \in Calls : /\ Turned(calls[i], v) /\ v.what = "lock"
                             /\ v.step = "shut" /\ calls[i].what = "lock"
      BY <1>1, <1>19, GoesTo DEF LockSaves, At, Steps
    <2> QED
      BY <1>15, <1>19, <2>1 DEF LockSaves, Vaulting, Agrees, memory
  <1>20. CASE Shut(i)
    <2>1. PICK v \in Calls : /\ Turned(calls[i], v) /\ v.what = "lock"
                             /\ v.step = "clear" /\ calls[i].what = "lock"
      BY <1>1, <1>20, GoesTo DEF Shut, At, Steps
    <2> QED
      BY <1>15, <1>20, <2>1 DEF Shut, Vaulting, Agrees
  <1>21. CASE ClearHistory(i)
    <2> DEFINE e == Event("locked", None, {}, FALSE)
    <2>1. e \in Events
      BY EventTyped
    <2>2. /\ Emit(e) /\ Goto(i, "done") /\ calls[i].what = "lock"
          /\ calls[i].step = "clear" /\ unlocked' = unlocked
      BY <1>21 DEF ClearHistory, At
    <2> HIDE DEF e
    <2>3. PICK v \in Calls : /\ Turned(calls[i], v) /\ v.what = "lock"
                             /\ v.step = "done"
      BY <1>1, <2>2, GoesTo DEF Steps
    <2>4. ~unlocked
      BY <1>1, <2>2 DEF VaultOrder, Agrees
    <2>5. Lone(calls', Vaulting) /\ ToSet(calls') \cap Vaulting \subseteq {v}
      BY <1>1, <2>2, <2>3 DEF Turned, VaultOrder, Vaulting
    <2>6. ASSUME NEW c \in ToSet(calls')
          PROVE  Agrees(c)' /\ c.what # "unlock"
      <3>1. c \in Calls
        BY <2>3, <2>6 DEF Turned, ToSet
      <3> QED
        BY <2>2, <2>3, <2>4, <2>5, <2>6, <3>1 DEF Vaulting, Agrees
    <2> QED
      BY <2>2, <2>4, <2>5, <2>6 DEF VaultOrder
  <1> QED
    <2>1. LockSaves(i) => Goto(i, "shut") \/ Ends(i)
      BY DEF LockSaves
    <2> QED
      BY <1>4, <1>5, <1>6, <1>7, <1>8, <1>9, <1>10, <1>11, <1>12, <1>13, <1>14,
         <1>16, <1>17, <1>18, <1>19, <1>20, <1>21, <2>1 DEF Run

\* A page that shows a room again asks for its messages; one without a room
\* does not.
LEMMA UnlockedGoes ==
    ASSUME TypeOK, NEW i \in DOMAIN calls, Unlocked(i)
    PROVE  /\ pane' = {} /\ calls[i].what = "unlock"
           /\ UNCHANGED <<room, showsOn, checkbox>>
           /\ \/ room = None /\ Over(calls[i])
              \/ \E v \in Calls : /\ Turned(calls[i], v) /\ v.what = "load"
                                  /\ v.step = "start" /\ v.room = room
  <1>1. calls \in Seq(Calls) /\ room \in Rooms \cup {None}
    BY TypeParts DEF Plain
  <1>2. /\ ClearAndLoad(room, RemoveAt(calls, i)) /\ calls[i].what = "unlock"
        /\ UNCHANGED <<room, showsOn, checkbox>>
    BY DEF Unlocked, At
  <1>3. CASE room = None
    <2>1. Ends(i)
      BY <1>2, <1>3 DEF ClearAndLoad, Ends
    <2> QED
      BY <1>1, <1>2, <1>3, <2>1, IsOver DEF ClearAndLoad
  <1>4. CASE room # None
    <2> DEFINE v == [Call("load") EXCEPT !.room = room]
               mid == RemoveAt(calls, i)
    <2>1. v \in Calls
      BY <1>1, CallTyped DEF Whats
    <2>2. v.what = "load" /\ v.step = "start" /\ v.room = room
      BY DEF Call
    <2>3. calls' = Append(mid, v) /\ pane' = {}
      BY <1>2, <1>4 DEF ClearAndLoad
    <2> HIDE DEF v
    <2>4. /\ mid \in Seq(Calls)
          /\ ToSet(mid) \subseteq ToSet(calls)
          /\ ToSet(calls) \subseteq ToSet(mid) \cup {calls[i]}
          /\ \A V : Lone(calls, V) => Lone(mid, V)
          /\ \A V : Lone(calls, V) /\ calls[i] \in V => ToSet(mid) \cap V = {}
      BY <1>1, RemovedHas
    <2> HIDE DEF mid
    <2> DEFINE u == Append(mid, v)
    <2>5. /\ u \in Seq(Calls)
          /\ ToSet(u) = ToSet(mid) \cup {v}
          /\ \A V : Lone(mid, V) /\ (v \in V => ToSet(mid) \cap V = {}) => Lone(u, V)
      BY <2>1, <2>4, AppendedHas
    <2>6. calls' = u
      BY <2>3
    <2> HIDE DEF u
    <2>7. calls[i] \in Calls /\ calls[i] \in ToSet(calls)
      BY <1>1, InCalls
    <2>8. ASSUME NEW V, Lone(calls, V), v \in V => calls[i] \in V
          PROVE  Lone(u, V)
      BY <2>4, <2>5, <2>8
    <2>9. ASSUME NEW V, Lone(calls, V), calls[i] \in V
          PROVE  ToSet(u) \cap V \subseteq {v}
      BY <2>4, <2>5, <2>9
    <2>10. Turned(calls[i], v)
      BY <2>1, <2>4, <2>5, <2>6, <2>7, <2>8, <2>9 DEF Turned
    <2> QED
      BY <1>2, <2>1, <2>2, <2>3, <2>10
  <1> QED
    BY <1>3, <1>4

LEMMA EnterAsks ==
    ASSUME TypeOK, NEW e \in Events, OnEnter(e)
    PROVE  /\ pane' = {} /\ room' = e.room
           /\ UNCHANGED <<showsOn, checkbox>>
           /\ \/ e.room = None /\ calls' = calls
              \/ \E v \in Calls : /\ Began(v) /\ v.what = "load"
                                  /\ v.step = "start" /\ v.room = e.room
  <1>1. calls \in Seq(Calls) /\ e.room \in Rooms \cup {None}
    BY TypeParts DEF Events
  <1>2. /\ ClearAndLoad(e.room, calls) /\ room' = e.room
        /\ UNCHANGED <<showsOn, checkbox>>
    BY DEF OnEnter
  <1>3. CASE e.room = None
    BY <1>2, <1>3 DEF ClearAndLoad
  <1>4. CASE e.room # None
    <2> DEFINE v == [Call("load") EXCEPT !.room = e.room]
    <2>1. v \in Calls
      BY <1>1, CallTyped DEF Whats
    <2>2. v.what = "load" /\ v.step = "start" /\ v.room = e.room
      BY DEF Call
    <2>3. calls' = Append(calls, v) /\ pane' = {}
      BY <1>2, <1>4 DEF ClearAndLoad
    <2> HIDE DEF v
    <2>4. Began(v)
      BY <1>1, <2>1, <2>3, Begins
    <2> QED
      BY <1>2, <2>1, <2>2, <2>3, <2>4
  <1> QED
    BY <1>3, <1>4

\* What the page hears, one event at a time.
LEMMA Hears ==
    ASSUME TypeOK, Listen
    PROVE  \E e \in Events :
              /\ OnEnter(e) \/ OnLeave(e) \/ OnMessage(e) \/ OnToggled(e) \/ OnLocked(e)
              /\ e \in ToSet(events) /\ e = Head(events)
              /\ ToSet(events') \subseteq ToSet(events)
              /\ ToSet(events) \subseteq ToSet(events') \cup {e}
              /\ UNCHANGED <<memory, vault, connected, task, counters, ghosts>>
  <1>1. events \in Seq(Events) /\ events # << >> /\ events' = Tail(events)
    BY TypeParts DEF Listen
  <1> DEFINE e == Head(events)
  <1>2. /\ OnEnter(e) \/ OnLeave(e) \/ OnMessage(e) \/ OnToggled(e) \/ OnLocked(e)
        /\ UNCHANGED <<memory, vault, connected, task, counters, ghosts>>
    BY DEF Listen
  <1>3. e \in Events
    BY <1>1, Shortened
  <1>4. /\ e \in ToSet(events)
        /\ ToSet(events') \subseteq ToSet(events)
        /\ ToSet(events) \subseteq ToSet(events') \cup {e}
    BY <1>1, ShortenedHas
  <1> HIDE DEF e
  <1> QED
    BY <1>2, <1>3, <1>4 DEF e

LEMMA OrderOnPage ==
    ASSUME TypeOK, VaultOrder, Listen \/ \E i \in DOMAIN calls : Answered(i)
    PROVE  VaultOrder'
  <1>1. calls \in Seq(Calls) /\ events \in Seq(Events) /\ Plain
    BY TypeParts
  <1>2. CASE Listen
    <2>1. PICK e \in Events :
             /\ OnEnter(e) \/ OnLeave(e) \/ OnMessage(e) \/ OnToggled(e) \/ OnLocked(e)
             /\ ToSet(events') \subseteq ToSet(events)
             /\ UNCHANGED <<memory, vault, connected, task, counters, ghosts>>
      BY <1>2, Hears
    <2>2. CASE OnEnter(e)
      <3>1. calls' = calls \/ \E v \in Calls : Began(v) /\ v.what = "load"
        BY <2>2, EnterAsks
      <3> QED
        BY <2>1, <3>1, OrderAside DEF Vaulting, memory
    <2>3. CASE ~OnEnter(e)
      <3>1. calls' = calls
        BY <2>1, <2>3 DEF OnLeave, OnMessage, OnToggled, OnLocked
      <3> QED
        BY <2>1, <3>1, OrderAside DEF memory
    <2> QED
      BY <2>2, <2>3
  <1>3. ASSUME NEW i \in DOMAIN calls, Answered(i)
        PROVE  VaultOrder'
    <2>1. unlocked' = unlocked /\ events' = events
      BY <1>3 DEF Answered, memory
    <2>2. CASE Ends(i)
      BY <1>1, <2>1, <2>2, IsOver, OrderAside DEF Over
    <2>3. CASE Unlocked(i)
      <3>1. Over(calls[i]) \/ \E v \in Calls : Turned(calls[i], v) /\ v.what = "load"
        BY <2>3, UnlockedGoes
      <3>2. calls[i] \in Calls
        BY <1>1, InCalls
      <3> QED
        BY <2>1, <3>1, <3>2, OrderAside DEF Vaulting
    <2> QED
      BY <1>3, <2>2, <2>3 DEF Answered, Loaded, Locked, Toggled
  <1> QED
    BY <1>2, <1>3

LEMMA OrderOnTask ==
    ASSUME TypeOK, VaultOrder, TellReceived \/ \E r \in Rooms : Receive(r) \/ Invited(r)
    PROVE  VaultOrder'
  <1>1. calls' = calls /\ unlocked' = unlocked
    BY DEF TellReceived, Receive, Invited, memory
  <1>2. events \in Seq(Events) /\ Plain
    BY TypeParts
  <1>3. \A x \in ToSet(events') : x \in ToSet(events) \/ x.what # "locked"
    <2>1. CASE TellReceived
      <3> DEFINE e == Event("message", None, {task}, FALSE)
      <3>1. Emit(e) /\ {task} \in SUBSET Messages
        BY <1>2, <2>1 DEF TellReceived, Plain
      <3>2. e \in Events /\ e.what = "message"
        BY <3>1, EventTyped DEF Event
      <3> HIDE DEF e
      <3> QED
        BY <1>2, <3>1, <3>2, EmitAdds
    <2>2. ASSUME NEW r \in Rooms, Receive(r) \/ Invited(r)
          PROVE  \A x \in ToSet(events') : x \in ToSet(events) \/ x.what # "locked"
      <3> DEFINE e == Event("enter", r, {}, FALSE)
      <3>1. Emit(e) \/ events' = events
        BY <2>2 DEF Receive, Invited
      <3>2. e \in Events /\ e.what = "enter"
        BY EventTyped DEF Event
      <3> HIDE DEF e
      <3> QED
        BY <1>2, <3>1, <3>2, EmitAdds
    <2> QED
      BY <2>1, <2>2
  <1> QED
    BY <1>1, <1>3, OrderAside

LEMMA OrderStep ==
    ASSUME TypeOK, VaultOrder, [Next]_vars
    PROVE  VaultOrder'
  <1>1. CASE Next
    BY <1>1, OrderOnClicks, OrderOnRun, OrderOnPage, OrderOnTask DEF Next
  <1>2. CASE UNCHANGED vars
    <2>1. calls' = calls /\ events' = events /\ unlocked' = unlocked
      BY <1>2 DEF vars, memory
    <2> QED
      BY <2>1, OrderAside
  <1> QED
    BY <1>1, <1>2

LEMMA OrderInitially == Init => VaultOrder
  BY DEF Init, VaultOrder, Lone, ToSet

-----------------------------------------------------------------------------
(* What the page shows, and what is on its way to be shown. *)

\* The command has the message, or asks for it.
Carries(c, m) ==
    \/ c.what = "send" /\ c.step = "publish" /\ m \in c.got
    \/ c.what = "load" /\ c.step = "start" /\ m.room = c.room
    \/ c.what = "load" /\ c.step = "done" /\ m \in c.got

Brings(e, m) == e.what = "message" /\ m \in e.got

Coming(m) ==
    \/ task = m
    \/ \E e \in ToSet(events) : Brings(e, m)
    \/ \E c \in ToSet(calls) : Carries(c, m)

\* Until a lock has shut the vault, and once an unlock has opened it.
AllShown ==
    (unlocked /\ \A c \in ToSet(calls) : c.what # "unlock") =>
        \A m \in InRoom(history, room) \ failed : m \in pane \/ Coming(m)

LEMMA ComingIs ==
    ASSUME NEW m
    PROVE  Coming(m) <=> OnItsWay(m)
  BY DEF Coming, OnItsWay, Brings, Carries, At, ToSet

\* Steps that take nothing off the page, add nothing to the history, and end
\* no unlocking that fails.
LEMMA ShownAside ==
    ASSUME AllShown, unlocked' = unlocked, room' = room,
           history' \subseteq history, failed \subseteq failed', pane \subseteq pane',
           \A c \in ToSet(calls) : c.what = "unlock" => c \in ToSet(calls'),
           \A m \in InRoom(history, room) : Coming(m) =>
               Coming(m)' \/ m \in pane' \cup failed'
    PROVE  AllShown'
  <1> SUFFICES ASSUME unlocked', \A c \in ToSet(calls') : c.what # "unlock",
                      NEW m \in InRoom(history', room') \ failed'
               PROVE  m \in pane' \/ Coming(m)'
    BY DEF AllShown
  <1>1. m \in InRoom(history, room) \ failed
    BY DEF InRoom
  <1>2. m \in pane \/ Coming(m)
    BY <1>1 DEF AllShown
  <1> QED
    BY <1>1, <1>2

\* What was coming still is, when the event task, the events and the commands
\* that carry it are still there.
LEMMA StillComing ==
    ASSUME NEW m, Coming(m), task' = task,
           ToSet(events) \subseteq ToSet(events'),
           \A c \in ToSet(calls) : Carries(c, m) => c \in ToSet(calls')
    PROVE  Coming(m)'
  BY DEF Coming, Carries

LEMMA ShownOnClicks ==
    ASSUME TypeOK, AllShown, UserClicks
    PROVE  AllShown'
  <1>1. UNCHANGED <<unlocked, history, room, pane, failed, task, events>>
    BY DEF UserClicks, ClickSend, ClickToggle, ClickVault, ClickConnect,
           ClickEnter, ClickLeave, Click, memory
  <1>2. ToSet(calls) \subseteq ToSet(calls')
    BY ClickBegins DEF Began
  <1>3. \A m \in InRoom(history, room) : Coming(m) => Coming(m)'
    BY <1>1, <1>2, StillComing
  <1> QED
    BY <1>1, <1>2, <1>3, ShownAside

LEMMA ShownOnRun ==
    ASSUME TypeOK, VaultOrder, AllShown, NEW i \in DOMAIN calls, Run(i)
    PROVE  AllShown'
  <1>1. /\ calls \in Seq(Calls) /\ events \in Seq(Events) /\ Plain
        /\ calls[i] \in Calls /\ calls[i] \in ToSet(calls)
    BY TypeParts, InCalls
  \* A command that carries nothing goes on or is over.
  <1>2. ASSUME UNCHANGED <<unlocked, history, room, pane, failed, task>>,
               ToSet(events) \subseteq ToSet(events'),
               calls[i].what # "unlock", \A m \in Messages : ~Carries(calls[i], m),
               \/ Over(calls[i])
               \/ \E v \in Calls : Turned(calls[i], v)
        PROVE  AllShown'
    <2>1. ToSet(calls) \subseteq ToSet(calls') \cup {calls[i]}
      BY <1>2 DEF Over, Turned
    <2>2. ASSUME NEW m \in InRoom(history, room), Coming(m)
          PROVE  Coming(m)'
      <3>1. m \in Messages
        BY <1>1 DEF Plain, InRoom
      <3>2. \A c \in ToSet(calls) : Carries(c, m) => c \in ToSet(calls')
        BY <1>2, <2>1, <3>1
      <3> QED
        BY <1>2, <2>2, <3>2, StillComing
    <2> QED
      BY <1>2, <2>1, <2>2, ShownAside
  \* The vault is shut, or is being opened.
  <1>3. (~unlocked' \/ \E c \in ToSet(calls') : c.what = "unlock") => AllShown'
    BY DEF AllShown
  <1>4. CASE StartNetwork(i)
    <2>1. /\ UNCHANGED <<unlocked, history, room, pane, failed, task, events>>
          /\ calls[i].what = "connect" /\ Over(calls[i])
      BY <1>1, <1>4, IsOver DEF StartNetwork, At, memory, page, ghosts
    <2> QED
      BY <1>2, <2>1 DEF Carries
  <1>5. CASE Keep(i)
    <2>1. PICK v \in Calls : /\ Turned(calls[i], v) /\ v.what = "send"
                             /\ v.step = "publish" /\ v.got = calls[i].got
      BY <1>5, KeepGoes
    <2>2. /\ UNCHANGED <<unlocked, room, pane, failed, task, events>>
          /\ history' = history \cup calls[i].got
          /\ calls[i].what = "send" /\ calls[i].step = "start"
      BY <1>5 DEF Keep, At, page, ghosts
    <2>3. \A m : ~Carries(calls[i], m)
      BY <2>2 DEF Carries
    <2>4. ToSet(calls) \subseteq ToSet(calls') \cup {calls[i]} /\ v \in ToSet(calls')
      BY <2>1 DEF Turned
    <2>5. \A m \in calls[i].got : Coming(m)'
      BY <2>1, <2>4 DEF Coming, Carries
    <2>6. \A m : Coming(m) => Coming(m)'
      BY <2>2, <2>3, <2>4, StillComing
    <2> SUFFICES ASSUME unlocked', \A c \in ToSet(calls') : c.what # "unlock",
                        NEW m \in InRoom(history', room') \ failed'
                 PROVE  m \in pane' \/ Coming(m)'
      BY DEF AllShown
    <2>7. CASE m \in calls[i].got
      BY <2>5, <2>7
    <2>8. CASE m \notin calls[i].got
      <3>1. m \in InRoom(history, room) \ failed
        BY <2>2, <2>8 DEF InRoom
      <3>2. unlocked /\ \A c \in ToSet(calls) : c.what # "unlock"
        BY <2>2, <2>4
      <3> QED
        BY <2>2, <2>6, <3>1, <3>2 DEF AllShown
    <2> QED
      BY <2>7, <2>8
  <1>6. CASE Publish(i)
    <2> DEFINE e == Event("message", None, calls[i].got, FALSE)
    <2>1. e \in Events /\ e.what = "message" /\ e.got = calls[i].got
      BY <1>1, EventTyped DEF Calls, Event
    <2>2. /\ Emit(e) /\ Goto(i, "save") /\ calls[i].what = "send"
          /\ UNCHANGED <<unlocked, history, room, pane, failed, task>>
      BY <1>6 DEF Publish, At, memory, page
    <2> HIDE DEF e
    <2>3. ToSet(events') = ToSet(events) \cup {e}
      BY <1>1, <2>1, <2>2, EmitAdds
    <2>4. ToSet(calls) \subseteq ToSet(calls') \cup {calls[i]}
      BY <1>1, <2>2, GoesTo DEF Steps, Turned
    <2>5. ASSUME NEW m, Coming(m)
          PROVE  Coming(m)'
      <3>1. CASE m \in calls[i].got
        BY <2>1, <2>3, <3>1 DEF Coming, Brings
      <3>2. CASE m \notin calls[i].got
        <4>1. ~Carries(calls[i], m)
          BY <2>2, <3>2 DEF Carries
        <4> QED
          BY <2>2, <2>3, <2>4, <2>5, <4>1, StillComing
      <3> QED
        BY <3>1, <3>2
    <2> QED
      BY <2>2, <2>4, <2>5, ShownAside
  <1>7. CASE PublishFails(i)
    <2>1. /\ UNCHANGED <<unlocked, history, room, pane, task, events>>
          /\ failed' = failed \cup calls[i].got
          /\ calls[i].what = "send" /\ Over(calls[i])
      BY <1>1, <1>7, IsOver DEF PublishFails, At, memory, page
    <2>2. ToSet(calls) \subseteq ToSet(calls') \cup {calls[i]}
      BY <2>1 DEF Over
    <2>3. ASSUME NEW m, Coming(m), m \notin calls[i].got
          PROVE  Coming(m)'
      <3>1. ~Carries(calls[i], m)
        BY <2>1, <2>3 DEF Carries
      <3> QED
        BY <2>1, <2>2, <2>3, <3>1, StillComing
    <2> QED
      BY <2>1, <2>2, <2>3, ShownAside
  <1>8. CASE SendSaves(i)
    <2>1. /\ UNCHANGED <<unlocked, history, room, pane, failed, task, events>>
          /\ calls[i].what = "send" /\ calls[i].step = "save" /\ Over(calls[i])
      BY <1>1, <1>8, IsOver DEF SendSaves, At, memory, page, ghosts
    <2> QED
      BY <1>2, <2>1 DEF Carries
  <1>9. CASE RoomCommand(i)
    <2> DEFINE e == Event(calls[i].what, calls[i].room, {}, FALSE)
    <2>1. /\ calls[i].what \in {"enter", "leave"} /\ Over(calls[i])
          /\ UNCHANGED <<unlocked, history, room, pane, failed, task>>
      BY <1>1, <1>9, IsOver DEF RoomCommand, memory, page, ghosts
    <2>2. e \in Events
      BY <1>1, <2>1, EventTyped DEF Calls
    <2>3. Emit(e) \/ events' = events
      BY <1>9 DEF RoomCommand
    <2> HIDE DEF e
    <2>4. ToSet(events) \subseteq ToSet(events')
      BY <1>1, <2>2, <2>3, EmitAdds
    <2> QED
      BY <1>2, <2>1, <2>4 DEF Carries
  <1>10. CASE Toggle(i)
    <2> DEFINE e == Event("toggled", None, {}, calls[i].on)
    <2>1. e \in Events
      BY <1>1, EventTyped DEF Calls
    <2>2. /\ Emit(e) /\ Goto(i, "save") /\ calls[i].what = "toggle"
          /\ UNCHANGED <<unlocked, history, room, pane, failed, task>>
      BY <1>10 DEF Toggle, At, page, ghosts
    <2> HIDE DEF e
    <2>3. ToSet(events) \subseteq ToSet(events')
      BY <1>1, <2>1, <2>2, EmitAdds
    <2>4. \E v \in Calls : Turned(calls[i], v)
      BY <1>1, <2>2, GoesTo DEF Steps
    <2> QED
      BY <1>2, <2>2, <2>3, <2>4 DEF Carries
  <1>11. CASE ToggleSaved(i)
    <2>1. /\ calls[i].what = "toggle"
          /\ UNCHANGED <<unlocked, history, room, pane, failed, task, events>>
          /\ \E step \in Steps : Goto(i, step)
      BY <1>11 DEF ToggleSaved, At, memory, page, ghosts, Steps
    <2>2. \E v \in Calls : Turned(calls[i], v)
      BY <1>1, <2>1, GoesTo
    <2> QED
      BY <1>2, <2>1, <2>2 DEF Carries
  <1>12. CASE GetMessages(i)
    <2>1. PICK v \in Calls : /\ Turned(calls[i], v) /\ v.what = "load"
                             /\ v.step = "done"
                             /\ v.got = InRoom(history, calls[i].room)
      BY <1>12, GetMessagesGoes
    <2>2. /\ UNCHANGED <<unlocked, history, room, pane, failed, task, events>>
          /\ calls[i].what = "load" /\ calls[i].step = "start"
      BY <1>12 DEF GetMessages, At, memory, page, ghosts
    <2>3. ToSet(calls) \subseteq ToSet(calls') \cup {calls[i]} /\ v \in ToSet(calls')
      BY <2>1 DEF Turned
    <2>4. ASSUME NEW m \in InRoom(history, room), Coming(m)
          PROVE  Coming(m)'
      <3>1. CASE m.room = calls[i].room
        <4>1. m \in v.got
          BY <2>1, <2>4, <3>1 DEF InRoom
        <4> QED
          BY <2>1, <2>3, <4>1 DEF Coming, Carries
      <3>2. CASE m.room # calls[i].room
        <4>1. ~Carries(calls[i], m)
          BY <2>2, <3>2 DEF Carries
        <4> QED
          BY <2>2, <2>3, <2>4, <4>1, StillComing
      <3> QED
        BY <3>1, <3>2
    <2> QED
      BY <2>2, <2>3, <2>4, ShownAside
  <1>13. CASE UnlockFails(i)
    <2>1. ~unlocked
      BY <1>1, <1>13 DEF UnlockFails, At, VaultOrder, Agrees
    <2> QED
      BY <1>3, <1>13, <2>1 DEF UnlockFails, memory
  <1>14. CASE CreateVault(i) \/ LoadSwitch(i)
    <2>1. Goto(i, "done") /\ calls[i].what = "unlock"
      BY <1>14 DEF CreateVault, LoadSwitch, At
    <2>2. PICK v \in Calls : Turned(calls[i], v) /\ v.what = "unlock"
      BY <1>1, <2>1, GoesTo DEF Steps
    <2> QED
      BY <1>3, <2>2 DEF Turned
  <1>15. CASE LoadMessages(i)
    <2>1. PICK v \in Calls : Turned(calls[i], v) /\ v.what = "unlock"
      BY <1>15, LoadMessagesGoes
    <2> QED
      BY <1>3, <2>1 DEF Turned
  <1>16. CASE LockSaves(i)
    <2>1. /\ UNCHANGED <<unlocked, history, room, pane, failed, task, events>>
          /\ calls[i].what = "lock" /\ (Goto(i, "shut") \/ Ends(i))
      BY <1>16 DEF LockSaves, At, memory, page, ghosts
    <2>2. Over(calls[i]) \/ \E v \in Calls : Turned(calls[i], v)
      BY <1>1, <2>1, IsOver, GoesTo DEF Steps
    <2> QED
      BY <1>2, <2>1, <2>2 DEF Carries
  <1>17. CASE Shut(i)
    BY <1>3, <1>17 DEF Shut
  <1>18. CASE ClearHistory(i)
    <2>1. ~unlocked
      BY <1>1, <1>18 DEF ClearHistory, At, VaultOrder, Agrees
    <2> QED
      BY <1>3, <1>18, <2>1 DEF ClearHistory
  <1> QED
    BY <1>4, <1>5, <1>6, <1>7, <1>8, <1>9, <1>10, <1>11, <1>12, <1>13, <1>14,
       <1>15, <1>16, <1>17, <1>18 DEF Run

LEMMA ShownOnListen ==
    ASSUME TypeOK, VaultOrder, AllShown, Listen
    PROVE  AllShown'
  <1>1. Plain
    BY TypeParts
  <1>2. PICK e \in Events :
           /\ OnEnter(e) \/ OnLeave(e) \/ OnMessage(e) \/ OnToggled(e) \/ OnLocked(e)
           /\ e \in ToSet(events)
           /\ ToSet(events) \subseteq ToSet(events') \cup {e}
           /\ UNCHANGED <<memory, vault, connected, task, counters, ghosts>>
    BY Hears
  <1>3. UNCHANGED <<unlocked, history, failed, task>>
    BY <1>2 DEF memory, ghosts
  \* What else was coming is still coming.
  <1>4. ASSUME calls' = calls, NEW m, Coming(m), ~Brings(e, m)
        PROVE  Coming(m)'
    BY <1>2, <1>3, <1>4 DEF Coming, Carries, Brings
  <1>5. CASE OnEnter(e)
    <2>1. /\ pane' = {} /\ room' = e.room
          /\ \/ e.room = None
             \/ \E v \in Calls : /\ Began(v) /\ v.what = "load"
                                 /\ v.step = "start" /\ v.room = e.room
      BY <1>5, EnterAsks
    <2>2. CASE e.room = None
      <3>1. InRoom(history', room') = {}
        BY <1>1, <1>3, <2>1, <2>2, FrontendAssumption DEF InRoom, Plain, Messages
      <3> QED
        BY <3>1 DEF AllShown
    <2>3. ASSUME NEW v \in Calls, Began(v), v.what = "load", v.step = "start",
                 v.room = e.room
          PROVE  AllShown'
      <3>1. \A m \in InRoom(history', room') : Coming(m)'
        BY <2>1, <2>3 DEF InRoom, Coming, Carries, Began
      <3> QED
        BY <3>1 DEF AllShown
    <2> QED
      BY <2>1, <2>2, <2>3
  <1>6. CASE OnLeave(e)
    <2>1. /\ calls' = calls /\ e.what = "leave"
          /\ room' = None \/ UNCHANGED <<room, pane>>
      BY <1>6 DEF OnLeave
    <2>2. CASE room' = None
      <3>1. InRoom(history', room') = {}
        BY <1>1, <1>3, <2>2, FrontendAssumption DEF InRoom, Plain, Messages
      <3> QED
        BY <3>1 DEF AllShown
    <2>3. CASE UNCHANGED <<room, pane>>
      <3>1. \A m : Coming(m) => Coming(m)'
        BY <1>4, <2>1 DEF Brings
      <3> QED
        BY <1>3, <2>1, <2>3, <3>1, ShownAside
    <2> QED
      BY <2>1, <2>2, <2>3
  <1>7. CASE OnMessage(e)
    <2>1. calls' = calls /\ room' = room /\ pane' = pane \cup InRoom(e.got, room)
      BY <1>7 DEF OnMessage, Display
    <2>2. ASSUME NEW m \in InRoom(history, room), Coming(m)
          PROVE  Coming(m)' \/ m \in pane'
      <3>1. CASE Brings(e, m)
        BY <2>1, <2>2, <3>1 DEF Brings, InRoom
      <3>2. CASE ~Brings(e, m)
        BY <1>4, <2>1, <2>2, <3>2
      <3> QED
        BY <3>1, <3>2
    <2> QED
      BY <1>3, <2>1, <2>2, ShownAside
  <1>8. CASE OnToggled(e)
    <2>1. calls' = calls /\ e.what = "toggled" /\ UNCHANGED <<room, pane>>
      BY <1>8 DEF OnToggled
    <2>2. \A m : Coming(m) => Coming(m)'
      BY <1>4, <2>1 DEF Brings
    <2> QED
      BY <1>3, <2>1, <2>2, ShownAside
  <1>9. CASE OnLocked(e)
    <2>1. ~unlocked
      BY <1>2, <1>9 DEF OnLocked, VaultOrder
    <2> QED
      BY <1>3, <2>1 DEF AllShown
  <1> QED
    BY <1>2, <1>5, <1>6, <1>7, <1>8, <1>9

LEMMA ShownOnAnswers ==
    ASSUME TypeOK, VaultOrder, AllShown, NEW i \in DOMAIN calls, Answered(i)
    PROVE  AllShown'
  <1>1. /\ calls \in Seq(Calls) /\ Plain
        /\ calls[i] \in Calls /\ calls[i] \in ToSet(calls)
    BY TypeParts, InCalls
  <1>2. UNCHANGED <<unlocked, history, failed, task, events>>
    BY DEF Answered, memory, ghosts
  <1>3. CASE Loaded(i)
    <2>1. /\ Over(calls[i]) /\ calls[i].what = "load" /\ room' = room
          /\ pane' = pane \cup InRoom(calls[i].got, room)
          /\ calls[i].step = "done"
      BY <1>1, <1>3, IsOver DEF Loaded, Display, At
    <2>2. ToSet(calls) \subseteq ToSet(calls') \cup {calls[i]}
      BY <2>1 DEF Over
    <2>3. ASSUME NEW m \in InRoom(history, room), Coming(m)
          PROVE  Coming(m)' \/ m \in pane'
      <3>1. CASE Carries(calls[i], m)
        BY <2>1, <2>3, <3>1 DEF Carries, InRoom
      <3>2. CASE ~Carries(calls[i], m)
        BY <1>2, <2>2, <2>3, <3>2, StillComing
      <3> QED
        BY <3>1, <3>2
    <2> QED
      BY <1>2, <2>1, <2>2, <2>3, ShownAside
  <1>4. CASE Unlocked(i)
    <2>1. /\ room' = room
          /\ \/ room = None
             \/ \E v \in Calls : /\ Turned(calls[i], v) /\ v.what = "load"
                                 /\ v.step = "start" /\ v.room = room
      BY <1>4, UnlockedGoes
    <2>2. CASE room = None
      <3>1. InRoom(history', room') = {}
        BY <1>1, <1>2, <2>1, <2>2, FrontendAssumption DEF InRoom, Plain, Messages
      <3> QED
        BY <3>1 DEF AllShown
    <2>3. ASSUME NEW v \in Calls, Turned(calls[i], v), v.what = "load",
                 v.step = "start", v.room = room
          PROVE  AllShown'
      <3>1. \A m \in InRoom(history', room') : Coming(m)'
        BY <2>1, <2>3 DEF InRoom, Coming, Carries, Turned
      <3> QED
        BY <3>1 DEF AllShown
    <2> QED
      BY <2>1, <2>2, <2>3
  <1>5. CASE Locked(i)
    <2>1. ~unlocked
      BY <1>1, <1>5 DEF Locked, At, VaultOrder, Agrees
    <2> QED
      BY <1>2, <2>1 DEF AllShown
  <1>6. CASE Toggled(i)
    <2>1. Over(calls[i]) /\ calls[i].what = "toggle"
      BY <1>1, <1>6, IsOver DEF Toggled, At
    <2>2. UNCHANGED <<room, pane>>
      BY <1>6 DEF Toggled
    <2>3. ToSet(calls) \subseteq ToSet(calls') \cup {calls[i]}
      BY <2>1 DEF Over
    <2>4. \A m : ~Carries(calls[i], m)
      BY <2>1 DEF Carries
    <2>5. \A m : Coming(m) => Coming(m)'
      BY <1>2, <2>3, <2>4, StillComing
    <2> QED
      BY <1>2, <2>1, <2>2, <2>3, <2>5, ShownAside
  <1> QED
    BY <1>3, <1>4, <1>5, <1>6 DEF Answered

LEMMA ShownOnTask ==
    ASSUME TypeOK, AllShown, TellReceived \/ \E r \in Rooms : Receive(r) \/ Invited(r)
    PROVE  AllShown'
  <1>1. events \in Seq(Events) /\ Plain
    BY TypeParts
  <1>2. UNCHANGED <<unlocked, room, pane, failed, calls>>
    BY DEF TellReceived, Receive, Invited, memory, page, ghosts
  <1>3. CASE TellReceived
    <2> DEFINE e == Event("message", None, {task}, FALSE)
    <2>1. Emit(e) /\ {task} \in SUBSET Messages /\ history' = history
      BY <1>1, <1>3 DEF TellReceived, Plain, memory
    <2>2. e \in Events /\ e.what = "message" /\ e.got = {task}
      BY <2>1, EventTyped DEF Event
    <2> HIDE DEF e
    <2>3. ToSet(events') = ToSet(events) \cup {e}
      BY <1>1, <2>1, <2>2, EmitAdds
    <2>4. \A m : Coming(m) => Coming(m)'
      BY <1>2, <2>2, <2>3 DEF Coming, Brings, Carries
    <2> QED
      BY <1>2, <2>1, <2>4, ShownAside
  <1>4. ASSUME NEW r \in Rooms, Receive(r)
        PROVE  AllShown'
    <2>1. /\ events' = events /\ task = None
          /\ history' = history \cup {task'}
      BY <1>4 DEF Receive
    <2>2. \A m : task' = m => Coming(m)'
      BY DEF Coming
    <2>3. ASSUME NEW m \in Messages, Coming(m)
          PROVE  Coming(m)'
      BY <1>2, <2>1, <2>3, NoneAssumption DEF Coming, Carries, Brings
    <2> SUFFICES ASSUME unlocked', \A c \in ToSet(calls') : c.what # "unlock",
                        NEW m \in InRoom(history', room') \ failed'
                 PROVE  m \in pane' \/ Coming(m)'
      BY DEF AllShown
    <2>4. CASE m = task'
      BY <2>2, <2>4
    <2>5. CASE m # task'
      <3>1. m \in InRoom(history, room) \ failed
        BY <1>2, <2>1, <2>5 DEF InRoom
      <3>2. m \in pane \/ Coming(m)
        BY <1>2, <3>1 DEF AllShown
      <3>3. m \in Messages
        BY <1>1, <3>1 DEF InRoom, Plain
      <3> QED
        BY <1>2, <2>3, <3>2, <3>3
    <2> QED
      BY <2>4, <2>5
  <1>5. ASSUME NEW r \in Rooms, Invited(r)
        PROVE  AllShown'
    <2> DEFINE e == Event("enter", r, {}, FALSE)
    <2>1. Emit(e) /\ history' = history /\ task' = task
      BY <1>5 DEF Invited, memory
    <2>2. e \in Events
      BY EventTyped
    <2> HIDE DEF e
    <2>3. ToSet(events) \subseteq ToSet(events')
      BY <1>1, <2>1, <2>2, EmitAdds
    <2>4. \A m : Coming(m) => Coming(m)'
      BY <1>2, <2>1, <2>3, StillComing
    <2> QED
      BY <1>2, <2>1, <2>4, ShownAside
  <1>6. CASE \E r \in Rooms : Receive(r) \/ Invited(r)
    <2>1. PICK r \in Rooms : Receive(r) \/ Invited(r)
      BY <1>6
    <2> QED
      BY <1>4, <1>5, <2>1
  <1> QED
    BY <1>3, <1>6

LEMMA ShownStep ==
    ASSUME TypeOK, VaultOrder, AllShown, [Next]_vars
    PROVE  AllShown'
  <1>1. CASE Next
    <2>1. CASE UserClicks
      BY <2>1, ShownOnClicks
    <2>2. ASSUME NEW i \in DOMAIN calls, Run(i) \/ Answered(i)
          PROVE  AllShown'
      BY <2>2, ShownOnRun, ShownOnAnswers
    <2>3. CASE TellReceived \/ \E r \in Rooms : Receive(r) \/ Invited(r)
      BY <2>3, ShownOnTask
    <2>4. CASE Listen
      BY <2>4, ShownOnListen
    <2> QED
      BY <1>1, <2>1, <2>2, <2>3, <2>4 DEF Next
  <1>2. CASE UNCHANGED vars
    BY <1>2 DEF AllShown, Coming, vars, memory, page, ghosts
  <1> QED
    BY <1>1, <1>2

LEMMA ShownInitially == Init => AllShown
  <1>1. NewProcess => AllShown
    BY DEF NewProcess, AllShown
  <1>2. RunningProcess => AllShown
    BY DEF RunningProcess, AllShown
  <1> QED
    BY <1>1, <1>2 DEF Init

\* While the vault is open, every message of the current room that is in
\* memory is on the page, or with the event task, in an event, with its send
\* or in a request for the room, unless its send failed: NothingHidden of the
\* runs, for any rooms and bounds (lib.rs:553-567, 865-945, main.ts:294-300,
\* 823-833).
THEOREM NothingFallsBetween == Spec => []NothingHidden
  <1>1. AllShown => NothingHidden
    <2> SUFFICES ASSUME AllShown, unlocked, ~UnderWay({"lock", "unlock"}),
                        NEW m \in InRoom(history, room) \ failed
                 PROVE  m \in pane \/ OnItsWay(m)
      BY DEF NothingHidden
    <2>1. \A c \in ToSet(calls) : c.what # "unlock"
      BY UnderWayHas
    <2> QED
      BY <2>1, ComingIs DEF AllShown
  <1>2. Init => TypeOK /\ VaultOrder /\ AllShown
    BY TypeInitially, OrderInitially, ShownInitially
  <1>3. TypeOK /\ VaultOrder /\ AllShown /\ [Next]_vars
           => (TypeOK /\ VaultOrder /\ AllShown)'
    BY TypeStep, OrderStep, ShownStep
  <1> QED
    BY <1>1, <1>2, <1>3, PTL DEF Spec

-----------------------------------------------------------------------------
(* The encryption switch. *)

Toggling == {c \in Calls : c.what = "toggle"}

\* Once it has handled the events there are, the page shows this.
Told(on) ==
    \/ showsOn = on /\ \A k \in DOMAIN events : events[k].what # "toggled"
    \/ \E k \in DOMAIN events :
          /\ events[k].what = "toggled" /\ events[k].on = on
          /\ \A l \in DOMAIN events : l > k => events[l].what # "toggled"

\* A toggle with no other about it goes from the checkbox to the memory and
\* from there to the page; with none under way the three agree, but for a
\* checkbox whose switch could not be saved.
SwitchFollows ==
    ~unsettled =>
        /\ Lone(calls, Toggling)
        /\ \A c \in ToSet(calls) : c.what = "toggle" =>
              /\ c.on = checkbox
              /\ c.step # "start" => enabled = c.on /\ Told(c.on)
              /\ c.step = "refused" => faults > 0
        /\ (\A c \in ToSet(calls) : c.what # "toggle") =>
              Told(enabled) /\ (faults = 0 => checkbox = enabled)

LEMMA ToldNow ==
    ASSUME events \in Seq(Events), NEW e \in Events, e.what = "toggled", Emit(e)
    PROVE  Told(e.on)'
  <1>1. /\ DOMAIN events' = 1..(Len(events) + 1) /\ Len(events) \in Nat
        /\ events'[Len(events) + 1] = e
    BY Appended DEF Emit
  <1> DEFINE k == Len(events) + 1
  <1>2. k \in DOMAIN events' /\ events'[k] = e
    BY <1>1
  <1>3. \A l \in DOMAIN events' : ~(l > k)
    BY <1>1
  <1> HIDE DEF k
  <1> QED
    BY <1>2, <1>3 DEF Told

LEMMA ToldOnEmit ==
    ASSUME events \in Seq(Events), NEW e \in Events, e.what # "toggled", Emit(e),
           showsOn' = showsOn, NEW on, Told(on)
    PROVE  Told(on)'
  <1>1. /\ DOMAIN events' = 1..(Len(events) + 1) /\ DOMAIN events = 1..Len(events)
        /\ Len(events) \in Nat
        /\ \A k \in 1..Len(events) : events'[k] = events[k]
        /\ events'[Len(events) + 1] = e
    BY Appended DEF Emit
  <1>2. \A k \in DOMAIN events : k \in DOMAIN events' /\ events'[k] = events[k]
    BY <1>1
  <1>3. \A k \in DOMAIN events' : k \in DOMAIN events \/ events'[k] = e
    BY <1>1
  <1>4. CASE showsOn = on /\ \A k \in DOMAIN events : events[k].what # "toggled"
    BY <1>2, <1>3, <1>4 DEF Told
  <1>5. ASSUME NEW k \in DOMAIN events, events[k].what = "toggled",
               events[k].on = on,
               \A l \in DOMAIN events : l > k => events[l].what # "toggled"
        PROVE  Told(on)'
    BY <1>2, <1>3, <1>5 DEF Told
  <1> QED
    BY <1>4, <1>5 DEF Told

LEMMA ToldOnListen ==
    ASSUME TypeOK, Listen, NEW on, Told(on)
    PROVE  Told(on)'
  <1>1. events \in Seq(Events) /\ events # << >> /\ events' = Tail(events)
    BY TypeParts DEF Listen
  <1> DEFINE e == Head(events)
  <1>2. /\ e = events[1] /\ 1 \in DOMAIN events
        /\ DOMAIN events' = 1..(Len(events) - 1)
        /\ DOMAIN events = 1..Len(events) /\ Len(events) \in Nat \ {0}
        /\ \A k \in 1..(Len(events) - 1) : events'[k] = events[k + 1]
    BY <1>1, Shortened
  <1>3. /\ e.what = "toggled" => showsOn' = e.on
        /\ e.what # "toggled" => showsOn' = showsOn
    BY DEF Listen, OnEnter, OnLeave, OnMessage, OnToggled, OnLocked
  <1> HIDE DEF e
  <1>4. \A k \in DOMAIN events' : /\ k + 1 \in DOMAIN events /\ k + 1 > 1
                                  /\ events'[k] = events[k + 1]
    BY <1>2
  <1>5. CASE showsOn = on /\ \A k \in DOMAIN events : events[k].what # "toggled"
    <2>1. e.what # "toggled"
      BY <1>2, <1>5
    <2> QED
      BY <1>3, <1>4, <1>5, <2>1 DEF Told
  <1>6. ASSUME NEW k \in DOMAIN events, events[k].what = "toggled",
               events[k].on = on,
               \A l \in DOMAIN events : l > k => events[l].what # "toggled"
        PROVE  Told(on)'
    <2>1. CASE k = 1
      <3>1. showsOn' = on
        BY <1>2, <1>3, <1>6, <2>1
      <3>2. \A l \in DOMAIN events' : events'[l].what # "toggled"
        BY <1>4, <1>6, <2>1
      <3> QED
        BY <3>1, <3>2 DEF Told
    <2>2. CASE k # 1
      <3> DEFINE j == k - 1
      <3>1. j \in DOMAIN events' /\ j + 1 = k /\ k \in Nat
        BY <1>2, <2>2
      <3>2. events'[j] = events[k]
        BY <1>4, <3>1
      <3>3. ASSUME NEW l \in DOMAIN events', l > j
            PROVE  events'[l].what # "toggled"
        <4>1. l + 1 > k
          BY <1>2, <3>1, <3>3
        <4> QED
          BY <1>4, <1>6, <3>3, <4>1
      <3> HIDE DEF j
      <3> QED
        BY <1>6, <3>1, <3>2, <3>3 DEF Told
    <2> QED
      BY <2>1, <2>2
  <1> QED
    BY <1>5, <1>6 DEF Told

\* Steps of other commands, which leave the switch alone.
LEMMA SwitchAside ==
    ASSUME TypeOK, SwitchFollows, UNCHANGED <<enabled, checkbox, unsettled>>,
           faults' \in Nat, faults' >= faults,
           \A on \in BOOLEAN : Told(on) => Told(on)',
           \/ calls' = calls
           \/ \E c \in Calls : Over(c) /\ c.what # "toggle"
           \/ \E v \in Calls : Began(v) /\ v.what # "toggle"
           \/ \E c, v \in Calls : Turned(c, v) /\ c.what # "toggle" /\ v.what # "toggle"
    PROVE  SwitchFollows'
  <1> SUFFICES ASSUME ~unsettled
               PROVE  SwitchFollows'
    BY DEF SwitchFollows
  <1>1. Lone(calls', Toggling)
    BY DEF SwitchFollows, Toggling, Over, Began, Turned
  <1>2. \A c \in ToSet(calls') : c.what = "toggle" => c \in ToSet(calls)
    BY DEF Over, Began, Turned
  <1>3. \A c \in ToSet(calls) : c.what = "toggle" => c \in ToSet(calls')
    BY DEF Over, Began, Turned
  <1>4. /\ enabled \in BOOLEAN /\ faults \in Nat
        /\ \A c \in ToSet(calls) : c.on \in BOOLEAN
    <2>1. Plain /\ calls \in Seq(Calls)
      BY TypeParts
    <2>2. \A c \in ToSet(calls) : c \in Calls
      BY <2>1 DEF ToSet
    <2> QED
      BY <2>1, <2>2 DEF Plain, Calls
  <1>5. ASSUME NEW c \in ToSet(calls'), c.what = "toggle"
        PROVE  /\ c.on = checkbox'
               /\ c.step # "start" => enabled' = c.on /\ Told(c.on)'
               /\ c.step = "refused" => faults' > 0
    <2>1. c \in ToSet(calls) /\ c.on \in BOOLEAN
      BY <1>2, <1>4, <1>5
    <2>2. /\ c.on = checkbox
          /\ c.step # "start" => enabled = c.on /\ Told(c.on)
          /\ c.step = "refused" => faults > 0
      BY <1>5, <2>1 DEF SwitchFollows
    <2> QED
      BY <1>4, <2>1, <2>2
  <1>6. ASSUME \A c \in ToSet(calls') : c.what # "toggle"
        PROVE  Told(enabled)' /\ (faults' = 0 => checkbox' = enabled')
    <2>1. Told(enabled) /\ (faults = 0 => checkbox = enabled)
      BY <1>3, <1>6 DEF SwitchFollows
    <2>2. faults' = 0 => faults = 0
      BY <1>4
    <2>3. Told(enabled)'
      <3>1. enabled' = enabled
        OBVIOUS
      <3>2. \A on \in BOOLEAN : Told(on) /\ on = enabled' => Told(enabled)'
        BY DEF Told
      <3> QED
        BY <1>4, <2>1, <3>1, <3>2
    <2> QED
      BY <2>1, <2>2, <2>3
  <1> QED
    BY <1>1, <1>5, <1>6 DEF SwitchFollows

LEMMA ToldSame ==
    ASSUME UNCHANGED <<events, showsOn>>
    PROVE  \A on : Told(on) => Told(on)'
  BY DEF Told

LEMMA SwitchOnClicks ==
    ASSUME TypeOK, SwitchFollows, UserClicks
    PROVE  SwitchFollows'
  <1>1. UNCHANGED <<enabled, events, showsOn, faults>> /\ faults \in Nat
    BY TypeParts DEF UserClicks, ClickSend, ClickToggle, ClickVault, ClickConnect,
                     ClickEnter, ClickLeave, Click, memory, Plain
  <1>2. PICK v \in Calls :
           /\ Began(v)
           /\ v.step = "start"
           /\ \/ /\ v.what \in {"send", "enter", "leave", "connect"}
                 /\ UNCHANGED <<checkbox, unsettled>>
              \/ v.what = "toggle" /\ v.on = checkbox' /\ ClickToggle
              \/ /\ v.what = IF unlocked THEN "lock" ELSE "unlock"
                 /\ ClickVault
    BY ClickBegins
  <1>3. CASE v.what # "toggle"
    <2>1. UNCHANGED <<checkbox, unsettled>>
      BY <1>2, <1>3 DEF ClickVault
    <2>2. faults' \in Nat /\ faults' >= faults
      BY <1>1
    <2>3. \A on \in BOOLEAN : Told(on) => Told(on)'
      BY <1>1, ToldSame
    <2> QED
      BY <1>1, <1>2, <1>3, <2>1, <2>2, <2>3, SwitchAside
  <1>4. CASE v.what = "toggle"
    <2>1. v.on = checkbox' /\ unsettled' = UnderWay({"toggle"})
      BY <1>2, <1>4 DEF ClickToggle
    <2> SUFFICES ASSUME ~unsettled'
                 PROVE  SwitchFollows'
      BY DEF SwitchFollows
    <2>2. \A c \in ToSet(calls) : c.what # "toggle"
      BY <2>1, UnderWayHas
    <2>3. Lone(calls', Toggling)
      <3>1. ToSet(calls) \cap Toggling = {}
        BY <2>2 DEF Toggling
      <3>2. Lone(calls, Toggling)
        BY <3>1 DEF Lone, ToSet
      <3> QED
        BY <1>2, <3>1, <3>2 DEF Began
    <2>4. \A c \in ToSet(calls') : c.what = "toggle" => c = v
      BY <1>2, <2>2 DEF Began
    <2>5. v \in ToSet(calls')
      BY <1>2 DEF Began
    <2> QED
      BY <1>2, <1>4, <2>1, <2>3, <2>4, <2>5 DEF SwitchFollows
  <1> QED
    BY <1>3, <1>4

LEMMA SwitchOnRun ==
    ASSUME TypeOK, SwitchFollows, NEW i \in DOMAIN calls, Run(i)
    PROVE  SwitchFollows'
  <1>1. /\ calls \in Seq(Calls) /\ events \in Seq(Events) /\ Plain
        /\ calls[i] \in Calls /\ calls[i] \in ToSet(calls) /\ faults \in Nat
    BY TypeParts, InCalls DEF Plain
  <1>2. (Save \/ SaveFails) \/ faults' = faults => faults' \in Nat /\ faults' >= faults
    BY <1>1 DEF Save, SaveFails
  <1>3. ASSUME NEW e \in Events, Emit(e), e.what # "toggled", showsOn' = showsOn
        PROVE  \A on \in BOOLEAN : Told(on) => Told(on)'
    BY <1>1, <1>3, ToldOnEmit
  <1>4. ASSUME UNCHANGED <<enabled, checkbox, unsettled>>,
               (Save \/ SaveFails) \/ faults' = faults,
               \A on \in BOOLEAN : Told(on) => Told(on)',
               \/ Over(calls[i]) /\ calls[i].what # "toggle"
               \/ \E v \in Calls : /\ Turned(calls[i], v)
                                   /\ calls[i].what # "toggle" /\ v.what # "toggle"
        PROVE  SwitchFollows'
    BY <1>1, <1>2, <1>4, SwitchAside
  \* Commands of other kinds that say nothing and go on, or are over.
  <1>5. ASSUME UNCHANGED <<enabled, unsettled, events, page>>,
               (Save \/ SaveFails) \/ faults' = faults,
               calls[i].what # "toggle",
               \/ Ends(i)
               \/ \E step \in Steps : Goto(i, step)
               \/ \E v \in Calls : Turned(calls[i], v) /\ v.what = calls[i].what
        PROVE  SwitchFollows'
    <2>1. \A on \in BOOLEAN : Told(on) => Told(on)'
      BY <1>5, ToldSame DEF page
    <2>2. \/ Over(calls[i])
          \/ \E v \in Calls : Turned(calls[i], v) /\ v.what = calls[i].what
      BY <1>1, <1>5, IsOver, GoesTo
    <2> QED
      BY <1>4, <1>5, <2>1, <2>2 DEF page
  <1>6. CASE StartNetwork(i)
    BY <1>5, <1>6 DEF StartNetwork, At, memory, ghosts
  <1>7. CASE Keep(i)
    <2>1. \E v \in Calls : Turned(calls[i], v) /\ v.what = "send"
      BY <1>7, KeepGoes
    <2> QED
      BY <1>5, <1>7, <2>1 DEF Keep, At, counters, ghosts
  <1>8. CASE Publish(i)
    <2> DEFINE e == Event("message", None, calls[i].got, FALSE)
    <2>1. e \in Events /\ e.what = "message"
      BY <1>1, EventTyped DEF Calls, Event
    <2>2. /\ Emit(e) /\ Goto(i, "save") /\ calls[i].what = "send"
          /\ UNCHANGED <<enabled, checkbox, unsettled, faults, showsOn>>
      BY <1>8 DEF Publish, At, memory, page, counters
    <2> HIDE DEF e
    <2>3. \E v \in Calls : Turned(calls[i], v) /\ v.what = "send"
      BY <1>1, <2>2, GoesTo DEF Steps
    <2>4. \A on \in BOOLEAN : Told(on) => Told(on)'
      BY <1>3, <2>1, <2>2
    <2> QED
      BY <1>4, <2>2, <2>3, <2>4
  <1>9. CASE PublishFails(i)
    BY <1>5, <1>9 DEF PublishFails, At, memory, counters
  <1>10. CASE SendSaves(i)
    BY <1>5, <1>10 DEF SendSaves, At, memory, ghosts
  <1>11. CASE RoomCommand(i)
    <2> DEFINE e == Event(calls[i].what, calls[i].room, {}, FALSE)
    <2>1. /\ calls[i].what \in {"enter", "leave"} /\ Over(calls[i])
          /\ UNCHANGED <<enabled, checkbox, unsettled, showsOn>>
      BY <1>1, <1>11, IsOver DEF RoomCommand, memory, page, ghosts
    <2>2. e \in Events /\ e.what # "toggled"
      BY <1>1, <2>1, EventTyped DEF Calls, Event
    <2>3. (Emit(e) /\ (Save \/ SaveFails)) \/ UNCHANGED <<events, faults>>
      BY <1>11 DEF RoomCommand
    <2> HIDE DEF e
    <2>4. \A on \in BOOLEAN : Told(on) => Told(on)'
      BY <1>3, <2>1, <2>2, <2>3, ToldSame
    <2> QED
      BY <1>4, <2>1, <2>3, <2>4
  <1>12. CASE Toggle(i)
    <2>1. PICK e \in Events :
             e.what = "toggled" /\ e.on = calls[i].on /\ Emit(e)
      <3> DEFINE d == Event("toggled", None, {}, calls[i].on)
      <3>1. d \in Events /\ d.what = "toggled" /\ d.on = calls[i].on
        BY <1>1, EventTyped DEF Calls, Event
      <3>2. Emit(d)
        BY <1>12 DEF Toggle
      <3> HIDE DEF d
      <3> QED
        BY <3>1, <3>2
    <2>2. /\ Goto(i, "save") /\ calls[i].what = "toggle"
          /\ calls[i].step = "start" /\ enabled' = calls[i].on
          /\ UNCHANGED <<checkbox, unsettled>>
      BY <1>12 DEF Toggle, At, page, ghosts
    <2>3. PICK v \in Calls : /\ Turned(calls[i], v) /\ v.what = "toggle"
                             /\ v.step = "save" /\ v.on = calls[i].on
      BY <1>1, <2>2, GoesTo DEF Steps
    <2>4. Told(e.on)'
      BY <1>1, <2>1, <2>2, ToldNow
    <2> SUFFICES ASSUME ~unsettled
                 PROVE  SwitchFollows'
      BY <2>2 DEF SwitchFollows
    <2>5. /\ Lone(calls', Toggling) /\ ToSet(calls') \cap Toggling \subseteq {v}
          /\ v \in ToSet(calls')
      BY <1>1, <2>2, <2>3 DEF Turned, SwitchFollows, Toggling
    <2>6. \A c \in ToSet(calls') : c.what = "toggle" => c = v
      <3>1. \A c \in ToSet(calls') : c \in Calls
        BY <2>3 DEF Turned, ToSet
      <3> QED
        BY <2>5, <3>1 DEF Toggling
    <2>7. v.on = checkbox' /\ enabled' = v.on
      <3>1. calls[i].on = checkbox
        BY <1>1, <2>2 DEF SwitchFollows
      <3> QED
        BY <2>2, <2>3, <3>1
    <2>8. Told(v.on)'
      <3>1. v.on = e.on
        BY <2>1, <2>3
      <3> QED
        BY <2>4, <3>1
    <2> QED
      BY <2>3, <2>5, <2>6, <2>7, <2>8 DEF SwitchFollows
  <1>13. CASE ToggleSaved(i)
    <2>1. /\ calls[i].what = "toggle" /\ calls[i].step = "save"
          /\ UNCHANGED <<enabled, checkbox, unsettled, events, showsOn>>
          /\ \/ Save /\ Goto(i, "saved")
             \/ SaveFails /\ Goto(i, "refused")
      BY <1>13 DEF ToggleSaved, At, memory, page, ghosts
    <2>2. PICK v \in Calls : /\ Turned(calls[i], v) /\ v.what = "toggle"
                             /\ v.on = calls[i].on
                             /\ v.step = "refused" => faults' > 0
      <3>1. SaveFails => faults' > 0
        BY <1>1 DEF SaveFails
      <3>2. PICK step \in {"saved", "refused"} :
               Goto(i, step) /\ (step = "refused" => faults' > 0)
        BY <2>1, <3>1
      <3>3. PICK v \in Calls : /\ Turned(calls[i], v) /\ v.what = calls[i].what
                               /\ v.step = step /\ v.on = calls[i].on
        BY <1>1, <3>2, GoesTo DEF Steps
      <3> QED
        BY <2>1, <3>2, <3>3
    <2> SUFFICES ASSUME ~unsettled
                 PROVE  SwitchFollows'
      BY <2>1 DEF SwitchFollows
    <2>3. /\ Lone(calls', Toggling) /\ ToSet(calls') \cap Toggling \subseteq {v}
          /\ v \in ToSet(calls')
      BY <1>1, <2>1, <2>2 DEF Turned, SwitchFollows, Toggling
    <2>4. \A c \in ToSet(calls') : c.what = "toggle" => c = v
      <3>1. \A c \in ToSet(calls') : c \in Calls
        BY <2>2 DEF Turned, ToSet
      <3> QED
        BY <2>3, <3>1 DEF Toggling
    <2>5. v.on = checkbox' /\ enabled' = v.on /\ Told(v.on)
      BY <1>1, <2>1, <2>2 DEF SwitchFollows
    <2>6. Told(v.on)'
      BY <2>1, <2>5, ToldSame
    <2> QED
      BY <2>2, <2>3, <2>4, <2>5, <2>6 DEF SwitchFollows
  <1>14. CASE GetMessages(i)
    <2>1. \E v \in Calls : Turned(calls[i], v) /\ v.what = "load"
      BY <1>14, GetMessagesGoes
    <2> QED
      BY <1>5, <1>14, <2>1 DEF GetMessages, At, memory, counters, ghosts
  <1>15. CASE UnlockFails(i)
    BY <1>5, <1>15 DEF UnlockFails, At, memory, counters, ghosts
  <1>16. CASE CreateVault(i)
    BY <1>5, <1>16 DEF CreateVault, At, counters, ghosts, Steps
  <1>17. CASE LoadMessages(i)
    <2>1. \E v \in Calls : Turned(calls[i], v) /\ v.what = "unlock"
      BY <1>17, LoadMessagesGoes
    <2> QED
      BY <1>5, <1>17, <2>1 DEF LoadMessages, At, counters, ghosts
  <1>18. CASE LoadSwitch(i)
    BY <1>18 DEF LoadSwitch, SwitchFollows
  <1>19. CASE LockSaves(i)
    BY <1>5, <1>19 DEF LockSaves, At, memory, ghosts, Steps
  <1>20. CASE Shut(i)
    BY <1>5, <1>20 DEF Shut, At, counters, ghosts, Steps
  <1>21. CASE ClearHistory(i)
    <2> DEFINE e == Event("locked", None, {}, FALSE)
    <2>1. e \in Events /\ e.what = "locked"
      BY EventTyped DEF Event
    <2>2. /\ Emit(e) /\ Goto(i, "done") /\ calls[i].what = "lock"
          /\ UNCHANGED <<enabled, checkbox, unsettled, faults, showsOn>>
      BY <1>21 DEF ClearHistory, At, page, counters, ghosts
    <2> HIDE DEF e
    <2>3. \E v \in Calls : Turned(calls[i], v) /\ v.what = "lock"
      BY <1>1, <2>2, GoesTo DEF Steps
    <2>4. \A on \in BOOLEAN : Told(on) => Told(on)'
      BY <1>3, <2>1, <2>2
    <2> QED
      BY <1>4, <2>2, <2>3, <2>4
  <1> QED
    BY <1>6, <1>7, <1>8, <1>9, <1>10, <1>11, <1>12, <1>13, <1>14, <1>15, <1>16,
       <1>17, <1>18, <1>19, <1>20, <1>21 DEF Run

LEMMA SwitchOnListen ==
    ASSUME TypeOK, SwitchFollows, Listen
    PROVE  SwitchFollows'
  <1>1. PICK e \in Events :
           /\ OnEnter(e) \/ OnLeave(e) \/ OnMessage(e) \/ OnToggled(e) \/ OnLocked(e)
           /\ UNCHANGED <<memory, counters, ghosts>>
    BY Hears
  <1>2. /\ UNCHANGED <<enabled, unsettled, checkbox>>
        /\ faults' \in Nat /\ faults' >= faults
    BY <1>1, TypeParts DEF memory, counters, ghosts, Plain,
                           OnEnter, OnLeave, OnMessage, OnToggled, OnLocked
  <1>3. \A on \in BOOLEAN : Told(on) => Told(on)'
    BY ToldOnListen
  <1>4. calls' = calls \/ \E v \in Calls : Began(v) /\ v.what = "load"
    <2>1. OnEnter(e) => calls' = calls \/ \E v \in Calls : Began(v) /\ v.what = "load"
      BY EnterAsks
    <2> QED
      BY <1>1, <2>1 DEF OnLeave, OnMessage, OnToggled, OnLocked
  <1> QED
    BY <1>2, <1>3, <1>4, SwitchAside

LEMMA SwitchOnAnswers ==
    ASSUME TypeOK, SwitchFollows, NEW i \in DOMAIN calls, Answered(i)
    PROVE  SwitchFollows'
  <1>1. /\ calls \in Seq(Calls) /\ Plain
        /\ calls[i] \in Calls /\ calls[i] \in ToSet(calls) /\ faults \in Nat
    BY TypeParts, InCalls DEF Plain
  <1>2. UNCHANGED <<enabled, unsettled, faults, events>>
    BY DEF Answered, memory, counters, ghosts
  <1>3. ASSUME UNCHANGED <<checkbox, showsOn>>, calls[i].what # "toggle",
               \/ Over(calls[i])
               \/ \E v \in Calls : Turned(calls[i], v) /\ v.what = "load"
        PROVE  SwitchFollows'
    <2>1. \A on \in BOOLEAN : Told(on) => Told(on)'
      BY <1>2, <1>3, ToldSame
    <2>2. faults' \in Nat /\ faults' >= faults
      BY <1>1, <1>2
    <2> QED
      BY <1>1, <1>2, <1>3, <2>1, <2>2, SwitchAside
  <1>4. CASE Loaded(i) \/ Locked(i)
    BY <1>1, <1>3, <1>4, IsOver DEF Loaded, Locked, At
  <1>5. CASE Unlocked(i)
    BY <1>1, <1>3, <1>5, UnlockedGoes
  <1>6. CASE Toggled(i)
    <2>1. /\ Over(calls[i]) /\ calls[i].what = "toggle"
          /\ \/ /\ calls[i].step = "saved"
                /\ showsOn' = calls[i].on /\ checkbox' = checkbox
             \/ /\ calls[i].step = "refused"
                /\ checkbox' = showsOn /\ showsOn' = showsOn
      BY <1>1, <1>6, IsOver DEF Toggled, At
    <2> SUFFICES ASSUME ~unsettled
                 PROVE  SwitchFollows'
      BY <1>2 DEF SwitchFollows
    <2>2. Lone(calls', Toggling) /\ ToSet(calls') \cap Toggling = {}
      BY <1>1, <2>1 DEF Over, SwitchFollows, Toggling
    <2>3. \A c \in ToSet(calls') : c.what # "toggle"
      <3>1. \A c \in ToSet(calls') : c \in Calls
        BY <2>1 DEF Over, ToSet
      <3> QED
        BY <2>2, <3>1 DEF Toggling
    <2>4. /\ calls[i].on = checkbox /\ enabled = checkbox /\ Told(checkbox)
          /\ calls[i].step = "refused" => faults > 0
      <3>1. /\ calls[i].on = checkbox
            /\ enabled = calls[i].on /\ Told(calls[i].on)
            /\ calls[i].step = "refused" => faults > 0
        BY <1>1, <2>1 DEF SwitchFollows
      <3> QED
        BY <3>1
    <2>5. Told(enabled)'
      <3>1. PICK on \in BOOLEAN : on = checkbox
        BY <1>1 DEF Plain
      <3>2. Told(on) /\ enabled' = on /\ showsOn' \in {showsOn, on}
        BY <1>2, <2>1, <2>4, <3>1
      <3>3. Told(on)'
        BY <1>2, <3>2 DEF Told
      <3> QED
        BY <3>2, <3>3 DEF Told
    <2>6. faults' = 0 => checkbox' = enabled'
      BY <1>1, <1>2, <2>1, <2>4
    <2> QED
      BY <2>2, <2>3, <2>5, <2>6 DEF SwitchFollows
  <1> QED
    BY <1>4, <1>5, <1>6 DEF Answered

LEMMA SwitchOnTask ==
    ASSUME TypeOK, SwitchFollows,
           TellReceived \/ \E r \in Rooms : Receive(r) \/ Invited(r)
    PROVE  SwitchFollows'
  <1>1. events \in Seq(Events) /\ Plain /\ faults \in Nat
    BY TypeParts DEF Plain
  <1>2. UNCHANGED <<enabled, checkbox, unsettled, showsOn, calls>>
    BY DEF TellReceived, Receive, Invited, memory, page, ghosts
  <1>3. faults' \in Nat /\ faults' >= faults
    <2>1. TellReceived => faults' \in {faults, faults + 1}
      BY DEF TellReceived, Save, SaveFails
    <2>2. ASSUME NEW r \in Rooms, Receive(r) \/ Invited(r)
          PROVE  faults' = faults
      BY <2>2 DEF Receive, Invited
    <2> QED
      BY <1>1, <2>1, <2>2
  <1>4. events' = events \/ \E e \in Events : Emit(e) /\ e.what # "toggled"
    <2>1. CASE TellReceived
      <3> DEFINE e == Event("message", None, {task}, FALSE)
      <3>1. Emit(e) /\ {task} \in SUBSET Messages
        BY <1>1, <2>1 DEF TellReceived, Plain
      <3>2. e \in Events /\ e.what = "message"
        BY <3>1, EventTyped DEF Event
      <3> HIDE DEF e
      <3> QED
        BY <3>1, <3>2
    <2>2. ASSUME NEW r \in Rooms, Receive(r) \/ Invited(r)
          PROVE  events' = events \/ \E e \in Events : Emit(e) /\ e.what # "toggled"
      <3> DEFINE e == Event("enter", r, {}, FALSE)
      <3>1. Emit(e) \/ events' = events
        BY <2>2 DEF Receive, Invited
      <3>2. e \in Events /\ e.what = "enter"
        BY EventTyped DEF Event
      <3> HIDE DEF e
      <3> QED
        BY <3>1, <3>2
    <2> QED
      BY <2>1, <2>2
  <1>5. \A on \in BOOLEAN : Told(on) => Told(on)'
    <2>1. CASE events' = events
      BY <1>2, <2>1, ToldSame
    <2>2. ASSUME NEW e \in Events, Emit(e), e.what # "toggled"
          PROVE  \A on \in BOOLEAN : Told(on) => Told(on)'
      BY <1>1, <1>2, <2>2, ToldOnEmit
    <2> QED
      BY <1>4, <2>1, <2>2
  <1> QED
    BY <1>2, <1>3, <1>5, SwitchAside

LEMMA SwitchStep ==
    ASSUME TypeOK, SwitchFollows, [Next]_vars
    PROVE  SwitchFollows'
  <1>1. CASE Next
    <2>1. CASE UserClicks
      BY <2>1, SwitchOnClicks
    <2>2. ASSUME NEW i \in DOMAIN calls, Run(i) \/ Answered(i)
          PROVE  SwitchFollows'
      BY <2>2, SwitchOnRun, SwitchOnAnswers
    <2>3. CASE TellReceived \/ \E r \in Rooms : Receive(r) \/ Invited(r)
      BY <2>3, SwitchOnTask
    <2>4. CASE Listen
      BY <2>4, SwitchOnListen
    <2> QED
      BY <1>1, <2>1, <2>2, <2>3, <2>4 DEF Next
  <1>2. CASE UNCHANGED vars
    BY <1>2 DEF SwitchFollows, Told, vars, memory, page, counters, ghosts
  <1> QED
    BY <1>1, <1>2

LEMMA SwitchInitially == Init => SwitchFollows
  <1> SUFFICES ASSUME Init PROVE SwitchFollows
    OBVIOUS
  <1>1. /\ calls = << >> /\ events = << >>
        /\ enabled = TRUE /\ checkbox = TRUE /\ showsOn = TRUE
    BY DEF Init
  <1>2. Told(enabled)
    BY <1>1 DEF Told
  <1>3. ToSet(calls) = {} /\ Lone(calls, Toggling)
    BY <1>1 DEF ToSet, Lone
  <1> QED
    BY <1>1, <1>2, <1>3 DEF SwitchFollows

\* When a toggle did not overlap with another one and no vault was loaded
\* since, and its answer and its event have come, the page and the memory say
\* the same of encryption, and so does the checkbox if every save succeeded:
\* SwitchShown of the runs, for any rooms and bounds (lib.rs:774-791,
\* main.ts:276-281, 944-955).
THEOREM SwitchSettles == Spec => []SwitchShown
  <1>1. TypeOK /\ SwitchFollows => SwitchShown
    <2> SUFFICES ASSUME SwitchFollows, ~unsettled, ~UnderWay({"toggle"}),
                        ~Emitted("toggled")
                 PROVE  showsOn = enabled /\ (faults = 0 => checkbox = enabled)
      BY DEF SwitchShown
    <2>1. \A c \in ToSet(calls) : c.what # "toggle"
      BY UnderWayHas
    <2>2. Told(enabled) /\ (faults = 0 => checkbox = enabled)
      BY <2>1 DEF SwitchFollows
    <2> QED
      BY <2>2 DEF Told, Emitted
  <1>2. Init => TypeOK /\ SwitchFollows
    BY TypeInitially, SwitchInitially
  <1>3. TypeOK /\ SwitchFollows /\ [Next]_vars => (TypeOK /\ SwitchFollows)'
    BY TypeStep, SwitchStep
  <1> QED
    BY <1>1, <1>2, <1>3, PTL DEF Spec

=============================================================================

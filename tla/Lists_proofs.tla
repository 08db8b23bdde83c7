---------------------------- MODULE Lists_proofs ----------------------------
(***************************************************************************)
(* Lemmas about lists, and what they rest on: induction over the naturals. *)
(***************************************************************************)
EXTENDS Lists, SequenceTheorems, FiniteSetTheorems, TLAPS

\* A set of naturals in which 0 is, and with each number the next, has all of
\* them: the subsets 1..n of Nat are well founded by inclusion.
LEMMA Induction ==
    ASSUME NEW A, 0 \in A, \A n \in Nat : n \in A => n + 1 \in A
    PROVE  Nat \subseteq A
  <1> SUFFICES ASSUME NEW k \in Nat, k \notin A
               PROVE  FALSE
    OBVIOUS
  <1> DEFINE missing == {n \in Nat : n \notin A}
             T == {1..n : n \in missing}
             F == FiniteSubsetsOf(Nat)
             R == StrictSubsetOrdering(Nat)
  <1>1. \A n \in Nat : 1..n \in F
    <2> SUFFICES ASSUME NEW n \in Nat
                 PROVE  1..n \in F
      OBVIOUS
    <2>1. IsFiniteSet(1..n)
      <3>1. 1 \in Int /\ n \in Int
        OBVIOUS
      <3> QED
        BY <3>1, FS_Interval
    <2>2. 1..n \in SUBSET Nat
      OBVIOUS
    <2> QED
      BY <2>1, <2>2 DEF FiniteSubsetsOf
  <1>2. IsWellFoundedOn(R, F)
    BY FS_StrictSubsetOrderingWellFounded
  <1>3. T \subseteq F /\ T # {}
    BY <1>1
  <1> HIDE DEF R, F, T
  <1>4. PICK x \in T : \A y \in T : ~(<<y, x>> \in R)
    BY <1>2, <1>3, WFMin
  <1>5. PICK n \in missing : x = 1..n
    BY <1>4 DEF T
  <1>6. n \in Nat /\ n # 0 /\ n - 1 \in missing
    BY <1>5
  <1>7. 1..(n - 1) \in T
    BY <1>6 DEF T
  <1>8. 1..(n - 1) \in SUBSET (1..n) /\ 1..(n - 1) # 1..n /\ 1..n \in SUBSET Nat
    BY <1>6
  <1>9. <<1..(n - 1), x>> \in R
    BY <1>5, <1>8 DEF R, StrictSubsetOrdering
  <1> QED
    BY <1>4, <1>7, <1>9

-----------------------------------------------------------------------------
(* What is retained of a list. *)

\* kept is the list's recursion up to n.
Keeps(list, set, kept, n) ==
    kept = [i \in 0..n |-> IF i = 0 THEN << >>
                           ELSE IF list[i] \in set THEN Append(kept[i - 1], list[i])
                                                   ELSE kept[i - 1]]

LEMMA KeepsExists ==
    ASSUME NEW list, NEW set, NEW n \in Nat
    PROVE  \E kept : Keeps(list, set, kept, n)
  <1> DEFINE A == {k \in Nat : \E kept : Keeps(list, set, kept, k)}
  <1>1. 0 \in A
    <2> DEFINE none == [i \in 0..0 |-> << >>]
    <2>1. Keeps(list, set, none, 0)
      BY DEF Keeps
    <2> QED
      BY <2>1
  <1>2. ASSUME NEW k \in Nat, k \in A
        PROVE  k + 1 \in A
    <2>1. PICK kept : Keeps(list, set, kept, k)
      BY <1>2
    <2> DEFINE more == [i \in 0..(k + 1) |->
                          IF i <= k THEN kept[i]
                          ELSE IF list[i] \in set THEN Append(kept[k], list[i])
                                                  ELSE kept[k]]
               step(g, i) == IF i = 0 THEN << >>
                             ELSE IF list[i] \in set THEN Append(g[i - 1], list[i])
                                                     ELSE g[i - 1]
    <2>2. \A i \in 0..k : kept[i] = step(kept, i)
      BY <2>1 DEF Keeps
    <2>3. ASSUME NEW i \in 0..(k + 1)
          PROVE  more[i] = step(more, i)
      <3>1. CASE i <= k
        <4>1. i # 0 => more[i - 1] = kept[i - 1]
          BY <3>1
        <4> QED
          BY <2>2, <3>1, <4>1
      <3>2. CASE i = k + 1
        <4>1. i # 0 /\ i - 1 = k /\ more[k] = kept[k]
          BY <3>2
        <4> QED
          BY <3>2, <4>1
      <3> QED
        BY <3>1, <3>2
    <2>4. more = [i \in 0..(k + 1) |-> step(more, i)]
      <3> DEFINE other == [i \in 0..(k + 1) |-> step(more, i)]
      <3>1. \A i \in 0..(k + 1) : more[i] = other[i]
        BY <2>3
      <3> QED
        BY <3>1
    <2>5. Keeps(list, set, more, k + 1)
      BY <2>4 DEF Keeps
    <2> QED
      BY <2>5
  <1> HIDE DEF A
  <1>3. n \in A
    BY <1>1, <1>2, Induction
  <1> QED
    BY <1>3 DEF A

LEMMA KeepsNothing ==
    ASSUME NEW list, NEW set, NEW n \in Nat, NEW kept, Keeps(list, set, kept, n)
    PROVE  kept[0] = << >>
  <1>1. 0 \in 0..n
    OBVIOUS
  <1> QED
    BY <1>1 DEF Keeps

LEMMA KeepsNext ==
    ASSUME NEW list, NEW set, NEW n \in Nat, NEW kept, Keeps(list, set, kept, n),
           NEW i \in Nat, i + 1 <= n
    PROVE  kept[i + 1] = IF list[i + 1] \in set
                         THEN Append(kept[i], list[i + 1]) ELSE kept[i]
  <1>1. i + 1 \in 0..n /\ i + 1 # 0 /\ (i + 1) - 1 = i
    OBVIOUS
  <1>2. kept[i + 1] = IF i + 1 = 0 THEN << >>
                      ELSE IF list[i + 1] \in set
                           THEN Append(kept[(i + 1) - 1], list[i + 1])
                           ELSE kept[(i + 1) - 1]
    BY <1>1 DEF Keeps
  <1> QED
    BY <1>1, <1>2

\* Retain satisfies its equation.
LEMMA RetainKeeps ==
    ASSUME NEW S, NEW list \in Seq(S), NEW set
    PROVE  \E kept : /\ Keeps(list, set, kept, Len(list))
                     /\ Retain(list, set) = kept[Len(list)]
  <1> DEFINE chosen == CHOOSE kept : Keeps(list, set, kept, Len(list))
  <1>1. Keeps(list, set, chosen, Len(list))
    BY KeepsExists, LenProperties
  <1>2. Retain(list, set) = chosen[Len(list)]
    BY DEF Retain, Keeps
  <1> QED
    BY <1>1, <1>2

\* One entry more.
LEMMA RetainAppend ==
    ASSUME NEW S, NEW list \in Seq(S), NEW e \in S, NEW set
    PROVE  Retain(Append(list, e), set)
              = IF e \in set THEN Append(Retain(list, set), e)
                             ELSE Retain(list, set)
  <1> DEFINE more == Append(list, e)
             n == Len(list)
  <1>1. /\ more \in Seq(S) /\ Len(more) = n + 1 /\ n \in Nat
        /\ \A i \in 1..n : more[i] = list[i]
        /\ more[n + 1] = e
    BY AppendProperties, LenProperties
  <1> HIDE DEF more, n
  <1>2. PICK f : Keeps(list, set, f, n) /\ Retain(list, set) = f[n]
    BY RetainKeeps DEF n
  <1>3. PICK g : Keeps(more, set, g, n + 1) /\ Retain(more, set) = g[n + 1]
    <2>1. \E g : Keeps(more, set, g, Len(more)) /\ Retain(more, set) = g[Len(more)]
      BY <1>1, RetainKeeps
    <2> QED
      BY <1>1, <2>1
  <1> DEFINE A == {k \in Nat : k <= n => f[k] = g[k]}
  <1>4. 0 \in A
    <2>1. n + 1 \in Nat
      BY <1>1
    <2>2. f[0] = << >> /\ g[0] = << >>
      BY <1>1, <1>2, <1>3, <2>1, KeepsNothing
    <2> QED
      BY <2>2
  <1>5. ASSUME NEW k \in Nat, k \in A
        PROVE  k + 1 \in A
    <2> SUFFICES ASSUME k + 1 <= n
                 PROVE  f[k + 1] = g[k + 1]
      OBVIOUS
    <2>1. f[k] = g[k] /\ list[k + 1] = more[k + 1] /\ k + 1 <= n + 1
      BY <1>1, <1>5
    <2>2. f[k + 1] = IF list[k + 1] \in set
                     THEN Append(f[k], list[k + 1]) ELSE f[k]
      <3>1. n \in Nat /\ Keeps(list, set, f, n)
        BY <1>1, <1>2
      <3> QED
        BY <3>1, KeepsNext
    <2>3. g[k + 1] = IF more[k + 1] \in set
                     THEN Append(g[k], more[k + 1]) ELSE g[k]
      <3>1. n + 1 \in Nat /\ Keeps(more, set, g, n + 1)
        BY <1>1, <1>3
      <3> HIDE DEF more
      <3> QED
        BY <2>1, <3>1, KeepsNext
    <2> QED
      BY <2>1, <2>2, <2>3
  <1> HIDE DEF A
  <1>6. n \in A
    BY <1>1, <1>4, <1>5, Induction
  <1>7. f[n] = g[n]
    BY <1>1, <1>6 DEF A
  <1>8. g[n + 1] = IF e \in set THEN Append(g[n], e) ELSE g[n]
    <2>1. g[n + 1] = IF more[n + 1] \in set
                     THEN Append(g[n], more[n + 1]) ELSE g[n]
      BY <1>1, <1>3, KeepsNext
    <2> QED
      BY <1>1, <2>1
  <1> QED
    BY <1>2, <1>3, <1>7, <1>8 DEF more

LEMMA RetainEmpty ==
    ASSUME NEW set
    PROVE  Retain(<< >>, set) = << >>
  <1>1. << >> \in Seq({}) /\ Len(<< >>) = 0
    BY EmptySeq
  <1>2. PICK f : Keeps(<< >>, set, f, 0) /\ Retain(<< >>, set) = f[0]
    BY <1>1, RetainKeeps
  <1> QED
    BY <1>2, KeepsNothing

\* A list in which nothing is twice.
Distinct(list) ==
    \A i, j \in DOMAIN list : list[i] = list[j] => i = j

\* An entry more, and the first entry less.
LEMMA AppendHas ==
    ASSUME NEW S, NEW list \in Seq(S), NEW e \in S
    PROVE  /\ Append(list, e) \in Seq(S)
           /\ Range(Append(list, e)) = Range(list) \cup {e}
           /\ Distinct(list) /\ e \notin Range(list) => Distinct(Append(list, e))
           /\ Len(list) \in Nat /\ DOMAIN list = 1..Len(list)
           /\ DOMAIN Append(list, e) = 1..(Len(list) + 1)
           /\ \A i \in DOMAIN list : Append(list, e)[i] = list[i]
           /\ Append(list, e)[Len(list) + 1] = e
  <1> DEFINE t == Append(list, e)
  <1>1. /\ t \in Seq(S) /\ Len(t) = Len(list) + 1 /\ Len(list) \in Nat
        /\ \A i \in 1..Len(list) : t[i] = list[i]
        /\ t[Len(list) + 1] = e
        /\ DOMAIN t = 1..(Len(list) + 1) /\ DOMAIN list = 1..Len(list)
    BY AppendProperties, LenProperties
  <1> HIDE DEF t
  <1>2. Range(t) = Range(list) \cup {e}
    BY <1>1 DEF Range
  <1>3. ASSUME Distinct(list), e \notin Range(list)
        PROVE  Distinct(t)
    BY <1>1, <1>3 DEF Distinct, Range
  <1> QED
    BY <1>1, <1>2, <1>3 DEF t

LEMMA TailHas ==
    ASSUME NEW S, NEW list \in Seq(S), list # << >>
    PROVE  /\ Tail(list) \in Seq(S)
           /\ Head(list) = list[1] /\ Head(list) \in S /\ 1 \in DOMAIN list
           /\ Len(list) \in Nat \ {0} /\ DOMAIN list = 1..Len(list)
           /\ DOMAIN Tail(list) = 1..(Len(list) - 1)
           /\ \A i \in DOMAIN Tail(list) : Tail(list)[i] = list[i + 1]
           /\ Range(list) = {Head(list)} \cup Range(Tail(list))
  <1>1. /\ Tail(list) \in Seq(S) /\ Len(Tail(list)) = Len(list) - 1
        /\ \A i \in 1..Len(Tail(list)) : Tail(list)[i] = list[i + 1]
        /\ Head(list) = list[1] /\ Head(list) \in S
        /\ Len(list) \in Nat \ {0} /\ DOMAIN list = 1..Len(list)
    BY HeadTailProperties, EmptySeq, LenProperties
  <1> DEFINE t == Tail(list)
             n == Len(list)
  <1>2. DOMAIN t = 1..(n - 1)
    BY <1>1, LenProperties
  <1>3. \A i \in 1..(n - 1) : t[i] = list[i + 1]
    BY <1>1
  <1>4. n \in Nat \ {0} /\ DOMAIN list = 1..n
    BY <1>1
  <1> HIDE DEF t, n
  <1>5. Range(list) = {list[1]} \cup Range(t)
    <2>1. \A i \in 1..n : i = 1 \/ (i - 1 \in 1..(n - 1) /\ (i - 1) + 1 = i)
      BY <1>4
    <2>2. \A i \in 1..(n - 1) : i + 1 \in 1..n
      BY <1>4
    <2>3. 1 \in 1..n
      BY <1>4
    <2>4. \A i \in 1..n : list[i] = list[1] \/ \E j \in 1..(n - 1) : t[j] = list[i]
      BY <1>3, <2>1
    <2>5. \A j \in 1..(n - 1) : \E i \in 1..n : t[j] = list[i]
      BY <1>3, <2>2
    <2>6. Range(list) \subseteq {list[1]} \cup Range(t)
      BY <1>2, <1>4, <2>4 DEF Range
    <2>7. list[1] \in Range(list)
      BY <1>4, <2>3 DEF Range
    <2>8. Range(t) \subseteq Range(list)
      BY <1>2, <1>4, <2>5 DEF Range
    <2> QED
      BY <2>6, <2>7, <2>8
  <1> QED
    BY <1>1, <1>2, <1>3, <1>4, <1>5 DEF t, n

\* A list without duplicates has as many entries as members.
LEMMA DistinctLen ==
    ASSUME NEW S, NEW list \in Seq(S)
    PROVE  Distinct(list) <=> Len(list) = Cardinality(Range(list))
  <1>1. Len(list) \in Nat /\ DOMAIN list = 1..Len(list) /\ list \in [1..Len(list) -> S]
    BY LenProperties
  <1>2. IsFiniteSet(1..Len(list)) /\ Cardinality(1..Len(list)) = Len(list)
    <2>1. /\ Cardinality(1..Len(list)) = IF 1 > Len(list) THEN 0 ELSE Len(list) - 1 + 1
          /\ IsFiniteSet(1..Len(list))
      <3>1. 1 \in Int /\ Len(list) \in Int
        BY <1>1
      <3> QED
        BY <3>1, FS_Interval
    <2> QED
      BY <1>1, <2>1
  <1>3. list \in Surjection(1..Len(list), Range(list))
    BY <1>1 DEF Surjection, Range
  <1>4. Cardinality(Range(list)) = Len(list)
            <=> list \in Injection(1..Len(list), Range(list))
    BY <1>2, <1>3, FS_Surjection
  <1>5. list \in Injection(1..Len(list), Range(list)) <=> Distinct(list)
    BY <1>1 DEF Injection, IsInjective, Distinct, Range
  <1> QED
    BY <1>4, <1>5

\* What is retained: what the list has in the set, and nothing twice that was
\* not twice before.
LEMMA RetainHas ==
    ASSUME NEW S, NEW list \in Seq(S), NEW set
    PROVE  /\ Retain(list, set) \in Seq(S)
           /\ Range(Retain(list, set)) = Range(list) \cap set
           /\ Distinct(list) => Distinct(Retain(list, set))
  <1> DEFINE n == Len(list)
  <1>1. n \in Nat /\ DOMAIN list = 1..n /\ \A i \in 1..n : list[i] \in S
    BY LenProperties
  <1> HIDE DEF n
  <1>2. PICK f : Keeps(list, set, f, n) /\ Retain(list, set) = f[n]
    BY RetainKeeps DEF n
  <1> DEFINE Good(k) == /\ f[k] \in Seq(S)
                        /\ Range(f[k]) = {list[i] : i \in 1..k} \cap set
                        /\ Distinct(list) => Distinct(f[k])
             A == {k \in Nat : k <= n => Good(k)}
  <1>3. 0 \in A
    <2>1. f[0] = << >>
      BY <1>1, <1>2, KeepsNothing
    <2>2. f[0] \in Seq(S) /\ DOMAIN f[0] = {}
      BY <2>1, EmptySeq
    <2> QED
      BY <2>2 DEF Range, Distinct
  <1>4. ASSUME NEW k \in Nat, k \in A
        PROVE  k + 1 \in A
    <2> SUFFICES ASSUME k + 1 <= n
                 PROVE  Good(k + 1)
      OBVIOUS
    <2> DEFINE e == list[k + 1]
               s == f[k]
               t == f[k + 1]
    <2>1. Good(k)
      BY <1>1, <1>4
    <2>2. t = IF e \in set THEN Append(s, e) ELSE s
      BY <1>1, <1>2, KeepsNext
    <2>3. /\ e \in S
          /\ {list[i] : i \in 1..(k + 1)} = {list[i] : i \in 1..k} \cup {e}
      BY <1>1
    <2>4. /\ s \in Seq(S)
          /\ Range(s) = {list[i] : i \in 1..k} \cap set
          /\ Distinct(list) => Distinct(s)
      BY <2>1
    <2> SUFFICES /\ t \in Seq(S)
                 /\ Range(t) = {list[i] : i \in 1..(k + 1)} \cap set
                 /\ Distinct(list) => Distinct(t)
      OBVIOUS
    <2>5. CASE e \notin set
      BY <2>2, <2>3, <2>4, <2>5
    <2>6. CASE e \in set
      <3>1. Distinct(list) => e \notin {list[i] : i \in 1..k}
        BY <1>1 DEF Distinct
      <3> HIDE DEF e, s, t
      <3>2. /\ t \in Seq(S) /\ Range(t) = Range(s) \cup {e}
            /\ Distinct(s) /\ e \notin Range(s) => Distinct(t)
        BY <2>2, <2>3, <2>4, <2>6, AppendHas
      <3> QED
        BY <2>3, <2>4, <2>6, <3>1, <3>2
    <2> QED
      BY <2>5, <2>6
  <1> HIDE DEF Good, A
  <1>5. n \in A
    BY <1>1, <1>3, <1>4, Induction
  <1>6. Good(n)
    BY <1>1, <1>5 DEF A
  <1>7. {list[i] : i \in 1..n} = Range(list)
    BY <1>1 DEF Range
  <1> QED
    BY <1>2, <1>6, <1>7 DEF Good

\* What two lists make together.
LEMMA ConcatIs ==
    ASSUME NEW S, NEW s \in Seq(S), NEW t \in Seq(S), NEW u \in Seq(S),
           Len(u) = Len(s) + Len(t),
           \A i \in 1..Len(u) : u[i] = IF i <= Len(s) THEN s[i] ELSE t[i - Len(s)]
    PROVE  s \o t = u
  <1>1. /\ s \o t \in Seq(S) /\ Len(s \o t) = Len(u)
        /\ \A i \in 1..Len(u) : (s \o t)[i] = u[i]
    BY ConcatProperties
  <1> QED
    BY <1>1, SeqEqual

\* How many entries of a list are in a set.
Count(list, set) == Cardinality({i \in DOMAIN list : list[i] \in set})

LEMMA CountNat ==
    ASSUME NEW S, NEW list \in Seq(S), NEW set
    PROVE  /\ Count(list, set) \in Nat
           /\ IsFiniteSet({i \in DOMAIN list : list[i] \in set})
  <1> DEFINE C == {i \in DOMAIN list : list[i] \in set}
  <1>1. IsFiniteSet(DOMAIN list)
    BY LenProperties, FS_Interval
  <1>2. C \in SUBSET DOMAIN list
    OBVIOUS
  <1> HIDE DEF C
  <1>3. IsFiniteSet(C)
    BY <1>1, <1>2, FS_Subset
  <1>4. Cardinality(C) \in Nat
    BY <1>3, FS_CardinalityType
  <1> QED
    BY <1>3, <1>4 DEF Count, C

LEMMA CountAppend ==
    ASSUME NEW S, NEW list \in Seq(S), NEW e \in S, NEW set
    PROVE  Count(Append(list, e), set)
              = IF e \in set THEN Count(list, set) + 1 ELSE Count(list, set)
  <1> DEFINE more == Append(list, e)
             n == Len(list)
             C == {i \in DOMAIN list : list[i] \in set}
             D == {i \in DOMAIN more : more[i] \in set}
  <1>1. /\ n \in Nat /\ DOMAIN list = 1..n /\ DOMAIN more = 1..(n + 1)
        /\ \A i \in 1..n : more[i] = list[i]
        /\ more[n + 1] = e
    BY AppendHas
  <1> HIDE DEF more, n
  <1>2. D = IF e \in set THEN C \cup {n + 1} ELSE C
    BY <1>1
  <1>3. n + 1 \notin C
    BY <1>1
  <1>4. IsFiniteSet(C)
    BY CountNat
  <1> HIDE DEF C, D
  <1>5. Cardinality(D) = IF e \in set THEN Cardinality(C) + 1 ELSE Cardinality(C)
    BY <1>2, <1>3, <1>4, FS_AddElement
  <1> QED
    BY <1>5 DEF Count, C, D, more

LEMMA CountTail ==
    ASSUME NEW S, NEW list \in Seq(S), list # << >>, NEW set
    PROVE  Count(list, set) = IF Head(list) \in set THEN Count(Tail(list), set) + 1
                                                    ELSE Count(Tail(list), set)
  <1> DEFINE rest == Tail(list)
             n == Len(list)
             C == {i \in DOMAIN list : list[i] \in set}
             D == {i \in DOMAIN rest : rest[i] \in set}
             f == [i \in D |-> i + 1]
  <1>1. /\ n \in Nat \ {0} /\ DOMAIN list = 1..n /\ DOMAIN rest = 1..(n - 1)
        /\ \A i \in 1..(n - 1) : rest[i] = list[i + 1]
        /\ Head(list) = list[1] /\ rest \in Seq(S)
    BY TailHas
  <1> HIDE DEF rest, n
  <1>2. /\ D \subseteq 1..(n - 1)
        /\ \A i \in D : i + 1 \in C \ {1}
        /\ \A i \in C \ {1} : i - 1 \in D /\ (i - 1) + 1 = i
        /\ 1 \in C <=> Head(list) \in set
    <2>1. \A i \in 1..(n - 1) : i + 1 \in 1..n /\ i + 1 # 1
      BY <1>1
    <2>2. \A i \in 1..n : i = 1 \/ (i - 1 \in 1..(n - 1) /\ (i - 1) + 1 = i)
      BY <1>1
    <2>3. 1 \in 1..n
      BY <1>1
    <2>4. ASSUME NEW i \in C \ {1}
          PROVE  i - 1 \in D /\ (i - 1) + 1 = i
      <3>1. i - 1 \in 1..(n - 1) /\ (i - 1) + 1 = i /\ list[i] \in set
        BY <1>1, <2>2
      <3>2. rest[i - 1] = list[(i - 1) + 1]
        BY <1>1, <3>1
      <3> QED
        BY <1>1, <3>1, <3>2
    <2> QED
      BY <1>1, <2>1, <2>3, <2>4
  <1>3. IsFiniteSet(C) /\ IsFiniteSet(D)
    BY <1>1, CountNat
  <1>4. IsFiniteSet(C \ {1}) /\ Cardinality(C) \in Nat
        /\ Cardinality(C \ {1}) = IF 1 \in C THEN Cardinality(C) - 1 ELSE Cardinality(C)
    BY <1>3, FS_RemoveElement, FS_CardinalityType
  <1>5. f \in Bijection(D, C \ {1})
    <2>1. f \in [D -> C \ {1}]
      BY <1>2
    <2>2. \A i, j \in D : f[i] = f[j] => i = j
      BY <1>2
    <2>3. \A i \in C \ {1} : \E j \in D : f[j] = i
      BY <1>2
    <2> QED
      BY <2>1, <2>2, <2>3 DEF Bijection, Injection, Surjection, IsInjective
  <1> HIDE DEF C, D, f
  <1>6. Cardinality(C \ {1}) = Cardinality(D)
    BY <1>3, <1>5, FS_Bijection DEF ExistsBijection
  <1>7. Cardinality(C) = IF Head(list) \in set THEN Cardinality(D) + 1 ELSE Cardinality(D)
    BY <1>2, <1>4, <1>6
  <1> QED
    BY <1>7 DEF Count, C, D, rest
=============================================================================

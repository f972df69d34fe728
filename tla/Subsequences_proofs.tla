------------------------- MODULE Subsequences_proofs -------------------------
(***************************************************************************)
(* What Picked returns, and the facts about sequences seen as the set of   *)
(* their elements that the proofs of the components share.  Induction is   *)
(* over sets of natural numbers, from the least element of what is left.   *)
(***************************************************************************)
EXTENDS Subsequences, SequencesExt, SequenceTheorems, WellFoundedInduction, TLAPS

-----------------------------------------------------------------------------
(* Natural numbers.                                                        *)

\* A set of natural numbers that is not empty has a least element.
LEMMA LeastNatural ==
    ASSUME NEW T \in SUBSET Nat, T # {}
    PROVE  \E x \in T : \A y \in T : x <= y
<1> DEFINE R == OpToRel(<, Nat)
<1>1. IsWellFoundedOn(R, Nat)
  BY NatLessThanWellFounded
<1>2. \A x, y \in Nat : x < y => <<x, y>> \in R
  BY DEF OpToRel
<1> HIDE DEF R
<1>3. PICK x \in T : \A y \in T : ~ (<<y, x>> \in R)
  BY <1>1, WFMin
<1>4. ASSUME NEW y \in T PROVE x <= y
  <2>1. x \in Nat /\ y \in Nat /\ ~(<<y, x>> \in R)
    BY <1>3
  <2>2. ~(y < x)
    BY <2>1, <1>2
  <2> QED BY <2>1, <2>2
<1> QED BY <1>4

\* A set that has 0 and with every number the next one has them all.
LEMMA SetInduction ==
    ASSUME NEW S, 0 \in S, \A n \in Nat : n \in S => n + 1 \in S
    PROVE  Nat \subseteq S
<1> DEFINE T == Nat \ S
<1> SUFFICES ASSUME T # {} PROVE FALSE
  OBVIOUS
<1>1. PICK x \in T : \A y \in T : x <= y
  BY LeastNatural
<1>2. x \in Nat /\ x # 0
  OBVIOUS
<1>3. x - 1 \in Nat /\ x - 1 \notin T
  BY <1>1, <1>2
<1>4. x - 1 \in S
  BY <1>3
<1>5. x \in S
  BY <1>2, <1>3, <1>4
<1> QED BY <1>5

-----------------------------------------------------------------------------
(* Sequences as the set of their elements.                                 *)

\* What is in a sequence is what its positions hold.
LEMMA InSequence ==
    ASSUME NEW S, NEW s \in Seq(S)
    PROVE  /\ ToSet(s) = {s[i] : i \in 1 .. Len(s)}
           /\ ToSet(s) \in SUBSET S
           /\ s \in Seq(ToSet(s))
<1>1. DOMAIN s = 1 .. Len(s) /\ \A i \in 1 .. Len(s) : s[i] \in S
  OBVIOUS
<1>2. ToSet(s) = {s[i] : i \in 1 .. Len(s)}
  BY <1>1 DEF ToSet
<1>3. s \in Seq(ToSet(s))
  BY <1>2, IsASeq, LenProperties
<1> QED
  BY <1>1, <1>2, <1>3

\* A function on the numbers from 1 to n is a sequence of length n.
LEMMA FunctionIsSequence ==
    ASSUME NEW S, NEW n \in Nat, NEW f \in [1 .. n -> S]
    PROVE  f \in Seq(S) /\ Len(f) = n
BY IsASeq, LenProperties

LEMMA InEmpty == ToSet(<<>>) = {}
BY DEF ToSet

LEMMA InOne == ASSUME NEW x PROVE ToSet(<<x>>) = {x} /\ <<x>> \in Seq({x})
BY DEF ToSet

\* A message that is sent joins what is on the way.
LEMMA InAppend ==
    ASSUME NEW S, NEW s \in Seq(S), NEW x \in S
    PROVE  Append(s, x) \in Seq(S) /\ ToSet(Append(s, x)) = ToSet(s) \cup {x}
<1>1. /\ Append(s, x) \in Seq(S) /\ Len(Append(s, x)) = Len(s) + 1
      /\ Append(s, x)[Len(s) + 1] = x
      /\ \A i \in 1 .. Len(s) : Append(s, x)[i] = s[i]
  BY AppendProperties
<1>2. 1 .. Len(s) + 1 = 1 .. Len(s) \cup {Len(s) + 1}
  BY LenProperties
<1>3. {Append(s, x)[i] : i \in 1 .. Len(s) + 1} = {s[i] : i \in 1 .. Len(s)} \cup {x}
  BY <1>1, <1>2
<1> QED
  BY <1>1, <1>3, InSequence

\* Messages sent after others join them.
LEMMA InConcat ==
    ASSUME NEW S, NEW s \in Seq(S), NEW t \in Seq(S)
    PROVE  s \o t \in Seq(S) /\ ToSet(s \o t) = ToSet(s) \cup ToSet(t)
<1>1. /\ s \o t \in Seq(S) /\ Len(s \o t) = Len(s) + Len(t)
      /\ \A i \in 1 .. Len(s) + Len(t) : (s \o t)[i] = IF i <= Len(s) THEN s[i] ELSE t[i - Len(s)]
  BY ConcatProperties
<1>2. Len(s) \in Nat /\ Len(t) \in Nat
  BY LenProperties
<1>3. \A i \in 1 .. Len(s) : i \in 1 .. Len(s) + Len(t) /\ (s \o t)[i] = s[i]
  BY <1>1, <1>2
<1>4. \A i \in 1 .. Len(t) : Len(s) + i \in 1 .. Len(s) + Len(t) /\ (s \o t)[Len(s) + i] = t[i]
  BY <1>1, <1>2
<1>5. \A i \in 1 .. Len(s) + Len(t) :
        \/ i \in 1 .. Len(s) /\ (s \o t)[i] = s[i]
        \/ i - Len(s) \in 1 .. Len(t) /\ (s \o t)[i] = t[i - Len(s)]
  BY <1>1, <1>2
<1>6. {(s \o t)[i] : i \in 1 .. Len(s) + Len(t)}
      = {s[i] : i \in 1 .. Len(s)} \cup {t[i] : i \in 1 .. Len(t)}
  BY <1>3, <1>4, <1>5
<1> QED
  BY <1>1, <1>6, InSequence

\* The first message taken, the others remain.
LEMMA InHeadTail ==
    ASSUME NEW S, NEW s \in Seq(S), s # <<>>
    PROVE  /\ Head(s) \in S /\ Tail(s) \in Seq(S)
           /\ ToSet(s) = {Head(s)} \cup ToSet(Tail(s))
<1>1. /\ Head(s) \in S /\ Head(s) = s[1] /\ Tail(s) \in Seq(S) /\ Len(Tail(s)) = Len(s) - 1
      /\ \A i \in 1 .. Len(Tail(s)) : Tail(s)[i] = s[i + 1]
  BY HeadTailProperties
<1>2. Len(s) \in Nat /\ Len(s) # 0
  BY LenProperties, EmptySeq
<1>3. \A i \in 1 .. Len(s) : i = 1 \/ (i - 1 \in 1 .. Len(Tail(s)) /\ s[i] = Tail(s)[i - 1])
  BY <1>1, <1>2
<1>4. \A i \in 1 .. Len(Tail(s)) : i + 1 \in 1 .. Len(s) /\ Tail(s)[i] = s[i + 1]
  BY <1>1, <1>2
<1>5. 1 \in 1 .. Len(s)
  BY <1>2
<1>6. {s[i] : i \in 1 .. Len(s)} = {s[1]} \cup {Tail(s)[i] : i \in 1 .. Len(Tail(s))}
  BY <1>3, <1>4, <1>5
<1> QED
  BY <1>1, <1>6, InSequence

-----------------------------------------------------------------------------
(* Picked.                                                                 *)

\* u is upTo of Picked, as far as n.
UpTo(u, s, positions, n) ==
    u = [i \in 0 .. n |->
            IF i = 0 THEN <<>>
            ELSE IF i \in positions THEN Append(u[i - 1], s[i])
            ELSE u[i - 1]]

\* The recursion of Picked defines a function.
LEMMA UpToExists ==
    ASSUME NEW s, NEW positions, NEW n \in Nat
    PROVE  \E u : UpTo(u, s, positions, n)
<1> DEFINE S == {m \in Nat : \E u : UpTo(u, s, positions, m)}
<1>1. 0 \in S
  <2> DEFINE u == [i \in 0 .. 0 |-> <<>>]
  <2>1. UpTo(u, s, positions, 0)
    BY DEF UpTo
  <2> QED BY <2>1
<1>2. ASSUME NEW m \in Nat, m \in S PROVE m + 1 \in S
  <2>1. PICK u : UpTo(u, s, positions, m)
    BY <1>2
  <2> DEFINE last == IF m + 1 \in positions THEN Append(u[m], s[m + 1]) ELSE u[m]
             v == [i \in 0 .. m + 1 |-> IF i = m + 1 THEN last ELSE u[i]]
             w == [i \in 0 .. m + 1 |->
                     IF i = 0 THEN <<>>
                     ELSE IF i \in positions THEN Append(v[i - 1], s[i])
                     ELSE v[i - 1]]
  <2>2. ASSUME NEW i \in 0 .. m + 1 PROVE v[i] = w[i]
    <3>1. CASE i = m + 1
      <4>1. v[i] = last /\ v[m] = u[m] /\ i # 0 /\ i - 1 = m
        BY <3>1
      <4> QED BY <3>1, <4>1
    <3>2. CASE i # m + 1
      <4>1. i \in 0 .. m /\ v[i] = u[i]
        BY <3>2
      <4>2. u[i] = IF i = 0 THEN <<>> ELSE IF i \in positions THEN Append(u[i - 1], s[i]) ELSE u[i - 1]
        BY <2>1, <4>1 DEF UpTo
      <4>3. i = 0 \/ (i - 1 \in 0 .. m /\ v[i - 1] = u[i - 1])
        BY <4>1
      <4> QED BY <4>1, <4>2, <4>3
    <3> QED BY <3>1, <3>2
  <2>3. v = w
    BY <2>2
  <2>4. UpTo(v, s, positions, m + 1)
    BY <2>3 DEF UpTo
  <2> QED BY <2>4
<1> HIDE DEF S
<1>3. n \in S
  BY <1>1, <1>2, SetInduction
<1> QED BY <1>3 DEF S

\* What has been picked from the first n positions: f says which it was.
PickedSoFar(f, t, s, positions, n) ==
    /\ t \in Seq(ToSet(s))
    /\ f \in [1 .. Len(t) -> positions \cap 1 .. n]
    /\ \A i, j \in 1 .. Len(t) : i < j => f[i] < f[j]
    /\ \A i \in 1 .. Len(t) : t[i] = s[f[i]]
    /\ \A k \in positions \cap 1 .. n : \E i \in 1 .. Len(t) : f[i] = k

\* The elements at the positions that pass, each once and in their order.
LEMMA PickedInOrder ==
    ASSUME NEW S, NEW s \in Seq(S), NEW positions
    PROVE  \E f : PickedSoFar(f, Picked(s, positions), s, positions, Len(s))
<1> DEFINE u == CHOOSE v : UpTo(v, s, positions, Len(s))
<1>1. Len(s) \in Nat /\ DOMAIN s = 1 .. Len(s) /\ \A i \in 1 .. Len(s) : s[i] \in ToSet(s)
  BY LenProperties, InSequence
<1>2. UpTo(u, s, positions, Len(s))
  BY <1>1, UpToExists
<1>3. Picked(s, positions) = u[Len(s)]
  BY DEF Picked, UpTo
<1> HIDE DEF u
<1> DEFINE G == {n \in Nat : n <= Len(s) => \E f : PickedSoFar(f, u[n], s, positions, n)}
<1>4. 0 \in G
  <2> DEFINE f == [i \in {} |-> 0]
  <2>1. u[0] = <<>>
    BY <1>1, <1>2 DEF UpTo
  <2>2. Len(<<>>) = 0 /\ 1 .. 0 = {} /\ <<>> \in Seq(ToSet(s))
    OBVIOUS
  <2>3. PickedSoFar(f, u[0], s, positions, 0)
    BY <2>1, <2>2 DEF PickedSoFar
  <2> QED BY <2>3
<1>5. ASSUME NEW n \in Nat, n \in G PROVE n + 1 \in G
  <2> SUFFICES ASSUME n + 1 <= Len(s)
               PROVE  \E f : PickedSoFar(f, u[n + 1], s, positions, n + 1)
    OBVIOUS
  <2>1. PICK f : PickedSoFar(f, u[n], s, positions, n)
    BY <1>1, <1>5
  <2> DEFINE t == u[n]
  <2>2. u[n + 1] = IF n + 1 \in positions THEN Append(t, s[n + 1]) ELSE t
    <3>1. n + 1 \in 0 .. Len(s) /\ n + 1 # 0 /\ (n + 1) - 1 = n
      BY <1>1
    <3> QED BY <3>1, <1>2 DEF UpTo
  <2> HIDE DEF t
  <2>3. PickedSoFar(f, t, s, positions, n)
    BY <2>1 DEF t
  <2>4. Len(t) \in Nat
    BY <2>3, LenProperties DEF PickedSoFar
  <2>5. CASE n + 1 \notin positions
    <3>1. positions \cap 1 .. n + 1 = positions \cap 1 .. n
      BY <2>5
    <3>2. PickedSoFar(f, t, s, positions, n + 1)
      BY <2>3, <3>1 DEF PickedSoFar
    <3> QED BY <2>2, <2>5, <3>2
  <2>6. CASE n + 1 \in positions
    <3> DEFINE a == Append(t, s[n + 1])
               g == [i \in 1 .. Len(t) + 1 |-> IF i = Len(t) + 1 THEN n + 1 ELSE f[i]]
    <3>1. /\ a \in Seq(ToSet(s)) /\ Len(a) = Len(t) + 1 /\ a[Len(t) + 1] = s[n + 1]
          /\ \A i \in 1 .. Len(t) : a[i] = t[i]
      <4>1. s[n + 1] \in ToSet(s)
        BY <1>1
      <4> QED BY <4>1, <2>3, AppendProperties DEF PickedSoFar
    <3> HIDE DEF a
    <3>2. g[Len(t) + 1] = n + 1 /\ \A i \in 1 .. Len(t) : g[i] = f[i] /\ f[i] \in positions \cap 1 .. n
      BY <2>3, <2>4 DEF PickedSoFar
    <3>3. \A i \in 1 .. Len(t) + 1 : i \in 1 .. Len(t) \/ i = Len(t) + 1
      BY <2>4
    <3>4. g \in [1 .. Len(a) -> positions \cap 1 .. n + 1]
      <4>1. ASSUME NEW i \in 1 .. Len(t) + 1 PROVE g[i] \in positions \cap 1 .. n + 1
        <5>1. CASE i \in 1 .. Len(t)
          <6>1. g[i] \in positions \cap 1 .. n
            BY <3>2, <5>1
          <6> HIDE DEF g
          <6> QED BY <6>1
        <5>2. CASE i = Len(t) + 1
          BY <2>6, <3>2, <5>2
        <5> QED BY <3>3, <5>1, <5>2
      <4>2. g \in [1 .. Len(t) + 1 -> positions \cap 1 .. n + 1]
        BY <4>1
      <4> QED BY <3>1, <4>2
    <3> HIDE DEF g
    <3>5. ASSUME NEW i \in 1 .. Len(a), NEW j \in 1 .. Len(a), i < j PROVE g[i] < g[j]
      <4>1. i \in 1 .. Len(t)
        BY <3>1, <3>5, <2>4
      <4>2. CASE j \in 1 .. Len(t)
        BY <2>3, <3>2, <3>5, <4>1, <4>2 DEF PickedSoFar
      <4>3. CASE j = Len(t) + 1
        <5>1. f[i] \in 1 .. n /\ g[i] = f[i] /\ g[j] = n + 1
          BY <3>2, <4>1, <4>3
        <5> QED BY <5>1
      <4> QED BY <3>1, <3>3, <4>2, <4>3
    <3>6. \A i \in 1 .. Len(a) : a[i] = s[g[i]]
      BY <2>3, <3>1, <3>2, <3>3 DEF PickedSoFar
    <3>7. ASSUME NEW k \in positions \cap 1 .. n + 1 PROVE \E i \in 1 .. Len(a) : g[i] = k
      <4>1. CASE k = n + 1
        <5>1. Len(t) + 1 \in 1 .. Len(a)
          BY <2>4, <3>1
        <5> QED BY <3>2, <4>1, <5>1
      <4>2. CASE k \in 1 .. n
        <5>1. PICK i \in 1 .. Len(t) : f[i] = k
          BY <2>3, <4>2 DEF PickedSoFar
        <5>2. i \in 1 .. Len(a) /\ g[i] = k
          BY <2>4, <3>1, <3>2, <5>1
        <5> QED BY <5>2
      <4> QED BY <4>1, <4>2
    <3>8. PickedSoFar(g, a, s, positions, n + 1)
      BY <3>1, <3>4, <3>5, <3>6, <3>7 DEF PickedSoFar
    <3> QED BY <2>2, <2>6, <3>8 DEF a
  <2> QED BY <2>5, <2>6
<1> HIDE DEF G
<1>6. Len(s) \in G
  BY <1>1, <1>4, <1>5, SetInduction
<1> QED
  BY <1>1, <1>3, <1>6 DEF G

\* Seen as a set, it is what the positions hold.
LEMMA InPicked ==
    ASSUME NEW S, NEW s \in Seq(S), NEW positions
    PROVE  /\ Picked(s, positions) \in Seq(S)
           /\ ToSet(Picked(s, positions)) = {s[i] : i \in positions \cap 1 .. Len(s)}
<1> DEFINE t == Picked(s, positions)
           at == positions \cap 1 .. Len(s)
<1>1. PICK f : PickedSoFar(f, t, s, positions, Len(s))
  BY PickedInOrder
<1> HIDE DEF t
<1>2. t \in Seq(ToSet(s)) /\ t \in Seq(S)
  <2>1. ToSet(s) \subseteq S
    BY InSequence
  <2> QED BY <2>1, <1>1, SeqMonotonic DEF PickedSoFar
<1>3. ToSet(t) = {t[i] : i \in 1 .. Len(t)}
  BY <1>2, InSequence
<1>4. \A i \in 1 .. Len(t) : f[i] \in at /\ t[i] = s[f[i]]
  BY <1>1 DEF PickedSoFar
<1>5. \A k \in at : \E i \in 1 .. Len(t) : t[i] = s[k]
  BY <1>1 DEF PickedSoFar
<1>6. {t[i] : i \in 1 .. Len(t)} = {s[k] : k \in at}
  BY <1>4, <1>5
<1> QED BY <1>2, <1>3, <1>6 DEF t
=============================================================================

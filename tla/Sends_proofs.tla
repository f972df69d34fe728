---------------------------- MODULE Sends_proofs ----------------------------
(***************************************************************************)
(* Theorems about the sends of a user's messages, for any number of        *)
(* messages, stops and attempts, with their proofs.                        *)
(***************************************************************************)
EXTENDS Sends, Subsequences_proofs

-----------------------------------------------------------------------------
(* Parts of sequences.                                                     *)

\* r is what s has at the positions at, in their order.
Part(r, s, at) == \E f : PickedSoFar(f, r, s, at, Len(s))

LEMMA PickedIsPart ==
    ASSUME NEW S, NEW s \in Seq(S), NEW at
    PROVE  Part(Picked(s, at), s, at)
BY PickedInOrder DEF Part

LEMMA TailIsPart ==
    ASSUME NEW S, NEW s \in Seq(S), s # <<>>
    PROVE  Part(Tail(s), s, 2 .. Len(s))
<1> DEFINE f == [i \in 1 .. Len(s) - 1 |-> i + 1]
<1>1. /\ s \in Seq(ToSet(s)) /\ Tail(s) \in Seq(ToSet(s)) /\ Len(Tail(s)) = Len(s) - 1
      /\ Len(s) \in Nat /\ \A i \in 1 .. Len(Tail(s)) : Tail(s)[i] = s[i + 1]
  BY InSequence, HeadTailProperties, LenProperties
<1>2. \A k \in 2 .. Len(s) : k - 1 \in 1 .. Len(s) - 1 /\ f[k - 1] = k
  BY <1>1
<1>3. \A i \in 1 .. Len(s) - 1 : f[i] = i + 1 /\ f[i] \in 2 .. Len(s) /\ f[i] \in 1 .. Len(s)
  BY <1>1
<1>4. f \in [1 .. Len(Tail(s)) -> (2 .. Len(s)) \cap 1 .. Len(s)]
  BY <1>1, <1>3
<1> HIDE DEF f
<1>5. PickedSoFar(f, Tail(s), s, 2 .. Len(s), Len(s))
  BY <1>1, <1>2, <1>3, <1>4 DEF PickedSoFar
<1> QED BY <1>5 DEF Part

LEMMA RestIsPart ==
    ASSUME NEW S, NEW s \in Seq(S), NEW i \in 1 .. Len(s)
    PROVE  Part(RemoveAt(s, i), s, (1 .. Len(s)) \ {i})
<1> DEFINE f == [j \in 1 .. Len(s) - 1 |-> IF j < i THEN j ELSE j + 1]
           a == SubSeq(s, 1, i - 1)
           b == SubSeq(s, i + 1, Len(s))
           T == ToSet(s)
<1>1. s \in Seq(T) /\ Len(s) \in Nat /\ \A j \in 1 .. Len(s) : s[j] \in T
  BY InSequence, LenProperties
<1> HIDE DEF T
<1>2. /\ a \in Seq(T) /\ Len(a) = i - 1 /\ \A j \in 1 .. i - 1 : a[j] = s[j]
      /\ b \in Seq(T) /\ Len(b) = Len(s) - i /\ \A j \in 1 .. Len(s) - i : b[j] = s[i + j]
  <2>1. \A j \in 1 .. i - 1 : j \in 1 .. Len(s)
    BY <1>1
  <2>2. \A j \in i + 1 .. Len(s) : j \in 1 .. Len(s)
    BY <1>1
  <2>3. a \in Seq(T) /\ Len(a) = i - 1 /\ \A j \in 1 .. i - 1 : a[j] = s[j]
    BY <1>1, <2>1, SubSeqProperties
  <2>4. b \in Seq(T) /\ Len(b) = Len(s) - i /\ \A j \in 1 .. Len(s) - i : b[j] = s[i + j]
    BY <1>1, <2>2, SubSeqProperties
  <2> QED BY <2>3, <2>4
<1> HIDE DEF a, b
<1>3. /\ RemoveAt(s, i) = a \o b /\ a \o b \in Seq(T) /\ Len(a \o b) = Len(s) - 1
      /\ \A j \in 1 .. Len(s) - 1 : (a \o b)[j] = IF j < i THEN a[j] ELSE b[j - (i - 1)]
  <2>1. RemoveAt(s, i) = a \o b
    BY DEF RemoveAt, a, b
  <2>2. /\ a \o b \in Seq(T) /\ Len(a \o b) = Len(a) + Len(b)
        /\ \A j \in 1 .. Len(a) + Len(b) : (a \o b)[j] = IF j <= Len(a) THEN a[j] ELSE b[j - Len(a)]
    BY <1>2, ConcatProperties
  <2>3. Len(a) + Len(b) = Len(s) - 1 /\ \A j \in 1 .. Len(s) - 1 : j <= Len(a) <=> j < i
    BY <1>1, <1>2
  <2> QED BY <1>2, <2>1, <2>2, <2>3
<1>4. \A j \in 1 .. Len(s) - 1 : (a \o b)[j] = s[f[j]]
  <2>1. ASSUME NEW j \in 1 .. Len(s) - 1, j < i PROVE (a \o b)[j] = s[f[j]]
    BY <2>1, <1>1, <1>2, <1>3
  <2>2. ASSUME NEW j \in 1 .. Len(s) - 1, ~(j < i) PROVE (a \o b)[j] = s[f[j]]
    <3>1. j - (i - 1) \in 1 .. Len(s) - i /\ i + (j - (i - 1)) = j + 1 /\ f[j] = j + 1
      BY <2>2, <1>1
    <3> HIDE DEF f
    <3> QED BY <2>2, <3>1, <1>2, <1>3
  <2> QED BY <2>1, <2>2
<1>5. \A j \in 1 .. Len(s) - 1 : f[j] \in ((1 .. Len(s)) \ {i}) \cap 1 .. Len(s)
  BY <1>1
<1>6. \A j, k \in 1 .. Len(s) - 1 : j < k => f[j] < f[k]
  BY <1>1
<1>7. \A k \in (1 .. Len(s)) \ {i} : \E j \in 1 .. Len(s) - 1 : f[j] = k
  <2>1. ASSUME NEW k \in 1 .. Len(s), k < i PROVE k \in 1 .. Len(s) - 1 /\ f[k] = k
    BY <2>1, <1>1
  <2>2. ASSUME NEW k \in 1 .. Len(s), k > i PROVE k - 1 \in 1 .. Len(s) - 1 /\ f[k - 1] = k
    BY <2>2, <1>1
  <2> HIDE DEF f
  <2>3. \A k \in (1 .. Len(s)) \ {i} : k < i \/ k > i
    BY <1>1
  <2> QED BY <2>1, <2>2, <2>3
<1>8. f \in [1 .. Len(s) - 1 -> ((1 .. Len(s)) \ {i}) \cap 1 .. Len(s)]
  BY <1>5
<1> HIDE DEF f
<1>9. PickedSoFar(f, a \o b, s, (1 .. Len(s)) \ {i}, Len(s))
  BY <1>1, <1>3, <1>4, <1>6, <1>7, <1>8 DEF PickedSoFar, T
<1> QED BY <1>3, <1>9 DEF Part

LEMMA InPart ==
    ASSUME NEW S, NEW s \in Seq(S), NEW at, NEW r, Part(r, s, at)
    PROVE  /\ r \in Seq(S) /\ ToSet(r) \subseteq ToSet(s)
           /\ \A i \in 1 .. Len(s) : i \in at => s[i] \in ToSet(r)
           /\ \A i \in 1 .. Len(r) : \E j \in 1 .. Len(s) : j \in at /\ r[i] = s[j]
<1>1. PICK f : PickedSoFar(f, r, s, at, Len(s))
  BY DEF Part
<1>2. ToSet(s) \subseteq S /\ Len(s) \in Nat
  BY InSequence, LenProperties
<1>3. r \in Seq(ToSet(s)) /\ r \in Seq(S)
  BY <1>1, <1>2, SeqMonotonic DEF PickedSoFar
<1>4. ToSet(r) = {r[i] : i \in 1 .. Len(r)} /\ ToSet(r) \subseteq ToSet(s)
  BY <1>3, InSequence
<1>5. \A i \in 1 .. Len(r) : f[i] \in at /\ f[i] \in 1 .. Len(s) /\ r[i] = s[f[i]]
  BY <1>1 DEF PickedSoFar
<1>6. ASSUME NEW i \in 1 .. Len(s), i \in at PROVE s[i] \in ToSet(r)
  <2>1. PICK j \in 1 .. Len(r) : f[j] = i
    BY <1>1, <1>6 DEF PickedSoFar
  <2> QED BY <1>4, <1>5, <2>1
<1> QED BY <1>3, <1>4, <1>5, <1>6

LEMMA RangeIsToSet == ASSUME NEW s PROVE Range(s) = ToSet(s)
BY DEF Range, ToSet

-----------------------------------------------------------------------------
(* What is on its way to the client.                                       *)

Kinds == {"busy", "over", "idle"}
Frames == {Event(e) : e \in Kinds} \cup Replies
Sent(c) == c.msg # 0

Has(s, what) == \E f \in ToSet(s) : f.what = what
Answered(s, c) == \E f \in ToSet(s) : f.cmd = c

\* The events of one turn, in the order the daemon journals them.
Older == {<<"busy", "over">>, <<"busy", "idle">>, <<"over", "idle">>}
EventsInOrder(s) ==
    \A i, j \in 1 .. Len(s) : i < j /\ IsEvent(s[i]) /\ IsEvent(s[j]) => <<s[i].what, s[j].what>> \in Older

OneReply(s) ==
    \A i, j \in 1 .. Len(s) : IsReply(s[i]) /\ Sent(s[i].cmd) /\ s[j].cmd = s[i].cmd => i = j

\* The reply to c is on its way, and so is an event behind it, or one that a turn will bring.
Behind(s, running, c) ==
    \E i \in 1 .. Len(s) : s[i].cmd = c /\ (running \/ \E j \in i + 1 .. Len(s) : IsEvent(s[j]))

\* An event and a reply are told apart by what they say.
LEMMA FrameKinds ==
    ASSUME NEW f \in Frames
    PROVE  /\ IsEvent(f) => f.what \in Kinds
           /\ IsReply(f) => f \in Replies /\ f.what \in {"ok", "conflict", "retryable"} /\ f.cmd \in Commands
           /\ f.what \in Kinds <=> IsEvent(f)
           /\ f \in Replies <=> IsReply(f)
           /\ IsReply(f) <=> ~IsEvent(f)
<1>1. ASSUME f \in Replies
      PROVE  IsReply(f) /\ ~IsEvent(f) /\ f.what \in {"ok", "conflict", "retryable"} /\ f.cmd \in Commands
  <2>1. f.what \in {"ok", "conflict", "retryable"} /\ f.cmd \in Commands
    BY <1>1 DEF Replies
  <2>2. \A c \in Commands : c.try >= 1
    BY BoundsAssumption DEF Commands, Attempts
  <2>3. Nothing.try = 0
    BY DEF Nothing
  <2>4. f.cmd # Nothing
    BY <2>1, <2>2, <2>3
  <2> QED BY <2>1, <2>4 DEF IsReply, IsEvent
<1>2. ASSUME NEW e \in Kinds, f = Event(e)
      PROVE  IsEvent(f) /\ ~IsReply(f) /\ f.what \in Kinds
  BY <1>2 DEF Event, IsEvent, IsReply
<1>3. {"ok", "conflict", "retryable"} \cap Kinds = {}
  BY DEF Kinds
<1> QED BY <1>1, <1>2, <1>3 DEF Frames

LEMMA EventIsFrame ==
    ASSUME NEW e \in Kinds
    PROVE  Event(e) \in Frames /\ IsEvent(Event(e)) /\ Event(e).what = e
BY DEF Frames, Event, IsEvent

\* A reply joins what is on its way.
LEMMA ReplyAppended ==
    ASSUME NEW s \in Seq(Frames), NEW f \in Replies
    PROVE  LET t == Append(s, f) IN
           /\ t \in Seq(Frames) /\ ToSet(t) = ToSet(s) \cup {f}
           /\ \A w \in Kinds : Has(t, w) = Has(s, w)
           /\ EventsInOrder(s) => EventsInOrder(t)
           /\ OneReply(s) /\ ~Answered(s, f.cmd) => OneReply(t)
           /\ \A running \in BOOLEAN : \A c : Behind(s, running, c) => Behind(t, running, c)
           /\ \A c : Answered(t, c) => Behind(t, TRUE, c)
<1> DEFINE t == Append(s, f)
<1>1. f \in Frames /\ IsReply(f) /\ ~IsEvent(f) /\ f.what \notin Kinds
  BY FrameKinds DEF Frames
<1>2. /\ t \in Seq(Frames) /\ Len(t) = Len(s) + 1 /\ t[Len(s) + 1] = f
      /\ \A i \in 1 .. Len(s) : t[i] = s[i]
      /\ Len(s) \in Nat
  BY <1>1, AppendProperties, LenProperties
<1>3. ToSet(t) = ToSet(s) \cup {f} /\ ToSet(s) = {s[i] : i \in 1 .. Len(s)} /\ ToSet(t) = {t[i] : i \in 1 .. Len(t)}
  BY <1>1, <1>2, InAppend, InSequence
<1> HIDE DEF t
<1>4. \A w \in Kinds : Has(t, w) = Has(s, w)
  BY <1>1, <1>3 DEF Has
<1>5. \A i \in 1 .. Len(t) : i \in 1 .. Len(s) \/ i = Len(s) + 1
  BY <1>2
<1>6. EventsInOrder(s) => EventsInOrder(t)
  BY <1>1, <1>2, <1>5 DEF EventsInOrder
<1>7. ASSUME OneReply(s), ~Answered(s, f.cmd) PROVE OneReply(t)
  <2>1. \A i \in 1 .. Len(s) : t[i].cmd # f.cmd
    BY <1>2, <1>3, <1>7 DEF Answered
  <2> QED BY <1>2, <1>5, <1>7, <2>1 DEF OneReply
<1>8. ASSUME NEW running \in BOOLEAN, NEW c, Behind(s, running, c) PROVE Behind(t, running, c)
  <2>1. PICK i \in 1 .. Len(s) : s[i].cmd = c /\ (running \/ \E j \in i + 1 .. Len(s) : IsEvent(s[j]))
    BY <1>8 DEF Behind
  <2>2. i \in 1 .. Len(t) /\ t[i].cmd = c
    BY <1>2, <2>1
  <2>3. ASSUME NEW j \in i + 1 .. Len(s), IsEvent(s[j]) PROVE j \in i + 1 .. Len(t) /\ IsEvent(t[j])
    BY <1>2, <2>3
  <2> QED BY <2>1, <2>2, <2>3 DEF Behind
<1>9. \A c : Answered(t, c) => Behind(t, TRUE, c)
  BY <1>3 DEF Answered, Behind
<1> QED BY <1>2, <1>3, <1>4, <1>6, <1>7, <1>8, <1>9 DEF t

\* An event joins what is on its way.
LEMMA EventAppended ==
    ASSUME NEW s \in Seq(Frames), NEW e \in Kinds
    PROVE  LET t == Append(s, Event(e)) IN
           /\ t \in Seq(Frames) /\ ToSet(t) = ToSet(s) \cup {Event(e)}
           /\ \A w \in Kinds : Has(t, w) <=> Has(s, w) \/ w = e
           /\ EventsInOrder(s) /\ (\A w \in Kinds : Has(s, w) => <<w, e>> \in Older) => EventsInOrder(t)
           /\ OneReply(s) => OneReply(t)
           /\ \A running, then \in BOOLEAN : \A c \in Commands : Behind(s, running, c) => Behind(t, then, c)
<1> DEFINE f == Event(e) t == Append(s, f)
<1>1. f \in Frames /\ IsEvent(f) /\ f.what = e /\ ~IsReply(f) /\ f.cmd = Nothing
  BY EventIsFrame, FrameKinds DEF IsEvent
<1> HIDE DEF f
<1>2. /\ t \in Seq(Frames) /\ Len(t) = Len(s) + 1 /\ t[Len(s) + 1] = f
      /\ \A i \in 1 .. Len(s) : t[i] = s[i]
      /\ Len(s) \in Nat
  BY <1>1, AppendProperties, LenProperties
<1>3. ToSet(t) = ToSet(s) \cup {f} /\ ToSet(s) = {s[i] : i \in 1 .. Len(s)} /\ ToSet(s) \subseteq Frames
  BY <1>1, <1>2, InAppend, InSequence
<1> HIDE DEF t
<1>4. \A w \in Kinds : Has(t, w) <=> Has(s, w) \/ w = e
  BY <1>1, <1>3 DEF Has
<1>5. \A i \in 1 .. Len(t) : i \in 1 .. Len(s) \/ i = Len(s) + 1
  BY <1>2
<1>6. ASSUME EventsInOrder(s), \A w \in Kinds : Has(s, w) => <<w, e>> \in Older PROVE EventsInOrder(t)
  <2>1. \A i \in 1 .. Len(s) : IsEvent(s[i]) => <<s[i].what, e>> \in Older
    BY <1>3, <1>6, FrameKinds DEF Has
  <2> QED BY <1>1, <1>2, <1>5, <1>6, <2>1 DEF EventsInOrder
<1>7. ASSUME OneReply(s) PROVE OneReply(t)
  BY <1>1, <1>2, <1>5, <1>7 DEF OneReply, IsReply
<1>8. ASSUME NEW running \in BOOLEAN, NEW then \in BOOLEAN, NEW c \in Commands, Behind(s, running, c)
      PROVE  Behind(t, then, c)
  <2>1. PICK i \in 1 .. Len(s) : s[i].cmd = c
    BY <1>8 DEF Behind
  <2>2. i \in 1 .. Len(t) /\ t[i].cmd = c /\ Len(s) + 1 \in i + 1 .. Len(t) /\ IsEvent(t[Len(s) + 1])
    BY <1>1, <1>2, <2>1
  <2> QED BY <2>2 DEF Behind
<1> QED BY <1>2, <1>3, <1>4, <1>6, <1>7, <1>8 DEF t, f

\* The client takes an event from the head.
LEMMA EventTaken ==
    ASSUME NEW s \in Seq(Frames), s # <<>>, IsEvent(Head(s)), EventsInOrder(s)
    PROVE  LET t == Tail(s) IN
           /\ t \in Seq(Frames) /\ ToSet(t) \subseteq ToSet(s)
           /\ \A f \in ToSet(s) : IsReply(f) => f \in ToSet(t)
           /\ \A w \in Kinds : Has(t, w) <=> Has(s, w) /\ w # Head(s).what
           /\ \A w \in Kinds : Has(s, w) => w = Head(s).what \/ <<Head(s).what, w>> \in Older
           /\ EventsInOrder(t)
           /\ OneReply(s) => OneReply(t)
           /\ \A running \in BOOLEAN : \A c \in Commands : Behind(s, running, c) => Behind(t, running, c)
<1> DEFINE t == Tail(s) e == Head(s)
<1>1. /\ t \in Seq(Frames) /\ Len(t) = Len(s) - 1 /\ e = s[1]
      /\ \A i \in 1 .. Len(t) : t[i] = s[i + 1]
      /\ Len(s) \in Nat /\ 1 \in 1 .. Len(s)
  BY HeadTailProperties, LenProperties, EmptySeq
<1>2. ToSet(s) = {e} \cup ToSet(t) /\ e \in Frames /\ IsEvent(e)
  BY InHeadTail
<1>3. /\ ToSet(t) = {t[i] : i \in 1 .. Len(t)} /\ ToSet(s) = {s[i] : i \in 1 .. Len(s)} /\ ToSet(s) \subseteq Frames
  BY <1>1, InSequence
<1> HIDE DEF t, e
<1>4. \A i \in 1 .. Len(t) : i + 1 \in 1 .. Len(s) /\ i + 1 > 1 /\ t[i] = s[i + 1]
  BY <1>1
<1>5. \A i \in 1 .. Len(t) : IsEvent(t[i]) => <<e.what, t[i].what>> \in Older
  <2>1. EventsInOrder(s)
    OBVIOUS
  <2> QED BY <1>1, <1>2, <1>4, <2>1 DEF EventsInOrder
<1>6. e.what \in Kinds
  BY <1>2, FrameKinds
<1>7. ASSUME NEW w \in Kinds, Has(t, w) PROVE w # e.what /\ <<e.what, w>> \in Older
  <2>1. PICK i \in 1 .. Len(t) : t[i].what = w
    BY <1>3, <1>7 DEF Has
  <2>2. IsEvent(t[i])
    BY <1>1, <2>1, FrameKinds
  <2>3. \A v : <<v, v>> \notin Older
    BY DEF Older
  <2> QED BY <1>5, <2>1, <2>2, <2>3
<1>8. /\ \A w \in Kinds : Has(t, w) <=> Has(s, w) /\ w # e.what
      /\ \A w \in Kinds : Has(s, w) => w = e.what \/ <<e.what, w>> \in Older
  BY <1>2, <1>7 DEF Has
<1>9. EventsInOrder(t)
  <2>1. EventsInOrder(s)
    OBVIOUS
  <2>2. ASSUME NEW i \in 1 .. Len(t), NEW j \in 1 .. Len(t), i < j, IsEvent(t[i]), IsEvent(t[j])
        PROVE  <<t[i].what, t[j].what>> \in Older
    <3>1. i + 1 \in 1 .. Len(s) /\ j + 1 \in 1 .. Len(s) /\ i + 1 < j + 1
      BY <1>1, <2>2
    <3> QED BY <1>4, <2>1, <2>2, <3>1 DEF EventsInOrder
  <2> QED BY <2>2 DEF EventsInOrder
<1>10. ASSUME OneReply(s) PROVE OneReply(t)
  <2>1. ASSUME NEW i \in 1 .. Len(t), NEW j \in 1 .. Len(t), IsReply(t[i]), Sent(t[i].cmd), t[j].cmd = t[i].cmd
        PROVE  i = j
    <3>1. i + 1 \in 1 .. Len(s) /\ j + 1 \in 1 .. Len(s) /\ t[i] = s[i + 1] /\ t[j] = s[j + 1]
      BY <1>4
    <3>2. i + 1 = j + 1
      BY <1>10, <2>1, <3>1 DEF OneReply
    <3> QED BY <1>1, <3>2
  <2> QED BY <2>1 DEF OneReply
<1>11. ASSUME NEW running \in BOOLEAN, NEW c \in Commands, Behind(s, running, c) PROVE Behind(t, running, c)
  <2>1. PICK i \in 1 .. Len(s) : s[i].cmd = c /\ (running \/ \E j \in i + 1 .. Len(s) : IsEvent(s[j]))
    BY <1>11 DEF Behind
  <2>2. c # Nothing
    <3>1. \A d \in Commands : d.try >= 1
      BY BoundsAssumption DEF Commands, Attempts
    <3> QED BY <3>1 DEF Nothing
  <2>3. i # 1
    BY <1>1, <1>2, <2>1, <2>2 DEF IsEvent
  <2>4. i - 1 \in 1 .. Len(t) /\ t[i - 1] = s[i]
    BY <1>1, <2>3
  <2>5. ASSUME NEW j \in i + 1 .. Len(s), IsEvent(s[j])
        PROVE  j - 1 \in (i - 1) + 1 .. Len(t) /\ IsEvent(t[j - 1])
    <3>1. j - 1 \in 1 .. Len(t) /\ (j - 1) + 1 = j /\ j - 1 \in (i - 1) + 1 .. Len(t)
      BY <1>1
    <3> QED BY <1>1, <2>5, <3>1
  <2> QED BY <2>1, <2>4, <2>5 DEF Behind
<1>12. \A f \in ToSet(s) : IsReply(f) => f \in ToSet(t)
  BY <1>2 DEF IsEvent, IsReply
<1> QED BY <1>1, <1>2, <1>8, <1>9, <1>10, <1>11, <1>12 DEF t, e

\* A reply is taken, or all of them are lost: the events stay, in order.
LEMMA RepliesGo ==
    ASSUME NEW s \in Seq(Frames), NEW at, NEW r, Part(r, s, at),
           \A i \in 1 .. Len(s) : IsEvent(s[i]) => i \in at
    PROVE  /\ r \in Seq(Frames) /\ ToSet(r) \subseteq ToSet(s)
           /\ \A w \in Kinds : Has(r, w) = Has(s, w)
           /\ EventsInOrder(s) => EventsInOrder(r)
           /\ OneReply(s) => OneReply(r)
           /\ \A running \in BOOLEAN : \A c :
                Behind(s, running, c) /\ (\A i \in 1 .. Len(s) : s[i].cmd = c => i \in at) => Behind(r, running, c)
<1>1. PICK f : PickedSoFar(f, r, s, at, Len(s))
  BY DEF Part
<1>2. /\ r \in Seq(Frames) /\ ToSet(r) \subseteq ToSet(s) /\ \A i \in 1 .. Len(s) : i \in at => s[i] \in ToSet(r)
      /\ ToSet(s) = {s[i] : i \in 1 .. Len(s)} /\ ToSet(s) \subseteq Frames
  BY InPart, InSequence
<1>3. /\ \A i \in 1 .. Len(r) : f[i] \in 1 .. Len(s) /\ r[i] = s[f[i]]
      /\ \A i, j \in 1 .. Len(r) : i < j => f[i] < f[j]
      /\ \A k \in 1 .. Len(s) : k \in at => \E i \in 1 .. Len(r) : f[i] = k
      /\ Len(s) \in Nat /\ Len(r) \in Nat
  BY <1>1, <1>2, LenProperties DEF PickedSoFar
<1>4. ASSUME NEW w \in Kinds PROVE Has(r, w) = Has(s, w)
  <2>1. ASSUME Has(s, w) PROVE Has(r, w)
    <3>1. PICK i \in 1 .. Len(s) : s[i].what = w
      BY <1>2, <2>1 DEF Has
    <3>2. IsEvent(s[i])
      BY <1>2, <3>1, FrameKinds
    <3> QED BY <1>2, <3>1, <3>2 DEF Has
  <2> QED BY <1>2, <2>1 DEF Has
<1>5. ASSUME EventsInOrder(s) PROVE EventsInOrder(r)
  <2>1. ASSUME NEW i \in 1 .. Len(r), NEW j \in 1 .. Len(r), i < j, IsEvent(r[i]), IsEvent(r[j])
        PROVE  <<r[i].what, r[j].what>> \in Older
    <3>1. f[i] \in 1 .. Len(s) /\ f[j] \in 1 .. Len(s) /\ f[i] < f[j] /\ r[i] = s[f[i]] /\ r[j] = s[f[j]]
      BY <1>3, <2>1
    <3> QED BY <1>5, <2>1, <3>1 DEF EventsInOrder
  <2> QED BY <2>1 DEF EventsInOrder
<1>6. ASSUME OneReply(s) PROVE OneReply(r)
  <2>1. ASSUME NEW i \in 1 .. Len(r), NEW j \in 1 .. Len(r), IsReply(r[i]), Sent(r[i].cmd), r[j].cmd = r[i].cmd
        PROVE  i = j
    <3>1. f[i] = f[j]
      <4>1. f[i] \in 1 .. Len(s) /\ f[j] \in 1 .. Len(s) /\ r[i] = s[f[i]] /\ r[j] = s[f[j]]
        BY <1>3
      <4> QED BY <1>6, <2>1, <4>1 DEF OneReply
    <3>2. i < j \/ j < i \/ i = j
      BY <1>3
    <3>3. ~(f[i] < f[j]) /\ ~(f[j] < f[i])
      BY <1>3, <3>1
    <3> QED BY <1>3, <3>2, <3>3
  <2> QED BY <2>1 DEF OneReply
<1>7. ASSUME NEW running \in BOOLEAN, NEW c, Behind(s, running, c),
             \A i \in 1 .. Len(s) : s[i].cmd = c => i \in at
      PROVE  Behind(r, running, c)
  <2>1. PICK i \in 1 .. Len(s) : s[i].cmd = c /\ (running \/ \E j \in i + 1 .. Len(s) : IsEvent(s[j]))
    BY <1>7 DEF Behind
  <2>2. PICK k \in 1 .. Len(r) : f[k] = i
    BY <1>3, <1>7, <2>1
  <2>3. r[k].cmd = c
    BY <1>3, <2>1, <2>2
  <2>4. CASE running
    BY <2>3, <2>4 DEF Behind
  <2>5. CASE \E j \in i + 1 .. Len(s) : IsEvent(s[j])
    <3>1. PICK j \in i + 1 .. Len(s) : IsEvent(s[j])
      BY <2>5
    <3>2. j \in 1 .. Len(s) /\ i < j
      BY <1>3
    <3>3. PICK l \in 1 .. Len(r) : f[l] = j
      BY <1>3, <3>1, <3>2
    <3>4. ~(l < k) /\ l # k
      BY <1>3, <2>2, <3>2, <3>3
    <3>5. l \in k + 1 .. Len(r) /\ IsEvent(r[l])
      BY <1>3, <3>1, <3>3, <3>4
    <3> QED BY <2>3, <3>5 DEF Behind
  <2> QED BY <2>1, <2>4, <2>5
<1> QED BY <1>2, <1>4, <1>5, <1>6, <1>7

-----------------------------------------------------------------------------
(* The order of messages.                                                  *)

Increasing(s) == \A i, j \in 1 .. Len(s) : i < j => s[i] < s[j]
InTurn(s) == \A i, j \in 1 .. Len(s) : i < j /\ Sent(s[i]) /\ Sent(s[j]) => s[i].msg < s[j].msg

LEMMA IncreasingKept ==
    ASSUME NEW s \in Seq(Messages), Increasing(s)
    PROVE  /\ \A m \in Messages : (\A k \in ToSet(s) : k < m) => Increasing(Append(s, m))
           /\ s # <<>> => Increasing(Tail(s)) /\ \A k \in ToSet(Tail(s)) : Head(s) < k
<1>1. Len(s) \in Nat /\ ToSet(s) = {s[i] : i \in 1 .. Len(s)}
  BY LenProperties, InSequence
<1>2. ASSUME NEW m \in Messages, \A k \in ToSet(s) : k < m PROVE Increasing(Append(s, m))
  <2> DEFINE t == Append(s, m)
  <2>1. /\ Len(t) = Len(s) + 1 /\ t[Len(s) + 1] = m
        /\ \A i \in 1 .. Len(s) : t[i] = s[i]
    BY AppendProperties
  <2> HIDE DEF t
  <2>2. \A i \in 1 .. Len(t) : i \in 1 .. Len(s) \/ i = Len(s) + 1
    BY <1>1, <2>1
  <2>3. Increasing(t)
    BY <1>1, <1>2, <2>1, <2>2 DEF Increasing
  <2> QED BY <2>3 DEF t
<1>3. ASSUME s # <<>> PROVE Increasing(Tail(s)) /\ \A k \in ToSet(Tail(s)) : Head(s) < k
  <2> DEFINE t == Tail(s)
  <2>1. /\ t \in Seq(Messages) /\ Len(t) = Len(s) - 1 /\ Head(s) = s[1]
        /\ \A i \in 1 .. Len(t) : t[i] = s[i + 1] /\ i + 1 \in 1 .. Len(s)
        /\ 1 \in 1 .. Len(s)
    BY <1>1, <1>3, HeadTailProperties, EmptySeq
  <2>2. ToSet(t) = {t[i] : i \in 1 .. Len(t)}
    BY <2>1, InSequence
  <2> HIDE DEF t
  <2>3. Increasing(t)
    <3>1. ASSUME NEW i \in 1 .. Len(t), NEW j \in 1 .. Len(t), i < j PROVE t[i] < t[j]
      <4>1. i + 1 < j + 1
        BY <1>1, <2>1, <3>1
      <4> QED BY <2>1, <4>1 DEF Increasing
    <3> QED BY <3>1 DEF Increasing
  <2>4. \A k \in ToSet(t) : Head(s) < k
    BY <1>1, <2>1, <2>2 DEF Increasing
  <2> QED BY <2>3, <2>4 DEF t
<1> QED BY <1>2, <1>3

LEMMA InTurnAppend ==
    ASSUME NEW s \in Seq(Commands), InTurn(s), NEW c \in Commands,
           Sent(c) => \A d \in ToSet(s) : Sent(d) => d.msg < c.msg
    PROVE  InTurn(Append(s, c))
<1> DEFINE t == Append(s, c)
<1>1. Len(s) \in Nat /\ ToSet(s) = {s[i] : i \in 1 .. Len(s)}
  BY LenProperties, InSequence
<1>2. /\ Len(t) = Len(s) + 1 /\ t[Len(s) + 1] = c
      /\ \A i \in 1 .. Len(s) : t[i] = s[i]
  BY AppendProperties
<1> HIDE DEF t
<1>3. \A i \in 1 .. Len(t) : i \in 1 .. Len(s) \/ i = Len(s) + 1
  BY <1>1, <1>2
<1>4. InTurn(t)
  BY <1>1, <1>2, <1>3 DEF InTurn
<1> QED BY <1>4 DEF t

\* The command at the head is not behind it as well, and what is behind it was sent later.
LEMMA InTurnTail ==
    ASSUME NEW s \in Seq(Commands), s # <<>>, InTurn(s)
    PROVE  /\ InTurn(Tail(s))
           /\ \A d \in ToSet(Tail(s)) : Sent(Head(s)) /\ Sent(d) => Head(s).msg < d.msg
<1> DEFINE t == Tail(s)
<1>1. Len(s) \in Nat /\ ToSet(s) = {s[i] : i \in 1 .. Len(s)}
  BY LenProperties, InSequence
<1>2. /\ t \in Seq(Commands) /\ Len(t) = Len(s) - 1 /\ Head(s) = s[1]
      /\ \A i \in 1 .. Len(t) : t[i] = s[i + 1] /\ i + 1 \in 1 .. Len(s)
      /\ 1 \in 1 .. Len(s)
  BY <1>1, HeadTailProperties, EmptySeq
<1>3. ToSet(t) = {t[i] : i \in 1 .. Len(t)}
  BY <1>2, InSequence
<1> HIDE DEF t
<1>4. InTurn(t)
  <2>1. ASSUME NEW i \in 1 .. Len(t), NEW j \in 1 .. Len(t), i < j, Sent(t[i]), Sent(t[j])
        PROVE  t[i].msg < t[j].msg
    <3>1. i + 1 < j + 1
      BY <1>1, <1>2, <2>1
    <3> QED BY <1>2, <2>1, <3>1 DEF InTurn
  <2> QED BY <2>1 DEF InTurn
<1>5. \A d \in ToSet(t) : Sent(Head(s)) /\ Sent(d) => Head(s).msg < d.msg
  BY <1>1, <1>2, <1>3 DEF InTurn
<1> QED BY <1>4, <1>5 DEF t

LEMMA InTurnPart ==
    ASSUME NEW s \in Seq(Commands), InTurn(s), NEW at, NEW r, Part(r, s, at)
    PROVE  InTurn(r)
<1>1. PICK f : PickedSoFar(f, r, s, at, Len(s))
  BY DEF Part
<1>2. /\ \A i \in 1 .. Len(r) : f[i] \in 1 .. Len(s) /\ r[i] = s[f[i]]
      /\ \A i, j \in 1 .. Len(r) : i < j => f[i] < f[j]
  BY <1>1 DEF PickedSoFar
<1> QED BY <1>2 DEF InTurn

-----------------------------------------------------------------------------
(* What the daemon remembers of the messages it accepted.                  *)

\* s is the end of r: all of it, or its last SeenKept elements.
Latest(s, r) ==
    /\ Len(s) <= Len(r) /\ Len(s) <= SeenKept
    /\ Len(s) = SeenKept \/ Len(s) = Len(r)
    /\ \A k \in 1 .. Len(s) : s[k] = r[Len(r) - Len(s) + k]

LEMMA LatestAppended ==
    ASSUME NEW r \in Seq(Messages), NEW s \in Seq(Messages), NEW m \in Messages, Latest(s, r)
    PROVE  Latest(IF Len(s) = SeenKept THEN Append(Tail(s), m) ELSE Append(s, m), Append(r, m))
<1> DEFINE w == Append(r, m)
<1>1. /\ Len(s) \in Nat /\ Len(r) \in Nat /\ SeenKept \in Nat \ {0}
  BY LenProperties, BoundsAssumption
<1>2. /\ w \in Seq(Messages) /\ Len(w) = Len(r) + 1 /\ w[Len(r) + 1] = m
      /\ \A i \in 1 .. Len(r) : w[i] = r[i]
  BY AppendProperties
<1> HIDE DEF w
<1>3. CASE Len(s) = SeenKept
  <2>1. s # <<>>
    BY <1>1, <1>3, EmptySeq
  <2> DEFINE t == Tail(s) u == Append(t, m)
  <2>2. t \in Seq(Messages) /\ Len(t) = Len(s) - 1 /\ \A i \in 1 .. Len(t) : t[i] = s[i + 1] /\ i + 1 \in 1 .. Len(s)
    BY <1>1, <2>1, HeadTailProperties
  <2> HIDE DEF t
  <2>3. Len(u) = Len(s) /\ u[Len(s)] = m /\ \A i \in 1 .. Len(s) - 1 : u[i] = t[i]
    <3>1. Len(u) = Len(t) + 1 /\ u[Len(t) + 1] = m /\ \A i \in 1 .. Len(t) : u[i] = t[i]
      BY <2>2, AppendProperties
    <3> HIDE DEF u
    <3> QED BY <1>1, <2>2, <3>1
  <2> HIDE DEF u
  <2>4. ASSUME NEW k \in 1 .. Len(u) PROVE u[k] = w[Len(r) + 1 - Len(u) + k]
    <3>1. CASE k = Len(u)
      BY <1>1, <1>2, <2>3, <3>1
    <3>2. CASE k # Len(u)
      <4>1. k \in 1 .. Len(t) /\ k + 1 \in 1 .. Len(s) /\ u[k] = s[k + 1]
        BY <1>1, <2>2, <2>3, <3>2
      <4>2. s[k + 1] = r[Len(r) - Len(s) + (k + 1)]
        BY <4>1 DEF Latest
      <4>3. Len(r) - Len(s) + (k + 1) \in 1 .. Len(r) /\ Len(r) - Len(s) + (k + 1) = Len(r) + 1 - Len(u) + k
        BY <1>1, <2>2, <2>3, <4>1 DEF Latest
      <4> QED BY <1>2, <4>1, <4>2, <4>3
    <3> QED BY <3>1, <3>2
  <2>5. Latest(u, w)
    <3>1. Len(s) <= Len(r)
      BY DEF Latest
    <3>2. Len(u) <= Len(w) /\ Len(u) = SeenKept
      BY <1>1, <1>2, <1>3, <2>3, <3>1
    <3>3. \A k \in 1 .. Len(u) : u[k] = w[Len(w) - Len(u) + k]
      <4>1. Len(w) = Len(r) + 1
        BY <1>2
      <4> QED BY ONLY <2>4, <4>1
    <3> QED BY ONLY <3>2, <3>3, Len(u) = SeenKept, SeenKept \in Nat DEF Latest
  <2> QED BY <1>3, <2>5 DEF u, t, w
<1>4. CASE Len(s) # SeenKept
  <2> DEFINE u == Append(s, m)
  <2>1. Len(u) = Len(s) + 1 /\ u[Len(s) + 1] = m /\ \A i \in 1 .. Len(s) : u[i] = s[i]
    BY AppendProperties
  <2> HIDE DEF u
  <2>2. Len(s) = Len(r) /\ Len(s) < SeenKept
    BY <1>1, <1>4 DEF Latest
  <2>3. ASSUME NEW k \in 1 .. Len(u) PROVE u[k] = w[Len(r) + 1 - Len(u) + k]
    <3>1. Len(r) + 1 - Len(u) + k = k
      BY <1>1, <2>1, <2>2
    <3>2. k \in 1 .. Len(s) \/ k = Len(s) + 1
      BY <1>1, <2>1
    <3>3. \A i \in 1 .. Len(s) : s[i] = r[i]
      <4>1. ASSUME NEW i \in 1 .. Len(s) PROVE s[i] = r[i]
        <5>1. s[i] = r[Len(r) - Len(s) + i] /\ Len(r) - Len(s) + i = i
          BY <1>1, <2>2 DEF Latest
        <5> QED BY <5>1
      <4> QED BY <4>1
    <3> QED BY <1>2, <2>1, <2>2, <3>1, <3>2, <3>3
  <2>4. Latest(u, w)
    BY <1>1, <1>2, <2>1, <2>2, <2>3 DEF Latest
  <2> QED BY <1>4, <2>4 DEF u, w
<1> QED BY <1>3, <1>4

\* A message is remembered until SeenKept later ones have been accepted.
LEMMA Recent ==
    ASSUME NEW r \in Seq(Messages), NEW s \in Seq(Messages), Latest(s, r)
    PROVE  /\ ToSet(s) \subseteq ToSet(r)
           /\ \A i \in 1 .. Len(r) : Len(r) - i < SeenKept => r[i] \in ToSet(s)
<1>1. /\ Len(s) \in Nat /\ Len(r) \in Nat /\ SeenKept \in Nat \ {0}
      /\ ToSet(s) = {s[i] : i \in 1 .. Len(s)} /\ ToSet(r) = {r[i] : i \in 1 .. Len(r)}
  BY LenProperties, BoundsAssumption, InSequence
<1>2. ASSUME NEW k \in 1 .. Len(s) PROVE s[k] \in ToSet(r)
  <2>1. Len(r) - Len(s) + k \in 1 .. Len(r) /\ s[k] = r[Len(r) - Len(s) + k]
    BY <1>1 DEF Latest
  <2> QED BY <1>1, <2>1
<1>3. ASSUME NEW i \in 1 .. Len(r), Len(r) - i < SeenKept PROVE r[i] \in ToSet(s)
  <2> DEFINE k == i - (Len(r) - Len(s))
  <2>1. k \in 1 .. Len(s) /\ Len(r) - Len(s) + k = i
    BY <1>1, <1>3 DEF Latest
  <2> HIDE DEF k
  <2>2. s[k] = r[i]
    BY <2>1 DEF Latest
  <2> QED BY <1>1, <2>1, <2>2
<1> QED BY <1>1, <1>2, <1>3

-----------------------------------------------------------------------------
(* Types.                                                                  *)

\* A refused attempt that is not the last waits for its timer; a stop always succeeds.
Typed ==
    /\ sent \in 0..MaxSends /\ stops \in 0..MaxStops
    /\ queued \in Seq(Messages) /\ awaiting \in BOOLEAN /\ known \in BOOLEAN
    /\ opening \in Seq(Attempts)
    /\ retries \subseteq Attempts /\ \A a \in retries : a.try < MaxTries
    /\ commands \in Seq(Commands) /\ up \in BOOLEAN /\ toDaemon \in Seq(Commands)
    /\ toClient \in Seq(Frames)
    /\ turn \in Messages \cup {0} /\ said \in BOOLEAN
    /\ seen \in Seq(Messages) /\ cache \subseteq Replies
    /\ faults \in 0..MaxFaults
    /\ ran \in Seq(Messages) /\ told \subseteq Messages /\ odd \subseteq Oddities
    /\ \A f \in cache \cup ToSet(toClient) : IsReply(f) /\ ~Sent(f.cmd) => f.what = "ok"

LEMMA Bounds ==
    /\ MaxSends \in Nat /\ MaxStops \in Nat /\ MaxTries \in Nat /\ MaxTries > 0 /\ SeenKept \in Nat /\ SeenKept > 0
    /\ MaxFaults \in Nat
BY BoundsAssumption

\* An attempt is a command for a message; the others stop the turn.
LEMMA CommandKinds ==
    ASSUME NEW c \in Commands
    PROVE  /\ Sent(c) => c \in Attempts /\ c.msg \in Messages
           /\ ~Sent(c) => c.msg = 0
           /\ c.msg \in Nat
           /\ c # Nothing
<1>1. \A a \in Attempts : a.msg \in Messages /\ a.try >= 1
  BY Bounds DEF Attempts
<1>2. \A m \in Messages : m \in Nat /\ m # 0
  BY Bounds DEF Messages
<1>3. c \in Attempts \/ (c.msg = 0 /\ c.try >= 1)
  BY Bounds DEF Commands
<1>4. c.try >= 1
  BY <1>1, <1>3
<1>5. Nothing.try = 0
  BY DEF Nothing
<1> QED BY <1>1, <1>2, <1>3, <1>4, <1>5 DEF Sent

LEMMA AttemptFields ==
    ASSUME NEW a \in Attempts
    PROVE  /\ a \in Commands /\ Sent(a) /\ a.msg \in Messages /\ a.msg \in Nat /\ a.msg # 0 /\ a.try \in Nat
           /\ a.try < MaxTries => LET b == [a EXCEPT !.try = @ + 1] IN
                b \in Attempts /\ b.msg = a.msg /\ b.try = a.try + 1
BY Bounds DEF Attempts, Commands, Messages, Sent

LEMMA ReplyFields ==
    /\ \A c \in Commands, r \in {"ok", "conflict", "retryable"} :
          LET f == [what |-> r, cmd |-> c] IN f \in Replies /\ f.what = r /\ f.cmd = c
    /\ \A f \in Replies : f.cmd \in Commands /\ f.what \in {"ok", "conflict", "retryable"}
    /\ \A f \in Replies : IsReply(f) /\ f \in Frames
<1>1. \A f \in Replies : IsReply(f) /\ f \in Frames
  BY FrameKinds DEF Frames
<1> QED BY <1>1 DEF Replies

\* What a command does, case by case.
Hit(c) ==
    /\ \E h \in cache : h.cmd = c /\ toClient' = Append(toClient, h)
    /\ UNCHANGED <<cache, turn, said, seen, ran, faults>>

Answer(c, r) ==
    /\ cache' = cache \cup {[what |-> r, cmd |-> c]}
    /\ ~(\E h \in cache : h.cmd = c)

Stopped(c) ==
    /\ ~Sent(c) /\ Answer(c, "ok")
    /\ turn' = 0 /\ UNCHANGED <<said, seen, ran, faults>>
    /\ toClient' = Append(IF turn # 0 THEN Append(toClient, Event("over")) ELSE toClient,
                          [what |-> "ok", cmd |-> c])

NotAccepted(c, r) ==
    /\ Sent(c) /\ Answer(c, r)
    /\ UNCHANGED <<turn, said, seen, ran>>
    /\ toClient' = Append(toClient, [what |-> r, cmd |-> c])
    /\ \/ r = "ok" /\ c.msg \in ToSet(seen) /\ UNCHANGED faults
       \/ r = "conflict" /\ c.msg \notin ToSet(seen) /\ UNCHANGED faults
       \/ r = "retryable" /\ c.msg \notin ToSet(seen) /\ turn = 0 /\ Fault

Accepts(c) ==
    /\ Sent(c) /\ Answer(c, "ok")
    /\ turn = 0 /\ c.msg \notin ToSet(seen) /\ Accept(c.msg) /\ UNCHANGED faults
    /\ toClient' = Append(IF ~said THEN Append(toClient, Event("busy")) ELSE toClient,
                          [what |-> "ok", cmd |-> c])

LEMMA OnCommandCases ==
    ASSUME Typed, OnCommand
    PROVE  LET c == Head(toDaemon) IN
           /\ c \in Commands /\ c \in ToSet(toDaemon) /\ toDaemon' \in Seq(Commands)
           /\ ToSet(toDaemon) = {c} \cup ToSet(toDaemon')
           /\ up /\ toDaemon' = Tail(toDaemon) /\ toDaemon # <<>>
           /\ UNCHANGED <<sent, stops, session, commands, up, told, odd>>
           /\ \/ Hit(c)
              \/ Stopped(c)
              \/ \E r \in {"ok", "conflict", "retryable"} : NotAccepted(c, r)
              \/ Accepts(c)
<1> DEFINE c == Head(toDaemon)
<1>1. /\ c \in Commands /\ c \in ToSet(toDaemon) /\ toDaemon' \in Seq(Commands)
      /\ ToSet(toDaemon) = {c} \cup ToSet(toDaemon')
      /\ up /\ toDaemon' = Tail(toDaemon) /\ toDaemon # <<>>
      /\ UNCHANGED <<sent, stops, session, commands, up, told, odd>>
  BY InHeadTail DEF Typed, OnCommand
<1>2. /\ toClient \o <<>> \o <<>> = toClient
      /\ \A e \in Kinds : toClient \o (<<Event(e)>> \o <<>>) = Append(toClient, Event(e))
      /\ \A e \in Kinds : toClient \o (<<>> \o <<Event(e)>>) = Append(toClient, Event(e))
      /\ toClient \o (<<>> \o <<>>) = toClient
  <2>1. toClient \in Seq(Frames) /\ <<>> \in Seq(Frames) /\ \A e \in Kinds : <<Event(e)>> \in Seq(Frames)
    BY EventIsFrame, InOne, SeqMonotonic DEF Typed
  <2> QED BY <2>1, EventIsFrame, ConcatEmptySeq, AppendIsConcat
<1> HIDE DEF c
<1>3. \/ \E h \in cache : h.cmd = c /\ toClient' = Append(toClient, h) /\ UNCHANGED <<cache, turn, said, seen, ran, faults>>
      \/ /\ ~(\E h \in cache : h.cmd = c)
         /\ \E reply \in {"ok", "conflict", "retryable"} :
               /\ IF c.msg = 0 THEN HandleInterrupt(reply) ELSE HandleSend(c, reply)
               /\ IF reply = "retryable" THEN Fault ELSE UNCHANGED faults
               /\ cache' = cache \cup {[what |-> reply, cmd |-> c]}
               /\ toClient' = Append(toClient \o Journaled, [what |-> reply, cmd |-> c])
  BY DEF OnCommand, c
<1>4. CASE \E h \in cache : h.cmd = c /\ toClient' = Append(toClient, h) /\ UNCHANGED <<cache, turn, said, seen, ran, faults>>
  BY <1>1, <1>4 DEF Hit, c
<1>5. CASE /\ ~(\E h \in cache : h.cmd = c)
           /\ \E reply \in {"ok", "conflict", "retryable"} :
               /\ IF c.msg = 0 THEN HandleInterrupt(reply) ELSE HandleSend(c, reply)
               /\ IF reply = "retryable" THEN Fault ELSE UNCHANGED faults
               /\ cache' = cache \cup {[what |-> reply, cmd |-> c]}
               /\ toClient' = Append(toClient \o Journaled, [what |-> reply, cmd |-> c])
  <2>1. PICK r \in {"ok", "conflict", "retryable"} :
               /\ IF c.msg = 0 THEN HandleInterrupt(r) ELSE HandleSend(c, r)
               /\ IF r = "retryable" THEN Fault ELSE UNCHANGED faults
               /\ cache' = cache \cup {[what |-> r, cmd |-> c]}
               /\ toClient' = Append(toClient \o Journaled, [what |-> r, cmd |-> c])
    BY <1>5
  <2>2. Answer(c, r)
    BY <1>5, <2>1 DEF Answer
  <2>3. /\ said' = said /\ (turn = 0 \/ turn' # 0) => toClient \o Journaled = toClient
        /\ said' = said /\ turn # 0 /\ turn' = 0 => toClient \o Journaled = Append(toClient, Event("over"))
        /\ said' # said /\ turn = 0 => toClient \o Journaled = Append(toClient, Event("busy"))
    BY <1>2 DEF Journaled, Kinds
  <2>4. CASE c.msg = 0
    <3>1. r = "ok" /\ turn' = 0 /\ UNCHANGED <<said, seen, ran>> /\ ~Sent(c)
      BY <2>1, <2>4 DEF HandleInterrupt, Sent
    <3>2. toClient \o Journaled = IF turn # 0 THEN Append(toClient, Event("over")) ELSE toClient
      BY <2>3, <3>1
    <3>3. Stopped(c)
      BY <2>1, <2>2, <3>1, <3>2 DEF Stopped
    <3> QED BY <1>1, <3>3 DEF c
  <2>5. CASE c.msg # 0 /\ (c.msg \in Range(seen) \/ r # "ok")
    <3>1. Sent(c) /\ UNCHANGED <<turn, said, seen, ran>> /\ Range(seen) = ToSet(seen)
      BY <2>1, <2>5, RangeIsToSet DEF HandleSend, Refuse, Sent
    <3>2. toClient' = Append(toClient, [what |-> r, cmd |-> c])
      BY <2>1, <2>3, <3>1
    <3>3. \/ r = "ok" /\ c.msg \in ToSet(seen) /\ UNCHANGED faults
          \/ r = "conflict" /\ c.msg \notin ToSet(seen) /\ UNCHANGED faults
          \/ r = "retryable" /\ c.msg \notin ToSet(seen) /\ turn = 0 /\ Fault
      BY <2>1, <2>5, <3>1 DEF HandleSend
    <3>4. NotAccepted(c, r)
      BY <2>2, <3>1, <3>2, <3>3 DEF NotAccepted
    <3> QED BY <1>1, <3>4 DEF c
  <2>6. CASE c.msg # 0 /\ c.msg \notin Range(seen) /\ r = "ok"
    <3>1. Sent(c) /\ Range(seen) = ToSet(seen) /\ turn = 0 /\ Accept(c.msg)
      BY <2>1, <2>6, RangeIsToSet DEF HandleSend, Sent
    <3>2. turn' # 0 /\ said' = TRUE
      BY <2>1, <2>6, <3>1, <1>1, CommandKinds DEF Accept
    <3>3. toClient \o Journaled = IF ~said THEN Append(toClient, Event("busy")) ELSE toClient
      BY <2>3, <3>1, <3>2 DEF Typed
    <3>4. Accepts(c)
      BY <2>1, <2>2, <2>6, <3>1, <3>3 DEF Accepts
    <3> QED BY <1>1, <3>4 DEF c
  <2> QED BY <2>4, <2>5, <2>6
<1> QED BY <1>3, <1>4, <1>5

LEMMA InitTyped == Init => Typed
<1> SUFFICES ASSUME Init PROVE Typed
  OBVIOUS
<1>1. ToSet(toClient) = {} /\ cache = {}
  BY InEmpty DEF Init
<1>2. \A f \in cache \cup ToSet(toClient) : IsReply(f) /\ ~Sent(f.cmd) => f.what = "ok"
  BY <1>1
<1>3. /\ sent \in 0..MaxSends /\ stops \in 0..MaxStops /\ faults \in 0..MaxFaults
      /\ awaiting \in BOOLEAN /\ known \in BOOLEAN /\ up \in BOOLEAN /\ said \in BOOLEAN
      /\ turn \in Messages \cup {0}
  <2>1. sent = 0 /\ stops = 0 /\ faults = 0 /\ turn = 0
    BY DEF Init
  <2>2. awaiting = FALSE /\ known = FALSE /\ up = TRUE /\ said = FALSE
    BY DEF Init
  <2>3. sent \in 0..MaxSends /\ stops \in 0..MaxStops /\ faults \in 0..MaxFaults
    BY ONLY <2>1, Bounds
  <2>4. awaiting \in BOOLEAN /\ known \in BOOLEAN /\ up \in BOOLEAN /\ said \in BOOLEAN
    BY <2>2
  <2> QED BY <2>1, <2>3, <2>4
<1>4. /\ queued \in Seq(Messages) /\ opening \in Seq(Attempts) /\ commands \in Seq(Commands)
      /\ toDaemon \in Seq(Commands) /\ toClient \in Seq(Frames) /\ seen \in Seq(Messages) /\ ran \in Seq(Messages)
  BY DEF Init
<1>5. /\ retries = {} /\ told = {} /\ odd = {} /\ cache = {}
  BY DEF Init
<1> QED BY <1>2, <1>3, <1>4, <1>5 DEF Typed

\* A new message.
LEMMA MessageNumber ==
    ASSUME Typed, sent < MaxSends
    PROVE  sent + 1 \in Messages /\ sent + 1 \in 0 .. MaxSends /\ [msg |-> sent + 1, try |-> 1] \in Attempts
BY Bounds DEF Typed, Messages, Attempts

LEMMA DispatchTyped ==
    ASSUME Typed, NEW m \in Messages, Dispatch(m)
    PROVE  /\ awaiting' \in BOOLEAN /\ opening' \in Seq(Attempts)
           /\ LET a == [msg |-> m, try |-> 1] IN
                a \in Attempts /\ ToSet(opening') = ToSet(opening) \cup {a}
                /\ a.msg = m /\ a.try = 1 /\ (opening = <<>> => Len(opening') = 1)
<1> DEFINE a == [msg |-> m, try |-> 1]
<1>1. a \in Attempts /\ a.msg = m /\ a.try = 1
  BY Bounds DEF Attempts
<1> HIDE DEF a
<1>2. awaiting' = TRUE /\ opening' = Append(opening, a)
  BY DEF Dispatch, a
<1>3. opening \in Seq(Attempts)
  BY DEF Typed
<1>4. opening' \in Seq(Attempts) /\ ToSet(opening') = ToSet(opening) \cup {a} /\ Len(opening') = Len(opening) + 1
  BY <1>1, <1>2, <1>3, InAppend, AppendProperties
<1>5. opening = <<>> => Len(opening') = 1
  BY <1>4
<1> QED BY <1>1, <1>2, <1>4, <1>5 DEF a

LEMMA RequestTyped ==
    ASSUME Typed, NEW c \in Commands, Request(c)
    PROVE  /\ commands' \in Seq(Commands) /\ ToSet(commands') = ToSet(commands) \cup {c}
           /\ toDaemon' \in Seq(Commands)
           /\ up => ToSet(toDaemon') = ToSet(toDaemon) \cup {c}
           /\ ~up => toDaemon' = toDaemon
BY InAppend DEF Typed, Request

LEMMA UnansweredTyped ==
    ASSUME Typed, NEW c, Unanswered(c)
    PROVE  /\ commands' \in Seq(Commands) /\ ToSet(commands') = ToSet(commands) \ {c}
           /\ InTurn(commands) => InTurn(commands')
<1>1. commands \in Seq(Commands) /\ ToSet(commands) = {commands[i] : i \in 1 .. Len(commands)}
      /\ DOMAIN commands = 1 .. Len(commands)
  <2>1. commands \in Seq(Commands)
    BY DEF Typed
  <2> QED BY <2>1, InSequence, LenProperties
<1> DEFINE at == {i \in DOMAIN commands : commands[i] # c}
<1>2. commands' = Picked(commands, at) /\ Part(commands', commands, at)
  BY <1>1, PickedIsPart DEF Unanswered
<1>3. commands' \in Seq(Commands) /\ ToSet(commands') = {commands[i] : i \in at \cap 1 .. Len(commands)}
  BY <1>1, <1>2, InPicked
<1> QED BY <1>1, <1>2, <1>3, InTurnPart

LEMMA FailTurnTyped ==
    ASSUME Typed, NEW ms \in SUBSET Messages, FailTurn(ms)
    PROVE  /\ awaiting' = FALSE /\ known' = FALSE /\ queued' = <<>>
           /\ told' = told \cup ms \cup ToSet(queued) /\ told' \subseteq Messages
           /\ queued' \in Seq(Messages) /\ awaiting' \in BOOLEAN /\ known' \in BOOLEAN
<1>1. queued \in Seq(Messages) /\ ToSet(queued) \subseteq Messages /\ told \subseteq Messages
  BY InSequence DEF Typed
<1>2. awaiting' = FALSE /\ known' = FALSE /\ queued' = <<>> /\ told' = told \cup ms \cup ToSet(queued)
  BY RangeIsToSet DEF FailTurn
<1>3. queued' \in Seq(Messages)
  BY <1>2
<1>4. told' \subseteq Messages
  BY <1>1, <1>2
<1> QED BY <1>2, <1>3, <1>4

\* A reply: what is taken, and for which command.
LEMMA ReplyCases ==
    ASSUME Typed, Reply
    PROVE  \E i \in 1 .. Len(toClient) :
             LET f == toClient[i] IN
             /\ f \in Replies /\ f \in ToSet(toClient) /\ f.cmd \in Commands
             /\ Part(toClient', toClient, (1 .. Len(toClient)) \ {i})
             /\ toClient' \in Seq(Frames) /\ ToSet(toClient') \subseteq ToSet(toClient)
             /\ \A j \in 1 .. Len(toClient) : j # i => toClient[j] \in ToSet(toClient')
             /\ \A g \in ToSet(toClient') : \E j \in 1 .. Len(toClient) : j # i /\ g = toClient[j]
             /\ up /\ UNCHANGED <<sent, stops, up, toDaemon, daemon, faults, odd>>
             /\ \/ f.cmd \notin ToSet(commands) /\ UNCHANGED <<commands, session, told>>
                \/ f.cmd \in ToSet(commands) /\ Unanswered(f.cmd) /\ f.what = "ok" /\ UNCHANGED <<session, told>>
                \/ /\ f.cmd \in ToSet(commands) /\ Unanswered(f.cmd) /\ f.what = "retryable" /\ f.cmd.try < MaxTries
                   /\ retries' = retries \cup {f.cmd} /\ UNCHANGED <<queued, awaiting, known, opening, told>>
                \/ /\ f.cmd \in ToSet(commands) /\ Unanswered(f.cmd) /\ f.what # "ok"
                   /\ FailTurn({f.cmd.msg}) /\ UNCHANGED <<opening, retries>>
<1>1. toClient \in Seq(Frames) /\ ToSet(toClient) = {toClient[i] : i \in 1 .. Len(toClient)}
      /\ ToSet(toClient) \subseteq Frames /\ DOMAIN toClient = 1 .. Len(toClient)
  BY InSequence DEF Typed
<1>2. PICK i \in 1 .. Len(toClient) :
        /\ IsReply(toClient[i])
        /\ toClient' = RemoveAt(toClient, i)
        /\ LET c == toClient[i].cmd
               reply == toClient[i].what
           IN  IF c \notin Range(commands)
               THEN UNCHANGED <<commands, session, told>>
               ELSE /\ Unanswered(c)
                    /\ IF reply = "ok"
                       THEN UNCHANGED <<session, told>>
                       ELSE IF reply = "retryable" /\ c.try < MaxTries
                       THEN retries' = retries \cup {c} /\ UNCHANGED <<queued, awaiting, known, opening, told>>
                       ELSE FailTurn({c.msg}) /\ UNCHANGED <<opening, retries>>
  BY <1>1 DEF Reply
<1>3. up /\ UNCHANGED <<sent, stops, up, toDaemon, daemon, faults, odd>>
  BY DEF Reply
<1>4. Part(toClient', toClient, (1 .. Len(toClient)) \ {i})
  BY <1>1, <1>2, RestIsPart
<1>5. /\ toClient' \in Seq(Frames) /\ ToSet(toClient') \subseteq ToSet(toClient)
      /\ \A j \in 1 .. Len(toClient) : j # i => toClient[j] \in ToSet(toClient')
      /\ \A g \in ToSet(toClient') : \E j \in 1 .. Len(toClient) : j # i /\ g = toClient[j]
  <2>1. /\ toClient' \in Seq(Frames) /\ ToSet(toClient') \subseteq ToSet(toClient)
        /\ \A j \in 1 .. Len(toClient) : j \in (1 .. Len(toClient)) \ {i} => toClient[j] \in ToSet(toClient')
        /\ \A k \in 1 .. Len(toClient') : \E j \in 1 .. Len(toClient) :
              j \in (1 .. Len(toClient)) \ {i} /\ toClient'[k] = toClient[j]
    BY <1>1, <1>4, InPart
  <2>2. ToSet(toClient') = {toClient'[k] : k \in 1 .. Len(toClient')}
    BY <2>1, InSequence
  <2> QED BY <2>1, <2>2
<1>6. toClient[i] \in Replies /\ toClient[i] \in ToSet(toClient) /\ toClient[i].cmd \in Commands
  BY <1>1, <1>2, FrameKinds
<1>7. Range(commands) = ToSet(commands)
  BY RangeIsToSet
<1> QED BY <1>2, <1>3, <1>4, <1>5, <1>6, <1>7

LEMMA NextTyped == Typed /\ [Next]_vars => Typed'
<1> SUFFICES ASSUME Typed, [Next]_vars PROVE Typed'
  OBVIOUS
<1> USE DEF session, socket, daemon
<1>1. CASE Send
  <2>1. sent' = sent + 1 /\ sent + 1 \in Messages /\ sent' \in 0 .. MaxSends
    BY <1>1, MessageNumber DEF Send
  <2>2. queued' \in Seq(Messages) /\ awaiting' \in BOOLEAN /\ opening' \in Seq(Attempts)
    <3>1. CASE Busy
      <4>1. queued' = Append(queued, sent + 1) /\ awaiting' = awaiting /\ opening' = opening
        BY <1>1, <2>1, <3>1 DEF Send
      <4> QED BY <2>1, <4>1, InAppend DEF Typed
    <3>2. CASE ~Busy
      BY <1>1, <2>1, <3>2, DispatchTyped DEF Send, Typed
    <3> QED BY <3>1, <3>2
  <2> QED BY <1>1, <2>1, <2>2 DEF Send, Typed
<1>2. CASE Stop
  <2>1. stops' = stops + 1 /\ stops' \in 0 .. MaxStops /\ [msg |-> 0, try |-> stops'] \in Commands
    BY <1>2, Bounds DEF Stop, Typed, Commands
  <2>2. queued' = <<>> /\ told' \subseteq Messages
    <3>1. ToSet(queued) \subseteq Messages /\ \A a \in retries : a.msg \in Messages
      BY InSequence, AttemptFields DEF Typed
    <3> QED BY <1>2, <3>1, RangeIsToSet DEF Stop, Typed
  <2>3. /\ commands' \in Seq(Commands) /\ toDaemon' \in Seq(Commands) /\ awaiting' \in BOOLEAN
        /\ retries' \subseteq retries
    <3>1. CASE retries # {}
      BY <1>2, <3>1 DEF Stop, Typed
    <3>2. CASE retries = {}
      BY <1>2, <2>1, <3>2, RequestTyped DEF Stop, Typed
    <3> QED BY <3>1, <3>2
  <2>4. queued' \in Seq(Messages)
    BY <2>2
  <2>5. UNCHANGED <<sent, known, opening, up, toClient, daemon, faults, odd>>
    BY <1>2 DEF Stop
  <2> QED BY <2>1, <2>2, <2>3, <2>4, <2>5 DEF Typed
<1>3. CASE Opened
  <2>1. Head(opening) \in Attempts /\ opening' \in Seq(Attempts)
    BY <1>3, InHeadTail DEF Opened, Typed
  <2>2. commands' \in Seq(Commands) /\ toDaemon' \in Seq(Commands)
    BY <1>3, <2>1, AttemptFields, RequestTyped DEF Opened
  <2> QED BY <1>3, <2>1, <2>2 DEF Opened, Typed
<1>4. CASE Reply
  <2>1. PICK i \in 1 .. Len(toClient) :
             LET f == toClient[i] IN
             /\ f \in Replies /\ f \in ToSet(toClient) /\ f.cmd \in Commands
             /\ toClient' \in Seq(Frames) /\ ToSet(toClient') \subseteq ToSet(toClient)
             /\ UNCHANGED <<sent, stops, up, toDaemon, daemon, faults, odd>>
             /\ \/ f.cmd \notin ToSet(commands) /\ UNCHANGED <<commands, session, told>>
                \/ f.cmd \in ToSet(commands) /\ Unanswered(f.cmd) /\ f.what = "ok" /\ UNCHANGED <<session, told>>
                \/ /\ f.cmd \in ToSet(commands) /\ Unanswered(f.cmd) /\ f.what = "retryable" /\ f.cmd.try < MaxTries
                   /\ retries' = retries \cup {f.cmd} /\ UNCHANGED <<queued, awaiting, known, opening, told>>
                \/ /\ f.cmd \in ToSet(commands) /\ Unanswered(f.cmd) /\ f.what # "ok"
                   /\ FailTurn({f.cmd.msg}) /\ UNCHANGED <<opening, retries>>
    BY <1>4, ReplyCases
  <2> DEFINE f == toClient[i]
  <2>2. /\ f \in Replies /\ f \in ToSet(toClient) /\ f.cmd \in Commands
        /\ toClient' \in Seq(Frames) /\ ToSet(toClient') \subseteq ToSet(toClient)
        /\ UNCHANGED <<sent, stops, up, toDaemon, daemon, faults, odd>>
    BY <2>1
  <2>3. f.what # "ok" => Sent(f.cmd) /\ f.cmd \in Attempts /\ f.cmd.msg \in Messages
    BY <2>2, ReplyFields, CommandKinds DEF Typed
  <2>4. commands' \in Seq(Commands)
    <3>1. commands' = commands \/ Unanswered(f.cmd)
      BY <2>1
    <3> QED BY <3>1, UnansweredTyped DEF Typed
  <2>5. retries' \subseteq Attempts /\ \A a \in retries' : a.try < MaxTries
    <3>1. retries' = retries \/ (retries' = retries \cup {f.cmd} /\ f.cmd.try < MaxTries /\ f.what # "ok")
      BY <2>1
    <3> QED BY <2>3, <3>1 DEF Typed
  <2>6. queued' \in Seq(Messages) /\ awaiting' \in BOOLEAN /\ known' \in BOOLEAN /\ told' \subseteq Messages
    <3>1. \/ UNCHANGED <<queued, awaiting, known, told>>
          \/ f.what # "ok" /\ FailTurn({f.cmd.msg})
      BY <2>1
    <3>2. CASE f.what # "ok" /\ FailTurn({f.cmd.msg})
      BY <2>3, <3>2, FailTurnTyped
    <3> QED BY <3>1, <3>2 DEF Typed
  <2>7. opening' = opening
    BY <2>1
  <2> HIDE DEF f
  <2> QED BY <2>2, <2>4, <2>5, <2>6, <2>7 DEF Typed
<1>5. CASE OnEvent
  <2>1. toClient # <<>> /\ toClient' = Tail(toClient)
        /\ UNCHANGED <<sent, stops, retries, commands, up, toDaemon, daemon, faults, told, odd>>
    BY <1>5 DEF OnEvent
  <2>2. toClient' \in Seq(Frames) /\ ToSet(toClient') \subseteq ToSet(toClient)
    BY <2>1, InHeadTail DEF Typed
  <2>3. queued' \in Seq(Messages) /\ awaiting' \in BOOLEAN /\ known' \in BOOLEAN /\ opening' \in Seq(Attempts)
    <3>1. CASE queued # <<>> /\ Dispatch(Head(queued)) /\ queued' = Tail(queued) /\ known' = FALSE
      <4>1. Head(queued) \in Messages /\ queued' \in Seq(Messages)
        BY <3>1, InHeadTail DEF Typed
      <4> QED BY <3>1, <4>1, DispatchTyped
    <3>2. CASE ~(queued # <<>> /\ Dispatch(Head(queued)) /\ queued' = Tail(queued) /\ known' = FALSE)
      BY <1>5, <3>2 DEF OnEvent, EventBusy, EventOver, EventIdle, Typed
    <3> QED BY <3>1, <3>2
  <2> QED BY <2>1, <2>2, <2>3 DEF Typed
<1>6. ASSUME NEW a \in retries, RetryTimer(a) PROVE Typed'
  <2>1. a \in Attempts /\ a.try < MaxTries
    BY <1>6 DEF Typed
  <2>2. opening' \in Seq(Attempts)
    BY <1>6, <2>1, AttemptFields, InAppend DEF RetryTimer, Typed
  <2>3. retries' \subseteq retries
    BY <1>6 DEF RetryTimer
  <2> QED BY <1>6, <2>2, <2>3 DEF RetryTimer, Typed
<1>7. ASSUME NEW c \in Range(commands), Silence(c) PROVE Typed'
  <2>1. c \in Commands
    <3>1. commands \in Seq(Commands)
      BY DEF Typed
    <3> QED BY <3>1, InSequence, RangeIsToSet
  <2>2. commands' \in Seq(Commands)
    BY <1>7, UnansweredTyped DEF Silence
  <2>3. faults' \in 0 .. MaxFaults /\ odd' \subseteq Oddities
    BY <1>7, Bounds DEF Silence, Fault, Typed, Oddities
  <2>4. queued' \in Seq(Messages) /\ awaiting' \in BOOLEAN /\ known' \in BOOLEAN /\ told' \subseteq Messages
    <3>1. CASE c.msg = 0
      BY <1>7, <3>1 DEF Silence, Typed
    <3>2. CASE c.msg # 0
      <4>1. {c.msg} \in SUBSET Messages /\ FailTurn({c.msg})
        BY <1>7, <2>1, <3>2, CommandKinds DEF Silence, Sent
      <4> QED BY <4>1, FailTurnTyped
    <3> QED BY <3>1, <3>2
  <2>5. UNCHANGED <<sent, stops, opening, retries, socket, daemon>>
    BY <1>7 DEF Silence
  <2> QED BY <2>2, <2>3, <2>4, <2>5 DEF Typed
<1>8. CASE OnCommand
  <2> DEFINE c == Head(toDaemon)
  <2>1. /\ c \in Commands /\ toDaemon' \in Seq(Commands)
        /\ UNCHANGED <<sent, stops, session, commands, up, told, odd>>
        /\ \/ Hit(c)
           \/ Stopped(c)
           \/ \E r \in {"ok", "conflict", "retryable"} : NotAccepted(c, r)
           \/ Accepts(c)
    BY <1>8, OnCommandCases
  <2> HIDE DEF c
  <2>2. \A r \in {"ok", "conflict", "retryable"} :
           [what |-> r, cmd |-> c] \in Replies /\ [what |-> r, cmd |-> c].what = r /\ [what |-> r, cmd |-> c].cmd = c
    BY <2>1, ReplyFields
  <2>3. toClient \in Seq(Frames) /\ cache \subseteq Replies
        /\ \A e \in Kinds : Append(toClient, Event(e)) \in Seq(Frames) /\ ToSet(Append(toClient, Event(e))) = ToSet(toClient) \cup {Event(e)}
        /\ \A k \in Kinds : ~IsReply(Event(k))
    <3>1. toClient \in Seq(Frames) /\ cache \subseteq Replies
      BY DEF Typed
    <3> QED BY <3>1, EventIsFrame, FrameKinds, InAppend
  <2>4. CASE Hit(c)
    <3>1. PICK h \in cache : toClient' = Append(toClient, h)
      BY <2>4 DEF Hit
    <3>2. toClient' \in Seq(Frames) /\ ToSet(toClient') = ToSet(toClient) \cup {h}
      BY <2>3, <3>1, InAppend, ReplyFields
    <3> QED BY <2>1, <2>4, <3>2 DEF Hit, Typed
  <2>5. ASSUME NEW s \in Seq(Frames), NEW e \in Kinds, NEW r \in {"ok", "conflict", "retryable"},
               s = toClient \/ s = Append(toClient, Event(e)), Sent(c) \/ r = "ok",
               toClient' = Append(s, [what |-> r, cmd |-> c]), Answer(c, r)
        PROVE  /\ toClient' \in Seq(Frames) /\ cache' \subseteq Replies
               /\ \A f \in cache' \cup ToSet(toClient') : IsReply(f) /\ ~Sent(f.cmd) => f.what = "ok"
    <3> DEFINE g == [what |-> r, cmd |-> c]
    <3>1. g \in Replies /\ g \in Frames /\ g.what = r /\ g.cmd = c
      BY <2>2, ReplyFields
    <3>2. cache' = cache \cup {g} /\ toClient' = Append(s, g)
      BY <2>5 DEF Answer
    <3> HIDE DEF g
    <3>3. toClient' \in Seq(Frames) /\ ToSet(toClient') = ToSet(s) \cup {g}
      BY <3>1, <3>2, InAppend
    <3>4. \A f \in ToSet(s) : IsReply(f) => f \in ToSet(toClient)
      BY <2>3, <2>5
    <3> QED BY <2>3, <2>5, <3>1, <3>2, <3>3, <3>4 DEF Typed
  <2>6. \A e \in Kinds : Append(toClient, Event(e)) \in Seq(Frames)
    BY <2>3
  <2>7. {"busy", "over"} \subseteq Kinds
    BY DEF Kinds
  <2>8. CASE Stopped(c)
    <3>1. \/ toClient' = Append(toClient, [what |-> "ok", cmd |-> c])
          \/ toClient' = Append(Append(toClient, Event("over")), [what |-> "ok", cmd |-> c])
      BY <2>8 DEF Stopped
    <3>2. Answer(c, "ok") /\ turn' = 0 /\ UNCHANGED <<said, seen, ran, faults>>
      BY <2>8 DEF Stopped
    <3>3. /\ toClient' \in Seq(Frames) /\ cache' \subseteq Replies
          /\ \A f \in cache' \cup ToSet(toClient') : IsReply(f) /\ ~Sent(f.cmd) => f.what = "ok"
      BY <2>3, <2>5, <2>6, <2>7, <3>1, <3>2
    <3> QED BY <2>1, <3>2, <3>3 DEF Typed
  <2>9. ASSUME NEW r \in {"ok", "conflict", "retryable"}, NotAccepted(c, r) PROVE Typed'
    <3>1. /\ toClient' = Append(toClient, [what |-> r, cmd |-> c]) /\ Answer(c, r) /\ Sent(c)
          /\ UNCHANGED <<turn, said, seen, ran>> /\ (faults' = faults \/ Fault)
      BY <2>9 DEF NotAccepted
    <3>2. /\ toClient' \in Seq(Frames) /\ cache' \subseteq Replies
          /\ \A f \in cache' \cup ToSet(toClient') : IsReply(f) /\ ~Sent(f.cmd) => f.what = "ok"
      BY <2>3, <2>5, <2>7, <3>1
    <3>3. faults' \in 0 .. MaxFaults
      BY <3>1, Bounds DEF Fault, Typed
    <3> QED BY <2>1, <3>1, <3>2, <3>3 DEF Typed
  <2>10. CASE Accepts(c)
    <3>1. \/ toClient' = Append(toClient, [what |-> "ok", cmd |-> c])
          \/ toClient' = Append(Append(toClient, Event("busy")), [what |-> "ok", cmd |-> c])
      BY <2>10 DEF Accepts
    <3>2. Answer(c, "ok") /\ Sent(c) /\ Accept(c.msg) /\ faults' = faults
      BY <2>10 DEF Accepts
    <3>3. /\ toClient' \in Seq(Frames) /\ cache' \subseteq Replies
          /\ \A f \in cache' \cup ToSet(toClient') : IsReply(f) /\ ~Sent(f.cmd) => f.what = "ok"
      BY <2>3, <2>5, <2>6, <2>7, <3>1, <3>2
    <3>4. turn' \in Messages \cup {0} /\ said' \in BOOLEAN /\ seen' \in Seq(Messages) /\ ran' \in Seq(Messages)
      <4>1. c.msg \in Messages
        BY <2>1, <3>2, CommandKinds
      <4>2. seen \in Seq(Messages) /\ ran \in Seq(Messages)
        BY DEF Typed
      <4>3. Len(seen) = SeenKept => Tail(seen) \in Seq(Messages)
        <5>1. Len(<<>>) = 0
          BY EmptySeq
        <5> QED BY <4>2, <5>1, Bounds, InHeadTail
      <4>4. turn' = c.msg /\ said' = TRUE /\ ran' = Append(ran, c.msg)
            /\ seen' = IF Len(seen) = SeenKept THEN Append(Tail(seen), c.msg) ELSE Append(seen, c.msg)
        BY <3>2 DEF Accept
      <4> QED BY <4>1, <4>2, <4>3, <4>4, InAppend
    <3> QED BY <2>1, <3>2, <3>3, <3>4 DEF Typed
  <2> QED BY <2>1, <2>4, <2>8, <2>9, <2>10
<1>9. ASSUME TurnEnds \/ SayIdle PROVE Typed'
  <2>1. PICK e \in Kinds : toClient' = Append(toClient, Event(e))
    BY <1>9 DEF TurnEnds, SayIdle, Happens, Kinds
  <2>2. toClient' \in Seq(Frames) /\ ToSet(toClient') = ToSet(toClient) \cup {Event(e)} /\ ~IsReply(Event(e))
    <3>1. toClient \in Seq(Frames)
      BY DEF Typed
    <3> QED BY <2>1, <3>1, EventIsFrame, FrameKinds, InAppend
  <2>3. turn' \in Messages \cup {0} /\ said' \in BOOLEAN
    BY <1>9 DEF TurnEnds, SayIdle, Typed
  <2>4. UNCHANGED <<sent, stops, session, commands, up, toDaemon, seen, cache, ran, faults, told, odd>>
    BY <1>9 DEF TurnEnds, SayIdle
  <2> QED BY <2>2, <2>3, <2>4 DEF Typed
<1>10. /\ Events \in Seq(Frames) /\ ToSet(Events) \subseteq ToSet(toClient)
  <2>1. toClient \in Seq(Frames)
    BY DEF Typed
  <2>2. Part(Events, toClient, {i \in DOMAIN toClient : IsEvent(toClient[i])})
    BY <2>1, PickedIsPart DEF Events
  <2> QED BY <2>1, <2>2, InPart
<1>11. CASE ConnectionLost
  <2>1. faults' \in 0 .. MaxFaults
    BY <1>11, Bounds DEF ConnectionLost, Fault, Typed
  <2>2. toClient' = Events /\ up' = FALSE /\ toDaemon' = <<>> /\ UNCHANGED <<sent, stops, session, commands, daemon, told, odd>>
    BY <1>11 DEF ConnectionLost, Breaks
  <2>3. toDaemon' \in Seq(Commands) /\ up' \in BOOLEAN
    <3>1. toDaemon' \in Seq(Commands)
      BY <2>2
    <3>2. up' = FALSE
      BY <2>2
    <3> QED BY <3>1, <3>2
  <2>4. \A f \in cache' \cup ToSet(toClient') : IsReply(f) /\ ~Sent(f.cmd) => f.what = "ok"
    BY <1>10, <2>2 DEF Typed
  <2> QED BY <1>10, <2>1, <2>2, <2>3, <2>4 DEF Typed
<1>12. CASE Reconnected
  BY <1>12 DEF Reconnected, Typed
<1>13. CASE CacheExpires
  BY <1>13 DEF CacheExpires, Typed
<1>14. CASE DaemonRestarts
  <2> DEFINE tail == IF said THEN <<Event("over"), Event("idle")>> ELSE <<>>
  <2>1. tail \in Seq(Frames) /\ ToSet(tail) \subseteq {Event("over"), Event("idle")}
    <3>1. Event("over") \in Frames /\ Event("idle") \in Frames
      BY EventIsFrame DEF Kinds
    <3>2. <<Event("over"), Event("idle")>> \in Seq(Frames)
      BY <3>1
    <3>3. ToSet(<<Event("over"), Event("idle")>>) = {Event("over"), Event("idle")}
      BY DEF ToSet
    <3> QED BY <3>2, <3>3, InEmpty
  <2>2. toClient' = Events \o tail /\ up' = FALSE /\ toDaemon' = <<>>
        /\ turn' = 0 /\ said' = FALSE /\ seen' = <<>> /\ cache' = {}
        /\ odd' = odd \cup {"restarted"} /\ UNCHANGED <<sent, stops, session, commands, ran, told>>
    BY <1>14 DEF DaemonRestarts, Breaks
  <2> HIDE DEF tail
  <2>3. toClient' \in Seq(Frames) /\ ToSet(toClient') = ToSet(Events) \cup ToSet(tail)
    BY <1>10, <2>1, <2>2, InConcat
  <2>4. ~IsReply(Event("over")) /\ ~IsReply(Event("idle"))
    BY EventIsFrame, FrameKinds DEF Kinds
  <2>5. faults' \in 0 .. MaxFaults /\ odd' \subseteq Oddities
    BY <1>14, <2>2, Bounds DEF DaemonRestarts, Fault, Typed, Oddities
  <2>6. \A f \in cache' \cup ToSet(toClient') : IsReply(f) /\ ~Sent(f.cmd) => f.what = "ok"
    BY <1>10, <2>1, <2>2, <2>3, <2>4 DEF Typed
  <2>7. /\ toDaemon' \in Seq(Commands) /\ turn' \in Messages \cup {0}
        /\ seen' \in Seq(Messages) /\ cache' \subseteq Replies
    BY <2>2
  <2>8. up' \in BOOLEAN /\ said' \in BOOLEAN
    <3>1. up' = FALSE /\ said' = FALSE
      BY <2>2
    <3> QED BY <3>1
  <2> QED BY <2>2, <2>3, <2>5, <2>6, <2>7, <2>8 DEF Typed
<1>15. CASE UNCHANGED vars
  BY <1>15 DEF vars, Typed
<1> QED
  BY <1>1, <1>2, <1>3, <1>4, <1>5, <1>6, <1>7, <1>8, <1>9, <1>11, <1>12, <1>13, <1>14, <1>15 DEF Next, Client

-----------------------------------------------------------------------------
(* The invariant, as long as no send was given up and the daemon did not    *)
(* restart.                                                                 *)

Accepted(m) == m \in ToSet(ran)

\* The attempts for a message the daemon has not accepted.
Waiting == ToSet(opening) \cup retries
Asked == {c \in ToSet(commands) : Sent(c) /\ ~Accepted(c.msg)}
Pending == Waiting \cup Asked

\* A turn, from when it starts until the client has heard of its end.
Turning ==
    \/ turn # 0 /\ said /\ ~Has(toClient, "over") /\ ~Has(toClient, "idle")
    \/ turn = 0 /\ said /\ Has(toClient, "over") /\ ~Has(toClient, "idle")
    \/ turn = 0 /\ ~said /\ Has(toClient, "over") /\ Has(toClient, "idle")

Silent == turn = 0 /\ ~said /\ \A w \in Kinds : ~Has(toClient, w)

\* Idle; asked for a turn; the turn started; the client knows of it; it knows of its end
\* but not yet that the thread is idle.
Phase ==
    \/ ~awaiting /\ ~known /\ Silent /\ Pending = {} /\ queued = <<>>
    \/ awaiting /\ ~known /\ Silent /\ Pending # {}
    \/ awaiting /\ ~known /\ Has(toClient, "busy") /\ Turning /\ Pending = {}
    \/ ~awaiting /\ known /\ ~Has(toClient, "busy") /\ Turning /\ Pending = {}
    \/ /\ ~awaiting /\ known /\ ~Has(toClient, "busy") /\ ~Has(toClient, "over")
       /\ turn = 0 /\ (said <=> ~Has(toClient, "idle")) /\ Pending = {}

\* One message at a time, and one attempt of it.
OnePending ==
    /\ \A a \in Waiting : ~Accepted(a.msg)
    /\ Waiting # {} => Asked = {}
    /\ \A c, d \in Asked : c = d
    /\ Len(opening) <= 1 /\ (opening # <<>> => retries = {})
    /\ \A a, b \in retries : a = b

\* What is queued was sent after everything the client has let go of.
LetGo == {c.msg : c \in ToSet(commands)} \cup {a.msg : a \in Waiting} \cup {h.cmd.msg : h \in cache}
            \cup ToSet(ran) \cup told

Numbered ==
    /\ \A k \in ToSet(queued) : k <= sent /\ \A m \in LetGo : m < k
    /\ \A m \in LetGo : m <= sent
    /\ \A a \in Pending : a.msg \notin told /\ \A m \in ToSet(ran) : m < a.msg

Ordered == Increasing(queued) /\ Increasing(ran) /\ InTurn(commands) /\ InTurn(toDaemon)

\* While the connection is up a command, or its reply, is on its way.
Delivered ==
    /\ \A c \in ToSet(toDaemon) : Sent(c) => c \in ToSet(commands)
    /\ up => \A c \in ToSet(commands) : Sent(c) => c \in ToSet(toDaemon) \/ Answered(toClient, c)
    /\ ~up => toDaemon = <<>> /\ \A f \in ToSet(toClient) : IsEvent(f)

Replied ==
    /\ OneReply(toClient)
    /\ \A f \in ToSet(toClient) : IsReply(f) /\ Sent(f.cmd) =>
            /\ f.cmd \in ToSet(commands) /\ f.cmd \notin ToSet(toDaemon)
            /\ (f.what = "ok" <=> Accepted(f.cmd.msg))

\* The cache knows nothing of an attempt that is still to be made.
Cached ==
    \A h \in cache : Sent(h.cmd) =>
        /\ h.what = "ok" => Accepted(h.cmd.msg)
        /\ h.what # "ok" => ~(h.cmd \in ToSet(commands) /\ Accepted(h.cmd.msg))
        /\ \A a \in ToSet(opening) : h.cmd.msg = a.msg => h.cmd.try < a.try
        /\ \A a \in retries : h.cmd.msg = a.msg => h.cmd.try <= a.try
        /\ \A c \in Asked : h.cmd.msg = c.msg => h.cmd.try <= c.try

\* A message whose acceptance the client has not heard of is among the last ones: every
\* later one took a fault, as the client asks for a turn only when it knows of the last one.
Owed ==
    \A i \in 1 .. Len(ran) : \A c \in ToSet(commands) : Sent(c) /\ c.msg = ran[i] =>
        /\ Len(ran) - i <= faults
        /\ Behind(toClient, turn # 0, c) \/ Len(ran) - i < faults

Good ==
    /\ Phase /\ OnePending /\ Numbered /\ Ordered /\ Delivered /\ Replied /\ Cached
    /\ Latest(seen, ran) /\ Owed /\ EventsInOrder(toClient)

LEMMA NothingIn == ASSUME NEW S, NEW s \in Seq(S), ToSet(s) = {} PROVE s = <<>>
<1>1. ASSUME s # <<>> PROVE FALSE
  <2>1. ToSet(s) = {Head(s)} \cup ToSet(Tail(s))
    BY <1>1, InHeadTail
  <2> QED BY <2>1
<1> QED BY <1>1

LEMMA OnlyOne ==
    ASSUME Typed, OnePending
    PROVE  \A a, b \in Pending : a = b
<1>1. opening \in Seq(Attempts)
  BY DEF Typed
<1>2. opening # <<>> => \E a \in Attempts : ToSet(opening) = {a}
  <2>1. SUFFICES ASSUME opening # <<>> PROVE ToSet(opening) = {Head(opening)} /\ Head(opening) \in Attempts
    OBVIOUS
  <2>2. Len(Tail(opening)) = Len(opening) - 1 /\ Len(opening) \in Nat /\ Len(opening) <= 1 /\ Tail(opening) \in Seq(Attempts)
        /\ Len(Tail(opening)) \in Nat
    BY <1>1, <2>1, HeadTailProperties, LenProperties DEF OnePending
  <2>3. Tail(opening) = <<>>
    BY <2>2, EmptySeq
  <2> QED BY <1>1, <2>1, <2>3, InHeadTail, InEmpty
<1>3. opening = <<>> => ToSet(opening) = {}
  BY InEmpty
<1> QED BY <1>2, <1>3 DEF OnePending, Pending, Waiting

LEMMA InitGood == Init => Good
<1> SUFFICES ASSUME Init PROVE Good
  OBVIOUS
<1>1. ToSet(<<>>) = {} /\ Len(<<>>) = 0
  BY InEmpty, EmptySeq
<1>2. Pending = {} /\ Waiting = {} /\ LetGo = {}
  BY <1>1 DEF Init, Pending, Waiting, Asked, LetGo
<1>3. Phase
  BY <1>1, <1>2 DEF Init, Phase, Silent, Has
<1>4. OnePending
  BY <1>1, <1>2 DEF Init, OnePending, Pending
<1>5. Numbered /\ Delivered /\ Cached /\ Owed
  BY <1>1, <1>2 DEF Init, Numbered, Delivered, Cached, Owed
<1>6. Ordered /\ EventsInOrder(toClient) /\ OneReply(toClient)
  BY <1>1 DEF Init, Ordered, EventsInOrder, OneReply, Increasing, InTurn
<1>7. Replied
  BY <1>1, <1>6 DEF Init, Replied
<1>8. Latest(seen, ran)
  BY <1>1, Bounds DEF Init, Latest
<1> QED BY <1>3, <1>4, <1>5, <1>6, <1>7, <1>8 DEF Good

\* Letting go of nothing new keeps the numbers in order.
LEMMA NumberedKept ==
    ASSUME Numbered, ToSet(queued') \subseteq ToSet(queued), LetGo' \subseteq LetGo, Pending' \subseteq Pending,
           ToSet(ran') \subseteq ToSet(ran), told' \subseteq told, sent' = sent
    PROVE  Numbered'
BY DEF Numbered

LEMMA LetGoNumbers ==
    ASSUME Typed
    PROVE  /\ \A k \in LetGo : k \in Nat
           /\ \A k \in Messages : k \in Nat /\ k # 0
           /\ ToSet(queued) \subseteq Messages /\ ToSet(ran) \subseteq Messages
           /\ ToSet(commands) \subseteq Commands /\ ToSet(toDaemon) \subseteq Commands
           /\ Waiting \subseteq Attempts /\ Pending \subseteq Attempts
           /\ \A a \in Pending : a.msg \in Messages
<1>1. \A k \in Messages : k \in Nat /\ k # 0
  BY Bounds DEF Messages
<1>2. /\ queued \in Seq(Messages) /\ ran \in Seq(Messages) /\ commands \in Seq(Commands)
      /\ toDaemon \in Seq(Commands) /\ opening \in Seq(Attempts)
      /\ retries \subseteq Attempts /\ told \subseteq Messages /\ cache \subseteq Replies
  BY DEF Typed
<1>3. /\ ToSet(queued) \subseteq Messages /\ ToSet(ran) \subseteq Messages
      /\ ToSet(commands) \subseteq Commands /\ ToSet(toDaemon) \subseteq Commands
      /\ ToSet(opening) \subseteq Attempts
  BY <1>2, InSequence
<1>4. Waiting \subseteq Attempts
  BY <1>2, <1>3 DEF Waiting
<1>5. \A c \in ToSet(commands) : c.msg \in Nat /\ (Sent(c) => c \in Attempts)
  BY <1>3, CommandKinds
<1>6. \A a \in Waiting : a.msg \in Nat
  BY <1>4, AttemptFields
<1>7. \A h \in cache : h.cmd.msg \in Nat
  BY <1>2, ReplyFields, CommandKinds
<1>8. \A k \in LetGo : k \in Nat
  BY <1>1, <1>2, <1>3, <1>5, <1>6, <1>7 DEF LetGo
<1>9. Pending \subseteq Attempts
  BY <1>4, <1>5 DEF Pending, Asked
<1>10. \A a \in Pending : a.msg \in Messages
  BY <1>9, AttemptFields
<1> QED BY <1>1, <1>3, <1>4, <1>8, <1>9, <1>10

\* send(): a message that is asked for at once is the only one.
LEMMA SendGood == Typed /\ Good /\ Send => Good'
<1> SUFFICES ASSUME Typed, Good, Send PROVE Good'
  OBVIOUS
<1> DEFINE m == sent + 1
<1>1. /\ m \in Messages /\ sent' = m /\ sent \in Nat /\ m > sent /\ queued \in Seq(Messages) /\ ToSet(queued) \subseteq Messages
      /\ UNCHANGED <<stops, known, retries, commands, up, toDaemon, toClient, turn, said, seen, cache, ran, faults, told, odd>>
  <2>1. queued \in Seq(Messages)
    BY DEF Typed
  <2> QED BY <2>1, MessageNumber, InSequence DEF Send, Typed, socket, daemon
<1>2. \A k \in LetGo : k <= sent /\ k < m /\ k \in Int
  <2>1. \A k \in LetGo : k \in Int
    BY LetGoNumbers
  <2> QED BY <1>1, <2>1 DEF Good, Numbered
<1>3. /\ Delivered' /\ Replied' /\ Latest(seen, ran)' /\ Owed' /\ EventsInOrder(toClient)'
  BY <1>1 DEF Good, Delivered, Replied, Owed, Accepted
<1>4. CASE Busy
  <2>1. queued' = Append(queued, m) /\ awaiting' = awaiting /\ opening' = opening
    BY <1>1, <1>4 DEF Send
  <2>2. LetGo' = LetGo /\ Pending' = Pending /\ Waiting' = Waiting /\ Asked' = Asked
    BY <1>1, <2>1 DEF LetGo, Pending, Waiting, Asked, Accepted
  <2>3. ToSet(queued') = ToSet(queued) \cup {m} /\ \A k \in ToSet(queued) : k < m
    <3>1. \A k \in ToSet(queued) : k <= sent
      BY DEF Good, Numbered
    <3>2. ToSet(queued') = ToSet(queued) \cup {m}
      BY <1>1, <2>1, InAppend
    <3> QED BY <1>1, <3>1, <3>2 DEF Messages
  <2>4. Numbered'
    <3>1. /\ \A k \in ToSet(queued) : k <= sent /\ \A l \in LetGo : l < k
          /\ \A a \in Pending : a.msg \notin told /\ \A l \in ToSet(ran) : l < a.msg
      BY DEF Good, Numbered
    <3>2. \A k \in ToSet(queued') : k <= sent' /\ \A l \in LetGo' : l < k
      BY <1>1, <1>2, <2>2, <2>3, <3>1, LetGoNumbers
    <3>3. \A l \in LetGo' : l <= sent'
      BY <1>1, <1>2, <2>2
    <3> QED BY <1>1, <2>2, <3>1, <3>2, <3>3 DEF Numbered
  <2>5. Ordered'
    BY <1>1, <2>1, <2>3, IncreasingKept DEF Good, Ordered
  <2>6. Phase'
    BY <1>1, <1>4, <2>1, <2>2 DEF Good, Phase, Busy, Silent, Turning
  <2>7. OnePending' /\ Cached'
    BY <1>1, <2>1, <2>2 DEF Good, OnePending, Cached, Accepted
  <2> QED BY <1>3, <2>4, <2>5, <2>6, <2>7 DEF Good
<1>5. CASE ~Busy
  <2> DEFINE a == [msg |-> m, try |-> 1]
  <2>1. Silent /\ Pending = {} /\ queued = <<>> /\ ~known
    BY <1>5 DEF Good, Phase, Busy
  <2>2. retries = {} /\ Asked = {} /\ opening = <<>>
    <3>1. opening \in Seq(Attempts)
      BY DEF Typed
    <3> QED BY <2>1, <3>1, NothingIn DEF Pending, Waiting
  <2>3. /\ awaiting' = TRUE /\ queued' = queued /\ a \in Attempts /\ a.msg = m /\ a.try = 1
        /\ ToSet(opening') = {a} /\ Len(opening') = 1
    <3>1. Dispatch(m) /\ queued' = queued
      BY <1>1, <1>5 DEF Send
    <3>2. awaiting' = TRUE
      BY <3>1 DEF Dispatch
    <3> QED BY <1>1, <2>2, <3>1, <3>2, DispatchTyped, InEmpty
  <2> HIDE DEF a
  <2>4. Waiting' = {a} /\ Asked' = {} /\ Pending' = {a} /\ LetGo' \subseteq LetGo \cup {m}
    BY <1>1, <2>2, <2>3 DEF Waiting, Asked, Pending, LetGo, Accepted
  <2>5. m \notin ToSet(ran) /\ m \notin told /\ \A h \in cache : h.cmd.msg # m
    BY <1>2 DEF LetGo
  <2>6. Phase'
    BY <1>1, <2>1, <2>3, <2>4 DEF Phase, Silent
  <2>7. OnePending'
    BY <1>1, <2>2, <2>3, <2>4, <2>5 DEF OnePending, Accepted
  <2>8. Numbered'
    <3>1. ToSet(queued') = {}
      BY <2>1, <2>3, InEmpty
    <3>2. \A l \in LetGo' : l <= sent'
      BY <1>1, <1>2, <2>4
    <3>3. \A l \in ToSet(ran) : l < m
      BY <1>2 DEF LetGo
    <3> QED BY <1>1, <2>3, <2>4, <2>5, <3>1, <3>2, <3>3 DEF Numbered
  <2>9. Ordered' /\ Cached'
    BY <1>1, <2>2, <2>3, <2>4, <2>5 DEF Good, Ordered, Cached, Accepted
  <2> QED BY <1>3, <2>6, <2>7, <2>8, <2>9 DEF Good
<1> QED BY <1>4, <1>5

\* A command that is no message, or is for a message that was asked for already, changes
\* only where the commands are.
LEMMA RequestOrdered ==
    ASSUME Typed, Ordered, NEW c \in Commands, Request(c), queued' = queued \/ queued' = <<>>, ran' = ran,
           Sent(c) => \A d \in ToSet(commands) \cup ToSet(toDaemon) : Sent(d) => d.msg < c.msg
    PROVE  Ordered'
<1>1. commands \in Seq(Commands) /\ toDaemon \in Seq(Commands) /\ InTurn(commands) /\ InTurn(toDaemon)
  BY DEF Typed, Ordered
<1>2. commands' = Append(commands, c) /\ (toDaemon' = Append(toDaemon, c) \/ toDaemon' = toDaemon)
  BY DEF Request
<1>3. InTurn(commands') /\ InTurn(toDaemon')
  BY <1>1, <1>2, InTurnAppend
<1>4. Increasing(<<>>)
  BY EmptySeq DEF Increasing
<1>5. Increasing(queued')
  BY <1>4 DEF Ordered
<1> QED BY <1>3, <1>5 DEF Ordered

\* interrupt: what is taken back was not on its way.
LEMMA StopGood == Typed /\ Good /\ Stop => Good'
<1> SUFFICES ASSUME Typed, Good, Stop PROVE Good'
  OBVIOUS
<1>1. /\ queued' = <<>> /\ ToSet(queued') = {}
      /\ told' = told \cup ToSet(queued) \cup {a.msg : a \in retries}
      /\ UNCHANGED <<sent, known, opening, up, toClient, turn, said, seen, cache, ran, faults, odd>>
  BY RangeIsToSet, InEmpty DEF Stop, daemon
<1>2. ToSet(queued) \subseteq Messages /\ \A k \in ToSet(queued) : k <= sent /\ \A m \in LetGo : m < k
  BY LetGoNumbers DEF Good, Numbered
<1>3. \A m \in LetGo : m <= sent /\ m \in Nat
  BY LetGoNumbers DEF Good, Numbered
<1>4. sent \in Nat
  BY DEF Typed
<1>5. CASE retries # {}
  <2>1. retries' = {} /\ awaiting' = FALSE /\ UNCHANGED <<commands, toDaemon>>
    BY <1>5 DEF Stop
  <2>2. opening = <<>> /\ Asked = {} /\ Pending # {} /\ ToSet(opening) = {}
    BY <1>5, InEmpty DEF Good, OnePending, Pending, Waiting
  <2>3. Waiting' = {} /\ Asked' = {} /\ Pending' = {}
    BY <1>1, <2>1, <2>2 DEF Waiting, Asked, Pending, Accepted
  <2>4. Silent /\ ~known
    BY <2>2 DEF Good, Phase
  <2>5. Phase'
    BY <1>1, <2>1, <2>3, <2>4 DEF Phase, Silent
  <2>6. OnePending'
    BY <1>1, <2>1, <2>2, <2>3 DEF Good, OnePending
  <2>7. LetGo' \subseteq LetGo \cup ToSet(queued)
    BY <1>1, <2>1, <2>3 DEF LetGo, Waiting
  <2>8. Numbered'
    BY <1>1, <1>2, <1>3, <2>3, <2>7 DEF Numbered
  <2>9. Ordered'
    <3>1. Increasing(<<>>)
      BY EmptySeq DEF Increasing
    <3> QED BY <1>1, <2>1, <3>1 DEF Good, Ordered
  <2>10. Delivered' /\ Replied' /\ Cached' /\ Latest(seen, ran)' /\ Owed' /\ EventsInOrder(toClient)'
    BY <1>1, <2>1, <2>3 DEF Good, Delivered, Replied, Cached, Owed, Accepted
  <2> QED BY <2>5, <2>6, <2>8, <2>9, <2>10 DEF Good
<1>6. CASE retries = {}
  <2> DEFINE c == [msg |-> 0, try |-> stops']
  <2>1. c \in Commands /\ c.msg = 0 /\ ~Sent(c)
    BY Bounds DEF Stop, Typed, Commands, Sent
  <2>2. Request(c) /\ UNCHANGED <<retries, awaiting>>
    BY <1>6 DEF Stop
  <2> HIDE DEF c
  <2>3. /\ ToSet(commands') = ToSet(commands) \cup {c}
        /\ up => ToSet(toDaemon') = ToSet(toDaemon) \cup {c}
        /\ ~up => toDaemon' = toDaemon
    BY <2>1, <2>2, RequestTyped
  <2>4. Waiting' = Waiting /\ Asked' = Asked /\ Pending' = Pending
    BY <1>1, <2>1, <2>2, <2>3 DEF Waiting, Asked, Pending, Accepted
  <2>5. LetGo' \subseteq LetGo \cup ToSet(queued) \cup {0}
    BY <1>1, <1>6, <2>1, <2>3, <2>4 DEF LetGo
  <2>6. \A a \in Pending : a.msg \in LetGo
    BY DEF Pending, Asked, LetGo
  <2>7. Phase'
    BY <1>1, <2>2, <2>4 DEF Good, Phase, Silent, Turning
  <2>8. OnePending' /\ Cached'
    BY <1>1, <2>1, <2>2, <2>3, <2>4 DEF Good, OnePending, Cached, Accepted
  <2>9. Numbered'
    <3>1. \A l \in LetGo' : l <= sent'
      BY <1>1, <1>2, <1>3, <1>4, <2>5
    <3>2. \A a \in Pending : a.msg \notin told'
      <4>1. \A a \in Pending : a.msg \notin ToSet(queued)
        BY <1>2, <1>3, <2>6
      <4> QED BY <1>1, <1>6, <4>1 DEF Good, Numbered
    <3>3. \A a \in Pending : \A m \in ToSet(ran) : m < a.msg
      BY DEF Good, Numbered
    <3> QED BY <1>1, <2>4, <3>1, <3>2, <3>3 DEF Numbered
  <2>10. Ordered'
    BY <1>1, <2>1, <2>2, RequestOrdered DEF Good
  <2>11. Delivered' /\ Replied'
    BY <1>1, <2>1, <2>3 DEF Good, Delivered, Replied, Accepted
  <2>12. Latest(seen, ran)' /\ Owed' /\ EventsInOrder(toClient)'
    BY <1>1, <2>1, <2>3 DEF Good, Owed
  <2> QED BY <2>7, <2>8, <2>9, <2>10, <2>11, <2>12 DEF Good
<1> QED BY <1>5, <1>6

\* ensureOpen is done: the one attempt becomes a command, after all that were answered for.
LEMMA OpenedGood == Typed /\ Good /\ Opened => Good'
<1> SUFFICES ASSUME Typed, Good, Opened PROVE Good'
  OBVIOUS
<1> DEFINE c == Head(opening)
<1>1. /\ opening # <<>> /\ Request(c) /\ opening' = Tail(opening)
      /\ UNCHANGED <<sent, stops, queued, awaiting, known, retries, up, toClient, turn, said, seen, cache, ran,
                     faults, told, odd>>
  BY DEF Opened, daemon
<1>2. c \in Attempts /\ c \in ToSet(opening) /\ opening' = <<>> /\ ToSet(opening) = {c} /\ ToSet(opening') = {}
  <2>1. opening \in Seq(Attempts)
    BY DEF Typed
  <2>2. /\ c \in Attempts /\ opening' \in Seq(Attempts) /\ ToSet(opening) = {c} \cup ToSet(opening')
        /\ Len(opening') = Len(opening) - 1 /\ Len(opening) \in Nat /\ Len(opening') \in Nat
    BY <1>1, <2>1, InHeadTail, HeadTailProperties, LenProperties
  <2>3. Len(opening) <= 1
    BY DEF Good, OnePending
  <2>4. opening' = <<>>
    BY <2>2, <2>3, EmptySeq
  <2> QED BY <2>2, <2>4, InEmpty
<1> HIDE DEF c
<1>3. retries = {} /\ Asked = {} /\ Waiting = {c} /\ Pending = {c} /\ ~Accepted(c.msg)
  BY <1>1, <1>2 DEF Good, OnePending, Waiting, Pending
<1>4. c \in Commands /\ Sent(c) /\ c.msg \in Nat /\ c.try \in Nat
  BY <1>2, AttemptFields
<1>5. /\ ToSet(commands') = ToSet(commands) \cup {c}
      /\ up => ToSet(toDaemon') = ToSet(toDaemon) \cup {c}
      /\ ~up => toDaemon' = toDaemon
  BY <1>1, <1>4, RequestTyped
<1>6. \A d \in ToSet(commands) : Sent(d) => Accepted(d.msg) /\ d.msg < c.msg /\ d # c
  <2>1. \A d \in ToSet(commands) : Sent(d) => Accepted(d.msg)
    BY <1>3 DEF Asked
  <2>2. \A m \in ToSet(ran) : m < c.msg
    BY <1>3 DEF Good, Numbered
  <2> QED BY <1>3, <2>1, <2>2 DEF Accepted
<1>7. Waiting' = {} /\ Asked' = {c} /\ Pending' = {c}
  BY <1>1, <1>2, <1>3, <1>4, <1>5 DEF Waiting, Asked, Pending, Accepted
<1>8. LetGo' \subseteq LetGo
  BY <1>1, <1>3, <1>5, <1>7 DEF LetGo
<1>9. Phase'
  BY <1>1, <1>3, <1>7 DEF Good, Phase, Silent, Turning
<1>10. OnePending'
  <2>1. Len(opening') <= 1 /\ retries' = {}
    <3>1. opening' = <<>>
      BY <1>2
    <3>2. Len(opening') = 0
      BY <3>1, EmptySeq
    <3>3. retries' = {}
      BY <1>1, <1>3
    <3> QED BY <3>2, <3>3
  <2> QED BY <1>7, <2>1 DEF OnePending
<1>11. Numbered'
  BY <1>1, <1>3, <1>7, <1>8, NumberedKept DEF Good
<1>12. \A d \in ToSet(toDaemon) : Sent(d) => d \in ToSet(commands)
  BY DEF Good, Delivered
<1>13. Ordered'
  BY <1>1, <1>4, <1>6, <1>12, RequestOrdered DEF Good
<1>14. Delivered'
  BY <1>1, <1>4, <1>5 DEF Good, Delivered
<1>15. Replied'
  BY <1>1, <1>4, <1>5, <1>6 DEF Good, Replied, Accepted
<1>16. Cached'
  <2>1. ASSUME NEW h \in cache, Sent(h.cmd), h.cmd.msg = c.msg PROVE h.cmd.try <= c.try
    <3>1. h.cmd.try < c.try
      BY <1>2, <2>1 DEF Good, Cached
    <3>2. h.cmd.try \in Nat
      BY <2>1, ReplyFields, CommandKinds, AttemptFields DEF Typed
    <3> QED BY <1>4, <3>1, <3>2
  <2>2. ASSUME NEW h \in cache, Sent(h.cmd), h.what # "ok"
        PROVE  ~(h.cmd \in ToSet(commands)' /\ Accepted(h.cmd.msg)')
    BY <1>1, <1>3, <1>5, <2>2 DEF Good, Cached, Accepted
  <2>3. ASSUME NEW h \in cache, Sent(h.cmd), h.what = "ok" PROVE Accepted(h.cmd.msg)'
    BY <1>1, <2>3 DEF Good, Cached, Accepted
  <2> QED BY <1>1, <1>2, <1>3, <1>7, <2>1, <2>2, <2>3 DEF Cached
<1>17. Owed'
  <2>1. ASSUME NEW i \in 1 .. Len(ran) PROVE c.msg # ran[i]
    <3>1. ran \in Seq(Messages)
      BY DEF Typed
    <3>2. ran[i] \in ToSet(ran)
      BY <3>1, InSequence
    <3> QED BY <1>3, <3>2 DEF Accepted
  <2> QED BY <1>1, <1>5, <2>1 DEF Good, Owed
<1> QED BY <1>1, <1>9, <1>10, <1>11, <1>13, <1>14, <1>15, <1>16, <1>17 DEF Good

\* The retry timer makes the next attempt of the message that waits.
LEMMA RetryTimerGood ==
    ASSUME Typed, Good, NEW a \in retries, RetryTimer(a)
    PROVE  Good'
<1> DEFINE b == [a EXCEPT !.try = @ + 1]
<1>1. /\ retries' = retries \ {a} /\ opening' = Append(opening, b)
      /\ UNCHANGED <<sent, stops, queued, awaiting, known, commands, up, toDaemon, toClient, turn, said, seen, cache,
                     ran, faults, told, odd>>
  BY DEF RetryTimer, socket, daemon
<1>2. b \in Attempts /\ b.msg = a.msg /\ b.try = a.try + 1 /\ a \in Attempts /\ a.try \in Nat
  <2>1. a \in Attempts /\ a.try < MaxTries
    BY DEF Typed
  <2> QED BY <2>1, AttemptFields
<1> HIDE DEF b
<1>3. retries = {a} /\ opening = <<>> /\ Asked = {} /\ ~Accepted(a.msg) /\ Pending # {}
  BY DEF Good, OnePending, Waiting, Pending
<1>4. retries' = {} /\ ToSet(opening') = {b} /\ Len(opening') = 1
  <2>1. opening \in Seq(Attempts) /\ Len(opening) = 0 /\ ToSet(opening) = {}
    BY <1>3, InEmpty, EmptySeq DEF Typed
  <2>2. ToSet(opening') = ToSet(opening) \cup {b}
    BY ZenonT(60), <1>1, <1>2, <2>1, InAppend
  <2>3. Len(opening') = Len(opening) + 1
    BY <1>1, <1>2, <2>1, AppendProperties
  <2>4. Len(opening') = 1
    BY <2>1, <2>3
  <2>5. retries' = {} /\ ToSet(opening') = {b}
    BY <1>1, <1>3, <2>1, <2>2
  <2> QED BY <2>4, <2>5
<1>5. Waiting' = {b} /\ Asked' = {} /\ Pending' = {b}
  BY <1>1, <1>3, <1>4 DEF Waiting, Asked, Pending, Accepted
<1>6. Waiting = {a}
  BY <1>3, InEmpty DEF Waiting
<1>7. LetGo' \subseteq LetGo
  BY <1>1, <1>2, <1>5, <1>6 DEF LetGo
<1>8. Phase'
  BY <1>1, <1>3, <1>5 DEF Good, Phase, Silent, Turning
<1>9. OnePending'
  BY <1>1, <1>2, <1>3, <1>4, <1>5 DEF OnePending, Accepted
<1>10. Numbered'
  BY <1>1, <1>2, <1>5, <1>6, <1>7 DEF Good, Numbered, Pending
<1>11. Ordered' /\ Delivered' /\ Replied' /\ Latest(seen, ran)' /\ Owed' /\ EventsInOrder(toClient)'
  BY <1>1 DEF Good, Ordered, Delivered, Replied, Owed, Accepted
<1>12. Cached'
  <2>1. ASSUME NEW h \in cache, Sent(h.cmd), h.cmd.msg = b.msg PROVE h.cmd.try < b.try
    <3>1. h.cmd.try <= a.try
      BY <1>2, <2>1 DEF Good, Cached
    <3>2. h.cmd.try \in Nat
      BY <2>1, ReplyFields, CommandKinds, AttemptFields DEF Typed
    <3> QED BY <1>2, <3>1, <3>2
  <2> QED BY <1>1, <1>4, <1>5, <2>1 DEF Good, Cached, Accepted
<1> QED BY <1>8, <1>9, <1>10, <1>11, <1>12 DEF Good

\* An event is applied: the client goes on to the next phase, and an idle thread gets the
\* next message that was queued.
LEMMA OnEventGood == Typed /\ Good /\ OnEvent => Good'
<1> SUFFICES ASSUME Typed, Good, OnEvent PROVE Good'
  OBVIOUS
<1> DEFINE e == Head(toClient).what
<1>1. /\ toClient # <<>> /\ toClient' = Tail(toClient) /\ up
      /\ UNCHANGED <<sent, stops, retries, commands, up, toDaemon, turn, said, seen, cache, ran, faults, told, odd>>
  BY DEF OnEvent, daemon
<1>2. toClient \in Seq(Frames) /\ Head(toClient) \in Frames /\ Head(toClient) \in ToSet(toClient)
  <2>1. toClient \in Seq(Frames)
    BY DEF Typed
  <2> QED BY <1>1, <2>1, InHeadTail
<1>3. e \in Kinds /\ IsEvent(Head(toClient)) /\ Has(toClient, e)
  <2>1. e \in Kinds
    BY DEF OnEvent, EventBusy, EventOver, EventIdle, Kinds
  <2> QED BY <1>2, <2>1, FrameKinds DEF Has
<1>4. /\ ToSet(toClient') \subseteq ToSet(toClient)
      /\ \A f \in ToSet(toClient) : IsReply(f) => f \in ToSet(toClient')
      /\ \A w \in Kinds : Has(toClient', w) <=> Has(toClient, w) /\ w # e
      /\ \A w \in Kinds : Has(toClient, w) => w = e \/ <<e, w>> \in Older
      /\ EventsInOrder(toClient')
      /\ OneReply(toClient) => OneReply(toClient')
      /\ \A running \in BOOLEAN : \A c \in Commands : Behind(toClient, running, c) => Behind(toClient', running, c)
  <2>1. EventsInOrder(toClient)
    BY DEF Good
  <2> QED BY <1>1, <1>2, <1>3, <2>1, EventTaken
<1>5. Delivered'
  <2>1. \A c \in Commands : Answered(toClient, c) => Answered(toClient', c)
    <3>1. ASSUME NEW c \in Commands, NEW f \in ToSet(toClient), f.cmd = c PROVE f \in ToSet(toClient')
      BY <1>4, <3>1, CommandKinds DEF IsReply
    <3> QED BY <3>1 DEF Answered
  <2> QED BY <1>1, <1>4, <2>1, LetGoNumbers DEF Good, Delivered
<1>6. Replied'
  BY <1>1, <1>4 DEF Good, Replied, Accepted
<1>7. Owed'
  <2>1. ASSUME NEW i \in 1 .. Len(ran), NEW c \in ToSet(commands), Sent(c), c.msg = ran[i]
        PROVE  Len(ran) - i <= faults /\ (Behind(toClient', turn # 0, c) \/ Len(ran) - i < faults)
    <3>1. c \in Commands
      BY LetGoNumbers
    <3>2. Len(ran) - i <= faults /\ (Behind(toClient, turn # 0, c) \/ Len(ran) - i < faults)
      BY <2>1 DEF Good, Owed
    <3>3. Behind(toClient, turn # 0, c) => Behind(toClient', turn # 0, c)
      BY <1>4, <3>1
    <3> QED BY <3>2, <3>3
  <2> QED BY <1>1, <2>1 DEF Owed
<1>8. Latest(seen, ran)'
  BY <1>1 DEF Good
<1> HIDE DEF e
<1>9. ASSUME UNCHANGED <<queued, opening>>
      PROVE  /\ OnePending' /\ Numbered' /\ Ordered' /\ Cached'
             /\ Pending' = Pending
  <2>1. Waiting' = Waiting /\ Asked' = Asked /\ Pending' = Pending /\ LetGo' = LetGo
    BY <1>1, <1>9 DEF Waiting, Asked, Pending, LetGo, Accepted
  <2> QED BY <1>1, <1>9, <2>1 DEF Good, OnePending, Numbered, Ordered, Cached, Accepted
<1>10. CASE EventBusy
  <2>1. e = "busy" /\ known' = TRUE /\ awaiting' = FALSE /\ UNCHANGED <<queued, opening>>
    BY <1>10 DEF EventBusy, e
  <2>2. awaiting /\ Turning /\ Pending = {}
    BY <1>3, <2>1 DEF Good, Phase, Silent
  <2>3. ~Has(toClient', "busy") /\ Turning'
    BY <1>1, <1>4, <2>1, <2>2 DEF Turning, Kinds
  <2>4. Phase'
    BY <1>9, <2>1, <2>2, <2>3 DEF Phase
  <2> QED BY <1>4, <1>5, <1>6, <1>7, <1>8, <1>9, <2>1, <2>4 DEF Good
<1>11. CASE EventOver
  <2>1. e = "over" /\ awaiting' = FALSE /\ UNCHANGED <<queued, known, opening>>
    BY <1>11 DEF EventOver, e
  <2>2. ~Has(toClient, "busy")
    BY <1>4, <2>1 DEF Older, Kinds
  <2>3. known /\ Turning /\ Pending = {}
    BY <1>3, <2>1, <2>2 DEF Good, Phase, Silent
  <2>4. ~Has(toClient', "busy") /\ ~Has(toClient', "over") /\ turn' = 0 /\ (said' <=> ~Has(toClient', "idle"))
    BY <1>1, <1>3, <1>4, <2>1, <2>2, <2>3 DEF Turning, Kinds
  <2>5. Phase'
    BY <1>9, <2>1, <2>3, <2>4 DEF Phase
  <2> QED BY <1>4, <1>5, <1>6, <1>7, <1>8, <1>9, <2>1, <2>5 DEF Good
<1>12. CASE EventIdle
  <2>1. /\ e = "idle" /\ known' = FALSE
        /\ IF known /\ ~awaiting /\ queued # <<>>
           THEN Dispatch(Head(queued)) /\ queued' = Tail(queued)
           ELSE UNCHANGED <<queued, awaiting, opening>>
    BY <1>12 DEF EventIdle, e
  <2>2. ~Has(toClient, "busy") /\ ~Has(toClient, "over")
    BY <1>4, <2>1 DEF Older, Kinds
  <2>3. ~awaiting /\ known /\ turn = 0 /\ ~said /\ Pending = {}
    BY <1>3, <2>1, <2>2 DEF Good, Phase, Silent, Turning
  <2>4. Silent'
    <3>1. \A w \in Kinds : ~Has(toClient', w)
      BY <1>4, <2>1, <2>2 DEF Kinds
    <3> QED BY <1>1, <2>3, <3>1 DEF Silent
  <2>5. CASE queued = <<>>
    <3>1. UNCHANGED <<queued, awaiting, opening>>
      BY <2>1, <2>5
    <3>2. Phase'
      BY <1>9, <2>1, <2>3, <2>4, <2>5, <3>1 DEF Phase
    <3> QED BY <1>4, <1>5, <1>6, <1>7, <1>8, <1>9, <3>1, <3>2 DEF Good
  <2>6. CASE queued # <<>>
    <3> DEFINE m == Head(queued) a == [msg |-> m, try |-> 1]
    <3>1. Dispatch(m) /\ queued' = Tail(queued)
      BY <2>1, <2>3, <2>6
    <3>2. /\ m \in Messages /\ m \in ToSet(queued) /\ ToSet(queued') \subseteq ToSet(queued)
          /\ \A k \in ToSet(queued') : m < k
          /\ Increasing(queued')
      <4>1. queued \in Seq(Messages) /\ Increasing(queued)
        BY DEF Typed, Good, Ordered
      <4> QED BY <2>6, <3>1, <4>1, InHeadTail, IncreasingKept
    <3>3. retries = {} /\ Asked = {} /\ opening = <<>> /\ ToSet(opening) = {}
      <4>1. opening \in Seq(Attempts)
        BY DEF Typed
      <4> QED BY <2>3, <4>1, NothingIn DEF Pending, Waiting
    <3> HIDE DEF m
    <3>4. /\ a \in Attempts /\ a.msg = m /\ a.try = 1
          /\ ToSet(opening') = {a} /\ Len(opening') = 1
      BY <3>1, <3>2, <3>3, DispatchTyped
    <3>5. awaiting' = TRUE
      BY <3>1 DEF Dispatch
    <3> HIDE DEF a
    <3>6. Waiting' = {a} /\ Asked' = {} /\ Pending' = {a} /\ LetGo' \subseteq LetGo \cup {m}
      BY <1>1, <3>3, <3>4 DEF Waiting, Asked, Pending, LetGo, Accepted
    <3>7. m <= sent /\ \A l \in LetGo : l < m
      BY <3>2 DEF Good, Numbered
    <3>8. m \notin ToSet(ran) /\ m \notin told /\ \A h \in cache : h.cmd.msg # m
      <4>1. m \notin LetGo
        <5>1. m \in Nat
          BY <3>2, LetGoNumbers
        <5> QED BY <3>7, <5>1
      <4> QED BY <4>1 DEF LetGo
    <3>9. Phase'
      BY <2>1, <2>4, <3>5, <3>6 DEF Phase
    <3>10. OnePending'
      <4>1. Len(opening') <= 1
        BY <3>4
      <4> QED BY <1>1, <3>3, <3>4, <3>6, <3>8, <4>1 DEF OnePending, Accepted
    <3>11. Numbered'
      <4>1. \A k \in ToSet(queued') : k <= sent' /\ \A l \in LetGo' : l < k
        BY <1>1, <3>2, <3>6 DEF Good, Numbered
      <4>2. \A l \in LetGo' : l <= sent'
        BY <1>1, <3>6, <3>7 DEF Good, Numbered
      <4>3. \A l \in ToSet(ran) : l < m
        BY <3>7 DEF LetGo
      <4> QED BY <1>1, <3>4, <3>6, <3>8, <4>1, <4>2, <4>3 DEF Numbered
    <3>12. Ordered' /\ Cached'
      BY <1>1, <3>2, <3>3, <3>4, <3>6, <3>8 DEF Good, Ordered, Cached, Accepted
    <3> QED BY <1>4, <1>5, <1>6, <1>7, <1>8, <3>9, <3>10, <3>11, <3>12 DEF Good
  <2> QED BY <2>5, <2>6
<1> QED BY <1>10, <1>11, <1>12 DEF OnEvent

\* A reply is taken: it is the only one for its command, and of the messages only the one
\* that was asked for can be refused.
LEMMA ReplyGood == Typed /\ Good /\ Reply => Good'
<1> SUFFICES ASSUME Typed, Good, Reply PROVE Good'
  OBVIOUS
<1>1. PICK i \in 1 .. Len(toClient) :
         LET f == toClient[i] IN
         /\ f \in Replies /\ f \in ToSet(toClient) /\ f.cmd \in Commands
         /\ Part(toClient', toClient, (1 .. Len(toClient)) \ {i})
         /\ toClient' \in Seq(Frames) /\ ToSet(toClient') \subseteq ToSet(toClient)
         /\ \A j \in 1 .. Len(toClient) : j # i => toClient[j] \in ToSet(toClient')
         /\ \A g \in ToSet(toClient') : \E j \in 1 .. Len(toClient) : j # i /\ g = toClient[j]
         /\ up /\ UNCHANGED <<sent, stops, up, toDaemon, daemon, faults, odd>>
         /\ \/ f.cmd \notin ToSet(commands) /\ UNCHANGED <<commands, session, told>>
            \/ f.cmd \in ToSet(commands) /\ Unanswered(f.cmd) /\ f.what = "ok" /\ UNCHANGED <<session, told>>
            \/ /\ f.cmd \in ToSet(commands) /\ Unanswered(f.cmd) /\ f.what = "retryable" /\ f.cmd.try < MaxTries
               /\ retries' = retries \cup {f.cmd} /\ UNCHANGED <<queued, awaiting, known, opening, told>>
            \/ /\ f.cmd \in ToSet(commands) /\ Unanswered(f.cmd) /\ f.what # "ok"
               /\ FailTurn({f.cmd.msg}) /\ UNCHANGED <<opening, retries>>
  BY ReplyCases
<1> DEFINE f == toClient[i] c == f.cmd s == toClient t == toClient'
<1>2. /\ UNCHANGED <<sent, up, toDaemon, turn, said, seen, cache, ran, faults, odd>> /\ up
      /\ t \in Seq(Frames) /\ s \in Seq(Frames) /\ ToSet(t) \subseteq ToSet(s)
      /\ \A j \in 1 .. Len(s) : j # i => s[j] \in ToSet(t)
      /\ \A g \in ToSet(t) : \E j \in 1 .. Len(s) : j # i /\ g = s[j]
      /\ f \in Replies /\ IsReply(f) /\ ~IsEvent(f) /\ f \in ToSet(s) /\ c \in Commands /\ ToSet(s) = {s[j] : j \in 1 .. Len(s)}
  <2>1. s \in Seq(Frames)
    BY DEF Typed
  <2>2. f \in Replies => IsReply(f) /\ ~IsEvent(f)
    BY ReplyFields, FrameKinds
  <2> QED BY <1>1, <2>1, <2>2, InSequence DEF daemon
<1>3. /\ \A w \in Kinds : Has(t, w) = Has(s, w)
      /\ EventsInOrder(t) /\ OneReply(t) /\ OneReply(s)
      /\ \A running \in BOOLEAN : \A d \in Commands : d # c /\ Behind(s, running, d) => Behind(t, running, d)
  <2> DEFINE at == (1 .. Len(s)) \ {i}
  <2>1. Part(t, s, at)
    BY <1>1
  <2>2. \A j \in 1 .. Len(s) : IsEvent(s[j]) => j \in at
    BY <1>2
  <2>3. EventsInOrder(s) /\ OneReply(s)
    BY DEF Good, Replied
  <2>4. \A d : d # c => \A j \in 1 .. Len(s) : s[j].cmd = d => j \in at
    OBVIOUS
  <2>5. s \in Seq(Frames)
    BY <1>2
  <2> HIDE DEF at, s, t, c, f
  <2>6. /\ \A w \in Kinds : Has(t, w) = Has(s, w)
        /\ EventsInOrder(s) => EventsInOrder(t)
        /\ OneReply(s) => OneReply(t)
        /\ \A running \in BOOLEAN : \A d :
             Behind(s, running, d) /\ (\A j \in 1 .. Len(s) : s[j].cmd = d => j \in at) => Behind(t, running, d)
    BY <2>1, <2>2, <2>5, RepliesGo
  <2> QED BY <2>3, <2>4, <2>6
<1>4. Sent(c) => c \in ToSet(commands) /\ (f.what = "ok" <=> Accepted(c.msg))
  BY <1>2 DEF Good, Replied
<1>5. ~Sent(c) => f.what = "ok"
  BY <1>2 DEF Typed
<1>6. /\ \/ c \notin ToSet(commands) /\ UNCHANGED <<commands, session, told>>
         \/ c \in ToSet(commands) /\ Unanswered(c) /\ f.what = "ok" /\ UNCHANGED <<session, told>>
         \/ /\ c \in ToSet(commands) /\ Unanswered(c) /\ f.what = "retryable" /\ c.try < MaxTries
            /\ retries' = retries \cup {c} /\ UNCHANGED <<queued, awaiting, known, opening, told>>
         \/ /\ c \in ToSet(commands) /\ Unanswered(c) /\ f.what # "ok"
            /\ FailTurn({c.msg}) /\ UNCHANGED <<opening, retries>>
  BY <1>1
<1>7. \A g \in ToSet(t) : IsReply(g) /\ Sent(g.cmd) => g.cmd # c
  <2>1. ASSUME NEW j \in 1 .. Len(s), j # i, IsReply(s[j]), Sent(s[j].cmd) PROVE s[j].cmd # c
    <3>1. s[i].cmd = s[j].cmd => j = i
      BY <1>3, <2>1 DEF OneReply
    <3> QED BY <2>1, <3>1
  <2> QED BY <1>2, <2>1
<1>8. \A d \in Commands : d # c /\ Answered(s, d) => Answered(t, d)
  BY <1>2 DEF Answered
<1> HIDE DEF f, c, s, t
<1>9. ToSet(commands') = ToSet(commands) \ {c} /\ InTurn(commands')
  <2>1. InTurn(commands)
    BY DEF Good, Ordered
  <2>2. CASE c \notin ToSet(commands) /\ UNCHANGED commands
    BY <2>1, <2>2
  <2>3. CASE Unanswered(c)
    BY <2>1, <2>3, UnansweredTyped
  <2> QED BY <1>6, <2>2, <2>3
<1>10. Delivered'
  <2>1. \A d \in ToSet(toDaemon) : Sent(d) => d \in ToSet(commands) /\ d # c
    <3>1. Sent(c) => c \notin ToSet(toDaemon)
      BY <1>2 DEF Good, Replied, s, c
    <3> QED BY <3>1 DEF Good, Delivered
  <2>2. ASSUME NEW d \in ToSet(commands'), Sent(d) PROVE d \in ToSet(toDaemon) \/ Answered(t, d)
    <3>1. d \in ToSet(commands) /\ d # c /\ d \in Commands
      BY <1>9, <2>2, LetGoNumbers
    <3>2. d \in ToSet(toDaemon) \/ Answered(s, d)
      BY <1>2, <2>2, <3>1 DEF Good, Delivered, s
    <3> QED BY <1>8, <3>1, <3>2
  <2> QED BY <1>2, <1>9, <2>1, <2>2 DEF Delivered, t
<1>11. Replied'
  BY <1>2, <1>3, <1>7, <1>9 DEF Good, Replied, Accepted, s, t
<1>12. Owed'
  <2>1. ASSUME NEW j \in 1 .. Len(ran), NEW d \in ToSet(commands'), Sent(d), d.msg = ran[j]
        PROVE  Len(ran) - j <= faults /\ (Behind(t, turn # 0, d) \/ Len(ran) - j < faults)
    <3>1. d \in Commands /\ d # c /\ d \in ToSet(commands)
      BY <1>9, <2>1, LetGoNumbers
    <3>2. Len(ran) - j <= faults /\ (Behind(s, turn # 0, d) \/ Len(ran) - j < faults)
      BY <2>1, <3>1 DEF Good, Owed, s
    <3>3. Behind(s, turn # 0, d) => Behind(t, turn # 0, d)
      BY <1>3, <3>1
    <3> QED BY <3>2, <3>3
  <2> QED BY <1>2, <2>1 DEF Owed, t
<1>13. Latest(seen, ran)' /\ EventsInOrder(toClient)'
  BY <1>2, <1>3 DEF Good, t
<1>14. /\ Silent /\ turn' = turn /\ said' = said => Silent'
       /\ \A w \in Kinds : Has(toClient, w)' = Has(toClient, w)
  BY <1>2, <1>3 DEF Silent, s, t
<1>15. CASE f.what = "ok" \/ c \notin ToSet(commands)
  <2>1. UNCHANGED <<queued, awaiting, known, opening, retries, told>>
    BY <1>6, <1>15 DEF session
  <2>2. ~Sent(c) \/ Accepted(c.msg)
    BY <1>4, <1>15
  <2>3. Waiting' = Waiting /\ Asked' = Asked /\ Pending' = Pending /\ LetGo' \subseteq LetGo
    BY <1>2, <1>9, <2>1, <2>2 DEF Waiting, Asked, Pending, LetGo, Accepted
  <2>4. Turning' <=> Turning
    BY <1>2, <1>14 DEF Turning, Kinds
  <2>5. Phase'
    BY <1>2, <1>14, <2>1, <2>3, <2>4 DEF Good, Phase, Kinds, Silent
  <2>6. OnePending' /\ Numbered' /\ Ordered'
    BY <1>2, <1>9, <2>1, <2>3, NumberedKept DEF Good, OnePending, Ordered, Accepted
  <2>7. Cached'
    BY <1>2, <1>9, <2>1, <2>3 DEF Good, Cached, Accepted
  <2> QED BY <1>10, <1>11, <1>12, <1>13, <2>5, <2>6, <2>7 DEF Good
<1>16. CASE f.what # "ok" /\ c \in ToSet(commands)
  <2>1. Sent(c) /\ ~Accepted(c.msg) /\ c \in Asked
    BY <1>4, <1>5, <1>16 DEF Asked
  <2>2. Waiting = {} /\ retries = {} /\ ToSet(opening) = {} /\ Asked = {c} /\ Pending # {}
    BY <2>1 DEF Good, OnePending, Waiting, Pending
  <2>3. awaiting /\ ~known /\ Silent
    BY <2>2 DEF Good, Phase
  <2>4. Silent'
    BY <1>2, <1>14, <2>3
  <2>5. c \in Attempts /\ c.msg \in Messages /\ c.msg \in LetGo
    BY <1>2, <1>16, <2>1, CommandKinds DEF LetGo
  <2>6. Asked' = {}
    BY <1>2, <1>9, <2>2 DEF Asked, Accepted
  <2>7. CASE retries' = retries \cup {c} /\ UNCHANGED <<queued, awaiting, known, opening, told>>
    <3>1. Waiting' = {c} /\ Pending' = {c} /\ LetGo' \subseteq LetGo
      BY <1>2, <1>9, <2>2, <2>5, <2>6, <2>7 DEF Waiting, Pending, LetGo
    <3>2. Phase'
      BY <2>3, <2>4, <2>7, <3>1 DEF Phase
    <3>3. OnePending'
      <4>1. opening = <<>> /\ Len(opening') <= 1
        <5>1. opening \in Seq(Attempts) /\ Len(opening) <= 1
          BY DEF Typed, Good, OnePending
        <5> QED BY <2>2, <2>7, <5>1, NothingIn
      <4> QED BY <1>2, <2>1, <2>2, <2>6, <2>7, <3>1, <4>1 DEF OnePending, Accepted
    <3>4. Numbered'
      <4>1. Pending' \subseteq Pending
        BY <2>2, <3>1 DEF Pending
      <4> QED BY <1>2, <2>7, <3>1, <4>1, NumberedKept DEF Good
    <3>5. Ordered'
      BY <1>2, <1>9, <2>7 DEF Good, Ordered
    <3>6. Cached'
      <4>1. \A h \in cache : Sent(h.cmd) /\ h.cmd.msg = c.msg => h.cmd.try <= c.try
        BY <2>1 DEF Good, Cached
      <4> QED BY <1>2, <1>9, <2>2, <2>6, <2>7, <4>1 DEF Good, Cached, Accepted
    <3> QED BY <1>10, <1>11, <1>12, <1>13, <3>2, <3>3, <3>4, <3>5, <3>6 DEF Good
  <2>8. CASE FailTurn({c.msg}) /\ UNCHANGED <<opening, retries>>
    <3>1. /\ awaiting' = FALSE /\ known' = FALSE /\ queued' = <<>> /\ ToSet(queued') = {}
          /\ told' = told \cup {c.msg} \cup ToSet(queued)
      BY ZenonT(60), <2>5, <2>8, FailTurnTyped, InEmpty
    <3>2. Waiting' = {} /\ Pending' = {} /\ LetGo' \subseteq LetGo \cup ToSet(queued)
      BY <1>2, <1>9, <2>2, <2>5, <2>6, <2>8, <3>1 DEF Waiting, Pending, LetGo
    <3>3. Phase'
      BY <2>4, <3>1, <3>2 DEF Phase
    <3>4. OnePending'
      BY <2>8, <3>2, <2>6 DEF Good, OnePending
    <3>5. Numbered'
      BY <1>2, <3>1, <3>2 DEF Good, Numbered
    <3>6. Ordered'
      <4>1. Increasing(<<>>)
        BY EmptySeq DEF Increasing
      <4> QED BY <1>2, <1>9, <3>1, <4>1 DEF Good, Ordered
    <3>7. Cached'
      BY <1>2, <1>9, <2>2, <2>6, <2>8 DEF Good, Cached, Accepted
    <3> QED BY <1>10, <1>11, <1>12, <1>13, <3>3, <3>4, <3>5, <3>6, <3>7 DEF Good
  <2> QED BY <1>6, <1>16, <2>7, <2>8
<1> QED BY <1>15, <1>16

\* A stop that is given up is no message; a message that is given up makes things odd.
LEMMA SilenceGood ==
    ASSUME Typed, Good, NEW c \in Range(commands), Silence(c), odd' = {}
    PROVE  Good'
<1>1. c.msg = 0 /\ ~Sent(c)
  <2>1. c.msg # 0 => "unconfirmed" \in odd'
    BY DEF Silence
  <2> QED BY <2>1 DEF Sent
<1>2. /\ faults' = faults + 1 /\ Unanswered(c)
      /\ UNCHANGED <<sent, stops, queued, awaiting, known, told, opening, retries, up, toDaemon, toClient, turn, said,
                     seen, cache, ran>>
  BY <1>1 DEF Silence, Fault, socket, daemon
<1>3. ToSet(commands') = ToSet(commands) \ {c} /\ (InTurn(commands) => InTurn(commands'))
  BY <1>2, UnansweredTyped
<1>4. Waiting' = Waiting /\ Asked' = Asked /\ Pending' = Pending /\ LetGo' \subseteq LetGo
  BY <1>1, <1>2, <1>3 DEF Waiting, Asked, Pending, LetGo, Accepted
<1>5. Phase'
  BY <1>2, <1>4 DEF Good, Phase, Silent, Turning
<1>6. OnePending' /\ Numbered' /\ Ordered'
  BY <1>2, <1>3, <1>4, NumberedKept DEF Good, OnePending, Ordered, Accepted
<1>7. Delivered' /\ Replied' /\ Cached' /\ Latest(seen, ran)' /\ EventsInOrder(toClient)'
  BY <1>1, <1>2, <1>3, <1>4 DEF Good, Delivered, Replied, Cached, Accepted
<1>8. Owed'
  <2>1. faults \in Nat /\ Len(ran) \in Nat
    BY LenProperties DEF Typed
  <2>2. ASSUME NEW i \in 1 .. Len(ran), NEW d \in ToSet(commands'), Sent(d), d.msg = ran[i]
        PROVE  Len(ran) - i < faults + 1
    <3>1. Len(ran) - i <= faults
      BY <1>3, <2>2 DEF Good, Owed
    <3> QED BY <2>1, <3>1
  <2> QED BY <1>2, <2>1, <2>2 DEF Owed
<1> QED BY <1>5, <1>6, <1>7, <1>8 DEF Good

\* The events of the end of a turn.
LEMMA EventGood ==
    ASSUME Typed, Good, NEW e \in Kinds, toClient' = Append(toClient, Event(e)), turn' = 0,
           \A w \in Kinds : Has(toClient, w) => <<w, e>> \in Older, Phase',
           UNCHANGED <<sent, queued, opening, retries, commands, up, toDaemon, seen, cache, ran, faults, told>>
    PROVE  Good'
<1>1. toClient \in Seq(Frames) /\ EventsInOrder(toClient) /\ OneReply(toClient)
  BY DEF Typed, Good, Replied
<1>2. /\ ToSet(toClient') = ToSet(toClient) \cup {Event(e)}
      /\ EventsInOrder(toClient') /\ OneReply(toClient')
      /\ \A running, then \in BOOLEAN : \A c \in Commands : Behind(toClient, running, c) => Behind(toClient', then, c)
  BY <1>1, EventAppended
<1>3. ~IsReply(Event(e)) /\ IsEvent(Event(e))
  BY EventIsFrame, FrameKinds
<1>4. Waiting' = Waiting /\ Asked' = Asked /\ Pending' = Pending /\ LetGo' = LetGo
  BY DEF Waiting, Asked, Pending, LetGo, Accepted
<1>5. OnePending' /\ Numbered' /\ Ordered' /\ Cached' /\ Latest(seen, ran)'
  BY <1>4 DEF Good, OnePending, Numbered, Ordered, Cached, Accepted
<1>6. Delivered' /\ Replied'
  BY <1>2, <1>3 DEF Good, Delivered, Replied, Answered, Accepted
<1>7. Owed'
  <2>1. ASSUME NEW i \in 1 .. Len(ran), NEW c \in ToSet(commands), Sent(c), c.msg = ran[i]
        PROVE  Len(ran) - i <= faults /\ (Behind(toClient', turn' # 0, c) \/ Len(ran) - i < faults)
    <3>1. c \in Commands
      BY LetGoNumbers
    <3>2. Len(ran) - i <= faults /\ (Behind(toClient, turn # 0, c) \/ Len(ran) - i < faults)
      BY <2>1 DEF Good, Owed
    <3>3. Behind(toClient, turn # 0, c) => Behind(toClient', turn' # 0, c)
      BY <1>2, <3>1
    <3> QED BY <3>2, <3>3
  <2> QED BY <2>1 DEF Owed
<1> QED BY <1>2, <1>5, <1>6, <1>7 DEF Good

\* The turn ends by itself, or is stopped.
LEMMA TurnOver ==
    ASSUME Typed, Good, turn # 0, turn' = 0, said' = said,
           \A w \in Kinds : Has(toClient', w) <=> Has(toClient, w) \/ w = "over",
           UNCHANGED <<queued, awaiting, known, opening, retries, commands, ran>>
    PROVE  Phase' /\ \A w \in Kinds : Has(toClient, w) => <<w, "over">> \in Older
<1>1. Turning /\ said /\ ~Has(toClient, "over") /\ ~Has(toClient, "idle") /\ Pending = {}
  BY DEF Good, Phase, Silent, Turning
<1>2. Has(toClient', "busy") <=> Has(toClient, "busy")
  BY DEF Kinds
<1>3. Turning'
  BY <1>1 DEF Turning, Kinds
<1>4. Pending' = Pending
  BY DEF Waiting, Asked, Pending, Accepted
<1>5. Phase'
  <2>1. \/ awaiting /\ ~known /\ Has(toClient, "busy")
        \/ ~awaiting /\ known /\ ~Has(toClient, "busy")
    BY <1>1 DEF Good, Phase, Silent, Turning
  <2> QED BY <1>1, <1>2, <1>3, <1>4, <2>1 DEF Phase
<1>6. \A w \in Kinds : Has(toClient, w) => <<w, "over">> \in Older
  BY <1>1 DEF Kinds, Older
<1> QED BY <1>5, <1>6

LEMMA TurnEndsGood == Typed /\ Good /\ TurnEnds => Good'
<1> SUFFICES ASSUME Typed, Good, TurnEnds PROVE Good'
  OBVIOUS
<1>1. /\ turn # 0 /\ turn' = 0 /\ toClient' = Append(toClient, Event("over"))
      /\ UNCHANGED <<sent, stops, queued, awaiting, known, opening, retries, commands, up, toDaemon, said, seen, cache,
                     ran, faults, told, odd>>
  BY DEF TurnEnds, Happens, session
<1>2. \A w \in Kinds : Has(toClient', w) <=> Has(toClient, w) \/ w = "over"
  BY <1>1, EventAppended DEF Typed, Kinds
<1>3. Phase' /\ \A w \in Kinds : Has(toClient, w) => <<w, "over">> \in Older
  BY <1>1, <1>2, TurnOver
<1> QED BY <1>1, <1>3, EventGood DEF Kinds

\* What the daemon says last of a turn: the thread is idle.
LEMMA SayIdleGood == Typed /\ Good /\ SayIdle => Good'
<1> SUFFICES ASSUME Typed, Good, SayIdle PROVE Good'
  OBVIOUS
<1>1. /\ said /\ turn = 0 /\ turn' = 0 /\ said' = FALSE /\ toClient' = Append(toClient, Event("idle"))
      /\ UNCHANGED <<sent, stops, queued, awaiting, known, opening, retries, commands, up, toDaemon, seen, cache,
                     ran, faults, told, odd>>
  BY DEF SayIdle, Happens, session
<1>2. ~Has(toClient, "idle") /\ Pending = {}
  BY <1>1 DEF Good, Phase, Silent, Turning
<1>3. toClient \in Seq(Frames) /\ "idle" \in Kinds
  BY DEF Typed, Kinds
<1>4. \A w \in Kinds : Has(toClient', w) <=> Has(toClient, w) \/ w = "idle"
  BY <1>1, <1>3, EventAppended
<1>5. Has(toClient', "idle") /\ (Has(toClient', "busy") <=> Has(toClient, "busy")) /\ (Has(toClient', "over") <=> Has(toClient, "over"))
  BY <1>4 DEF Kinds
<1>6. Pending' = Pending
  BY <1>1 DEF Waiting, Asked, Pending, Accepted
<1>7. Turning => Turning'
  BY <1>1, <1>2, <1>5 DEF Turning
<1>8. Phase'
  <2>1. \/ awaiting /\ ~known /\ Has(toClient, "busy") /\ Turning
        \/ ~awaiting /\ known /\ ~Has(toClient, "busy") /\ Turning
        \/ ~awaiting /\ known /\ ~Has(toClient, "busy") /\ ~Has(toClient, "over")
    BY <1>1, <1>2 DEF Good, Phase, Silent
  <2> QED BY <1>1, <1>2, <1>5, <1>6, <1>7, <2>1 DEF Phase
<1>9. \A w \in Kinds : Has(toClient, w) => <<w, "idle">> \in Older
  BY <1>2 DEF Kinds, Older
<1> QED BY <1>1, <1>3, <1>8, <1>9, EventGood

\* The connection breaks: what waits for a reply is owed one fault more.
LEMMA ConnectionLostGood == Typed /\ Good /\ ConnectionLost => Good'
<1> SUFFICES ASSUME Typed, Good, ConnectionLost PROVE Good'
  OBVIOUS
<1>1. /\ up' = FALSE /\ toDaemon' = <<>> /\ toClient' = Events /\ faults' = faults + 1
      /\ UNCHANGED <<sent, stops, queued, awaiting, known, opening, retries, commands, turn, said, seen, cache, ran,
                     told, odd>>
  BY DEF ConnectionLost, Breaks, Fault, session, daemon
<1> DEFINE at == {i \in DOMAIN toClient : IsEvent(toClient[i])}
<1>2. toClient \in Seq(Frames) /\ DOMAIN toClient = 1 .. Len(toClient) /\ EventsInOrder(toClient)
  <2>1. toClient \in Seq(Frames) /\ EventsInOrder(toClient)
    BY DEF Typed, Good
  <2> QED BY <2>1, LenProperties
<1>3. Part(toClient', toClient, at)
  BY <1>1, <1>2, PickedIsPart DEF Events
<1>4. \A i \in 1 .. Len(toClient) : IsEvent(toClient[i]) => i \in at
  BY <1>2
<1>5. \A i \in 1 .. Len(toClient) : i \in at => IsEvent(toClient[i])
  OBVIOUS
<1> HIDE DEF at
<1>6. /\ \A w \in Kinds : Has(toClient', w) = Has(toClient, w)
      /\ EventsInOrder(toClient') /\ toClient' \in Seq(Frames)
  BY <1>2, <1>3, <1>4, RepliesGo
<1>7. \A f \in ToSet(toClient') : IsEvent(f)
  <2>1. \A k \in 1 .. Len(toClient') : IsEvent(toClient'[k])
    BY <1>2, <1>3, <1>5, InPart
  <2>2. ToSet(toClient') = {toClient'[k] : k \in 1 .. Len(toClient')}
    BY <1>6, InSequence
  <2> QED BY <2>1, <2>2
<1>8. Waiting' = Waiting /\ Asked' = Asked /\ Pending' = Pending /\ LetGo' = LetGo
  BY <1>1 DEF Waiting, Asked, Pending, LetGo, Accepted
<1>9. Phase'
  <2>1. Turning' <=> Turning
    BY <1>1, <1>6 DEF Turning, Kinds
  <2>2. Silent' <=> Silent
    BY <1>1, <1>6 DEF Silent
  <2> QED BY <1>1, <1>6, <1>8, <2>1, <2>2 DEF Good, Phase, Kinds
<1>10. OnePending' /\ Numbered' /\ Cached' /\ Latest(seen, ran)'
  BY <1>1, <1>8 DEF Good, OnePending, Numbered, Cached, Accepted
<1>11. Ordered'
  <2>1. InTurn(<<>>)
    BY EmptySeq DEF InTurn
  <2> QED BY <1>1, <2>1 DEF Good, Ordered
<1>12. Delivered'
  BY <1>1, <1>7, InEmpty DEF Delivered
<1>13. Replied'
  <2>1. OneReply(toClient')
    <3>1. \A k \in 1 .. Len(toClient') : ~IsReply(toClient'[k])
      <4>1. ToSet(toClient') = {toClient'[k] : k \in 1 .. Len(toClient')}
        BY <1>6, InSequence
      <4> QED BY <1>7, <4>1 DEF IsEvent, IsReply
    <3> QED BY <3>1 DEF OneReply
  <2> QED BY <1>7, <2>1 DEF Replied, IsEvent, IsReply
<1>14. Owed'
  <2>1. faults \in Nat /\ Len(ran) \in Nat
    BY LenProperties DEF Typed
  <2>2. ASSUME NEW i \in 1 .. Len(ran), NEW d \in ToSet(commands), Sent(d), d.msg = ran[i]
        PROVE  Len(ran) - i < faults + 1
    <3>1. Len(ran) - i <= faults
      BY <2>2 DEF Good, Owed
    <3> QED BY <2>1, <3>1
  <2> QED BY <1>1, <2>1, <2>2 DEF Owed
<1> QED BY <1>6, <1>9, <1>10, <1>11, <1>12, <1>13, <1>14 DEF Good

\* A reconnect sends every command again that has no reply.
LEMMA ReconnectedGood == Typed /\ Good /\ Reconnected => Good'
<1> SUFFICES ASSUME Typed, Good, Reconnected PROVE Good'
  OBVIOUS
<1>1. /\ ~up /\ up' = TRUE /\ toDaemon' = commands
      /\ UNCHANGED <<sent, stops, queued, awaiting, known, opening, retries, commands, toClient, turn, said, seen,
                     cache, ran, faults, told, odd>>
  BY DEF Reconnected, session, daemon
<1>2. \A f \in ToSet(toClient) : IsEvent(f)
  BY <1>1 DEF Good, Delivered
<1>3. Delivered' /\ Replied' /\ Ordered'
  BY <1>1, <1>2 DEF Good, Delivered, Replied, Ordered, IsEvent, IsReply
<1>4. Waiting' = Waiting /\ Asked' = Asked /\ Pending' = Pending /\ LetGo' = LetGo
  BY <1>1 DEF Waiting, Asked, Pending, LetGo, Accepted
<1>5. Phase'
  BY <1>1, <1>4 DEF Good, Phase, Silent, Turning
<1>6. OnePending' /\ Numbered' /\ Cached' /\ Owed' /\ Latest(seen, ran)' /\ EventsInOrder(toClient)'
  BY <1>1, <1>4 DEF Good, OnePending, Numbered, Cached, Owed, Accepted
<1> QED BY <1>3, <1>5, <1>6 DEF Good

LEMMA CacheExpiresGood == Typed /\ Good /\ CacheExpires => Good'
<1> SUFFICES ASSUME Typed, Good, CacheExpires PROVE Good'
  OBVIOUS
<1>1. /\ cache' = {}
      /\ UNCHANGED <<sent, stops, queued, awaiting, known, opening, retries, commands, up, toDaemon, toClient, turn, said,
                     seen, ran, faults, told, odd>>
  BY DEF CacheExpires, session, socket
<1>2. Waiting' = Waiting /\ Asked' = Asked /\ Pending' = Pending /\ LetGo' \subseteq LetGo
  BY <1>1 DEF Waiting, Asked, Pending, LetGo, Accepted
<1>3. Phase'
  BY <1>1, <1>2 DEF Good, Phase, Silent, Turning
<1>4. OnePending' /\ Numbered' /\ Cached' /\ Ordered' /\ Delivered' /\ Replied'
  BY <1>1, <1>2, NumberedKept DEF Good, OnePending, Cached, Ordered, Delivered, Replied, Accepted
<1>5. Owed' /\ Latest(seen, ran)' /\ EventsInOrder(toClient)'
  BY <1>1 DEF Good, Owed
<1> QED BY <1>3, <1>4, <1>5 DEF Good

\* The command that reached the daemon: if its message was accepted, it is among the last.
LEMMA HeadCommand ==
    ASSUME MaxFaults <= SeenKept, Typed, Good, OnCommand, Sent(Head(toDaemon))
    PROVE  LET c == Head(toDaemon) IN
           /\ c \in ToSet(commands) /\ ~Answered(toClient, c) /\ c \notin ToSet(toDaemon')
           /\ Accepted(c.msg) <=> c.msg \in ToSet(seen)
           /\ ~Accepted(c.msg) =>
                /\ Asked = {c} /\ Waiting = {} /\ turn = 0 /\ ~said /\ awaiting /\ ~known /\ Silent
                /\ \A d \in ToSet(commands) : Sent(d) /\ d # c =>
                      Accepted(d.msg) /\ Answered(toClient, d) /\ ~Behind(toClient, FALSE, d)
<1> DEFINE c == Head(toDaemon)
<1>1. /\ c \in Commands /\ c \in ToSet(toDaemon) /\ toDaemon' \in Seq(Commands)
      /\ ToSet(toDaemon) = {c} \cup ToSet(toDaemon') /\ up /\ toDaemon' = Tail(toDaemon) /\ toDaemon # <<>>
      /\ c.msg \in Messages /\ c.msg \in Nat
  BY OnCommandCases, CommandKinds
<1>2. \A d \in ToSet(toDaemon') : Sent(d) => c.msg < d.msg
  BY <1>1, InTurnTail DEF Typed, Good, Ordered
<1>3. Sent(c)
  OBVIOUS
<1> HIDE DEF c
<1>4. c \in ToSet(commands) /\ c \notin ToSet(toDaemon')
  <2>1. ~(c.msg < c.msg)
    BY <1>1
  <2> QED BY <1>1, <1>2, <1>3, <2>1 DEF Good, Delivered
<1>5. ~Answered(toClient, c)
  <2>1. ASSUME NEW f \in ToSet(toClient), f.cmd = c PROVE FALSE
    <3>1. IsReply(f)
      BY <1>1, <2>1, CommandKinds DEF IsReply
    <3> QED BY <1>1, <1>3, <2>1, <3>1 DEF Good, Replied
  <2> QED BY <2>1 DEF Answered
<1>6. toClient \in Seq(Frames) /\ ToSet(toClient) = {toClient[i] : i \in 1 .. Len(toClient)} /\ ToSet(toClient) \subseteq Frames
  <2>1. toClient \in Seq(Frames)
    BY DEF Typed
  <2> QED BY <2>1, InSequence
<1>7. ran \in Seq(Messages) /\ seen \in Seq(Messages) /\ ToSet(ran) = {ran[i] : i \in 1 .. Len(ran)} /\ Latest(seen, ran)
  <2>1. ran \in Seq(Messages) /\ seen \in Seq(Messages)
    BY DEF Typed
  <2> QED BY <2>1, InSequence DEF Good
<1>8. ASSUME Accepted(c.msg) PROVE c.msg \in ToSet(seen)
  <2>1. PICK i \in 1 .. Len(ran) : ran[i] = c.msg
    BY <1>7, <1>8 DEF Accepted
  <2>2. ~Behind(toClient, turn # 0, c)
    BY <1>5, <1>6 DEF Behind, Answered
  <2>3. Len(ran) - i < faults
    BY <1>3, <1>4, <2>1, <2>2 DEF Good, Owed
  <2>4. faults <= MaxFaults /\ faults \in Nat /\ Len(ran) \in Nat
    BY LenProperties DEF Typed
  <2>5. Len(ran) - i < SeenKept
    BY <2>3, <2>4, Bounds
  <2> QED BY <1>7, <2>1, <2>5, Recent
<1>9. c.msg \in ToSet(seen) => Accepted(c.msg)
  BY <1>7, Recent DEF Accepted
<1>10. ASSUME ~Accepted(c.msg)
       PROVE  /\ Asked = {c} /\ Waiting = {} /\ turn = 0 /\ ~said /\ awaiting /\ ~known /\ Silent
              /\ \A d \in ToSet(commands) : Sent(d) /\ d # c =>
                    Accepted(d.msg) /\ Answered(toClient, d) /\ ~Behind(toClient, FALSE, d)
  <2>1. c \in Asked
    BY <1>3, <1>4, <1>10 DEF Asked
  <2>2. Asked = {c} /\ Waiting = {} /\ Pending # {}
    BY <2>1 DEF Good, OnePending, Pending
  <2>3. awaiting /\ ~known /\ Silent
    BY <2>2 DEF Good, Phase
  <2>4. \A j \in 1 .. Len(toClient) : ~IsEvent(toClient[j])
    BY <1>6, <2>3, FrameKinds DEF Silent, Has
  <2>5. ASSUME NEW d \in ToSet(commands), Sent(d), d # c
        PROVE  Accepted(d.msg) /\ Answered(toClient, d) /\ ~Behind(toClient, FALSE, d)
    <3>1. Accepted(d.msg)
      BY <2>2, <2>5 DEF Asked
    <3>2. d.msg < c.msg /\ d.msg \in Nat
      BY <2>1, <2>5, <3>1, LetGoNumbers, CommandKinds DEF Good, Numbered, Pending, Accepted
    <3>3. d \notin ToSet(toDaemon)
      BY <1>1, <1>2, <2>5, <3>2
    <3>4. Answered(toClient, d)
      BY <1>1, <2>5, <3>3 DEF Good, Delivered
    <3>5. ~Behind(toClient, FALSE, d)
      <4>1. ASSUME NEW i \in 1 .. Len(toClient), NEW j \in i + 1 .. Len(toClient) PROVE ~IsEvent(toClient[j])
        <5>1. j \in 1 .. Len(toClient)
          BY <1>6, LenProperties
        <5> QED BY <2>4, <5>1
      <4> QED BY <4>1 DEF Behind
    <3> QED BY <3>1, <3>4, <3>5
  <2> QED BY <2>2, <2>3, <2>5 DEF Silent
<1> QED BY <1>4, <1>5, <1>8, <1>9, <1>10 DEF c

\* The reply to it is behind the events that the command brought.
LEMMA ReplySent ==
    ASSUME Typed, Good, OnCommand, NEW s \in Seq(Frames), NEW f \in Replies, f.cmd = Head(toDaemon),
           toClient' = Append(s, f), EventsInOrder(s), OneReply(s), ToSet(toClient) \subseteq ToSet(s),
           \A g \in ToSet(s) : IsReply(g) => g \in ToSet(toClient),
           Sent(f.cmd) => /\ f.cmd \in ToSet(commands) /\ ~Answered(toClient, f.cmd) /\ f.cmd \notin ToSet(toDaemon')
                          /\ (f.what = "ok" <=> Accepted(f.cmd.msg)'),
           \A d \in ToSet(commands) : Sent(d) /\ Answered(toClient, d) => Accepted(d.msg)' = Accepted(d.msg)
    PROVE  Delivered' /\ Replied' /\ EventsInOrder(toClient)' /\ InTurn(toDaemon)'
<1> DEFINE c == Head(toDaemon)
<1>1. /\ c \in Commands /\ toDaemon' \in Seq(Commands) /\ ToSet(toDaemon) = {c} \cup ToSet(toDaemon')
      /\ up /\ toDaemon' = Tail(toDaemon) /\ toDaemon # <<>> /\ UNCHANGED <<commands, up>> /\ f.cmd = c
  BY OnCommandCases
<1>2. InTurn(toDaemon')
  BY <1>1, InTurnTail DEF Typed, Good, Ordered
<1> HIDE DEF c
<1>3. /\ ToSet(toClient') = ToSet(s) \cup {f} /\ EventsInOrder(toClient')
      /\ OneReply(s) /\ ~Answered(s, f.cmd) => OneReply(toClient')
  BY ReplyAppended
<1>4. IsReply(f) /\ c # Nothing
  BY <1>1, ReplyFields, CommandKinds
<1>5. Answered(s, c) => Answered(toClient, c)
  BY <1>4 DEF Answered, IsReply
<1>6. OneReply(toClient')
  <2>1. CASE Sent(c)
    BY <1>1, <1>3, <1>5, <2>1
  <2>2. CASE ~Sent(c)
    <3>1. /\ Len(toClient') = Len(s) + 1 /\ toClient'[Len(s) + 1] = f /\ \A i \in 1 .. Len(s) : toClient'[i] = s[i]
          /\ Len(s) \in Nat
      BY ReplyFields, AppendProperties, LenProperties
    <3>2. \A i \in 1 .. Len(toClient') : i \in 1 .. Len(s) \/ (i = Len(s) + 1 /\ toClient'[i].cmd = c)
      BY <1>1, <3>1
    <3> QED BY <2>2, <3>1, <3>2 DEF OneReply
  <2> QED BY <2>1, <2>2
<1>7. Delivered'
  <2>1. ASSUME NEW d \in ToSet(commands), Sent(d) PROVE d \in ToSet(toDaemon') \/ Answered(toClient', d)
    <3>1. d \in ToSet(toDaemon) \/ Answered(toClient, d)
      BY <1>1, <2>1 DEF Good, Delivered
    <3>2. Answered(toClient, d) => Answered(toClient', d)
      BY <1>3 DEF Answered
    <3>3. Answered(toClient', c)
      BY <1>1, <1>3 DEF Answered
    <3> QED BY <1>1, <3>1, <3>2, <3>3
  <2>2. \A d \in ToSet(toDaemon') : Sent(d) => d \in ToSet(commands)
    BY <1>1 DEF Good, Delivered
  <2> QED BY <1>1, <2>1, <2>2 DEF Delivered
<1>8. Replied'
  <2>1. ASSUME NEW g \in ToSet(toClient'), IsReply(g), Sent(g.cmd)
        PROVE  /\ g.cmd \in ToSet(commands) /\ g.cmd \notin ToSet(toDaemon')
               /\ (g.what = "ok" <=> Accepted(g.cmd.msg)')
    <3>1. CASE g = f
      BY <2>1, <3>1
    <3>2. CASE g # f
      <4>1. g \in ToSet(toClient)
        BY <1>3, <2>1, <3>2
      <4>2. /\ g.cmd \in ToSet(commands) /\ g.cmd \notin ToSet(toDaemon)
            /\ (g.what = "ok" <=> Accepted(g.cmd.msg))
        BY <2>1, <4>1 DEF Good, Replied
      <4>3. Accepted(g.cmd.msg)' = Accepted(g.cmd.msg)
        BY <2>1, <4>1, <4>2 DEF Answered
      <4> QED BY <1>1, <4>2, <4>3
    <3> QED BY <3>1, <3>2
  <2> QED BY <1>1, <1>6, <2>1 DEF Replied
<1> QED BY <1>2, <1>3, <1>7, <1>8

\* A reply that brings no events: the turn there is, or is not, stays as it was.
LEMMA ReplyOnlyGood ==
    ASSUME MaxFaults <= SeenKept, Typed, Good, OnCommand, NEW f \in Replies, f.cmd = Head(toDaemon),
           toClient' = Append(toClient, f), UNCHANGED <<turn, said, seen, ran>>, cache' \subseteq cache \cup {f},
           faults' \in Nat, faults' >= faults,
           Sent(f.cmd) => (f.what = "ok" <=> Accepted(f.cmd.msg))
    PROVE  Good'
<1> DEFINE c == Head(toDaemon)
<1>1. /\ c \in Commands /\ c \in ToSet(toDaemon) /\ f.cmd = c
      /\ UNCHANGED <<sent, stops, queued, awaiting, known, opening, retries, commands, up, told, odd>>
  BY OnCommandCases DEF session
<1>2. Sent(c) => /\ c \in ToSet(commands) /\ ~Answered(toClient, c) /\ c \notin ToSet(toDaemon')
                 /\ ~Accepted(c.msg) => Asked = {c} /\ Waiting = {}
  BY HeadCommand
<1>3. Sent(c) => c \in ToSet(commands)
  BY <1>2
<1>4. toClient \in Seq(Frames) /\ EventsInOrder(toClient) /\ OneReply(toClient)
  BY DEF Typed, Good, Replied
<1>5. \A m : Accepted(m)' = Accepted(m)
  BY DEF Accepted
<1>6. ~Sent(c) => c.msg = 0
  BY <1>1, CommandKinds
<1>7. Delivered' /\ Replied' /\ EventsInOrder(toClient)' /\ InTurn(toDaemon)'
  BY <1>1, <1>2, <1>4, <1>5, ReplySent
<1> HIDE DEF c
<1>8. /\ \A w \in Kinds : Has(toClient', w) = Has(toClient, w)
      /\ \A running \in BOOLEAN : \A d : Behind(toClient, running, d) => Behind(toClient', running, d)
  BY <1>4, ReplyAppended
<1>9. Waiting' = Waiting /\ Asked' = Asked /\ Pending' = Pending
  BY <1>1, <1>5 DEF Waiting, Asked, Pending
<1>10. Phase'
  <2>1. (Turning' <=> Turning) /\ (Silent' <=> Silent)
    BY <1>8 DEF Turning, Silent, Kinds
  <2> QED BY <1>1, <1>8, <1>9, <2>1 DEF Good, Phase, Kinds
<1>11. OnePending' /\ Increasing(queued)' /\ Increasing(ran)' /\ InTurn(commands)' /\ Latest(seen, ran)'
  BY <1>1, <1>5, <1>9 DEF Good, OnePending, Ordered
<1>12. Numbered'
  <2>1. \A m \in LetGo' : m \in LetGo \/ m = 0
    BY <1>1, <1>3, <1>6, <1>9 DEF LetGo
  <2>2. \A k \in ToSet(queued) : k \in Nat /\ 0 < k
    BY LetGoNumbers
  <2>3. sent >= 0 /\ sent \in Nat
    BY DEF Typed
  <2> QED BY <1>1, <1>9, <2>1, <2>2, <2>3 DEF Good, Numbered
<1>13. Cached'
  <2>1. ASSUME NEW h \in cache', Sent(h.cmd)
        PROVE  /\ h.what = "ok" => Accepted(h.cmd.msg)
               /\ h.what # "ok" => ~(h.cmd \in ToSet(commands) /\ Accepted(h.cmd.msg))
               /\ \A a \in ToSet(opening) : h.cmd.msg = a.msg => h.cmd.try < a.try
               /\ \A a \in retries : h.cmd.msg = a.msg => h.cmd.try <= a.try
               /\ \A d \in Asked : h.cmd.msg = d.msg => h.cmd.try <= d.try
    <3>1. CASE h \in cache
      BY <2>1, <3>1 DEF Good, Cached
    <3>2. CASE h = f
      <4>1. h.what = "ok" <=> Accepted(c.msg)
        BY <1>1, <2>1, <3>2
      <4>2. \A a \in Waiting : a.msg # c.msg
        BY <1>1, <1>2, <2>1, <3>2 DEF Good, OnePending
      <4>3. c.try \in Nat
        BY <1>1, <2>1, <3>2, CommandKinds, AttemptFields
      <4>4. \A d \in Asked : d.msg = c.msg => d = c
        BY <1>1, <1>2, <2>1, <3>2 DEF Asked
      <4>5. \A d \in Asked : d.msg = c.msg => c.try <= d.try
        BY <4>3, <4>4
      <4>6. h.cmd = c
        BY <1>1, <3>2
      <4> QED BY <4>1, <4>2, <4>5, <4>6 DEF Waiting
    <3> QED BY <2>1, <3>1, <3>2
  <2> QED BY <1>1, <1>5, <1>9, <2>1 DEF Cached
<1>14. Owed'
  <2>1. faults \in Nat /\ Len(ran) \in Nat
    BY LenProperties DEF Typed
  <2>2. ASSUME NEW i \in 1 .. Len(ran), NEW d \in ToSet(commands), Sent(d), d.msg = ran[i]
        PROVE  Len(ran) - i <= faults' /\ (Behind(toClient', turn # 0, d) \/ Len(ran) - i < faults')
    <3>1. Len(ran) - i <= faults /\ (Behind(toClient, turn # 0, d) \/ Len(ran) - i < faults)
      BY <2>2 DEF Good, Owed
    <3>2. Behind(toClient, turn # 0, d) => Behind(toClient', turn # 0, d)
      BY <1>8
    <3> QED BY <2>1, <3>1, <3>2
  <2> QED BY <1>1, <2>2 DEF Owed
<1>15. Ordered'
  BY <1>7, <1>11 DEF Ordered
<1> QED BY <1>7, <1>10, <1>11, <1>12, <1>13, <1>14, <1>15 DEF Good

\* The reply is remembered, or the message is not accepted.
LEMMA HitGood == MaxFaults <= SeenKept /\ Typed /\ Good /\ OnCommand /\ Hit(Head(toDaemon)) => Good'
<1> SUFFICES ASSUME MaxFaults <= SeenKept, Typed, Good, OnCommand, Hit(Head(toDaemon)) PROVE Good'
  OBVIOUS
<1> DEFINE c == Head(toDaemon)
<1>1. PICK h \in cache : h.cmd = c /\ toClient' = Append(toClient, h)
  BY DEF Hit
<1>2. UNCHANGED <<cache, turn, said, seen, ran, faults>>
  BY DEF Hit
<1>3. h \in Replies /\ faults \in Nat
  BY DEF Typed
<1>4. ASSUME Sent(c) PROVE h.what = "ok" <=> Accepted(c.msg)
  <2>1. c \in ToSet(commands)
    BY <1>4, HeadCommand
  <2> QED BY <1>1, <1>4, <2>1 DEF Good, Cached
<1> QED BY <1>1, <1>2, <1>3, <1>4, ReplyOnlyGood

LEMMA NotAcceptedGood ==
    ASSUME MaxFaults <= SeenKept, Typed, Good, OnCommand, NEW r \in {"ok", "conflict", "retryable"},
           NotAccepted(Head(toDaemon), r)
    PROVE  Good'
<1> DEFINE c == Head(toDaemon) f == [what |-> r, cmd |-> c]
<1>1. /\ Sent(c) /\ cache' = cache \cup {f} /\ UNCHANGED <<turn, said, seen, ran>> /\ toClient' = Append(toClient, f)
      /\ \/ r = "ok" /\ c.msg \in ToSet(seen) /\ faults' = faults
         \/ r = "conflict" /\ c.msg \notin ToSet(seen) /\ faults' = faults
         \/ r = "retryable" /\ c.msg \notin ToSet(seen) /\ faults' = faults + 1
  BY DEF NotAccepted, Answer, Fault
<1>2. f \in Replies /\ f.what = r /\ f.cmd = c
  BY OnCommandCases, ReplyFields
<1>3. Accepted(c.msg) <=> c.msg \in ToSet(seen)
  BY <1>1, HeadCommand
<1>4. r = "ok" <=> Accepted(c.msg)
  BY <1>1, <1>3
<1>5. faults' \in Nat /\ faults' >= faults
  <2>1. faults \in Nat
    BY DEF Typed
  <2>2. faults' = faults \/ faults' = faults + 1
    BY <1>1
  <2> QED BY <2>1, <2>2
<1> HIDE DEF c, f
<1>6. f.cmd = Head(toDaemon)
  BY <1>2 DEF c
<1> QED BY <1>1, <1>2, <1>4, <1>5, <1>6, ReplyOnlyGood

\* A stop that found no turn is a reply like another; otherwise the turn is over.
LEMMA StoppedGood == MaxFaults <= SeenKept /\ Typed /\ Good /\ OnCommand /\ Stopped(Head(toDaemon)) => Good'
<1> SUFFICES ASSUME MaxFaults <= SeenKept, Typed, Good, OnCommand, Stopped(Head(toDaemon)) PROVE Good'
  OBVIOUS
<1> DEFINE c == Head(toDaemon) f == [what |-> "ok", cmd |-> c] s == Append(toClient, Event("over"))
<1>1. /\ ~Sent(c) /\ cache' = cache \cup {f} /\ turn' = 0 /\ UNCHANGED <<said, seen, ran, faults>>
      /\ toClient' = Append(IF turn # 0 THEN s ELSE toClient, f)
  BY DEF Stopped, Answer
<1>2. f \in Replies /\ f.what = "ok" /\ f.cmd = c
  BY OnCommandCases, ReplyFields
<1>3. /\ c \in Commands /\ c.msg = 0
      /\ UNCHANGED <<sent, stops, queued, awaiting, known, opening, retries, commands, up, told, odd>>
  BY <1>1, OnCommandCases, CommandKinds DEF session
<1>4. faults \in Nat
  BY DEF Typed
<1> HIDE DEF f, s
<1>5. CASE turn = 0
  BY <1>1, <1>2, <1>4, <1>5, ReplyOnlyGood
<1>6. CASE turn # 0
  <2>1. toClient \in Seq(Frames) /\ EventsInOrder(toClient) /\ OneReply(toClient) /\ "over" \in Kinds
    BY DEF Typed, Good, Replied, Kinds
  <2>2. /\ s \in Seq(Frames) /\ ToSet(s) = ToSet(toClient) \cup {Event("over")}
        /\ \A w \in Kinds : Has(s, w) <=> Has(toClient, w) \/ w = "over"
        /\ (\A w \in Kinds : Has(toClient, w) => <<w, "over">> \in Older) => EventsInOrder(s)
        /\ OneReply(s)
        /\ \A running, then \in BOOLEAN : \A d \in Commands : Behind(toClient, running, d) => Behind(s, then, d)
    BY <2>1, EventAppended DEF s
  <2>3. toClient' = Append(s, f)
    BY <1>1, <1>6
  <2>4. /\ \A w \in Kinds : Has(toClient', w) = Has(s, w)
        /\ \A running \in BOOLEAN : \A d : Behind(s, running, d) => Behind(toClient', running, d)
    BY <1>2, <2>2, <2>3, ReplyAppended
  <2>5. \A w \in Kinds : Has(toClient', w) <=> Has(toClient, w) \/ w = "over"
    BY <2>2, <2>4
  <2>6. Phase' /\ \A w \in Kinds : Has(toClient, w) => <<w, "over">> \in Older
    BY <1>1, <1>3, <1>6, <2>5, TurnOver
  <2>7. EventsInOrder(s)
    BY <2>2, <2>6
  <2>8. \A g \in ToSet(s) : IsReply(g) => g \in ToSet(toClient)
    <3>1. ~IsReply(Event("over"))
      BY <2>1, EventIsFrame, FrameKinds
    <3> QED BY <2>2, <3>1
  <2>9. \A m : Accepted(m)' = Accepted(m)
    BY <1>1 DEF Accepted
  <2>10. ToSet(toClient) \subseteq ToSet(s)
    BY <2>2
  <2>11. Delivered' /\ Replied' /\ EventsInOrder(toClient)' /\ InTurn(toDaemon)'
    BY <1>1, <1>2, <2>2, <2>3, <2>7, <2>8, <2>9, <2>10, ReplySent
  <2> HIDE DEF c
  <2>12. Waiting' = Waiting /\ Asked' = Asked /\ Pending' = Pending
    BY <1>3, <2>9 DEF Waiting, Asked, Pending
  <2>13. OnePending' /\ Ordered' /\ Latest(seen, ran)'
    BY <1>1, <1>3, <2>9, <2>11, <2>12 DEF Good, OnePending, Ordered
  <2>14. Numbered'
    <3>1. \A m \in LetGo' : m \in LetGo \/ m = 0
      BY <1>1, <1>2, <1>3, <2>12 DEF LetGo
    <3>2. \A k \in ToSet(queued) : k \in Nat /\ 0 < k
      BY LetGoNumbers
    <3>3. sent >= 0 /\ sent \in Nat
      BY DEF Typed
    <3> QED BY <1>1, <1>3, <2>12, <3>1, <3>2, <3>3 DEF Good, Numbered
  <2>15. Cached'
    <3>1. \A h \in cache' : Sent(h.cmd) => h \in cache
      BY <1>1, <1>2
    <3> QED BY <1>3, <2>9, <2>12, <3>1 DEF Good, Cached
  <2>16. Owed'
    <3>1. ASSUME NEW i \in 1 .. Len(ran), NEW d \in ToSet(commands), Sent(d), d.msg = ran[i]
          PROVE  Len(ran) - i <= faults /\ (Behind(toClient', turn' # 0, d) \/ Len(ran) - i < faults)
      <4>1. Len(ran) - i <= faults /\ (Behind(toClient, turn # 0, d) \/ Len(ran) - i < faults)
        BY <3>1 DEF Good, Owed
      <4>2. d \in Commands
        BY LetGoNumbers
      <4>3. Behind(toClient, turn # 0, d) => Behind(toClient', turn' # 0, d)
        BY <2>2, <2>4, <4>2
      <4> QED BY <4>1, <4>3
    <3> QED BY <1>1, <1>3, <3>1 DEF Owed
  <2> QED BY <2>6, <2>11, <2>13, <2>14, <2>15, <2>16 DEF Good
<1> QED BY <1>5, <1>6

\* A message is accepted: it is the one the client asks for, and it knew of the end of the last turn.
LEMMA AcceptsGood == MaxFaults <= SeenKept /\ Typed /\ Good /\ OnCommand /\ Accepts(Head(toDaemon)) => Good'
<1> SUFFICES ASSUME MaxFaults <= SeenKept, Typed, Good, OnCommand, Accepts(Head(toDaemon)) PROVE Good'
  OBVIOUS
<1>0. PICK c \in Commands : c = Head(toDaemon)
  BY OnCommandCases
<1> DEFINE f == [what |-> "ok", cmd |-> c] s == Append(toClient, Event("busy")) m == c.msg
<1>1. /\ Sent(c) /\ cache' = cache \cup {f} /\ ~(\E h \in cache : h.cmd = c) /\ turn = 0 /\ m \notin ToSet(seen)
      /\ Accept(m) /\ UNCHANGED faults
      /\ toClient' = Append(IF ~said THEN s ELSE toClient, f)
  BY <1>0 DEF Accepts, Answer
<1>2. f \in Replies /\ f.what = "ok" /\ f.cmd = c
  BY ReplyFields
<1>3. /\ c \in Commands /\ m \in Messages /\ m \in Nat /\ m # 0
      /\ UNCHANGED <<sent, stops, queued, awaiting, known, opening, retries, commands, up, told, odd>>
  BY <1>1, OnCommandCases, CommandKinds DEF session, Sent
<1>4. /\ c \in ToSet(commands) /\ ~Answered(toClient, c) /\ c \notin ToSet(toDaemon')
      /\ Accepted(m) <=> m \in ToSet(seen)
      /\ ~Accepted(m) =>
           /\ Asked = {c} /\ Waiting = {} /\ turn = 0 /\ ~said /\ awaiting /\ ~known /\ Silent
           /\ \A d \in ToSet(commands) : Sent(d) /\ d # c =>
                 Accepted(d.msg) /\ Answered(toClient, d) /\ ~Behind(toClient, FALSE, d)
  BY <1>0, <1>1, HeadCommand
<1>5. /\ ~Accepted(m) /\ Asked = {c} /\ Waiting = {} /\ ~said /\ awaiting /\ ~known /\ Silent
      /\ \A d \in ToSet(commands) : Sent(d) /\ d # c =>
            Accepted(d.msg) /\ Answered(toClient, d) /\ ~Behind(toClient, FALSE, d)
  BY <1>1, <1>4
<1> HIDE DEF f, s
<1>6. /\ turn' = m /\ said' = TRUE /\ ran' = Append(ran, m) /\ toClient' = Append(s, f)
      /\ seen' = IF Len(seen) = SeenKept THEN Append(Tail(seen), m) ELSE Append(seen, m)
  BY <1>1, <1>5 DEF Accept
<1>7. /\ ran \in Seq(Messages) /\ seen \in Seq(Messages) /\ Latest(seen, ran) /\ Increasing(ran)
      /\ toClient \in Seq(Frames) /\ EventsInOrder(toClient) /\ OneReply(toClient) /\ "busy" \in Kinds
  BY DEF Typed, Good, Ordered, Replied, Kinds
<1>8. /\ ToSet(ran') = ToSet(ran) \cup {m} /\ Len(ran') = Len(ran) + 1 /\ ran'[Len(ran) + 1] = m
      /\ \A i \in 1 .. Len(ran) : ran'[i] = ran[i]
      /\ Len(ran) \in Nat
  BY <1>3, <1>6, <1>7, InAppend, AppendProperties, LenProperties
<1>9. \A k : Accepted(k)' <=> Accepted(k) \/ k = m
  BY <1>8 DEF Accepted
<1>10. \A k \in ToSet(ran) : k < m
  BY <1>5 DEF Good, Numbered, Pending
<1>11. Latest(seen, ran)' /\ Increasing(ran)'
  BY <1>3, <1>6, <1>7, <1>10, LatestAppended, IncreasingKept
<1>12. /\ s \in Seq(Frames) /\ ToSet(s) = ToSet(toClient) \cup {Event("busy")}
       /\ \A w \in Kinds : Has(s, w) <=> w = "busy"
       /\ EventsInOrder(s) /\ OneReply(s)
       /\ \A g \in ToSet(s) : IsReply(g) => g \in ToSet(toClient)
  <2>1. /\ s \in Seq(Frames) /\ ToSet(s) = ToSet(toClient) \cup {Event("busy")}
        /\ \A w \in Kinds : Has(s, w) <=> Has(toClient, w) \/ w = "busy"
        /\ EventsInOrder(toClient) /\ (\A w \in Kinds : Has(toClient, w) => <<w, "busy">> \in Older) => EventsInOrder(s)
        /\ OneReply(toClient) => OneReply(s)
    BY <1>7, EventAppended DEF s
  <2>2. \A w \in Kinds : ~Has(toClient, w)
    BY <1>5 DEF Silent
  <2>3. ~IsReply(Event("busy"))
    BY <1>7, EventIsFrame, FrameKinds
  <2> QED BY <1>7, <2>1, <2>2, <2>3
<1>13. /\ \A w \in Kinds : Has(toClient', w) <=> w = "busy"
       /\ \A d : Answered(toClient', d) => Behind(toClient', TRUE, d)
       /\ ToSet(toClient') = ToSet(s) \cup {f}
  BY <1>2, <1>6, <1>12, ReplyAppended
<1>14. \A d \in ToSet(commands) : Sent(d) /\ Answered(toClient, d) => Accepted(d.msg)' = Accepted(d.msg)
  <2>1. ASSUME NEW d \in ToSet(commands), Sent(d), Answered(toClient, d) PROVE Accepted(d.msg)' = Accepted(d.msg)
    <3>1. d # c
      BY <1>4, <2>1
    <3>2. Accepted(d.msg)
      BY <1>5, <2>1, <3>1
    <3> QED BY <1>9, <3>2
  <2> QED BY <2>1
<1>15. Accepted(m)' /\ ToSet(toClient) \subseteq ToSet(s)
  BY <1>9, <1>12
<1>16. Sent(f.cmd) => /\ f.cmd \in ToSet(commands) /\ ~Answered(toClient, f.cmd) /\ f.cmd \notin ToSet(toDaemon')
                      /\ (f.what = "ok" <=> Accepted(f.cmd.msg)')
  BY <1>2, <1>4, <1>15
<1>17. Delivered' /\ Replied' /\ EventsInOrder(toClient)' /\ InTurn(toDaemon)'
  BY <1>0, <1>2, <1>6, <1>12, <1>14, <1>15, <1>16, ReplySent
<1> HIDE DEF m
<1>18. Waiting' = {} /\ Asked' = {} /\ Pending' = {}
  <2>1. Waiting' = Waiting
    BY <1>3 DEF Waiting
  <2>2. \A d \in ToSet(commands) : Sent(d) => Accepted(d.msg)'
    BY <1>5, <1>9 DEF m
  <2> QED BY <1>3, <1>5, <2>1, <2>2 DEF Asked, Pending
<1>19. Phase'
  <2>1. turn' # 0
    BY <1>3, <1>6
  <2>2. Turning'
    BY <1>6, <1>13, <2>1 DEF Turning, Kinds
  <2> QED BY <1>3, <1>5, <1>7, <1>13, <1>18, <2>2 DEF Phase
<1>20. OnePending'
  BY <1>3, <1>18 DEF Good, OnePending, Waiting
<1>21. Ordered'
  BY <1>3, <1>11, <1>17 DEF Good, Ordered
<1>22. Numbered'
  <2>1. m \in LetGo
    BY <1>4 DEF LetGo, m
  <2>2. LetGo' \subseteq LetGo
    BY <1>1, <1>2, <1>3, <1>5, <1>8, <1>18, <2>1 DEF LetGo, m
  <2> QED BY <1>3, <1>18, <2>2 DEF Good, Numbered
<1>23. Cached'
  <2>1. ASSUME NEW h \in cache', Sent(h.cmd)
        PROVE  /\ h.what = "ok" => Accepted(h.cmd.msg)'
               /\ h.what # "ok" => ~(h.cmd \in ToSet(commands) /\ Accepted(h.cmd.msg)')
    <3>1. CASE h = f
      BY <1>2, <1>15, <3>1 DEF m
    <3>2. CASE h \in cache
      <4>1. /\ h.what = "ok" => Accepted(h.cmd.msg)
            /\ h.what # "ok" => ~(h.cmd \in ToSet(commands) /\ Accepted(h.cmd.msg))
        BY <2>1, <3>2 DEF Good, Cached
      <4>2. h.cmd # c
        BY <1>1, <3>2
      <4>3. h.cmd \in ToSet(commands) => Accepted(h.cmd.msg)
        BY <1>5, <2>1, <4>2
      <4> QED BY <1>9, <4>1, <4>3
    <3> QED BY <1>1, <2>1, <3>1, <3>2
  <2>2. ToSet(opening') = {} /\ retries' = {}
    BY <1>18 DEF Waiting
  <2> QED BY <1>3, <1>18, <2>1, <2>2 DEF Cached
<1>24. Owed'
  <2>1. faults \in Nat
    BY DEF Typed
  <2>2. ASSUME NEW i \in 1 .. Len(ran'), NEW d \in ToSet(commands), Sent(d), d.msg = ran'[i]
        PROVE  Len(ran') - i <= faults /\ Behind(toClient', turn' # 0, d)
    <3>1. Answered(toClient', d)
      <4>1. CASE d = c
        BY <1>2, <1>13, <4>1 DEF Answered
      <4>2. CASE d # c
        BY <1>5, <1>12, <1>13, <2>2, <4>2 DEF Answered
      <4> QED BY <4>1, <4>2
    <3>2. (turn' # 0) = TRUE
      BY <1>3, <1>6
    <3>3. Behind(toClient', turn' # 0, d)
      BY <1>13, <3>1, <3>2
    <3>4. CASE i = Len(ran')
      BY <1>8, <2>1, <3>3, <3>4
    <3>5. CASE i # Len(ran')
      <4>1. i \in 1 .. Len(ran) /\ ran'[i] = ran[i]
        BY <1>8, <3>5
      <4>2. Len(ran) - i <= faults /\ (Behind(toClient, turn # 0, d) \/ Len(ran) - i < faults)
        BY <2>2, <4>1 DEF Good, Owed
      <4>3. d # c
        <5>1. ran[i] \in ToSet(ran)
          BY <1>7, <4>1, InSequence
        <5> QED BY <1>5, <2>2, <4>1, <5>1 DEF Accepted, m
      <4>4. (turn # 0) = FALSE
        BY <1>1
      <4>5. ~Behind(toClient, turn # 0, d)
        BY <1>5, <2>2, <4>3, <4>4
      <4>6. Len(ran) - i < faults
        BY <4>2, <4>5
      <4>7. Len(ran') - i <= faults
        BY <1>8, <2>1, <4>1, <4>6
      <4> QED BY <3>3, <4>7
    <3> QED BY <3>4, <3>5
  <2> QED BY <1>1, <1>3, <2>2 DEF Owed
<1> QED BY <1>11, <1>17, <1>19, <1>20, <1>21, <1>22, <1>23, <1>24 DEF Good

LEMMA OnCommandGood == MaxFaults <= SeenKept /\ Typed /\ Good /\ OnCommand => Good'
BY OnCommandCases, HitGood, StoppedGood, NotAcceptedGood, AcceptsGood

\* Nothing that went wrong is forgotten; what starts a turn is a command.
LEMMA OnlyCommandsRun ==
    ASSUME Typed, [Next]_vars
    PROVE  /\ odd' = {} => odd = {}
           /\ DaemonRestarts => odd' # {}
           /\ ran' = ran \/ OnCommand
<1> USE DEF session, socket, daemon
<1>1. ASSUME Send \/ Stop \/ Opened \/ (\E a \in retries : RetryTimer(a)) PROVE ran' = ran /\ (odd' = {} => odd = {})
  BY <1>1 DEF Send, Stop, Opened, RetryTimer
<1>2. ASSUME Reply \/ OnEvent PROVE ran' = ran /\ (odd' = {} => odd = {})
  BY <1>2 DEF Reply, OnEvent
<1>3. ASSUME \E c \in Range(commands) : Silence(c) PROVE ran' = ran /\ (odd' = {} => odd = {})
  BY <1>3 DEF Silence
<1>4. ASSUME TurnEnds \/ SayIdle PROVE ran' = ran /\ (odd' = {} => odd = {})
  BY <1>4 DEF TurnEnds, SayIdle
<1>5. ASSUME OnCommand PROVE odd' = {} => odd = {}
  BY <1>5 DEF OnCommand
<1>6. ASSUME ConnectionLost \/ Reconnected \/ CacheExpires \/ DaemonRestarts PROVE ran' = ran /\ (odd' = {} => odd = {})
  BY <1>6 DEF ConnectionLost, Reconnected, CacheExpires, DaemonRestarts
<1>7. ASSUME UNCHANGED vars PROVE ran' = ran /\ (odd' = {} => odd = {})
  BY <1>7 DEF vars
<1>8. DaemonRestarts => odd' # {}
  <2>1. DaemonRestarts => "restarted" \in odd'
    BY DEF DaemonRestarts
  <2> QED BY <2>1
<1>9. (odd' = {} => odd = {}) /\ (ran' = ran \/ OnCommand)
  BY <1>1, <1>2, <1>3, <1>4, <1>5, <1>6, <1>7 DEF Next, Client
<1> QED BY <1>8, <1>9

LEMMA NextGood ==
    ASSUME MaxFaults <= SeenKept, Typed, odd = {} => Good, [Next]_vars
    PROVE  (odd = {} => Good)'
<1> SUFFICES ASSUME odd' = {} PROVE Good'
  OBVIOUS
<1>1. Good /\ ~DaemonRestarts
  BY OnlyCommandsRun
<1>2. CASE Send \/ Stop
  BY <1>1, <1>2, SendGood, StopGood
<1>3. CASE Opened \/ Reply \/ OnEvent
  BY <1>1, <1>3, OpenedGood, ReplyGood, OnEventGood
<1>4. CASE \E a \in retries : RetryTimer(a)
  BY <1>1, <1>4, RetryTimerGood
<1>5. CASE \E c \in Range(commands) : Silence(c)
  BY <1>1, <1>5, SilenceGood
<1>6. CASE OnCommand \/ TurnEnds \/ SayIdle
  BY <1>1, <1>6, OnCommandGood, TurnEndsGood, SayIdleGood
<1>7. CASE ConnectionLost \/ Reconnected \/ CacheExpires
  BY <1>1, <1>7, ConnectionLostGood, ReconnectedGood, CacheExpiresGood
<1>8. CASE UNCHANGED vars
  <2>1. Good' <=> Good
    BY <1>8 DEF vars, Good, Phase, Silent, Turning, OnePending, Numbered, Ordered, Delivered, Replied, Cached, Owed,
                LetGo, Pending, Waiting, Asked, Accepted
  <2> QED BY <1>1, <2>1
<1> QED BY <1>1, <1>2, <1>3, <1>4, <1>5, <1>6, <1>7, <1>8 DEF Next, Client

-----------------------------------------------------------------------------
(* Types in full: a message is in one place of the client at a time, also when *)
(* sends are given up and the daemon restarts.                                 *)

\* No command twice, and no two attempts of one message.
Once(s) == \A i, j \in 1 .. Len(s) : s[i] = s[j] \/ (Sent(s[i]) /\ s[i].msg = s[j].msg) => i = j

Used ==
    {c.msg : c \in ToSet(opening) \cup retries \cup ToSet(commands) \cup ToSet(toDaemon)}
        \cup ToSet(queued) \cup ToSet(ran) \cup ToSet(seen) \cup told \cup {turn}

OnePlace ==
    /\ Increasing(queued) /\ Once(opening) /\ Once(commands) /\ \A a, b \in retries : a.msg = b.msg => a = b
    /\ \A a \in ToSet(opening) : \A b \in retries \cup ToSet(commands) : a.msg # b.msg
    /\ \A a \in retries : \A c \in ToSet(commands) : a.msg # c.msg
    /\ \A k \in ToSet(queued) : \A a \in ToSet(opening) \cup retries \cup ToSet(commands) : a.msg # k
    /\ \A c \in ToSet(commands) : ~Sent(c) => c.try <= stops

Limits == (\A k \in Used : k <= sent) /\ Len(seen) <= SeenKept

LEMMA OnceKept ==
    ASSUME NEW s \in Seq(Commands), Once(s)
    PROVE  /\ \A c, d \in ToSet(s) : Sent(c) /\ c.msg = d.msg => c = d
           /\ \A c \in Commands : c \notin ToSet(s) /\ (\A d \in ToSet(s) : Sent(c) => d.msg # c.msg)
                => Once(Append(s, c))
           /\ \A r, at : Part(r, s, at) => Once(r)
<1>1. Len(s) \in Nat /\ ToSet(s) = {s[i] : i \in 1 .. Len(s)} /\ ToSet(s) \subseteq Commands
  BY LenProperties, InSequence
<1>2. \A c, d \in ToSet(s) : Sent(c) /\ c.msg = d.msg => c = d
  BY <1>1 DEF Once
<1>3. ASSUME NEW c \in Commands, c \notin ToSet(s), \A d \in ToSet(s) : Sent(c) => d.msg # c.msg
      PROVE  Once(Append(s, c))
  <2> DEFINE t == Append(s, c)
  <2>1. /\ Len(t) = Len(s) + 1 /\ t[Len(s) + 1] = c
        /\ \A i \in 1 .. Len(s) : t[i] = s[i] /\ s[i] \in ToSet(s)
    BY <1>1, AppendProperties
  <2> HIDE DEF t
  <2>2. \A i \in 1 .. Len(t) : i \in 1 .. Len(s) \/ i = Len(s) + 1
    BY <1>1, <2>1
  <2>3. \A d \in ToSet(s) : Sent(d) => d.msg # c.msg
    BY <1>3 DEF Sent
  <2>4. ASSUME NEW i \in 1 .. Len(t), NEW j \in 1 .. Len(t), t[i] = t[j] \/ (Sent(t[i]) /\ t[i].msg = t[j].msg)
        PROVE  i = j
    <3>1. CASE i \in 1 .. Len(s) /\ j \in 1 .. Len(s)
      BY <2>1, <2>4, <3>1, <1>3 DEF Once
    <3>2. CASE i = Len(s) + 1 /\ j \in 1 .. Len(s)
      BY <1>3, <2>1, <2>4, <3>2
    <3>3. CASE i \in 1 .. Len(s) /\ j = Len(s) + 1
      BY <1>3, <2>1, <2>3, <2>4, <3>3
    <3> QED BY <2>2, <3>1, <3>2, <3>3
  <2>5. Once(t)
    BY <2>4 DEF Once
  <2> QED BY <2>5 DEF t
<1>4. ASSUME NEW r, NEW at, Part(r, s, at) PROVE Once(r)
  <2>1. PICK f : PickedSoFar(f, r, s, at, Len(s))
    BY <1>4 DEF Part
  <2>2. /\ \A i \in 1 .. Len(r) : f[i] \in 1 .. Len(s) /\ r[i] = s[f[i]]
        /\ \A i, j \in 1 .. Len(r) : i < j => f[i] < f[j]
        /\ Len(r) \in Nat
    BY <2>1, LenProperties DEF PickedSoFar
  <2>3. ASSUME NEW i \in 1 .. Len(r), NEW j \in 1 .. Len(r), f[i] = f[j] PROVE i = j
    <3>1. ~(f[i] < f[j]) /\ ~(f[j] < f[i])
      BY <1>1, <2>2, <2>3
    <3> QED BY <2>2, <3>1
  <2> QED BY <2>2, <2>3 DEF Once
<1> QED BY <1>2, <1>3, <1>4

LEMMA InitPlaces == Init => OnePlace /\ Limits
<1> SUFFICES ASSUME Init PROVE OnePlace /\ Limits
  OBVIOUS
<1>1. ToSet(<<>>) = {} /\ Len(<<>>) = 0
  BY InEmpty, EmptySeq
<1>2. OnePlace
  BY <1>1 DEF Init, OnePlace, Increasing, Once
<1>3. Used = {0}
  BY <1>1 DEF Init, Used
<1> QED BY <1>1, <1>2, <1>3, Bounds DEF Init, Limits

LEMMA UsedNumbers ==
    ASSUME Typed
    PROVE  /\ \A k \in Used : k \in Nat
           /\ sent \in Nat /\ ToSet(queued) \subseteq Messages
           /\ ToSet(opening) \subseteq Attempts /\ ToSet(commands) \subseteq Commands /\ ToSet(toDaemon) \subseteq Commands
           /\ retries \subseteq Attempts /\ opening \in Seq(Commands)
<1>1. /\ ToSet(queued) \subseteq Messages /\ ToSet(ran) \subseteq Messages /\ ToSet(seen) \subseteq Messages
      /\ ToSet(opening) \subseteq Attempts /\ ToSet(commands) \subseteq Commands /\ ToSet(toDaemon) \subseteq Commands
      /\ retries \subseteq Attempts /\ told \subseteq Messages /\ turn \in Messages \cup {0} /\ sent \in Nat
  <2>1. /\ queued \in Seq(Messages) /\ ran \in Seq(Messages) /\ seen \in Seq(Messages) /\ opening \in Seq(Attempts)
        /\ commands \in Seq(Commands) /\ toDaemon \in Seq(Commands)
    BY DEF Typed
  <2> QED BY <2>1, InSequence DEF Typed
<1>2. \A c \in ToSet(opening) \cup retries \cup ToSet(commands) \cup ToSet(toDaemon) : c.msg \in Nat
  BY <1>1, CommandKinds, AttemptFields
<1>3. \A k \in Messages \cup {0} : k \in Nat
  BY LetGoNumbers
<1>4. opening \in Seq(Commands)
  <2>1. Attempts \subseteq Commands /\ opening \in Seq(Attempts)
    BY AttemptFields DEF Typed
  <2> QED BY <2>1, SeqMonotonic
<1>5. \A k \in Used : k \in Nat
  BY <1>1, <1>2, <1>3 DEF Used
<1> QED BY <1>1, <1>4, <1>5

LEMMA NoNewNumbers ==
    ASSUME Typed, Limits, sent' \in Nat, sent' >= sent, \A k \in Used' : k \in Used \/ k = sent' \/ k = 0,
           seen' = seen
    PROVE  Limits'
BY UsedNumbers DEF Limits

\* A message that is asked for first has no attempt yet.
LEMMA DispatchPlaces ==
    ASSUME Typed, OnePlace, NEW m \in Messages, Dispatch(m), Increasing(queued'), ToSet(queued') \subseteq ToSet(queued),
           \A a \in ToSet(opening) \cup retries \cup ToSet(commands) : a.msg # m,
           m \notin ToSet(queued'), UNCHANGED <<retries, commands, stops>>
    PROVE  OnePlace'
<1> DEFINE a == [msg |-> m, try |-> 1]
<1>1. /\ a \in Attempts /\ a.msg = m /\ ToSet(opening') = ToSet(opening) \cup {a} /\ opening' = Append(opening, a)
  BY DispatchTyped DEF Dispatch
<1>2. a \in Commands /\ Sent(a)
  BY <1>1, AttemptFields
<1> HIDE DEF a
<1>3. \A d \in ToSet(opening) : d.msg # a.msg /\ d # a
  BY <1>1
<1>4. Once(opening')
  BY <1>1, <1>2, <1>3, UsedNumbers, OnceKept DEF OnePlace
<1> QED BY <1>1, <1>4 DEF OnePlace

LEMMA SendPlaces == Typed /\ OnePlace /\ Limits /\ Send => OnePlace' /\ Limits'
<1> SUFFICES ASSUME Typed, OnePlace, Limits, Send PROVE OnePlace' /\ Limits'
  OBVIOUS
<1> DEFINE m == sent + 1
<1>1. /\ m \in Messages /\ sent' = m /\ m \in Nat /\ m > sent /\ queued \in Seq(Messages)
      /\ UNCHANGED <<stops, retries, commands, toDaemon, turn, seen, ran, told>>
  BY MessageNumber, UsedNumbers DEF Send, Typed, socket, daemon
<1>2. \A k \in Used : k < m
  BY <1>1, UsedNumbers DEF Limits
<1>3. /\ \A k \in ToSet(queued) : k < m
      /\ \A a \in ToSet(opening) \cup retries \cup ToSet(commands) : a.msg < m /\ a.msg # m
  <2>1. /\ \A k \in ToSet(queued) : k \in Used
        /\ \A a \in ToSet(opening) \cup retries \cup ToSet(commands) : a.msg \in Used
    BY DEF Used
  <2> QED BY <1>1, <1>2, <2>1, UsedNumbers
<1>4. CASE Busy
  <2>1. queued' = Append(queued, m) /\ opening' = opening
    BY <1>1, <1>4 DEF Send
  <2>2. ToSet(queued') = ToSet(queued) \cup {m} /\ Increasing(queued')
    BY <1>1, <1>3, <2>1, InAppend, IncreasingKept DEF OnePlace
  <2>3. OnePlace'
    BY <1>1, <1>3, <2>1, <2>2 DEF OnePlace
  <2>4. \A k \in Used' : k \in Used \/ k = sent'
    BY <1>1, <2>1, <2>2 DEF Used
  <2> QED BY <1>1, <2>3, <2>4, UsedNumbers, NoNewNumbers
<1>5. CASE ~Busy
  <2>1. queued' = queued /\ Dispatch(m)
    BY <1>1, <1>5 DEF Send
  <2>2. m \notin ToSet(queued)
    BY <1>1, <1>3
  <2>3. OnePlace'
    BY <1>1, <1>3, <2>1, <2>2, DispatchPlaces DEF OnePlace
  <2>4. \E a : a.msg = m /\ ToSet(opening') = ToSet(opening) \cup {a}
    BY <1>1, <2>1, DispatchTyped
  <2>5. \A k \in Used' : k \in Used \/ k = sent'
    BY <1>1, <2>1, <2>4 DEF Used
  <2> QED BY <1>1, <2>3, <2>5, UsedNumbers, NoNewNumbers
<1> QED BY <1>4, <1>5

LEMMA StopPlaces == Typed /\ OnePlace /\ Limits /\ Stop => OnePlace' /\ Limits'
<1> SUFFICES ASSUME Typed, OnePlace, Limits, Stop PROVE OnePlace' /\ Limits'
  OBVIOUS
<1>1. /\ stops' = stops + 1 /\ queued' = <<>> /\ ToSet(queued') = {} /\ Increasing(queued')
      /\ told' = told \cup ToSet(queued) \cup {a.msg : a \in retries} /\ retries' \subseteq retries
      /\ UNCHANGED <<sent, opening, turn, seen, ran>> /\ stops \in Nat
  <2>1. Increasing(<<>>)
    BY EmptySeq DEF Increasing
  <2> QED BY <2>1, RangeIsToSet, InEmpty DEF Stop, daemon, Typed
<1>2. CASE retries # {}
  <2>1. UNCHANGED <<commands, toDaemon>>
    BY <1>2 DEF Stop
  <2>2. \A c \in ToSet(commands) : ~Sent(c) => c.try <= stops'
    <3>1. \A c \in ToSet(commands) : c.try \in Int
      BY UsedNumbers, Bounds DEF Commands, Attempts
    <3> QED BY <1>1, <3>1 DEF OnePlace
  <2>3. OnePlace'
    BY <1>1, <2>1, <2>2 DEF OnePlace
  <2>4. \A k \in Used' : k \in Used
    BY <1>1, <2>1 DEF Used
  <2> QED BY <1>1, <2>3, <2>4, UsedNumbers, NoNewNumbers
<1>3. CASE retries = {}
  <2> DEFINE c == [msg |-> 0, try |-> stops + 1]
  <2>1. c \in Commands /\ c.msg = 0 /\ c.try = stops + 1 /\ ~Sent(c)
    BY <1>1, Bounds DEF Stop, Typed, Commands, Sent
  <2>2. Request(c) /\ retries' = retries /\ commands' = Append(commands, c)
    BY <1>1, <1>3 DEF Stop, Request
  <2> HIDE DEF c
  <2>3. /\ ToSet(commands') = ToSet(commands) \cup {c}
        /\ ToSet(toDaemon') \subseteq ToSet(toDaemon) \cup {c}
    BY <2>1, <2>2, RequestTyped
  <2>4. \A d \in ToSet(commands) : d.try \in Int
    BY UsedNumbers, Bounds DEF Commands, Attempts
  <2>5. c \notin ToSet(commands)
    BY <1>1, <2>1, <2>4 DEF OnePlace
  <2>6. Once(commands')
    <3>1. commands \in Seq(Commands)
      BY DEF Typed
    <3> QED BY <2>1, <2>2, <2>5, <3>1, OnceKept DEF OnePlace
  <2>7. \A d \in ToSet(commands') : ~Sent(d) => d.try <= stops'
    BY <1>1, <2>1, <2>3, <2>4 DEF OnePlace
  <2>8. \A a \in ToSet(opening) \cup retries : a.msg # c.msg
    BY <2>1, UsedNumbers, AttemptFields
  <2>9. OnePlace'
    BY <1>1, <2>2, <2>3, <2>6, <2>7, <2>8 DEF OnePlace
  <2>10. \A k \in Used' : k \in Used \/ k = 0
    BY <1>1, <1>3, <2>1, <2>3 DEF Used
  <2> QED BY <1>1, <2>9, <2>10, UsedNumbers, NoNewNumbers
<1> QED BY <1>2, <1>3

LEMMA OpenedPlaces == Typed /\ OnePlace /\ Limits /\ Opened => OnePlace' /\ Limits'
<1> SUFFICES ASSUME Typed, OnePlace, Limits, Opened PROVE OnePlace' /\ Limits'
  OBVIOUS
<1> DEFINE c == Head(opening)
<1>1. /\ opening # <<>> /\ Request(c) /\ opening' = Tail(opening) /\ commands' = Append(commands, c)
      /\ UNCHANGED <<sent, stops, queued, retries, turn, seen, ran, told>> /\ opening \in Seq(Commands)
      /\ commands \in Seq(Commands)
  BY UsedNumbers DEF Opened, Request, daemon, Typed
<1>2. c \in ToSet(opening) /\ ToSet(opening) = {c} \cup ToSet(opening') /\ c \in Attempts /\ c \in Commands /\ Sent(c)
  BY <1>1, InHeadTail, UsedNumbers, AttemptFields
<1>3. Once(opening') /\ \A d \in ToSet(opening') : d.msg # c.msg
  <2>1. Part(opening', opening, 2 .. Len(opening))
    BY <1>1, TailIsPart
  <2>2. \A j \in 2 .. Len(opening) : opening[j].msg # c.msg
    <3>1. 1 \in 1 .. Len(opening) /\ c = opening[1] /\ Len(opening) \in Nat
      BY <1>1, HeadTailProperties, LenProperties, EmptySeq
    <3> QED BY <1>2, <3>1 DEF OnePlace, Once
  <2>3. \A i \in 1 .. Len(opening') : opening'[i].msg # c.msg
    BY <1>1, <2>1, <2>2, InPart
  <2>4. opening' \in Seq(Commands)
    BY <1>1, <2>1, InPart
  <2>5. ToSet(opening') = {opening'[i] : i \in 1 .. Len(opening')}
    BY <2>4, InSequence
  <2>6. Once(opening')
    BY <1>1, <2>1, OnceKept DEF OnePlace
  <2> QED BY <2>3, <2>5, <2>6
<1>4. /\ ToSet(commands') = ToSet(commands) \cup {c}
      /\ ToSet(toDaemon') \subseteq ToSet(toDaemon) \cup {c}
  BY <1>1, <1>2, RequestTyped
<1> HIDE DEF c
<1>5. \A d \in ToSet(commands) : d.msg # c.msg /\ d # c
  BY <1>2 DEF OnePlace
<1>6. Once(commands')
  BY <1>1, <1>2, <1>5, OnceKept DEF OnePlace
<1>7. OnePlace'
  BY <1>1, <1>2, <1>3, <1>4, <1>6 DEF OnePlace
<1>8. \A k \in Used' : k \in Used
  BY <1>1, <1>2, <1>4 DEF Used
<1> QED BY <1>1, <1>7, <1>8, UsedNumbers, NoNewNumbers

LEMMA RetryTimerPlaces ==
    ASSUME Typed, OnePlace, Limits, NEW a \in retries, RetryTimer(a)
    PROVE  OnePlace' /\ Limits'
<1> DEFINE b == [a EXCEPT !.try = @ + 1]
<1>1. /\ retries' = retries \ {a} /\ opening' = Append(opening, b)
      /\ UNCHANGED <<sent, stops, queued, commands, toDaemon, turn, seen, ran, told>>
      /\ a \in Attempts /\ a.try < MaxTries
  BY DEF RetryTimer, socket, daemon, Typed
<1>2. b \in Attempts /\ b.msg = a.msg /\ b \in Commands /\ Sent(b)
  BY <1>1, AttemptFields
<1> HIDE DEF b
<1>3. ToSet(opening') = ToSet(opening) \cup {b} /\ opening \in Seq(Commands)
  BY <1>1, <1>2, InAppend, UsedNumbers
<1>4. \A d \in ToSet(opening) : d.msg # b.msg /\ d # b
  BY <1>2 DEF OnePlace
<1>5. Once(opening')
  BY <1>1, <1>2, <1>3, <1>4, OnceKept DEF OnePlace
<1>6. \A d \in retries' : d.msg # b.msg
  BY <1>1, <1>2 DEF OnePlace
<1>7. OnePlace'
  BY <1>1, <1>2, <1>3, <1>5, <1>6 DEF OnePlace
<1>8. \A k \in Used' : k \in Used
  BY <1>1, <1>2, <1>3 DEF Used
<1> QED BY <1>1, <1>7, <1>8, UsedNumbers, NoNewNumbers

\* What is answered, or given up, is taken from one place.
LEMMA UnansweredOnce ==
    ASSUME Typed, OnePlace, NEW c \in Commands, Unanswered(c)
    PROVE  /\ ToSet(commands') = ToSet(commands) \ {c} /\ Once(commands')
           /\ Sent(c) /\ c \in ToSet(commands) => \A d \in ToSet(commands') : d.msg # c.msg
<1>1. ToSet(commands') = ToSet(commands) \ {c} /\ commands \in Seq(Commands)
  BY UnansweredTyped DEF Typed
<1>2. Part(commands', commands, {i \in DOMAIN commands : commands[i] # c})
  BY <1>1, PickedIsPart DEF Unanswered
<1> QED BY <1>1, <1>2, OnceKept DEF OnePlace

LEMMA ReplyPlaces == Typed /\ OnePlace /\ Limits /\ Reply => OnePlace' /\ Limits'
<1> SUFFICES ASSUME Typed, OnePlace, Limits, Reply PROVE OnePlace' /\ Limits'
  OBVIOUS
<1>1. PICK f \in Replies :
         /\ f \in ToSet(toClient) /\ f.cmd \in Commands
         /\ UNCHANGED <<sent, stops, up, toDaemon, daemon, faults, odd>>
         /\ \/ f.cmd \notin ToSet(commands) /\ UNCHANGED <<commands, session, told>>
            \/ f.cmd \in ToSet(commands) /\ Unanswered(f.cmd) /\ f.what = "ok" /\ UNCHANGED <<session, told>>
            \/ /\ f.cmd \in ToSet(commands) /\ Unanswered(f.cmd) /\ f.what = "retryable" /\ f.cmd.try < MaxTries
               /\ retries' = retries \cup {f.cmd} /\ UNCHANGED <<queued, awaiting, known, opening, told>>
            \/ /\ f.cmd \in ToSet(commands) /\ Unanswered(f.cmd) /\ f.what # "ok"
               /\ FailTurn({f.cmd.msg}) /\ UNCHANGED <<opening, retries>>
  BY ReplyCases
<1> DEFINE c == f.cmd
<1>2. f.what # "ok" => Sent(c) /\ c \in Attempts /\ c.msg \in Messages
  BY <1>1, FrameKinds, CommandKinds, ReplyFields DEF Typed
<1>3. UNCHANGED <<sent, stops, toDaemon, turn, seen, ran>> /\ c \in Commands
  BY <1>1 DEF daemon
<1>4. Unanswered(c) => /\ ToSet(commands') = ToSet(commands) \ {c} /\ Once(commands')
                       /\ Sent(c) /\ c \in ToSet(commands) => \A d \in ToSet(commands') : d.msg # c.msg
  BY <1>3, UnansweredOnce
<1>5. CASE UNCHANGED <<session, told>>
  <2>1. Once(commands') /\ ToSet(commands') \subseteq ToSet(commands)
    BY <1>1, <1>4 DEF OnePlace
  <2>2. OnePlace'
    BY <1>3, <1>5, <2>1 DEF OnePlace, session
  <2>3. \A k \in Used' : k \in Used
    BY <1>3, <1>5, <2>1 DEF Used, session
  <2> QED BY <1>3, <2>2, <2>3, UsedNumbers, NoNewNumbers
<1>6. CASE /\ c \in ToSet(commands) /\ Unanswered(c) /\ f.what = "retryable"
           /\ retries' = retries \cup {c} /\ UNCHANGED <<queued, opening, told>>
  <2>1. Sent(c) /\ \A d \in ToSet(commands') : d.msg # c.msg
    BY <1>2, <1>4, <1>6
  <2>2. \A a \in retries : a.msg # c.msg
    BY <1>6 DEF OnePlace
  <2>3. OnePlace'
    BY <1>3, <1>4, <1>6, <2>1, <2>2 DEF OnePlace
  <2>4. \A k \in Used' : k \in Used
    BY <1>3, <1>4, <1>6 DEF Used
  <2> QED BY <1>3, <2>3, <2>4, UsedNumbers, NoNewNumbers
<1>7. CASE /\ c \in ToSet(commands) /\ Unanswered(c) /\ f.what # "ok" /\ FailTurn({c.msg}) /\ UNCHANGED <<opening, retries>>
  <2>1. queued' = <<>> /\ told' = told \cup {c.msg} \cup ToSet(queued)
    BY <1>2, <1>7, FailTurnTyped
  <2>2. ToSet(queued') = {} /\ Increasing(queued')
    <3>1. Increasing(<<>>)
      BY EmptySeq DEF Increasing
    <3> QED BY <2>1, <3>1, InEmpty
  <2>3. OnePlace'
    BY <1>3, <1>4, <1>7, <2>2 DEF OnePlace
  <2>4. \A k \in Used' : k \in Used
    BY <1>3, <1>4, <1>7, <2>1, <2>2 DEF Used
  <2> QED BY <1>3, <2>3, <2>4, UsedNumbers, NoNewNumbers
<1> QED BY <1>1, <1>5, <1>6, <1>7 DEF session

LEMMA SilencePlaces ==
    ASSUME Typed, OnePlace, Limits, NEW c \in Range(commands), Silence(c)
    PROVE  OnePlace' /\ Limits'
<1>1. c \in Commands /\ c \in ToSet(commands)
  BY UsedNumbers, RangeIsToSet
<1>2. /\ ToSet(commands') = ToSet(commands) \ {c} /\ Once(commands')
      /\ UNCHANGED <<sent, stops, opening, retries, toDaemon, turn, seen, ran>>
  BY <1>1, UnansweredOnce DEF Silence, socket, daemon
<1>3. CASE c.msg = 0
  <2>1. queued' = queued /\ told' = told
    BY <1>3 DEF Silence
  <2>2. OnePlace'
    BY <1>2, <2>1 DEF OnePlace
  <2>3. \A k \in Used' : k \in Used
    BY <1>2, <2>1 DEF Used
  <2> QED BY <1>2, <2>2, <2>3, UsedNumbers, NoNewNumbers
<1>4. CASE c.msg # 0
  <2>1. queued' = <<>> /\ told' = told \cup {c.msg} \cup ToSet(queued)
    <3>1. FailTurn({c.msg}) /\ {c.msg} \in SUBSET Messages
      BY <1>1, <1>4, CommandKinds DEF Silence, Sent
    <3> QED BY <3>1, FailTurnTyped
  <2>2. ToSet(queued') = {} /\ Increasing(queued')
    <3>1. Increasing(<<>>)
      BY EmptySeq DEF Increasing
    <3> QED BY <2>1, <3>1, InEmpty
  <2>3. OnePlace'
    BY <1>2, <2>2 DEF OnePlace
  <2>4. \A k \in Used' : k \in Used
    BY <1>1, <1>2, <2>1, <2>2 DEF Used
  <2> QED BY <1>2, <2>3, <2>4, UsedNumbers, NoNewNumbers
<1> QED BY <1>3, <1>4

LEMMA OnEventPlaces == Typed /\ OnePlace /\ Limits /\ OnEvent => OnePlace' /\ Limits'
<1> SUFFICES ASSUME Typed, OnePlace, Limits, OnEvent PROVE OnePlace' /\ Limits'
  OBVIOUS
<1>1. UNCHANGED <<sent, stops, retries, commands, toDaemon, turn, seen, ran, told>>
  BY DEF OnEvent, daemon
<1>2. \/ UNCHANGED <<queued, opening>>
      \/ queued # <<>> /\ Dispatch(Head(queued)) /\ queued' = Tail(queued)
  BY DEF OnEvent, EventBusy, EventOver, EventIdle
<1>3. CASE UNCHANGED <<queued, opening>>
  <2>1. OnePlace'
    BY <1>1, <1>3 DEF OnePlace
  <2>2. \A k \in Used' : k \in Used
    BY <1>1, <1>3 DEF Used
  <2> QED BY <1>1, <2>1, <2>2, UsedNumbers, NoNewNumbers
<1>4. CASE queued # <<>> /\ Dispatch(Head(queued)) /\ queued' = Tail(queued)
  <2> DEFINE m == Head(queued)
  <2>1. queued \in Seq(Messages) /\ Increasing(queued)
    BY DEF Typed, OnePlace
  <2>2. m \in Messages /\ ToSet(queued) = {m} \cup ToSet(queued') /\ m \in ToSet(queued)
    BY <1>4, <2>1, InHeadTail
  <2>3. Increasing(queued') /\ \A k \in ToSet(queued') : m < k
    BY <1>4, <2>1, IncreasingKept
  <2>4. m \notin ToSet(queued')
    <3>1. m \in Nat
      BY <2>2, LetGoNumbers
    <3> HIDE DEF m
    <3>2. ~(m < m)
      BY <3>1
    <3> QED BY <2>3, <3>2
  <2>5. Dispatch(m)
    BY <1>4
  <2> HIDE DEF m
  <2>6. OnePlace'
    BY <1>1, <2>2, <2>3, <2>4, <2>5, DispatchPlaces DEF OnePlace
  <2>7. \E a : a.msg = m /\ ToSet(opening') = ToSet(opening) \cup {a}
    BY <2>2, <2>5, DispatchTyped
  <2>8. \A k \in Used' : k \in Used
    BY <1>1, <2>2, <2>7 DEF Used
  <2> QED BY <1>1, <2>6, <2>8, UsedNumbers, NoNewNumbers
<1> QED BY <1>2, <1>3, <1>4

LEMMA OnCommandPlaces == Typed /\ OnePlace /\ Limits /\ OnCommand => OnePlace' /\ Limits'
<1> SUFFICES ASSUME Typed, OnePlace, Limits, OnCommand PROVE OnePlace' /\ Limits'
  OBVIOUS
<1>1. PICK c \in Commands : c = Head(toDaemon)
  BY OnCommandCases
<1>2. /\ c \in ToSet(toDaemon) /\ ToSet(toDaemon) = {c} \cup ToSet(toDaemon')
      /\ UNCHANGED <<sent, stops, queued, opening, retries, commands, told>>
      /\ \/ Hit(c)
         \/ Stopped(c)
         \/ \E r \in {"ok", "conflict", "retryable"} : NotAccepted(c, r)
         \/ Accepts(c)
  BY <1>1, OnCommandCases DEF session
<1>3. OnePlace'
  BY <1>2 DEF OnePlace
<1>4. CASE Hit(c) \/ Stopped(c) \/ \E r \in {"ok", "conflict", "retryable"} : NotAccepted(c, r)
  <2>1. (turn' = turn \/ turn' = 0) /\ seen' = seen /\ ran' = ran
    BY <1>4 DEF Hit, Stopped, NotAccepted
  <2>2. \A k \in Used' : k \in Used \/ k = 0
    BY <1>2, <2>1 DEF Used
  <2> QED BY <1>2, <1>3, <2>1, <2>2, UsedNumbers, NoNewNumbers
<1>5. CASE Accepts(c)
  <2> DEFINE m == c.msg
  <2>1. /\ turn' = m /\ ran' = Append(ran, m) /\ m \in Messages /\ m \in Used /\ ran \in Seq(Messages) /\ seen \in Seq(Messages)
        /\ seen' = IF Len(seen) = SeenKept THEN Append(Tail(seen), m) ELSE Append(seen, m)
    BY <1>2, <1>5, CommandKinds DEF Accepts, Accept, Used, Typed
  <2> HIDE DEF m
  <2>2. Len(seen) \in Nat /\ Len(seen) <= SeenKept
    BY <2>1, LenProperties DEF Limits
  <2>3. Len(seen) = SeenKept => /\ Tail(seen) \in Seq(Messages) /\ ToSet(Tail(seen)) \subseteq ToSet(seen)
                                /\ Len(Tail(seen)) = Len(seen) - 1
    <3>1. Len(seen) = SeenKept => seen # <<>>
      BY Bounds, EmptySeq
    <3> QED BY <2>1, <3>1, InHeadTail, HeadTailProperties
  <2>4. ToSet(seen') \subseteq ToSet(seen) \cup {m} /\ Len(seen') <= SeenKept
    <3>1. CASE Len(seen) = SeenKept
      <4> DEFINE t == Tail(seen)
      <4>1. seen' = Append(t, m) /\ t \in Seq(Messages) /\ ToSet(t) \subseteq ToSet(seen) /\ Len(t) = Len(seen) - 1
        BY <2>1, <2>3, <3>1
      <4> HIDE DEF t
      <4>2. m \in Messages
        BY <2>1
      <4>3. ToSet(Append(t, m)) = ToSet(t) \cup {m} /\ Len(Append(t, m)) = Len(t) + 1
        BY ONLY <4>1, <4>2, InAppend, AppendProperties
      <4> QED BY <2>2, <3>1, <4>1, <4>3, Bounds
    <3>2. CASE Len(seen) # SeenKept
      <4>1. ToSet(seen') = ToSet(seen) \cup {m} /\ Len(seen') = Len(seen) + 1
        BY <2>1, <3>2, InAppend, AppendProperties
      <4> QED BY <2>2, <3>2, <4>1, Bounds
    <3> QED BY <3>1, <3>2
  <2>5. ToSet(ran') = ToSet(ran) \cup {m}
    BY <2>1, InAppend
  <2>6. \A k \in Used' : k \in Used
    BY <1>2, <2>1, <2>4, <2>5 DEF Used
  <2> QED BY <1>2, <1>3, <2>4, <2>6 DEF Limits
<1> QED BY <1>2, <1>4, <1>5

LEMMA NextPlaces == Typed /\ OnePlace /\ Limits /\ [Next]_vars => OnePlace' /\ Limits'
<1> SUFFICES ASSUME Typed, OnePlace, Limits, [Next]_vars PROVE OnePlace' /\ Limits'
  OBVIOUS
<1>1. ASSUME TurnEnds \/ SayIdle \/ CacheExpires \/ UNCHANGED vars PROVE OnePlace' /\ Limits'
  <2>1. /\ UNCHANGED <<sent, stops, queued, opening, retries, commands, toDaemon, seen, ran, told>>
        /\ turn' = turn \/ turn' = 0
    BY <1>1 DEF TurnEnds, SayIdle, CacheExpires, vars, session, socket
  <2>2. OnePlace'
    BY <2>1 DEF OnePlace
  <2>3. \A k \in Used' : k \in Used \/ k = 0
    BY <2>1 DEF Used
  <2> QED BY <2>1, <2>2, <2>3, UsedNumbers, NoNewNumbers
<1>2. ASSUME ConnectionLost \/ Reconnected PROVE OnePlace' /\ Limits'
  <2>1. /\ UNCHANGED <<sent, stops, queued, opening, retries, commands, turn, seen, ran, told>>
        /\ toDaemon' = <<>> \/ toDaemon' = commands
    BY <1>2 DEF ConnectionLost, Breaks, Reconnected, session, daemon
  <2>2. OnePlace'
    BY <2>1 DEF OnePlace
  <2>3. \A k \in Used' : k \in Used
    BY <2>1, InEmpty DEF Used
  <2> QED BY <2>1, <2>2, <2>3, UsedNumbers, NoNewNumbers
<1>3. ASSUME DaemonRestarts PROVE OnePlace' /\ Limits'
  <2>1. /\ UNCHANGED <<sent, stops, queued, opening, retries, commands, ran, told>>
        /\ toDaemon' = <<>> /\ turn' = 0 /\ seen' = <<>>
    BY <1>3 DEF DaemonRestarts, Breaks, session
  <2>2. OnePlace'
    BY <2>1 DEF OnePlace
  <2>3. \A k \in Used' : k \in Used \/ k = 0
    BY <2>1, InEmpty DEF Used
  <2>4. Len(seen') <= SeenKept
    <3>1. Len(<<>>) = 0
      BY EmptySeq
    <3> QED BY <2>1, <3>1, Bounds
  <2> QED BY <2>1, <2>2, <2>3, <2>4, UsedNumbers DEF Limits
<1>4. CASE Client
  BY <1>4, OpenedPlaces, ReplyPlaces, OnEventPlaces, RetryTimerPlaces DEF Client
<1> QED BY <1>1, <1>2, <1>3, <1>4, SendPlaces, StopPlaces, SilencePlaces, OnCommandPlaces DEF Next

-----------------------------------------------------------------------------
(* Theorems.  The daemon remembers the last SeenKept messages it accepted.  *)
(* That is enough as long as no more than SeenKept connections are lost and *)
(* sends refused, which the theorems say by bounding what may go wrong.     *)

\* The invariant they rest on.
THEOREM Invariant == ASSUME MaxFaults <= SeenKept PROVE Spec => [](Typed /\ (odd = {} => Good))
<1>1. Init => Typed /\ (odd = {} => Good)
  BY InitTyped, InitGood
<1>2. Typed /\ (odd = {} => Good) /\ [Next]_vars => (Typed /\ (odd = {} => Good))'
  BY NextTyped, NextGood
<1> QED BY <1>1, <1>2, PTL DEF Spec

\* Messages run in the order the user sent them, each once, as long as no send was given up
\* while it was on its way and the daemon did not restart: whatever is sent again after a lost
\* connection, and however late the daemon hears of it (threadHost.send, onWelcome).
THEOREM SendsInOrder == ASSUME MaxFaults <= SeenKept PROVE Spec => []InOrder
<1>1. ASSUME Typed, odd = {} => Good PROVE InOrder
  <2>1. DOMAIN ran = 1 .. Len(ran)
    <3>1. ran \in Seq(Messages)
      BY <1>1 DEF Typed
    <3> QED BY <3>1, LenProperties
  <2> QED BY <1>1, <2>1 DEF InOrder, Good, Ordered, Increasing
<1> QED BY <1>1, Invariant, PTL

\* With nothing left to deliver the client knows whether a turn runs, and no message waits in
\* its queue for a turn that is over (onState, settleSendFlag).
THEOREM ClientKnowsAtRest == ASSUME MaxFaults <= SeenKept PROVE Spec => []AtRest
<1>1. ASSUME Typed, odd = {} => Good PROVE AtRest
  <2> SUFFICES ASSUME opening = <<>>, retries = {}, commands = <<>>, toClient = <<>>, turn = 0 => ~said,
                      odd \cap {"unconfirmed", "restarted"} = {}
               PROVE  ~awaiting /\ known = (turn # 0) /\ (turn = 0 => queued = <<>>)
    BY DEF AtRest
  <2>1. Good
    BY <1>1 DEF Typed, Oddities
  <2>2. \A w : ~Has(toClient, w)
    BY InEmpty DEF Has
  <2>3. Pending = {}
    BY InEmpty DEF Pending, Waiting, Asked
  <2>4. \/ ~awaiting /\ ~known /\ Silent /\ queued = <<>>
        \/ ~awaiting /\ known /\ Turning
    BY <2>1, <2>2, <2>3 DEF Good, Phase
  <2>5. known \in BOOLEAN
    BY <1>1 DEF Typed
  <2> QED BY <2>2, <2>4, <2>5 DEF Silent, Turning
<1> QED BY <1>1, Invariant, PTL

\* A turn is never started for a message the user took back, or was told had failed, unless it
\* was given up while on its way (interrupt, failTurn).
THEOREM TakenBackNeverRuns == ASSUME MaxFaults <= SeenKept PROVE Spec => TakenBack
<1> DEFINE Fresh == Len(ran') > Len(ran) /\ odd \cap {"unconfirmed", "restarted"} = {} => ran'[Len(ran')] \notin told
<1>1. ASSUME Typed, odd = {} => Good, [Next]_vars, Len(ran') > Len(ran), odd \cap {"unconfirmed", "restarted"} = {}
      PROVE  ran'[Len(ran')] \notin told
  <2>1. Good
    BY <1>1 DEF Typed, Oddities
  <2>2. ran \in Seq(Messages) /\ Len(ran) \in Nat
    BY <1>1, LenProperties DEF Typed
  <2>3. ran' # ran
    BY <1>1, <2>2
  <2>4. OnCommand
    BY <1>1, <2>3, OnlyCommandsRun
  <2>5. PICK c \in Commands : c = Head(toDaemon)
    BY <1>1, <2>4, OnCommandCases
  <2>6. Accepts(c)
    BY <1>1, <2>3, <2>4, <2>5, OnCommandCases DEF Hit, Stopped, NotAccepted
  <2>7. ran' = Append(ran, c.msg) /\ Sent(c) /\ c.msg \notin ToSet(seen)
    BY <2>6 DEF Accepts, Accept
  <2>8. ran'[Len(ran')] = c.msg
    BY <2>2, <2>7, CommandKinds, AppendProperties
  <2>9. c \in Asked
    BY <1>1, <2>1, <2>4, <2>5, <2>7, HeadCommand
  <2> QED BY <2>1, <2>8, <2>9 DEF Good, Numbered, Pending
<1>2. Typed /\ (odd = {} => Good) /\ [Next]_vars => [Fresh]_vars
  BY <1>1
<1>3. Spec => [][Fresh]_vars
  BY <1>2, Invariant, PTL DEF Spec
<1>4. [][Fresh]_vars => TakenBack
  BY PTL DEF TakenBack
<1> QED BY <1>3, <1>4, PTL

\* Whatever is lost, given up or forgotten: no command is asked for twice at once, and the
\* daemon and the user only hear of messages that were sent, of which at most SeenKept are
\* remembered (RemoteHarnessSession, DaemonClient.pending, threadHost.seenSends).
THEOREM TypeCorrect == Spec => []TypeOK
<1>1. ASSUME Typed, OnePlace, Limits PROVE TypeOK
  <2>1. /\ queued \in Seq(Messages) /\ ran \in Seq(Messages) /\ seen \in Seq(Messages) /\ commands \in Seq(Commands)
        /\ toClient \in Seq(Frames) /\ turn \in Messages \cup {0} /\ sent \in Nat /\ told \subseteq Messages
    BY <1>1 DEF Typed
  <2>2. \A k \in Used : k <= sent
    BY <1>1 DEF Limits
  <2>3. \A k \in Messages : k <= sent => k \in 1 .. sent
    BY <2>1 DEF Messages
  <2>4. \A s \in Seq(Messages) : (\A k \in ToSet(s) : k <= sent) => s \in Seq(1 .. sent)
    <3>1. ASSUME NEW s \in Seq(Messages), \A k \in ToSet(s) : k <= sent PROVE s \in Seq(1 .. sent)
      <4>1. ToSet(s) \subseteq 1 .. sent /\ s \in Seq(ToSet(s))
        BY <2>3, <3>1, InSequence
      <4> QED BY <4>1, SeqMonotonic
    <3> QED BY <3>1
  <2>5. queued \in Seq(1 .. sent) /\ ran \in Seq(1 .. sent) /\ seen \in Seq(1 .. sent)
    BY <2>1, <2>2, <2>4 DEF Used
  <2>6. told \subseteq 1 .. sent /\ turn \in 0 .. sent
    <3>1. (\A k \in told : k <= sent) /\ turn <= sent
      BY <2>2 DEF Used
    <3>2. 0 \in 0 .. sent /\ \A k \in 1 .. sent : k \in 0 .. sent
      BY <2>1
    <3> QED BY <2>1, <2>3, <3>1, <3>2
  <2>7. IsInjective(commands)
    <3>1. DOMAIN commands = 1 .. Len(commands)
      BY <2>1, LenProperties
    <3> QED BY <1>1, <3>1 DEF OnePlace, Once, IsInjective
  <2>8. toClient \in Seq({Event(e) : e \in {"busy", "over", "idle"}} \cup Replies)
    BY <2>1 DEF Frames, Kinds
  <2>9. Len(seen) <= SeenKept
    BY <1>1 DEF Limits
  <2> QED BY <1>1, <2>5, <2>6, <2>7, <2>8, <2>9 DEF Typed, TypeOK
<1> QED BY <1>1, InitTyped, NextTyped, InitPlaces, NextPlaces, PTL DEF Spec
=============================================================================

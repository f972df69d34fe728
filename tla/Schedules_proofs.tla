--------------------------- MODULE Schedules_proofs ---------------------------
(***************************************************************************)
(* Theorems about the scheduled items, for any number of generations,      *)
(* slots of time, edits and failed writes, with their proofs.              *)
(***************************************************************************)
EXTENDS Schedules, Subsequences_proofs

-----------------------------------------------------------------------------
(* Types.                                                                  *)

Copy == Item \cup {Absent}
Stages == {"queued", "this", "next", "ok", "failed"}
FireOps == {"claim", "authorize", "abandon", "finalize"}
Ops == FireOps \cup {"update", "delete", "create", "replaceAll"}
Patches == {"none", "off", "on", "prompt", "skip"}
Entry == [op : Ops, gen : Gens, due : Slots, tok : Nat, patch : Patches, arg : Copy, stage : Stages,
          by : 0 .. MaxGen, yes : BOOLEAN, res : Copy]
FirePoints == {"idle", "claim", "skip", "gate", "authorize", "sending", "abandon", "finalize"}
Fires == [at : FirePoints, due : Slots, tok : Nat, held : Copy]
Passes == [gen : 0 .. MaxGen, snap : Copy, again : BOOLEAN]

\* A granted claim answers with an item.
Keeps(q) == q.op = "claim" /\ q.yes => q.res # Absent

QueueTyped == queue \in Seq(Entry) /\ \A i \in 1 .. Len(queue) : Keeps(queue[i])

Typed ==
    /\ kind \in Kinds /\ now \in 0 .. MaxSlot
    /\ disk \in Copy /\ item \in Copy
    /\ settings \in [Gens -> Copy] /\ local \in [Gens -> Copy]
    /\ wake \in [Gens -> BOOLEAN]
    /\ fire \in [Gens -> Fires]
    /\ regs \in Seq(Gens) /\ adapter \in 0 .. MaxGen /\ fence \in 0 .. MaxGen
    /\ pass \in Passes
    /\ cur \in 0 .. MaxGen /\ up \in {"off", "claimed", "loaded"}
    /\ up # "off" => cur \in Gens
    /\ claims \in Nat /\ edits \in Nat /\ upsets \in Nat
    /\ ran \in [Slots -> 0 .. 2] /\ mishaps \subseteq Mishaps
    /\ off \in {"new", "on", "disabled", "deleted"}
    /\ QueueTyped

-----------------------------------------------------------------------------
(* The queue.                                                              *)

LEMMA Appending ==
    ASSUME NEW S, NEW s \in Seq(S), NEW x \in S
    PROVE  /\ Append(s, x) \in Seq(S) /\ Append(s, x) # <<>> /\ Len(Append(s, x)) = Len(s) + 1
           /\ \A i \in 1 .. Len(s) : Append(s, x)[i] = s[i]
           /\ Append(s, x)[Len(s) + 1] = x
           /\ Head(Append(s, x)) = IF s = <<>> THEN x ELSE Head(s)
<1>1. /\ Append(s, x) \in Seq(S) /\ Len(Append(s, x)) = Len(s) + 1
      /\ \A i \in 1 .. Len(s) : Append(s, x)[i] = s[i]
      /\ Append(s, x)[Len(s) + 1] = x
  BY AppendProperties
<1>2. Len(s) \in Nat /\ (s = <<>> <=> Len(s) = 0)
  BY LenProperties, EmptySeq
<1>3. Append(s, x) # <<>>
  BY <1>1, <1>2, EmptySeq
<1>4. Head(Append(s, x)) = Append(s, x)[1] /\ (s # <<>> => Head(s) = s[1])
  BY <1>1, <1>3, HeadTailProperties
<1>5. s # <<>> => 1 \in 1 .. Len(s)
  BY <1>2
<1> QED BY <1>1, <1>2, <1>3, <1>4, <1>5

LEMMA Taking ==
    ASSUME NEW S, NEW s \in Seq(S), s # <<>>
    PROVE  /\ Len(s) \in Nat \ {0} /\ Head(s) \in S /\ Head(s) = s[1]
           /\ Tail(s) \in Seq(S) /\ Len(Tail(s)) = Len(s) - 1
           /\ \A i \in 1 .. Len(s) - 1 : Tail(s)[i] = s[i + 1]
           /\ Tail(s) # <<>> => Len(s) > 1 /\ Head(Tail(s)) = s[2]
<1>1. /\ Head(s) \in S /\ Head(s) = s[1] /\ Tail(s) \in Seq(S) /\ Len(Tail(s)) = Len(s) - 1
      /\ \A i \in 1 .. Len(Tail(s)) : Tail(s)[i] = s[i + 1]
  BY HeadTailProperties
<1>2. Len(s) \in Nat \ {0}
  BY LenProperties, EmptySeq
<1>3. ASSUME Tail(s) # <<>> PROVE Len(s) > 1 /\ Head(Tail(s)) = s[2]
  <2>1. Len(Tail(s)) \in Nat \ {0} /\ Head(Tail(s)) = Tail(s)[1]
    BY <1>1, <1>3, LenProperties, EmptySeq, HeadTailProperties
  <2> QED BY <1>1, <1>2, <2>1
<1> QED BY <1>1, <1>2, <1>3

LEMMA ChangingHead ==
    ASSUME NEW S, NEW s \in Seq(S), s # <<>>, NEW x \in S
    PROVE  LET t == [s EXCEPT ![1] = x] IN
           /\ t \in Seq(S) /\ t # <<>> /\ Len(t) = Len(s) /\ Head(t) = x /\ t[1] = x
           /\ \A i \in 2 .. Len(s) : t[i] = s[i]
<1> DEFINE t == [s EXCEPT ![1] = x]
<1>1. s \in [1 .. Len(s) -> S] /\ Len(s) \in Nat /\ Len(s) # 0
  BY LenProperties, EmptySeq
<1>2. t \in [1 .. Len(s) -> S] /\ t[1] = x /\ \A i \in 2 .. Len(s) : t[i] = s[i]
  BY <1>1
<1> HIDE DEF t
<1>3. t \in Seq(S) /\ Len(t) = Len(s)
  BY <1>1, <1>2, FunctionIsSequence
<1>4. t # <<>>
  BY <1>1, <1>3, EmptySeq
<1>5. Head(t) = t[1]
  BY <1>3, <1>4, HeadTailProperties
<1> QED BY <1>2, <1>3, <1>4, <1>5 DEF t

\* Each way in which a step changes the queue keeps its type.
LEMMA PushTyped ==
    ASSUME QueueTyped, NEW q \in Entry, Keeps(q), queue' = Append(queue, q)
    PROVE  QueueTyped'
<1>1. queue \in Seq(Entry) /\ \A i \in 1 .. Len(queue) : Keeps(queue[i])
  BY DEF QueueTyped
<1>2. queue' \in Seq(Entry) /\ Len(queue') = Len(queue) + 1 /\ Len(queue) \in Nat
  BY <1>1, Appending, LenProperties
<1>3. ASSUME NEW i \in 1 .. Len(queue') PROVE Keeps(queue'[i])
  <2>1. CASE i \in 1 .. Len(queue)
    BY <1>1, <2>1, Appending
  <2>2. CASE i = Len(queue) + 1
    BY <1>1, <2>2, Appending
  <2> QED BY <1>2, <2>1, <2>2
<1> QED BY <1>2, <1>3 DEF QueueTyped, Keeps

LEMMA PopTyped ==
    ASSUME QueueTyped, queue # <<>>, queue' = Tail(queue)
    PROVE  QueueTyped'
<1>1. queue \in Seq(Entry) /\ \A i \in 1 .. Len(queue) : Keeps(queue[i])
  BY DEF QueueTyped
<1>2. /\ queue' \in Seq(Entry) /\ Len(queue') = Len(queue) - 1 /\ Len(queue) \in Nat
      /\ \A i \in 1 .. Len(queue) - 1 : queue'[i] = queue[i + 1]
  BY <1>1, Taking
<1>3. ASSUME NEW i \in 1 .. Len(queue') PROVE Keeps(queue'[i])
  <2>1. i + 1 \in 1 .. Len(queue) /\ queue'[i] = queue[i + 1]
    BY <1>2
  <2> QED BY <1>1, <2>1
<1> QED BY <1>2, <1>3 DEF QueueTyped, Keeps

LEMMA PopPushTyped ==
    ASSUME QueueTyped, queue # <<>>, NEW q \in Entry, Keeps(q), queue' = Append(Tail(queue), q)
    PROVE  QueueTyped'
<1>1. queue \in Seq(Entry) /\ \A i \in 1 .. Len(queue) : Keeps(queue[i])
  BY DEF QueueTyped
<1>2. /\ Tail(queue) \in Seq(Entry) /\ Len(Tail(queue)) = Len(queue) - 1 /\ Len(queue) \in Nat \ {0}
      /\ \A i \in 1 .. Len(queue) - 1 : Tail(queue)[i] = queue[i + 1]
  BY <1>1, Taking
<1>3. queue' \in Seq(Entry) /\ Len(queue') = Len(queue)
  BY <1>2, Appending
<1>4. ASSUME NEW i \in 1 .. Len(queue') PROVE Keeps(queue'[i])
  <2>1. CASE i \in 1 .. Len(queue) - 1
    <3>1. queue'[i] = queue[i + 1] /\ i + 1 \in 1 .. Len(queue)
      BY <1>2, <2>1, Appending
    <3> QED BY <1>1, <3>1
  <2>2. CASE i = Len(queue)
    <3>1. queue'[i] = q
      BY <1>2, <2>2, Appending
    <3> QED BY <3>1
  <2>3. i \in 1 .. Len(queue) - 1 \/ i = Len(queue)
    <3>1. Len(queue) \in Nat /\ i \in 1 .. Len(queue)
      BY <1>2, <1>3
    <3> QED BY <3>1
  <2> QED BY <2>1, <2>2, <2>3
<1> QED BY <1>3, <1>4, Zenon DEF QueueTyped, Keeps

LEMMA HeadTyped ==
    ASSUME QueueTyped, queue # <<>>, NEW q \in Entry, Keeps(q), queue' = [queue EXCEPT ![1] = q]
    PROVE  QueueTyped'
<1>1. queue \in Seq(Entry) /\ \A i \in 1 .. Len(queue) : Keeps(queue[i])
  BY DEF QueueTyped
<1>2. /\ queue' \in Seq(Entry) /\ Len(queue') = Len(queue) /\ queue'[1] = q
      /\ \A i \in 2 .. Len(queue) : queue'[i] = queue[i]
  BY <1>1, ChangingHead
<1>3. Len(queue) \in Nat
  BY <1>1, LenProperties
<1>4. ASSUME NEW i \in 1 .. Len(queue') PROVE Keeps(queue'[i])
  <2>1. CASE i = 1
    BY <1>2, <2>1
  <2>2. CASE i \in 2 .. Len(queue)
    BY <1>1, <1>2, <2>2
  <2> QED BY <1>2, <1>3, <2>1, <2>2
<1> QED BY <1>2, <1>4 DEF QueueTyped, Keeps

\* The running operation, and what is known of its type.
LEMMA HeadIsEntry ==
    ASSUME QueueTyped, queue # <<>>
    PROVE  Head(queue) \in Entry /\ Keeps(Head(queue)) /\ Head(queue) = queue[1]
<1>1. queue \in Seq(Entry) /\ \A i \in 1 .. Len(queue) : Keeps(queue[i])
  BY DEF QueueTyped
<1>2. Head(queue) \in Entry /\ Head(queue) = queue[1] /\ Len(queue) \in Nat \ {0}
  BY <1>1, Taking
<1>3. 1 \in 1 .. Len(queue)
  BY <1>2
<1> QED BY <1>1, <1>2, <1>3

LEMMA StageTyped ==
    ASSUME QueueTyped, queue # <<>>, NEW st \in Stages, queue' = HeadStage(st)
    PROVE  /\ QueueTyped'
           /\ queue' = [queue EXCEPT ![1] = [Head(queue) EXCEPT !.stage = st]]
           /\ [Head(queue) EXCEPT !.stage = st] \in Entry
<1>1. queue[1] = Head(queue) /\ Head(queue) \in Entry /\ Keeps(Head(queue))
  BY HeadIsEntry
<1>2. queue' = [queue EXCEPT ![1] = [Head(queue) EXCEPT !.stage = st]]
  BY <1>1 DEF HeadStage
<1>3. [Head(queue) EXCEPT !.stage = st] \in Entry
  BY <1>1 DEF Entry
<1>4. Keeps([Head(queue) EXCEPT !.stage = st])
  BY <1>1 DEF Keeps, Entry
<1> QED BY <1>2, <1>3, <1>4, HeadTyped

\* What the operators return.
LEMMA CopyFields ==
    ASSUME NEW it \in Copy, it # Absent
    PROVE  /\ it \in Item /\ it.on \in BOOLEAN /\ it.next \in Slots /\ it.fireAt \in Slots /\ it.rev \in Nat /\ it.tok \in Nat
           /\ it.crev \in Nat
BY DEF Copy, Item

LEMMA NextRunTyped ==
    ASSUME Typed, NEW it \in Copy, it # Absent
    PROVE  NextRun(it) \in Slots /\ ClaimedNext(it) \in Slots /\ now + 1 \in Slots
BY CopyFields, BoundsAssumption DEF NextRun, ClaimedNext, Slots, Typed

LEMMA MovedTyped ==
    ASSUME Typed, NEW held \in Copy, held # Absent, NEW it \in Copy, it # Absent
    PROVE  [held EXCEPT !.next = NextRun(it)] \in Copy
<1>1. NextRun(it) \in Slots
  BY NextRunTyped
<1> QED BY <1>1 DEF Copy, Item

LEMMA RequestedTyped ==
    ASSUME NEW p \in Passes, NEW g \in Gens, NEW it \in Copy
    PROVE  Requested(p, g, it) \in Passes
<1>1. g \in 0 .. MaxGen
  BY BoundsAssumption DEF Gens
<1>2. [p EXCEPT !.again = TRUE] \in Passes
  BY DEF Passes
<1>3. [gen |-> g, snap |-> it, again |-> FALSE] \in Passes
  BY <1>1 DEF Passes
<1> QED BY <1>2, <1>3 DEF Requested

LEMMA OpFields ==
    ASSUME NEW name \in Ops, NEW g \in Gens
    PROVE  /\ Op(name, g) \in Entry
           /\ Op(name, g).op = name /\ Op(name, g).gen = g /\ Op(name, g).due = 0 /\ Op(name, g).tok = 0
           /\ Op(name, g).patch = "none" /\ Op(name, g).arg = Absent /\ Op(name, g).stage = "queued"
           /\ Op(name, g).by = 0 /\ ~Op(name, g).yes /\ Op(name, g).res = Absent
BY BoundsAssumption DEF Op, Entry, Copy, Stages, Patches, Slots

\* An operation as it is queued.
Queued(q, name, g) == /\ q \in Entry /\ q.op = name /\ q.gen = g /\ q.stage = "queued" /\ q.by = 0
                      /\ ~q.yes /\ q.res = Absent

LEMMA QueuedKeeps == ASSUME NEW q, NEW name, NEW g, Queued(q, name, g) PROVE q \in Entry /\ Keeps(q)
BY DEF Queued, Keeps

LEMMA QueuedDue ==
    ASSUME NEW name \in Ops, NEW g \in Gens, NEW d \in Slots
    PROVE  LET q == [Op(name, g) EXCEPT !.due = d] IN
           Queued(q, name, g) /\ q.due = d /\ q.patch = "none" /\ q.arg = Absent /\ q.tok = 0
BY OpFields DEF Queued, Entry

LEMMA QueuedTok ==
    ASSUME NEW name \in Ops, NEW g \in Gens, NEW tok \in Nat
    PROVE  LET q == [Op(name, g) EXCEPT !.tok = tok] IN
           Queued(q, name, g) /\ q.tok = tok /\ q.patch = "none" /\ q.arg = Absent
BY OpFields DEF Queued, Entry

LEMMA QueuedPatch ==
    ASSUME NEW name \in Ops, NEW g \in Gens, NEW patch \in Patches
    PROVE  LET q == [Op(name, g) EXCEPT !.patch = patch] IN
           Queued(q, name, g) /\ q.patch = patch /\ q.arg = Absent /\ q.tok = 0
BY OpFields DEF Queued, Entry

LEMMA QueuedArg ==
    ASSUME NEW name \in Ops, NEW g \in Gens, NEW arg \in Copy
    PROVE  LET q == [Op(name, g) EXCEPT !.arg = arg] IN
           Queued(q, name, g) /\ q.arg = arg /\ q.patch = "none" /\ q.tok = 0
BY OpFields DEF Queued, Entry

LEMMA FireFields ==
    ASSUME Typed, NEW g \in Gens
    PROVE  /\ fire[g] \in Fires /\ fire[g].at \in FirePoints /\ fire[g].due \in Slots
           /\ fire[g].tok \in Nat /\ fire[g].held \in Copy
BY DEF Typed, Fires

LEMMA IdleFields ==
    Idle \in Fires /\ Idle.at = "idle" /\ Idle.tok = 0 /\ Idle.held = Absent /\ Idle.due = 0
BY BoundsAssumption DEF Idle, Fires, FirePoints, Slots, Copy

\* Arming a timer keeps the types.
LEMMA ArmTimerTyped ==
    ASSUME Typed, NEW g \in Gens, NEW held \in Copy, NEW it \in Copy, NEW also \in SUBSET Mishaps,
           ArmTimer(g, held, it, also)
    PROVE  /\ local' \in [Gens -> Copy] /\ settings' \in [Gens -> Copy] /\ pass' \in Passes
           /\ wake' \in [Gens -> BOOLEAN] /\ mishaps' \subseteq Mishaps
<1> DEFINE skip == it # Absent /\ it.on /\ Stale(it)
           moved == [it EXCEPT !.next = NextRun(it)]
<1>1. ASSUME skip PROVE moved \in Copy
  BY <1>1, MovedTyped
<1>2. ASSUME skip, held # Absent PROVE [held EXCEPT !.next = NextRun(it)] \in Copy
  BY <1>2, MovedTyped
<1>3. "missed" \in Mishaps
  BY DEF Mishaps
<1>4. it # Absent => it.on \in BOOLEAN
  BY CopyFields
<1>5. /\ local \in [Gens -> Copy] /\ settings \in [Gens -> Copy] /\ pass \in Passes
      /\ wake \in [Gens -> BOOLEAN] /\ mishaps \subseteq Mishaps
  BY DEF Typed
<1>6. skip => Requested(pass, g, moved) \in Passes
  BY <1>1, <1>5, RequestedTyped
<1>7. /\ local' = [local EXCEPT ![g] =
                      IF skip /\ held # Absent THEN [held EXCEPT !.next = NextRun(it)] ELSE held]
      /\ settings' = IF skip THEN [settings EXCEPT ![g] = moved] ELSE settings
      /\ pass' = IF skip THEN Requested(pass, g, moved) ELSE pass
      /\ wake' = [wake EXCEPT ![g] = it # Absent /\ it.on]
      /\ mishaps' = mishaps \cup also \cup (IF skip THEN {"missed"} ELSE {})
  BY DEF ArmTimer
<1> HIDE DEF skip, moved
<1>8. local' \in [Gens -> Copy]
  BY <1>2, <1>5, <1>7
<1>9. settings' \in [Gens -> Copy] /\ pass' \in Passes
  BY <1>1, <1>5, <1>6, <1>7
<1>10. (it # Absent /\ it.on) \in BOOLEAN
  OBVIOUS
<1>11. wake' \in [Gens -> BOOLEAN]
  BY <1>5, <1>7, <1>10, Zenon
<1> QED BY <1>3, <1>5, <1>7, <1>8, <1>9, <1>11

LEMMA RearmTyped ==
    ASSUME Typed, NEW g \in Gens, NEW it \in Copy, Rearm(g, it)
    PROVE  /\ local' \in [Gens -> Copy] /\ settings' \in [Gens -> Copy] /\ pass' \in Passes
           /\ wake' \in [Gens -> BOOLEAN] /\ mishaps' \subseteq Mishaps
BY ArmTimerTyped DEF Rearm

\* What an operation does to the item.
LEMMA ItemChanges ==
    ASSUME Typed, item # Absent, NEW tok \in Nat, NEW crev \in Nat
    PROVE  /\ Unclaimed(item) \in Item
           /\ [item EXCEPT !.next = ClaimedNext(item), !.rev = @ + 1, !.tok = tok, !.crev = crev] \in Item
<1>1. item \in Item /\ item.rev + 1 \in Nat /\ 0 \in Nat /\ ClaimedNext(item) \in Slots
  BY CopyFields, NextRunTyped DEF Typed
<1> QED BY <1>1 DEF Item, Unclaimed

\* The time it is due at after a change.
PatchedNext(it, patch) ==
    IF patch \in {"off", "on"} THEN NextRun(it) ELSE IF patch = "skip" THEN now + 1 ELSE it.next

LEMMA PatchedFields ==
    ASSUME Typed, NEW it \in Copy, it # Absent, NEW patch \in Patches
    PROVE  /\ Patched(it, patch) \in Item
           /\ Patched(it, patch).rev = it.rev /\ Patched(it, patch).tok = it.tok
           /\ Patched(it, patch).crev = it.crev
           /\ patch = "off" => ~Patched(it, patch).on
           /\ patch = "on" => Patched(it, patch).on
           /\ patch \in {"skip", "prompt", "none"} => Patched(it, patch).on = it.on
           /\ Patched(it, patch).next = PatchedNext(it, patch)
<1>1. it \in Item /\ NextRun(it) \in Slots /\ now + 1 \in Slots
  BY NextRunTyped DEF Copy
<1>2. ASSUME NEW n \in Slots
      PROVE  /\ [it EXCEPT !.on = FALSE, !.next = n] \in Item
             /\ [it EXCEPT !.on = TRUE, !.next = n] \in Item
             /\ [it EXCEPT !.next = n] \in Item
  BY <1>1 DEF Item
<1>3. Patched(it, patch) \in Item
  BY <1>1, <1>2, Zenon DEF Patched, Patches
<1>5. CASE patch = "off"
  <2>1. Patched(it, patch) = [it EXCEPT !.on = FALSE, !.next = NextRun(it)]
    BY <1>5 DEF Patched
  <2> QED BY <1>1, <1>3, <1>5, <2>1 DEF Item, PatchedNext
<1>6. CASE patch = "on"
  <2>1. Patched(it, patch) = [it EXCEPT !.on = TRUE, !.next = NextRun(it)]
    BY <1>6 DEF Patched
  <2> QED BY <1>1, <1>3, <1>6, <2>1 DEF Item, PatchedNext
<1>7. CASE patch = "skip"
  <2>1. Patched(it, patch) = [it EXCEPT !.next = now + 1]
    BY <1>7 DEF Patched
  <2> QED BY <1>1, <1>3, <1>7, <2>1 DEF Item, PatchedNext
<1>8. CASE patch \in {"none", "prompt"}
  <2>1. Patched(it, patch) = it
    BY <1>8 DEF Patched
  <2> QED BY <1>1, <1>3, <1>8, <2>1 DEF Item, PatchedNext
<1> QED BY <1>5, <1>6, <1>7, <1>8 DEF Patches

LEMMA RevisedFields ==
    ASSUME NEW y \in Item, NEW x, x = [y EXCEPT !.rev = @ + 1]
    PROVE  x \in Item /\ x.rev = y.rev + 1 /\ x.tok = y.tok /\ x.crev = y.crev /\ x.on = y.on /\ x.next = y.next
BY DEF Item

\* What a claim makes of the item.
ClaimedItem == [item EXCEPT !.next = ClaimedNext(item), !.rev = @ + 1, !.tok = claims + 1, !.crev = item.rev + 1]

\* What an update makes of the item.
UpdatedItem(q) == [Patched(item, q.patch) EXCEPT !.rev = @ + 1]

LEMMA ClaimedItemFields ==
    ASSUME Typed, item # Absent
    PROVE  /\ ClaimedItem \in Item
           /\ ClaimedItem.on = item.on /\ ClaimedItem.next = ClaimedNext(item) /\ ClaimedItem.rev = item.rev + 1
           /\ ClaimedItem.tok = claims + 1 /\ ClaimedItem.crev = item.rev + 1
<1>1. item \in Item /\ item.rev + 1 \in Nat /\ claims + 1 \in Nat /\ ClaimedNext(item) \in Slots
  BY CopyFields, NextRunTyped DEF Typed
<1> QED BY <1>1 DEF Item, ClaimedItem

LEMMA UnclaimedFields ==
    ASSUME Typed, item # Absent
    PROVE  /\ Unclaimed(item) \in Item
           /\ Unclaimed(item).on = item.on /\ Unclaimed(item).next = item.next
           /\ Unclaimed(item).rev = item.rev + 1
           /\ Unclaimed(item).tok = 0 /\ Unclaimed(item).crev = 0
<1>1. item \in Item /\ item.rev + 1 \in Nat
  BY CopyFields DEF Typed
<1> QED BY <1>1 DEF Item, Unclaimed

LEMMA UpdatedItemFields ==
    ASSUME Typed, item # Absent, NEW q \in Entry
    PROVE  LET x == UpdatedItem(q) IN
           /\ x \in Item
           /\ x.rev = item.rev + 1 /\ x.tok = item.tok /\ x.crev = item.crev
           /\ q.patch = "off" => ~x.on
           /\ q.patch = "on" => x.on
           /\ q.patch \in {"skip", "prompt", "none"} => x.on = item.on
           /\ x.next = PatchedNext(item, q.patch)
<1> DEFINE y == Patched(item, q.patch)
           x == UpdatedItem(q)
<1>1. item \in Copy /\ q.patch \in Patches
  BY DEF Typed, Entry
<1>2. /\ y \in Item
      /\ y.rev = item.rev /\ y.tok = item.tok /\ y.crev = item.crev
      /\ q.patch = "off" => ~y.on
      /\ q.patch = "on" => y.on
      /\ q.patch \in {"skip", "prompt", "none"} => y.on = item.on
      /\ y.next = PatchedNext(item, q.patch)
  BY <1>1, PatchedFields
<1>3. x = [y EXCEPT !.rev = @ + 1]
  BY DEF UpdatedItem
<1> HIDE DEF x, y
<1>4. x \in Item
  BY <1>2, <1>3, RevisedFields
<1>5. x.rev = y.rev + 1 /\ x.tok = y.tok /\ x.crev = y.crev /\ x.on = y.on /\ x.next = y.next
  BY <1>2, <1>3, RevisedFields
<1>6. /\ x \in Item
      /\ x.rev = item.rev + 1 /\ x.tok = item.tok /\ x.crev = item.crev
      /\ q.patch = "off" => ~x.on
      /\ q.patch = "on" => x.on
      /\ q.patch \in {"skip", "prompt", "none"} => x.on = item.on
      /\ x.next = PatchedNext(item, q.patch)
  BY <1>2, <1>4, <1>5
<1> QED BY <1>6 DEF x

Throws(q) == q.op = "update" /\ item = Absent

\* The operations that change the item.
Granting(q) == q.op = "claim" /\ ClaimGranted(q)
Releasing(q) == q.op \in {"abandon", "finalize"} /\ Holds(q) /\ ~(q.op = "finalize" /\ Completes(q))
Removing(q) == q.op = "delete" \/ (q.op = "finalize" /\ Completes(q))
Saving(q) == Granting(q) \/ Releasing(q) \/ Removing(q) \/ q.op \in {"update", "create"}

\* What an operation returns: either nothing changes, or the new item is saved and answered.
Returns(q, e) ==
    /\ e.to \in Copy /\ e.save \in BOOLEAN /\ e.yes \in BOOLEAN /\ e.res = e.to
    /\ e.save <=> Saving(q)
    /\ Granting(q) => e.to = ClaimedItem /\ item # Absent
    /\ Releasing(q) => e.to = Unclaimed(item) /\ item # Absent
    /\ Removing(q) => e.to = Absent
    /\ q.op = "update" => e.to = UpdatedItem(q) /\ item # Absent
    /\ q.op = "create" => e.to = q.arg
    /\ ~Saving(q) => e.to = item
    /\ q.op = "claim" => (e.yes <=> ClaimGranted(q))
    /\ q.op = "authorize" => (e.yes <=> Authorized(q))
    /\ q.op \notin {"claim", "authorize"} => e.yes

LEMMA EffectReturns ==
    ASSUME Typed, NEW q \in Entry, q.op # "replaceAll", ~Throws(q)
    PROVE  Returns(q, Effect(q))
<1> DEFINE e == Effect(q)
<1>1. /\ q.op \in Ops /\ q.arg \in Copy /\ q.patch \in Patches /\ q.tok \in Nat
      /\ item \in Copy /\ claims + 1 \in Nat /\ Absent \in Copy
  BY DEF Entry, Typed, Copy
<1>2. item # Absent => /\ Unclaimed(item) \in Copy /\ ClaimedItem \in Copy
                       /\ UpdatedItem(q) \in Copy
  BY UpdatedItemFields, ClaimedItemFields, UnclaimedFields DEF Copy
<1>3. /\ ClaimGranted(q) \in BOOLEAN /\ Authorized(q) \in BOOLEAN
      /\ ClaimGranted(q) => item # Absent
      /\ Authorized(q) => item # Absent /\ Holds(q)
      /\ Holds(q) => item # Absent
      /\ Completes(q) => Authorized(q)
  BY DEF ClaimGranted, Authorized, Holds, Completes
<1>4. CASE q.op = "claim"
  <2>1. e = IF ClaimGranted(q) THEN Answer(ClaimedItem, TRUE, TRUE, ClaimedItem)
            ELSE Answer(item, FALSE, FALSE, item)
    BY <1>4 DEF Effect, Claim, ClaimedItem
  <2>2. IF ClaimGranted(q) THEN e.to = ClaimedItem /\ e.save = TRUE /\ e.yes = TRUE /\ e.res = ClaimedItem
        ELSE e.to = item /\ e.save = FALSE /\ e.yes = FALSE /\ e.res = item
    BY <2>1 DEF Answer
  <2> HIDE DEF e
  <2>3. Returns(q, e)
    BY <1>1, <1>2, <1>3, <1>4, <2>2 DEF Returns, Saving, Granting, Releasing, Removing
  <2> QED BY <2>3 DEF e
<1>5. CASE q.op = "authorize"
  <2>1. e = Answer(item, FALSE, Authorized(q), item)
    BY <1>5 DEF Effect, Authorize
  <2>2. e.to = item /\ e.save = FALSE /\ e.yes = Authorized(q) /\ e.res = item
    BY <2>1 DEF Answer
  <2> HIDE DEF e
  <2>3. Returns(q, e)
    BY <1>1, <1>2, <1>3, <1>5, <2>2 DEF Returns, Saving, Granting, Releasing, Removing
  <2> QED BY <2>3 DEF e
<1>6. CASE q.op = "abandon"
  <2>1. e = IF Holds(q) THEN Answer(Unclaimed(item), TRUE, TRUE, Unclaimed(item))
            ELSE Answer(item, FALSE, TRUE, item)
    BY <1>6 DEF Effect, Abandon
  <2>2. IF Holds(q) THEN e.to = Unclaimed(item) /\ e.save = TRUE /\ e.yes = TRUE /\ e.res = Unclaimed(item)
        ELSE e.to = item /\ e.save = FALSE /\ e.yes = TRUE /\ e.res = item
    BY <2>1 DEF Answer
  <2> HIDE DEF e
  <2>3. Returns(q, e)
    BY <1>1, <1>2, <1>3, <1>6, <2>2 DEF Returns, Saving, Granting, Releasing, Removing
  <2> QED BY <2>3 DEF e
<1>7. CASE q.op = "finalize"
  <2>1. e = IF Completes(q) THEN Answer(Absent, TRUE, TRUE, Absent)
            ELSE IF Holds(q) THEN Answer(Unclaimed(item), TRUE, TRUE, Unclaimed(item))
            ELSE Answer(item, FALSE, TRUE, item)
    BY <1>7 DEF Effect, Abandon, Finalize
  <2>2. IF Completes(q) THEN e.to = Absent /\ e.save = TRUE /\ e.yes = TRUE /\ e.res = Absent
        ELSE IF Holds(q)
             THEN e.to = Unclaimed(item) /\ e.save = TRUE /\ e.yes = TRUE /\ e.res = Unclaimed(item)
             ELSE e.to = item /\ e.save = FALSE /\ e.yes = TRUE /\ e.res = item
    BY <2>1 DEF Answer
  <2> HIDE DEF e
  <2>3. Returns(q, e)
    BY <1>1, <1>2, <1>3, <1>7, <2>2 DEF Returns, Saving, Granting, Releasing, Removing
  <2> QED BY <2>3 DEF e
<1>8. CASE q.op = "update"
  <2>1. e = Answer(UpdatedItem(q), TRUE, TRUE, UpdatedItem(q))
    BY <1>8 DEF Effect, Update, UpdatedItem
  <2>2. e.to = UpdatedItem(q) /\ e.save = TRUE /\ e.yes = TRUE /\ e.res = UpdatedItem(q)
    BY <2>1 DEF Answer
  <2>3. item # Absent
    BY <1>8 DEF Throws
  <2> HIDE DEF e
  <2>4. Returns(q, e)
    BY <1>1, <1>2, <1>3, <1>8, <2>2, <2>3 DEF Returns, Saving, Granting, Releasing, Removing
  <2> QED BY <2>4 DEF e
<1>9. CASE q.op = "delete"
  <2>1. e = Answer(Absent, TRUE, TRUE, Absent)
    BY <1>9 DEF Effect
  <2>2. e.to = Absent /\ e.save = TRUE /\ e.yes = TRUE /\ e.res = Absent
    BY <2>1 DEF Answer
  <2> HIDE DEF e
  <2>3. Returns(q, e)
    BY <1>1, <1>2, <1>3, <1>9, <2>2 DEF Returns, Saving, Granting, Releasing, Removing
  <2> QED BY <2>3 DEF e
<1>10. CASE q.op = "create"
  <2>1. e = Answer(q.arg, TRUE, TRUE, q.arg)
    BY <1>10 DEF Effect
  <2>2. e.to = q.arg /\ e.save = TRUE /\ e.yes = TRUE /\ e.res = q.arg
    BY <2>1 DEF Answer
  <2> HIDE DEF e
  <2>3. Returns(q, e)
    BY <1>1, <1>2, <1>3, <1>10, <2>2 DEF Returns, Saving, Granting, Releasing, Removing
  <2> QED BY <2>3 DEF e
<1> QED BY <1>1, <1>4, <1>5, <1>6, <1>7, <1>8, <1>9, <1>10 DEF Ops, FireOps

-----------------------------------------------------------------------------
(* Every step keeps the types.                                             *)

LEMMA SameQueueTyped == ASSUME QueueTyped, queue' = queue PROVE QueueTyped'
BY DEF QueueTyped, Keeps

\* What is known of the variables, one by one.
LEMMA FromTyped ==
    ASSUME Typed
    PROVE  /\ disk \in Copy /\ item \in Copy /\ Absent \in Copy
           /\ settings \in [Gens -> Copy] /\ local \in [Gens -> Copy]
           /\ wake \in [Gens -> BOOLEAN] /\ fire \in [Gens -> Fires]
           /\ regs \in Seq(Gens) /\ adapter \in 0 .. MaxGen /\ fence \in 0 .. MaxGen
           /\ QueueTyped /\ pass \in Passes
           /\ pass.gen \in 0 .. MaxGen /\ pass.snap \in Copy /\ pass.again \in BOOLEAN
           /\ cur \in 0 .. MaxGen /\ claims \in Nat /\ MaxGen \in Nat \ {0}
           /\ \A g \in Gens : local[g] \in Copy /\ settings[g] \in Copy /\ fire[g] \in Fires
BY BoundsAssumption DEF Typed, Passes, Copy

LEMMA AdapterIsGen ==
    ASSUME Typed, adapter # 0
    PROVE  adapter \in Gens
BY BoundsAssumption DEF Typed, Gens

LEMMA NewFire ==
    ASSUME Typed, NEW g \in Gens, NEW at \in FirePoints
    PROVE  /\ [fire[g] EXCEPT !.at = at] \in Fires
           /\ [fire EXCEPT ![g].at = at] = [fire EXCEPT ![g] = [fire[g] EXCEPT !.at = at]]
           /\ [fire EXCEPT ![g].at = at] \in [Gens -> Fires]
           /\ [fire EXCEPT ![g] = Idle] \in [Gens -> Fires]
<1>1. fire[g] \in Fires /\ fire \in [Gens -> Fires] /\ Idle \in Fires
  BY FromTyped, IdleFields
<1>2. [fire[g] EXCEPT !.at = at] \in Fires
  BY <1>1 DEF Fires
<1>3. [fire EXCEPT ![g].at = at] = [fire EXCEPT ![g] = [fire[g] EXCEPT !.at = at]]
  BY <1>1
<1> HIDE DEF Fires
<1>4. \A f \in Fires : [fire EXCEPT ![g] = f] \in [Gens -> Fires]
  BY <1>1
<1> QED BY <1>1, <1>2, <1>3, <1>4

\* A save that is asked for makes a pass.
LEMMA SaveStageTyped ==
    ASSUME NEW p, NEW g
    PROVE  SaveStage(p, g) \in {"this", "next", "ok"} /\ SaveStage(p, g) \in Stages
BY DEF SaveStage, Stages

LEMMA WriteDoneTyped == ASSUME Typed, WriteDone PROVE Typed'
<1> DEFINE more == pass.again /\ fence = pass.gen
<1>1. /\ pass.gen \in Gens /\ pass.snap \in Copy
      /\ [gen |-> pass.gen, snap |-> settings[pass.gen], again |-> FALSE] \in Passes
      /\ NoPass \in Passes /\ "fenced" \in Mishaps
  BY FromTyped, BoundsAssumption DEF WriteDone, Gens, Passes, NoPass, Mishaps
<1>2. pass' \in Passes
  BY <1>1 DEF WriteDone
<1>3. QueueTyped'
  <2>1. CASE ~Waiting(pass.gen)
    BY <2>1, FromTyped, SameQueueTyped DEF WriteDone
  <2>2. CASE Waiting(pass.gen)
    <3>1. AfterWrite(more) \in Stages /\ queue # <<>>
      BY <2>2 DEF AfterWrite, Stages, Waiting, Running
    <3>2. queue' = HeadStage(AfterWrite(more))
      BY <2>2 DEF WriteDone
    <3> HIDE DEF more
    <3> QED BY <3>1, <3>2, FromTyped, StageTyped
  <2> QED BY <2>1, <2>2
<1>4. mishaps' \subseteq Mishaps
  BY <1>1 DEF WriteDone, Typed
<1> QED BY <1>1, <1>2, <1>3, <1>4 DEF WriteDone, Typed

LEMMA WriteFailsTyped == ASSUME Typed, WriteFails PROVE Typed'
<1>1. NoPass \in Passes /\ "failure" \in Mishaps /\ upsets' \in Nat
  BY FromTyped, BoundsAssumption DEF WriteFails, Passes, NoPass, Mishaps, Typed
<1>2. QueueTyped'
  <2>1. CASE ~Waiting(pass.gen)
    BY <2>1, FromTyped, SameQueueTyped DEF WriteFails
  <2>2. CASE Waiting(pass.gen)
    BY <2>2, FromTyped, StageTyped DEF Stages, Waiting, Running, WriteFails
  <2> QED BY <2>1, <2>2
<1> QED BY <1>1, <1>2 DEF WriteFails, Typed

LEMMA OtherSaveTyped == ASSUME Typed, NEW g \in Gens, OtherSave(g) PROVE Typed'
<1>1. pass' \in Passes /\ upsets' \in Nat
  BY FromTyped, RequestedTyped DEF OtherSave, Typed
<1>2. QueueTyped'
  BY FromTyped, SameQueueTyped DEF OtherSave
<1> QED BY <1>1, <1>2 DEF OtherSave, Typed

LEMMA WakeTyped == ASSUME Typed, NEW g \in Gens, Wake(g) PROVE Typed'
<1>1. fire' \in [Gens -> Fires]
  <2>1. local[g] \in Copy /\ local[g].next \in Slots /\ fire \in [Gens -> Fires]
    BY FromTyped, CopyFields DEF Wake, Due
  <2>2. [Idle EXCEPT !.at = "claim", !.due = local[g].next, !.held = local[g]] \in Fires
    BY <2>1, IdleFields DEF Fires, FirePoints
  <2> QED BY <2>1, <2>2 DEF Wake
<1>2. QueueTyped'
  <2>1. local[g].next \in Slots /\ "claim" \in Ops
    BY FromTyped, CopyFields DEF Wake, Due, Ops, FireOps
  <2>2. Queued([Op("claim", g) EXCEPT !.due = local[g].next], "claim", g)
    BY <2>1, QueuedDue
  <2>3. queue' = Append(queue, [Op("claim", g) EXCEPT !.due = local[g].next])
    BY DEF Wake
  <2> QED BY <2>2, <2>3, FromTyped, QueuedKeeps, PushTyped
<1>3. wake' \in [Gens -> BOOLEAN]
  BY FromTyped DEF Wake
<1> QED BY <1>1, <1>2, <1>3 DEF Wake, Typed

LEMMA WakeSkipsTyped == ASSUME Typed, NEW g \in Gens, WakeSkips(g) PROVE Typed'
<1>1. fire' \in [Gens -> Fires]
  <2>1. local[g] \in Copy /\ fire \in [Gens -> Fires]
    BY FromTyped
  <2>2. [Idle EXCEPT !.at = "skip", !.held = local[g]] \in Fires
    BY <2>1, IdleFields DEF Fires, FirePoints
  <2> QED BY <2>1, <2>2 DEF WakeSkips
<1>2. QueueTyped'
  <2>1. "update" \in Ops /\ "skip" \in Patches
    BY DEF Ops, Patches
  <2>2. Queued([Op("update", g) EXCEPT !.patch = "skip"], "update", g)
    BY <2>1, QueuedPatch
  <2>3. queue' = Append(queue, [Op("update", g) EXCEPT !.patch = "skip"])
    BY DEF WakeSkips
  <2> QED BY <2>2, <2>3, FromTyped, QueuedKeeps, PushTyped
<1>3. wake' \in [Gens -> BOOLEAN]
  BY FromTyped DEF WakeSkips
<1>4. mishaps' \subseteq Mishaps
  BY DEF WakeSkips, Typed, Mishaps
<1> QED BY <1>1, <1>2, <1>3, <1>4 DEF WakeSkips, Typed

LEMMA WakeWhileFiringTyped == ASSUME Typed, NEW g \in Gens, WakeWhileFiring(g) PROVE Typed'
<1>1. QueueTyped' /\ wake' \in [Gens -> BOOLEAN]
  BY FromTyped, SameQueueTyped DEF WakeWhileFiring
<1> QED BY <1>1 DEF WakeWhileFiring, Typed

LEMMA MissedTyped == ASSUME Typed, NEW g \in Gens, Missed(g) PROVE Typed'
<1>1. QueueTyped'
  BY FromTyped, SameQueueTyped DEF Missed
<1>2. /\ local' \in [Gens -> Copy] /\ settings' \in [Gens -> Copy] /\ pass' \in Passes
      /\ wake' \in [Gens -> BOOLEAN] /\ mishaps' \subseteq Mishaps
  BY FromTyped, RearmTyped DEF Missed
<1> QED BY <1>1, <1>2 DEF Missed, Typed

\* The running operation, when it is about to begin.
Beginning == queue # <<>> /\ Head(queue).stage = "queued"

\* The two ways in which an operation other than replaceAll begins.
LEMMA BeginOpIs ==
    ASSUME Typed, BeginOp, Head(queue).stage = "queued", queue # <<>>
    PROVE  LET q == Head(queue) e == Effect(q) IN
           \/ /\ Throws(q) /\ queue' = HeadStage("failed")
              /\ item' = item /\ settings' = settings /\ pass' = pass /\ claims' = claims
           \/ /\ ~Throws(q)
              /\ item' = e.to
              /\ claims' = IF q.op = "claim" /\ e.yes THEN claims + 1 ELSE claims
              /\ IF e.save /\ adapter # 0
                 THEN /\ settings' = [settings EXCEPT ![adapter] = e.to]
                      /\ pass' = Requested(pass, adapter, e.to)
                      /\ queue' = [queue EXCEPT ![1] = [q EXCEPT !.yes = e.yes, !.res = e.res,
                                                            !.by = adapter, !.stage = SaveStage(pass, adapter)]]
                 ELSE /\ queue' = [queue EXCEPT ![1] = [q EXCEPT !.yes = e.yes, !.res = e.res, !.by = adapter,
                                                            !.stage = IF e.save THEN "failed" ELSE "ok"]]
                      /\ settings' = settings /\ pass' = pass
BY DEF BeginOp, Throws

\* An operation that has begun.
BegunEntry(q, e, st) == [q EXCEPT !.yes = e.yes, !.res = e.res, !.by = adapter, !.stage = st]

LEMMA BegunEntryFields ==
    ASSUME Typed, NEW q \in Entry, q.op # "replaceAll", ~Throws(q), NEW st \in Stages, NEW b,
           b = BegunEntry(q, Effect(q), st)
    PROVE  /\ b \in Entry /\ Keeps(b)
           /\ b.op = q.op /\ b.gen = q.gen /\ b.due = q.due /\ b.tok = q.tok /\ b.patch = q.patch /\ b.arg = q.arg
           /\ b.stage = st /\ b.by = adapter /\ b.yes = Effect(q).yes /\ b.res = Effect(q).to
<1>1. Returns(q, Effect(q)) /\ adapter \in 0 .. MaxGen
  BY EffectReturns, FromTyped
<1>2. /\ Effect(q).yes \in BOOLEAN /\ Effect(q).res \in Copy /\ Effect(q).res = Effect(q).to
      /\ q.op = "claim" /\ Effect(q).yes => Effect(q).res # Absent
  <2>1. q.op = "claim" /\ Effect(q).yes => Granting(q) /\ Effect(q).to = ClaimedItem /\ item # Absent
    BY <1>1 DEF Returns, Granting
  <2>2. item # Absent => ClaimedItem # Absent
    BY ClaimedItemFields, AbsentAssumption
  <2> QED BY <1>1, <2>1, <2>2 DEF Returns
<1> DEFINE yes == Effect(q).yes
           res == Effect(q).res
<1>3. b = [q EXCEPT !.yes = yes, !.res = res, !.by = adapter, !.stage = st]
  BY DEF BegunEntry
<1>4. yes \in BOOLEAN /\ res \in Copy
  BY <1>2
<1> HIDE DEF yes, res
<1>5. /\ b \in Entry /\ b.op = q.op /\ b.gen = q.gen /\ b.due = q.due /\ b.tok = q.tok /\ b.patch = q.patch
      /\ b.arg = q.arg /\ b.stage = st /\ b.by = adapter /\ b.yes = yes /\ b.res = res
  <2>1. adapter \in 0 .. MaxGen
    BY <1>1
  <2>2. b \in Entry
    BY <1>3, <1>4, <2>1 DEF Entry
  <2>3. q = [op |-> q.op, gen |-> q.gen, due |-> q.due, tok |-> q.tok, patch |-> q.patch, arg |-> q.arg,
             stage |-> q.stage, by |-> q.by, yes |-> q.yes, res |-> q.res]
    BY DEF Entry
  <2> QED BY <1>3, <2>2, <2>3
<1> QED BY <1>2, <1>5 DEF Keeps, yes, res

\* How BeginOp changes the state, with the new head as an entry b.
BeginsAs(q, b) ==
    /\ b \in Entry /\ Keeps(b)
    /\ b.op = q.op /\ b.gen = q.gen /\ b.due = q.due /\ b.tok = q.tok /\ b.patch = q.patch /\ b.arg = q.arg
    /\ queue' = [queue EXCEPT ![1] = b]
    /\ \/ /\ Throws(q) /\ b = [q EXCEPT !.stage = "failed"] /\ b.stage = "failed" /\ b.by = q.by
          /\ b.res = q.res /\ b.yes = q.yes
          /\ item' = item /\ settings' = settings /\ pass' = pass /\ claims' = claims
       \/ /\ ~Throws(q) /\ Returns(q, [to |-> item', save |-> Saving(q), yes |-> b.yes, res |-> b.res])
          /\ claims' = IF Granting(q) THEN claims + 1 ELSE claims
          /\ b.by = adapter /\ b.res = item'
          /\ \/ /\ Saving(q) /\ adapter # 0 /\ adapter \in Gens
                /\ settings' = [settings EXCEPT ![adapter] = item']
                /\ pass' = Requested(pass, adapter, item')
                /\ b.stage = SaveStage(pass, adapter)
             \/ /\ Saving(q) /\ adapter = 0 /\ b.stage = "failed"
                /\ settings' = settings /\ pass' = pass
             \/ /\ ~Saving(q) /\ b.stage = "ok"
                /\ settings' = settings /\ pass' = pass

LEMMA BeginOpBegins ==
    ASSUME Typed, BeginOp
    PROVE  /\ queue # <<>> /\ Head(queue).stage = "queued" /\ Head(queue).op # "replaceAll"
           /\ Head(queue) \in Entry
           /\ \E b : BeginsAs(Head(queue), b)
<1> DEFINE q == Head(queue)
           e == Effect(q)
<1>1. queue # <<>> /\ q.stage = "queued" /\ q.op # "replaceAll"
  BY DEF BeginOp
<1>2. q \in Entry /\ Keeps(q) /\ q = queue[1]
  BY <1>1, FromTyped, HeadIsEntry
<1>3. CASE Throws(q)
  <2> DEFINE b == [q EXCEPT !.stage = "failed"]
  <2>1. /\ b \in Entry /\ b.op = q.op /\ b.gen = q.gen /\ b.due = q.due /\ b.tok = q.tok /\ b.patch = q.patch
        /\ b.arg = q.arg /\ b.stage = "failed" /\ b.by = q.by /\ b.res = q.res /\ b.yes = q.yes
    BY <1>2 DEF Entry, Stages
  <2>2. queue' = HeadStage("failed") /\ item' = item /\ settings' = settings /\ pass' = pass /\ claims' = claims
    BY <1>1, <1>3, BeginOpIs
  <2>3. queue' = [queue EXCEPT ![1] = b]
    BY <1>2, <2>2 DEF HeadStage
  <2>4. Keeps(b)
    BY <1>2, <2>1 DEF Keeps
  <2>5. BeginsAs(q, b)
    BY <1>3, <2>1, <2>2, <2>3, <2>4 DEF BeginsAs
  <2> QED BY <1>1, <1>2, <2>5
<1>4. CASE ~Throws(q)
  <2>1. Returns(q, e)
    BY <1>1, <1>2, <1>4, EffectReturns
  <2>2. /\ item' = e.to
        /\ claims' = IF q.op = "claim" /\ e.yes THEN claims + 1 ELSE claims
        /\ IF e.save /\ adapter # 0
           THEN /\ settings' = [settings EXCEPT ![adapter] = e.to]
                /\ pass' = Requested(pass, adapter, e.to)
                /\ queue' = [queue EXCEPT ![1] = BegunEntry(q, e, SaveStage(pass, adapter))]
           ELSE /\ queue' = [queue EXCEPT ![1] = BegunEntry(q, e, IF e.save THEN "failed" ELSE "ok")]
                /\ settings' = settings /\ pass' = pass
    BY <1>1, <1>4, BeginOpIs DEF BegunEntry
  <2>3. /\ q.op = "claim" /\ e.yes <=> Granting(q)
        /\ e.save <=> Saving(q)
    BY <2>1 DEF Returns, Granting
  <2> DEFINE st == IF e.save /\ adapter # 0 THEN SaveStage(pass, adapter)
                   ELSE IF e.save THEN "failed" ELSE "ok"
             b == BegunEntry(q, e, st)
  <2>4. st \in Stages
    BY SaveStageTyped DEF Stages
  <2>5. /\ b \in Entry /\ Keeps(b)
        /\ b.op = q.op /\ b.gen = q.gen /\ b.due = q.due /\ b.tok = q.tok /\ b.patch = q.patch /\ b.arg = q.arg
        /\ b.stage = st /\ b.by = adapter /\ b.yes = e.yes /\ b.res = e.to
    BY <1>1, <1>2, <1>4, <2>4, BegunEntryFields
  <2>6. queue' = [queue EXCEPT ![1] = b]
    BY <2>2
  <2> HIDE DEF b
  <2>7. Returns(q, [to |-> item', save |-> Saving(q), yes |-> b.yes, res |-> b.res])
    <3>1. e.save = Saving(q)
      BY <2>1, <2>3 DEF Returns, Saving, Granting, Releasing, Removing, ClaimGranted, Holds, Completes, Authorized
    <3>2. e.res = b.res /\ e.to = item' /\ e.yes = b.yes
      BY <2>1, <2>2, <2>5 DEF Returns
    <3> HIDE DEF e
    <3> QED BY <2>1, <3>1, <3>2 DEF Returns
  <2>8. adapter # 0 => adapter \in Gens
    BY AdapterIsGen
  <2>9. BeginsAs(q, b)
    <3> HIDE DEF e
    <3>1. CASE Saving(q) /\ adapter # 0
      BY <1>4, <2>2, <2>3, <2>5, <2>6, <2>7, <2>8, <3>1 DEF BeginsAs
    <3>2. CASE Saving(q) /\ adapter = 0
      BY <1>4, <2>2, <2>3, <2>5, <2>6, <2>7, <2>8, <3>2 DEF BeginsAs
    <3>3. CASE ~Saving(q)
      BY <1>4, <2>2, <2>3, <2>5, <2>6, <2>7, <2>8, <3>3 DEF BeginsAs
    <3> QED BY <3>1, <3>2, <3>3
  <2> QED BY <1>1, <1>2, <2>9
<1> QED BY <1>3, <1>4

LEMMA BeginOpTyped == ASSUME Typed, BeginOp PROVE Typed'
<1> DEFINE q == Head(queue)
<1>1. /\ queue # <<>> /\ q \in Entry
      /\ \E b : BeginsAs(q, b)
  BY BeginOpBegins
<1>2. PICK b : BeginsAs(q, b)
  BY <1>1
<1>3. b \in Entry /\ Keeps(b) /\ queue' = [queue EXCEPT ![1] = b]
  BY <1>2 DEF BeginsAs
<1>4. QueueTyped'
  BY <1>1, <1>3, FromTyped, HeadTyped
<1>5. item' \in Copy /\ claims' \in Nat
  BY <1>2, FromTyped DEF BeginsAs, Returns
<1>6. settings' \in [Gens -> Copy] /\ pass' \in Passes
  <2>1. \/ /\ adapter \in Gens /\ settings' = [settings EXCEPT ![adapter] = item']
           /\ pass' = Requested(pass, adapter, item')
        \/ settings' = settings /\ pass' = pass
    BY <1>2 DEF BeginsAs
  <2>2. ASSUME NEW g \in Gens PROVE Requested(pass, g, item') \in Passes
    BY <1>5, FromTyped, RequestedTyped
  <2>3. settings \in [Gens -> Copy] /\ pass \in Passes
    BY FromTyped
  <2> QED BY <1>5, <2>1, <2>2, <2>3
<1> QED BY <1>4, <1>5, <1>6 DEF BeginOp, Typed

\* How BeginReplaceAll changes the state, with the new head as an entry b.
ReplacesAs(q, b) ==
    /\ b \in Entry /\ Keeps(b)
    /\ b.op = q.op /\ b.gen = q.gen /\ b.due = q.due /\ b.tok = q.tok /\ b.patch = q.patch /\ b.arg = q.arg
    /\ queue' = [queue EXCEPT ![1] = b]
    /\ \/ /\ adapter = 0 /\ b.stage = "failed" /\ b.by = q.by /\ b.res = q.res /\ b.yes = q.yes
          /\ settings' = settings /\ pass' = pass
       \/ /\ adapter # 0 /\ adapter \in Gens
          /\ settings' = [settings EXCEPT ![adapter] = q.arg]
          /\ pass' = Requested(pass, adapter, q.arg)
          /\ b.stage = SaveStage(pass, adapter) /\ b.by = adapter /\ b.yes /\ b.res = settings[adapter]

LEMMA BeginReplaceAllReplaces ==
    ASSUME Typed, BeginReplaceAll
    PROVE  /\ queue # <<>> /\ Head(queue).stage = "queued" /\ Head(queue).op = "replaceAll"
           /\ Head(queue) \in Entry
           /\ \E b : ReplacesAs(Head(queue), b)
<1> DEFINE q == Head(queue)
<1>1. queue # <<>> /\ q.stage = "queued" /\ q.op = "replaceAll"
  BY DEF BeginReplaceAll
<1>2. q \in Entry /\ Keeps(q) /\ q = queue[1]
  BY <1>1, FromTyped, HeadIsEntry
<1>3. CASE adapter = 0
  <2> DEFINE b == [q EXCEPT !.stage = "failed"]
  <2>1. /\ b \in Entry /\ b.op = q.op /\ b.gen = q.gen /\ b.due = q.due /\ b.tok = q.tok /\ b.patch = q.patch
        /\ b.arg = q.arg /\ b.stage = "failed" /\ b.by = q.by /\ b.res = q.res /\ b.yes = q.yes
    BY <1>2 DEF Entry, Stages
  <2>2. queue' = HeadStage("failed") /\ settings' = settings /\ pass' = pass
    BY <1>1, <1>3 DEF BeginReplaceAll
  <2>3. queue' = [queue EXCEPT ![1] = b]
    BY <1>2, <2>2 DEF HeadStage
  <2>4. Keeps(b)
    BY <1>1, <2>1 DEF Keeps
  <2>5. ReplacesAs(q, b)
    BY <1>3, <2>1, <2>2, <2>3, <2>4 DEF ReplacesAs
  <2> QED BY <1>1, <1>2, <2>5
<1>4. CASE adapter # 0
  <2> DEFINE st == SaveStage(pass, adapter)
             res == settings[adapter]
             b == [q EXCEPT !.stage = st, !.by = adapter, !.yes = TRUE, !.res = res]
  <2>1. st \in Stages /\ adapter \in Gens /\ adapter \in 0 .. MaxGen /\ res \in Copy
    BY <1>4, SaveStageTyped, AdapterIsGen, FromTyped
  <2>2. /\ queue' = [queue EXCEPT ![1] = b]
        /\ settings' = [settings EXCEPT ![adapter] = q.arg]
        /\ pass' = Requested(pass, adapter, q.arg)
    BY <1>4 DEF BeginReplaceAll
  <2>3. st = SaveStage(pass, adapter) /\ res = settings[adapter]
    OBVIOUS
  <2>4. b = [q EXCEPT !.stage = st, !.by = adapter, !.yes = TRUE, !.res = res]
    OBVIOUS
  <2> HIDE DEF st, res, b
  <2>5. /\ b \in Entry /\ b.op = q.op /\ b.gen = q.gen /\ b.due = q.due /\ b.tok = q.tok /\ b.patch = q.patch
        /\ b.arg = q.arg /\ b.stage = st /\ b.by = adapter /\ b.yes = TRUE /\ b.res = res
    BY <1>2, <2>1, <2>4 DEF Entry
  <2>6. Keeps(b)
    BY <1>1, <2>5 DEF Keeps
  <2>7. ReplacesAs(q, b)
    BY <1>4, <2>1, <2>2, <2>3, <2>5, <2>6 DEF ReplacesAs
  <2> QED BY <1>1, <1>2, <2>7
<1> QED BY <1>3, <1>4

LEMMA BeginReplaceAllTyped == ASSUME Typed, BeginReplaceAll PROVE Typed'
<1> DEFINE q == Head(queue)
<1>1. /\ queue # <<>> /\ q \in Entry
      /\ \E b : ReplacesAs(q, b)
  BY BeginReplaceAllReplaces
<1>2. PICK b : ReplacesAs(q, b)
  BY <1>1
<1>3. b \in Entry /\ Keeps(b) /\ queue' = [queue EXCEPT ![1] = b] /\ q.arg \in Copy
  BY <1>1, <1>2 DEF ReplacesAs, Entry
<1>4. QueueTyped'
  BY <1>1, <1>3, FromTyped, HeadTyped
<1>5. settings' \in [Gens -> Copy] /\ pass' \in Passes
  <2>1. \/ /\ adapter \in Gens /\ settings' = [settings EXCEPT ![adapter] = q.arg]
           /\ pass' = Requested(pass, adapter, q.arg)
        \/ settings' = settings /\ pass' = pass
    BY <1>2 DEF ReplacesAs
  <2>2. ASSUME NEW g \in Gens PROVE Requested(pass, g, q.arg) \in Passes
    BY <1>3, FromTyped, RequestedTyped
  <2>3. settings \in [Gens -> Copy] /\ pass \in Passes
    BY FromTyped
  <2> HIDE DEF q
  <2> QED BY <1>3, <2>1, <2>2, <2>3
<1> QED BY <1>4, <1>5 DEF BeginReplaceAll, Typed

\* An operation that answers.
LEMMA AnsweringTyped ==
    ASSUME Typed, NEW name, NEW g \in Gens, Answers(name, g)
    PROVE  /\ queue # <<>> /\ Head(queue) \in Entry /\ Keeps(Head(queue)) /\ Head(queue) = queue[1]
           /\ Head(queue).res \in Copy /\ Head(queue).arg \in Copy /\ Head(queue).by \in 0 .. MaxGen
           /\ Head(queue).gen = g /\ Head(queue).op = name /\ Head(queue).stage \in {"ok", "failed"}
           /\ (Pop => QueueTyped')
<1>1. queue # <<>> /\ Head(queue).gen = g /\ Head(queue).op = name /\ Head(queue).stage \in {"ok", "failed"}
  BY DEF Answers, Settled
<1>2. Head(queue) \in Entry /\ Keeps(Head(queue)) /\ Head(queue) = queue[1]
  BY <1>1, FromTyped, HeadIsEntry
<1>3. Pop => QueueTyped'
  BY <1>1, FromTyped, PopTyped DEF Pop
<1> QED BY <1>1, <1>2, <1>3 DEF Entry

LEMMA ClaimedTyped == ASSUME Typed, NEW g \in Gens, Claimed(g) PROVE Typed'
<1>1. Answers("claim", g) /\ Pop /\ Head(queue).yes
  BY DEF Claimed
<1>2. Head(queue).res \in Copy /\ Head(queue).res # Absent /\ QueueTyped'
  BY <1>1, AnsweringTyped DEF Keeps
<1>3. local' \in [Gens -> Copy]
  BY <1>2, FromTyped DEF Claimed
<1>4. fire' \in [Gens -> Fires]
  <2>1. Head(queue).res.tok \in Nat /\ fire[g].due \in Slots /\ fire \in [Gens -> Fires]
    BY <1>2, CopyFields, FireFields, FromTyped
  <2>2. [Idle EXCEPT !.at = "gate", !.due = fire[g].due, !.tok = Head(queue).res.tok] \in Fires
    BY <2>1, IdleFields DEF Fires, FirePoints
  <2> QED BY <2>1, <2>2 DEF Claimed
<1> QED BY <1>2, <1>3, <1>4 DEF Claimed, Typed

LEMMA EndsFireTyped == ASSUME Typed, NEW g \in Gens, EndsFire(g) PROVE fire' \in [Gens -> Fires]
BY FromTyped, NewFire DEF EndsFire, FirePoints

LEMMA ClaimRefusedTyped == ASSUME Typed, NEW g \in Gens, ClaimRefused(g) PROVE Typed'
<1>1. Answers("claim", g) /\ Pop /\ EndsFire(g)
  BY DEF ClaimRefused
<1>2. Head(queue).res \in Copy /\ QueueTyped' /\ fire' \in [Gens -> Fires]
  BY <1>1, AnsweringTyped, EndsFireTyped
<1>3. /\ local' \in [Gens -> Copy] /\ settings' \in [Gens -> Copy] /\ pass' \in Passes
      /\ wake' \in [Gens -> BOOLEAN] /\ mishaps' \subseteq Mishaps
  BY <1>2, RearmTyped DEF ClaimRefused, Typed
<1> QED BY <1>2, <1>3 DEF ClaimRefused, Typed

LEMMA FireFailsTyped == ASSUME Typed, NEW g \in Gens, FireFails(g) PROVE Typed'
<1>1. (Answers("claim", g) \/ Answers("update", g)) /\ Pop /\ EndsFire(g)
  BY DEF FireFails
<1>2. QueueTyped' /\ fire' \in [Gens -> Fires] /\ local[g] \in Copy /\ fire[g].held \in Copy
  BY <1>1, AnsweringTyped, EndsFireTyped, FromTyped, FireFields
<1>3. /\ local' \in [Gens -> Copy] /\ settings' \in [Gens -> Copy] /\ pass' \in Passes
      /\ wake' \in [Gens -> BOOLEAN] /\ mishaps' \subseteq Mishaps
  BY <1>2, ArmTimerTyped DEF FireFails
<1> QED BY <1>2, <1>3 DEF FireFails, Typed

LEMMA SkippedTyped == ASSUME Typed, NEW g \in Gens, Skipped(g) PROVE Typed'
<1>1. Answers("update", g) /\ Pop /\ EndsFire(g)
  BY DEF Skipped
<1>2. Head(queue).res \in Copy /\ QueueTyped' /\ fire' \in [Gens -> Fires]
  BY <1>1, AnsweringTyped, EndsFireTyped
<1>3. /\ local' \in [Gens -> Copy] /\ settings' \in [Gens -> Copy] /\ pass' \in Passes
      /\ wake' \in [Gens -> BOOLEAN] /\ mishaps' \subseteq Mishaps
  BY <1>2, RearmTyped DEF Skipped
<1> QED BY <1>2, <1>3 DEF Skipped, Typed

LEMMA GateEndsTyped == ASSUME Typed, NEW g \in Gens, GateEnds(g) PROVE Typed'
<1>1. PICK next \in {"authorize", "finalize"} :
          /\ fire' = [fire EXCEPT ![g].at = next]
          /\ queue' = Append(queue, [Op(next, g) EXCEPT !.tok = fire[g].tok])
  BY DEF GateEnds
<1>2. next \in FirePoints /\ next \in Ops /\ fire[g].tok \in Nat
  BY FireFields DEF FirePoints, Ops, FireOps
<1>3. fire' \in [Gens -> Fires]
  BY <1>1, <1>2, NewFire
<1>4. Queued([Op(next, g) EXCEPT !.tok = fire[g].tok], next, g)
  BY <1>2, QueuedTok
<1>5. QueueTyped'
  BY <1>1, <1>4, FromTyped, QueuedKeeps, PushTyped
<1> QED BY <1>3, <1>5 DEF GateEnds, Typed

LEMMA DispatchTyped == ASSUME Typed, NEW g \in Gens, Dispatch(g) PROVE Typed'
<1>1. Answers("authorize", g) /\ Pop
  BY DEF Dispatch
<1>2. QueueTyped' /\ fire' \in [Gens -> Fires]
  BY <1>1, AnsweringTyped, NewFire DEF Dispatch, FirePoints
<1>3. ran' \in [Slots -> 0 .. 2]
  <2>1. fire[g].due \in Slots /\ ran \in [Slots -> 0 .. 2]
    BY FireFields DEF Typed
  <2> QED BY <2>1 DEF Dispatch
<1> QED BY <1>2, <1>3 DEF Dispatch, Typed

LEMMA AuthorizeRefusedTyped == ASSUME Typed, NEW g \in Gens, AuthorizeRefused(g) PROVE Typed'
<1> DEFINE q == [Op("abandon", g) EXCEPT !.tok = fire[g].tok]
<1>1. Answers("authorize", g) /\ queue' = Append(Tail(queue), q)
  BY DEF AuthorizeRefused, PopPush
<1>2. Queued(q, "abandon", g)
  BY QueuedTok, FireFields DEF Ops, FireOps
<1> HIDE DEF q
<1>3. QueueTyped'
  BY <1>1, <1>2, AnsweringTyped, FromTyped, QueuedKeeps, PopPushTyped
<1>4. fire' \in [Gens -> Fires]
  BY NewFire DEF AuthorizeRefused, FirePoints
<1> QED BY <1>3, <1>4 DEF AuthorizeRefused, Typed

LEMMA SendEndsTyped == ASSUME Typed, NEW g \in Gens, SendEnds(g) PROVE Typed'
<1> DEFINE q == [Op("finalize", g) EXCEPT !.tok = fire[g].tok]
<1>1. queue' = Append(queue, q)
  BY DEF SendEnds
<1>2. Queued(q, "finalize", g)
  BY QueuedTok, FireFields DEF Ops, FireOps
<1> HIDE DEF q
<1>3. QueueTyped'
  BY <1>1, <1>2, FromTyped, QueuedKeeps, PushTyped
<1>4. fire' \in [Gens -> Fires]
  BY NewFire DEF SendEnds, FirePoints
<1> QED BY <1>3, <1>4 DEF SendEnds, Typed

LEMMA AbandonedTyped == ASSUME Typed, NEW g \in Gens, Abandoned(g) PROVE Typed'
<1>1. Answers("abandon", g) /\ Pop /\ EndsFire(g)
  BY DEF Abandoned
<1>2. Head(queue).res \in Copy /\ QueueTyped' /\ fire' \in [Gens -> Fires]
  BY <1>1, AnsweringTyped, EndsFireTyped
<1>3. /\ local' \in [Gens -> Copy] /\ settings' \in [Gens -> Copy] /\ pass' \in Passes
      /\ wake' \in [Gens -> BOOLEAN] /\ mishaps' \subseteq Mishaps
  BY <1>2, RearmTyped DEF Abandoned, Typed
<1> QED BY <1>2, <1>3 DEF Abandoned, Typed

LEMMA AbandonFailsTyped == ASSUME Typed, NEW g \in Gens, AbandonFails(g) PROVE Typed'
<1> DEFINE q == [Op("finalize", g) EXCEPT !.tok = fire[g].tok]
<1>1. Answers("abandon", g) /\ queue' = Append(Tail(queue), q)
  BY DEF AbandonFails, PopPush
<1>2. Queued(q, "finalize", g)
  BY QueuedTok, FireFields DEF Ops, FireOps
<1> HIDE DEF q
<1>3. QueueTyped'
  BY <1>1, <1>2, AnsweringTyped, FromTyped, QueuedKeeps, PopPushTyped
<1>4. fire' \in [Gens -> Fires]
  BY NewFire DEF AbandonFails, FirePoints
<1> QED BY <1>3, <1>4 DEF AbandonFails, Typed

LEMMA FinalizedTyped == ASSUME Typed, NEW g \in Gens, Finalized(g) PROVE Typed'
<1>1. Answers("finalize", g) /\ Pop /\ EndsFire(g)
  BY DEF Finalized
<1>2. Head(queue).res \in Copy /\ QueueTyped' /\ fire' \in [Gens -> Fires]
  BY <1>1, AnsweringTyped, EndsFireTyped
<1>3. /\ local' \in [Gens -> Copy] /\ settings' \in [Gens -> Copy] /\ pass' \in Passes
      /\ wake' \in [Gens -> BOOLEAN] /\ mishaps' \subseteq Mishaps
  <2>1. CASE Head(queue).res # Absent
    BY <1>2, <2>1, RearmTyped DEF Finalized
  <2>2. CASE Head(queue).res = Absent
    BY <2>2, FromTyped DEF Finalized, Typed
  <2> QED BY <2>1, <2>2
<1> QED BY <1>2, <1>3 DEF Finalized, Typed

LEMMA FinalizeFailsTyped == ASSUME Typed, NEW g \in Gens, FinalizeFails(g) PROVE Typed'
<1>1. Answers("finalize", g) /\ Pop /\ EndsFire(g)
  BY DEF FinalizeFails
<1>2. QueueTyped' /\ fire' \in [Gens -> Fires]
  BY <1>1, AnsweringTyped, EndsFireTyped
<1> QED BY <1>2 DEF FinalizeFails, Typed

\* Registering a generation of the plugin.
LEMMA ActivateTyped ==
    ASSUME Typed, NEW g \in Gens, NEW it \in Copy, Activate(g, it)
    PROVE  regs' \in Seq(Gens) /\ adapter' \in 0 .. MaxGen /\ item' \in Copy
<1>1. Append(regs, g) \in Seq(Gens) /\ regs \in Seq(Gens)
  BY FromTyped, Appending
<1>2. g \in 0 .. MaxGen
  BY BoundsAssumption DEF Gens
<1>3. item' \in {item, it, Absent}
  BY DEF Activate
<1> QED BY <1>1, <1>2, <1>3, FromTyped DEF Activate

LEMMA ActivateIfNeededTyped ==
    ASSUME Typed, NEW g \in Gens, NEW it \in Copy, ActivateIfNeeded(g, it)
    PROVE  regs' \in Seq(Gens) /\ adapter' \in 0 .. MaxGen /\ item' \in Copy
BY FromTyped, ActivateTyped DEF ActivateIfNeeded

LEMMA ToolTyped ==
    ASSUME Typed, NEW g \in Gens, Tool(g)
    PROVE  edits' \in Nat /\ Late(g) \subseteq Mishaps
BY DEF Tool, Typed, Late, Mishaps

\* What an edit makes of the local item.
Edits(g, patch) ==
    LET updated == Patched(local[g], patch)
        skip == updated.on /\ Stale(updated)
        armed == IF skip THEN [updated EXCEPT !.next = NextRun(updated)] ELSE updated
    IN  /\ local' = [local EXCEPT ![g] = armed]
        /\ wake' = [wake EXCEPT ![g] = armed.on]
        /\ settings' = IF skip THEN [settings EXCEPT ![g] = armed] ELSE settings
        /\ pass' = IF skip THEN Requested(pass, g, armed) ELSE pass
        /\ mishaps' = mishaps \union Late(g) \union (IF skip THEN {"missed"} ELSE {})
                            \union (IF InHand THEN {"edited"} ELSE {})
                            \union (IF Overtakes THEN {"overtaken"} ELSE {})
        /\ ActivateIfNeeded(g, armed)
        /\ queue' = Append(queue, [Op("update", g) EXCEPT !.patch = patch])
        /\ off' = IF patch = "on" THEN "on" ELSE off

LEMMA EditIs ==
    ASSUME NEW g, Edit(g)
    PROVE  /\ Quiet /\ Tool(g) /\ local[g] # Absent
           /\ \E patch \in {"off", "on", "prompt"} : Edits(g, patch)
           /\ UNCHANGED <<kind, now, disk, fire, fence, cur, up, claims, upsets, ran>>
BY DEF Edit, Edits

\* The same with the armed item as a value a.
EditsAs(g, patch, a, skip) ==
    /\ a \in Item /\ skip \in BOOLEAN
    /\ a.rev = local[g].rev /\ a.tok = local[g].tok /\ a.crev = local[g].crev
    /\ patch = "off" => ~a.on
    /\ patch = "on" => a.on
    /\ patch = "prompt" => a.on = local[g].on
    /\ local' = [local EXCEPT ![g] = a]
    /\ wake' = [wake EXCEPT ![g] = a.on]
    /\ settings' = IF skip THEN [settings EXCEPT ![g] = a] ELSE settings
    /\ pass' = IF skip THEN Requested(pass, g, a) ELSE pass
    /\ mishaps' = mishaps \union Late(g) \union (IF skip THEN {"missed"} ELSE {})
                        \union (IF InHand THEN {"edited"} ELSE {})
                        \union (IF Overtakes THEN {"overtaken"} ELSE {})
    /\ ActivateIfNeeded(g, a)
    /\ skip => kind # "once" /\ a.next = now + 1
    /\ queue' = Append(queue, [Op("update", g) EXCEPT !.patch = patch])
    /\ off' = IF patch = "on" THEN "on" ELSE off

LEMMA EditEdits ==
    ASSUME Typed, NEW g \in Gens, Edit(g)
    PROVE  \E patch \in {"off", "on", "prompt"}, a \in Item, skip \in BOOLEAN : EditsAs(g, patch, a, skip)
<1>1. local[g] # Absent /\ local[g] \in Copy
  BY EditIs, FromTyped
<1>2. PICK patch \in {"off", "on", "prompt"} : Edits(g, patch)
  BY EditIs
<1> DEFINE updated == Patched(local[g], patch)
           skip == updated.on /\ Stale(updated)
           a == IF skip THEN [updated EXCEPT !.next = NextRun(updated)] ELSE updated
<1>3. /\ updated \in Item /\ updated.rev = local[g].rev /\ updated.tok = local[g].tok
      /\ updated.crev = local[g].crev
      /\ patch = "off" => ~updated.on
      /\ patch = "on" => updated.on
      /\ patch = "prompt" => updated.on = local[g].on
  BY <1>1, PatchedFields DEF Patches
<1>4. NextRun(updated) \in Slots
  BY <1>3, NextRunTyped, AbsentAssumption DEF Copy
<1>5. /\ local' = [local EXCEPT ![g] = a]
      /\ wake' = [wake EXCEPT ![g] = a.on]
      /\ settings' = IF skip THEN [settings EXCEPT ![g] = a] ELSE settings
      /\ pass' = IF skip THEN Requested(pass, g, a) ELSE pass
      /\ mishaps' = mishaps \union Late(g) \union (IF skip THEN {"missed"} ELSE {})
                          \union (IF InHand THEN {"edited"} ELSE {})
                          \union (IF Overtakes THEN {"overtaken"} ELSE {})
      /\ ActivateIfNeeded(g, a)
      /\ queue' = Append(queue, [Op("update", g) EXCEPT !.patch = patch])
      /\ off' = IF patch = "on" THEN "on" ELSE off
  BY <1>2 DEF Edits
<1>6. skip => kind # "once" /\ NextRun(updated) = now + 1
  BY DEF Stale, NextRun
<1>7. skip \in BOOLEAN
  OBVIOUS
<1>8. a = IF skip THEN [updated EXCEPT !.next = NextRun(updated)] ELSE updated
  OBVIOUS
<1> HIDE DEF updated, skip, a
<1>9. /\ a \in Item /\ a.rev = updated.rev /\ a.tok = updated.tok /\ a.crev = updated.crev
      /\ a.on = updated.on
      /\ skip => a.next = NextRun(updated)
  <2>1. CASE skip
    BY <1>3, <1>4, <1>8, <2>1 DEF Item
  <2>2. CASE ~skip
    BY <1>3, <1>8, <2>2
  <2> QED BY <2>1, <2>2
<1>10. EditsAs(g, patch, a, skip)
  BY <1>3, <1>5, <1>6, <1>7, <1>9 DEF EditsAs
<1> QED BY <1>7, <1>9, <1>10

LEMMA EditTyped == ASSUME Typed, NEW g \in Gens, Edit(g) PROVE Typed'
<1>1. PICK patch \in {"off", "on", "prompt"}, a \in Item, skip \in BOOLEAN : EditsAs(g, patch, a, skip)
  BY EditEdits
<1>2. a \in Copy /\ a.on \in BOOLEAN
  BY DEF Copy, Item
<1>3. /\ regs' \in Seq(Gens) /\ adapter' \in 0 .. MaxGen /\ item' \in Copy
  BY <1>1, <1>2, ActivateIfNeededTyped DEF EditsAs
<1>4. QueueTyped'
  <2>1. Queued([Op("update", g) EXCEPT !.patch = patch], "update", g)
    BY QueuedPatch DEF Ops, Patches
  <2> QED BY <1>1, <2>1, FromTyped, QueuedKeeps, PushTyped DEF EditsAs
<1>5. settings' \in [Gens -> Copy] /\ local' \in [Gens -> Copy] /\ wake' \in [Gens -> BOOLEAN]
  <2>1. /\ local' = [local EXCEPT ![g] = a] /\ wake' = [wake EXCEPT ![g] = a.on]
        /\ settings' = IF skip THEN [settings EXCEPT ![g] = a] ELSE settings
    BY <1>1 DEF EditsAs
  <2>2. settings \in [Gens -> Copy] /\ local \in [Gens -> Copy] /\ wake \in [Gens -> BOOLEAN]
    BY FromTyped
  <2> QED BY <1>2, <2>1, <2>2
<1>6. pass' \in Passes
  BY <1>1, <1>2, FromTyped, RequestedTyped DEF EditsAs
<1>7. mishaps' \subseteq Mishaps /\ edits' \in Nat
  <2>1. Late(g) \subseteq Mishaps /\ edits' \in Nat /\ mishaps \subseteq Mishaps
    BY EditIs, ToolTyped DEF Typed
  <2>2. /\ mishaps' = mishaps \union Late(g) \union (IF skip THEN {"missed"} ELSE {})
                          \union (IF InHand THEN {"edited"} ELSE {})
                          \union (IF Overtakes THEN {"overtaken"} ELSE {})
    BY <1>1 DEF EditsAs
  <2> QED BY <2>1, <2>2 DEF Mishaps
<1>8. off' \in {"new", "on", "disabled", "deleted"}
  BY <1>1 DEF EditsAs, Typed
<1> QED BY <1>3, <1>4, <1>5, <1>6, <1>7, <1>8, EditIs DEF Typed

LEMMA EditedTyped == ASSUME Typed, NEW g \in Gens, Edited(g) PROVE Typed'
<1>1. Answers("update", g) /\ Pop
  BY DEF Edited
<1>2. Head(queue).res \in Copy /\ QueueTyped'
  BY <1>1, AnsweringTyped
<1>3. local' \in [Gens -> Copy] /\ off' \in {"new", "on", "disabled", "deleted"}
  BY <1>2, FromTyped DEF Edited, Typed
<1> QED BY <1>2, <1>3 DEF Edited, Typed

LEMMA DeleteTyped == ASSUME Typed, NEW g \in Gens, Delete(g) PROVE Typed'
<1>1. regs' \in Seq(Gens) /\ adapter' \in 0 .. MaxGen /\ item' \in Copy
  BY ActivateIfNeededTyped, FromTyped DEF Delete
<1>2. QueueTyped'
  <2>1. local[g] \in Copy
    BY FromTyped
  <2>2. Queued([Op("delete", g) EXCEPT !.arg = local[g]], "delete", g)
    BY <2>1, QueuedArg DEF Ops
  <2> QED BY <2>2, FromTyped, QueuedKeeps, PushTyped DEF Delete
<1>3. mishaps' \subseteq Mishaps /\ edits' \in Nat
  BY ToolTyped DEF Delete, Typed
<1>4. local' \in [Gens -> Copy] /\ wake' \in [Gens -> BOOLEAN]
  BY FromTyped DEF Delete
<1> QED BY <1>1, <1>2, <1>3, <1>4 DEF Delete, Typed

LEMMA DeletedTyped == ASSUME Typed, NEW g \in Gens, Deleted(g) PROVE Typed'
<1>1. Answers("delete", g) /\ Pop
  BY DEF Deleted
<1>2. Head(queue).arg \in Copy /\ QueueTyped'
  BY <1>1, AnsweringTyped
<1>3. local' \in [Gens -> Copy] /\ off' \in {"new", "on", "disabled", "deleted"}
  BY <1>2, FromTyped DEF Deleted, Typed
<1> QED BY <1>2, <1>3 DEF Deleted, Typed

NewItem == [on |-> TRUE, next |-> now + 1, fireAt |-> now + 1, rev |-> 1, tok |-> 0, crev |-> 0]

LEMMA NewItemTyped == ASSUME Typed PROVE NewItem \in Item /\ NewItem \in Copy
BY BoundsAssumption DEF NewItem, Item, Slots, Typed, Copy

LEMMA CreateIs ==
    ASSUME NEW g, Create(g)
    PROVE  /\ local' = [local EXCEPT ![g] = NewItem] /\ wake' = [wake EXCEPT ![g] = TRUE]
           /\ queue' = Append(queue, [Op("create", g) EXCEPT !.arg = NewItem])
           /\ Quiet /\ Tool(g) /\ Live(g) /\ off = "new" /\ off' = "on"
BY DEF Create, NewItem

LEMMA CreateTyped == ASSUME Typed, NEW g \in Gens, Create(g) PROVE Typed'
<1>1. QueueTyped'
  <2>1. Queued([Op("create", g) EXCEPT !.arg = NewItem], "create", g)
    BY NewItemTyped, QueuedArg DEF Ops
  <2> QED BY <2>1, CreateIs, FromTyped, QueuedKeeps, PushTyped
<1>2. local' \in [Gens -> Copy] /\ wake' \in [Gens -> BOOLEAN] /\ edits' \in Nat
  BY CreateIs, FromTyped, NewItemTyped, ToolTyped
<1> QED BY <1>1, <1>2, CreateIs DEF Create, Typed

LEMMA CreatedTyped == ASSUME Typed, NEW g \in Gens, Created(g) PROVE Typed'
<1>1. Answers("create", g) /\ Pop
  BY DEF Created
<1>2. Head(queue).res \in Copy /\ QueueTyped'
  BY <1>1, AnsweringTyped
<1>3. local' \in [Gens -> Copy]
  BY <1>2, FromTyped DEF Created
<1> QED BY <1>2, <1>3 DEF Created, Typed

LEMMA DetachTyped == ASSUME Typed, NEW g \in Gens, Detach(g) PROVE Typed'
<1>1. regs' \in Seq(Gens) /\ adapter' \in 0 .. MaxGen /\ item' \in Copy
  BY ActivateIfNeededTyped, FromTyped DEF Detach
<1>2. QueueTyped'
  <2>1. local[g] \in Copy
    BY FromTyped
  <2>2. Queued([Op("replaceAll", g) EXCEPT !.arg = local[g]], "replaceAll", g)
    BY <2>1, QueuedArg DEF Ops
  <2> QED BY <2>2, FromTyped, QueuedKeeps, PushTyped DEF Detach
<1>3. mishaps' \subseteq Mishaps /\ edits' \in Nat
  BY ToolTyped DEF Detach, Typed
<1> QED BY <1>1, <1>2, <1>3 DEF Detach, Typed

LEMMA DetachedTyped == ASSUME Typed, NEW g \in Gens, Detached(g) PROVE Typed'
<1>1. Answers("replaceAll", g) /\ Pop
  BY DEF Detached
<1>2. /\ Head(queue).res \in Copy /\ Head(queue).arg \in Copy /\ QueueTyped'
      /\ Head(queue).by \in 0 .. MaxGen
  BY <1>1, AnsweringTyped
<1>3. /\ local' \in [Gens -> Copy] /\ settings' \in [Gens -> Copy] /\ pass' \in Passes
      /\ wake' \in [Gens -> BOOLEAN] /\ mishaps' \subseteq Mishaps /\ item' \in Copy
  <2>1. CASE ~Failed
    <3> DEFINE also == IF item # Head(queue).arg THEN {"replaced"} ELSE {}
    <3>1. also \in SUBSET Mishaps
      BY DEF Mishaps
    <3>2. ArmTimer(g, Head(queue).arg, Head(queue).arg, also) /\ item' = Head(queue).arg
      BY <2>1 DEF Detached
    <3> HIDE DEF also
    <3> QED BY <1>2, <3>1, <3>2, ArmTimerTyped
  <2>2. CASE Failed
    BY <1>2, <2>2, FromTyped DEF Detached, Typed
  <2> QED BY <2>1, <2>2
<1> QED BY <1>2, <1>3 DEF Detached, Typed

\* Without(g) are registrations.
LEMMA WithoutTyped ==
    ASSUME Typed
    PROVE  /\ Without(cur) \in Seq(Gens)
           /\ Without(cur) # <<>> => Without(cur)[Len(Without(cur))] \in Gens
<1>1. Without(cur) \in Seq(Gens)
  BY FromTyped, InPicked DEF Without
<1>2. Without(cur) # <<>> => Len(Without(cur)) \in 1 .. Len(Without(cur))
  BY <1>1, LenProperties, EmptySeq
<1> QED BY <1>1, <1>2

LEMMA UnloadTyped == ASSUME Typed, Unload PROVE Typed'
<1>1. /\ regs' \in Seq(Gens) /\ adapter' \in 0 .. MaxGen /\ item' \in Copy
  <2>1. Without(cur) # <<>> => Without(cur)[Len(Without(cur))] \in 0 .. MaxGen
    BY WithoutTyped, BoundsAssumption DEF Gens
  <2> QED BY <2>1, WithoutTyped, FromTyped DEF Unload
<1>2. wake' \in [Gens -> BOOLEAN] /\ mishaps' \subseteq Mishaps
  BY FromTyped DEF Unload, Mishaps, Typed
<1>3. QueueTyped'
  BY FromTyped, SameQueueTyped DEF Unload
<1> QED BY <1>1, <1>2, <1>3 DEF Unload, Typed

LEMMA ClaimFenceTyped == ASSUME Typed, ClaimFence PROVE Typed'
<1>1. cur' \in 0 .. MaxGen /\ fence' \in 0 .. MaxGen /\ cur' \in Gens
  BY BoundsAssumption DEF ClaimFence, Typed, Gens
<1>2. QueueTyped'
  BY FromTyped, SameQueueTyped DEF ClaimFence
<1> QED BY <1>1, <1>2 DEF ClaimFence, Typed

LEMMA CrashTyped == ASSUME Typed, Crash PROVE Typed'
<1>1. <<>> \in Seq(Entry) /\ <<>> \in Seq(Gens)
  OBVIOUS
<1>2. QueueTyped'
  <2>1. queue' = <<>>
    BY DEF Crash
  <2> QED BY <1>1, <2>1, EmptySeq DEF QueueTyped
<1>3. NoItems \in [Gens -> Copy] /\ NotArmed \in [Gens -> BOOLEAN] /\ NoFire \in [Gens -> Fires]
  BY IdleFields DEF NoItems, NotArmed, NoFire, Copy
<1>4. NoPass \in Passes /\ Absent \in Copy
  BY BoundsAssumption DEF NoPass, Passes, Copy
<1>5. mishaps' \subseteq Mishaps
  BY DEF Crash, Mishaps, Typed
<1> QED BY <1>1, <1>2, <1>3, <1>4, <1>5, BoundsAssumption DEF Crash, Typed

LEMMA TickTyped == ASSUME Typed, Tick PROVE Typed'
<1>1. now' \in 0 .. MaxSlot
  BY BoundsAssumption DEF Tick, Typed
<1>2. QueueTyped'
  BY FromTyped, SameQueueTyped DEF Tick
<1> QED BY <1>1, <1>2 DEF Tick, Typed

\* The item as a scheduler that starts arms it.
StartsAs(a, skip) ==
    /\ a \in Copy /\ skip \in BOOLEAN
    /\ skip => disk # Absent /\ disk.on /\ kind # "once" /\ a = [disk EXCEPT !.next = NextRun(disk)]
    /\ ~skip => a = disk
    /\ Activate(cur, disk)
    /\ local' = [local EXCEPT ![cur] = a]
    /\ settings' = [settings EXCEPT ![cur] = a]
    /\ pass' = IF skip THEN Requested(pass, cur, a) ELSE pass
    /\ wake' = [wake EXCEPT ![cur] = a # Absent /\ a.on]
    /\ mishaps' = IF skip THEN mishaps \union {"missed"} ELSE mishaps

LEMMA StartStarts ==
    ASSUME Typed, Start
    PROVE  \E a \in Copy, skip \in BOOLEAN : StartsAs(a, skip)
<1> DEFINE skip == disk # Absent /\ disk.on /\ Stale(disk)
           a == IF skip THEN [disk EXCEPT !.next = NextRun(disk)] ELSE disk
<1>1. /\ local' = [local EXCEPT ![cur] = a]
      /\ settings' = [settings EXCEPT ![cur] = a]
      /\ pass' = IF skip THEN Requested(pass, cur, a) ELSE pass
      /\ wake' = [wake EXCEPT ![cur] = a # Absent /\ a.on]
      /\ mishaps' = IF skip THEN mishaps \union {"missed"} ELSE mishaps
      /\ Activate(cur, disk)
  BY DEF Start
<1>2. disk \in Copy /\ (skip => disk # Absent /\ disk.on /\ kind # "once")
  BY FromTyped DEF Stale
<1>3. skip => a \in Copy
  BY <1>2, MovedTyped
<1>4. /\ skip => a = [disk EXCEPT !.next = NextRun(disk)]
      /\ ~skip => a = disk
      /\ skip \in BOOLEAN
  OBVIOUS
<1> HIDE DEF skip, a
<1>5. a \in Copy
  BY <1>2, <1>3, <1>4
<1>6. StartsAs(a, skip)
  BY <1>1, <1>2, <1>4, <1>5 DEF StartsAs
<1> QED BY <1>4, <1>5, <1>6

LEMMA StartTyped == ASSUME Typed, Start PROVE Typed'
<1>1. cur \in Gens /\ disk \in Copy
  BY FromTyped DEF Start, Typed
<1>2. PICK a \in Copy, skip \in BOOLEAN : StartsAs(a, skip)
  BY StartStarts
<1>3. regs' \in Seq(Gens) /\ adapter' \in 0 .. MaxGen /\ item' \in Copy
  BY <1>1, <1>2, ActivateTyped DEF StartsAs
<1>4. local' \in [Gens -> Copy] /\ settings' \in [Gens -> Copy]
  <2>1. local' = [local EXCEPT ![cur] = a] /\ settings' = [settings EXCEPT ![cur] = a]
    BY <1>2 DEF StartsAs
  <2> QED BY <1>1, <2>1, FromTyped
<1>5. wake' \in [Gens -> BOOLEAN]
  <2>1. wake' = [wake EXCEPT ![cur] = a # Absent /\ a.on] /\ (a # Absent /\ a.on) \in BOOLEAN
    BY <1>2 DEF StartsAs
  <2> QED BY <1>1, <2>1, FromTyped, Zenon
<1>6. pass' \in Passes
  BY <1>1, <1>2, FromTyped, RequestedTyped DEF StartsAs
<1>7. mishaps' \subseteq Mishaps
  BY <1>2 DEF StartsAs, Mishaps, Typed
<1>8. QueueTyped'
  BY FromTyped, SameQueueTyped DEF Start
<1> QED BY <1>1, <1>3, <1>4, <1>5, <1>6, <1>7, <1>8 DEF Start, Typed

LEMMA InitTyped == ASSUME Init PROVE Typed
<1>1. [on |-> TRUE, next |-> 0, fireAt |-> 0, rev |-> 1, tok |-> 0, crev |-> 0] \in Item
  BY BoundsAssumption DEF Item, Slots
<1>2. NoItems \in [Gens -> Copy] /\ NotArmed \in [Gens -> BOOLEAN] /\ NoFire \in [Gens -> Fires]
  BY IdleFields DEF NoItems, NotArmed, NoFire, Copy
<1>3. NoPass \in Passes /\ Absent \in Copy /\ disk \in Copy
  <2>1. NoPass \in Passes /\ Absent \in Copy
    BY BoundsAssumption DEF NoPass, Passes, Copy
  <2>2. \/ disk = Absent
        \/ disk = [on |-> TRUE, next |-> 0, fireAt |-> 0, rev |-> 1, tok |-> 0, crev |-> 0]
    BY DEF Init
  <2> QED BY <1>1, <2>1, <2>2 DEF Copy
<1>4. QueueTyped
  <2>1. queue = <<>> /\ <<>> \in Seq(Entry)
    BY DEF Init
  <2> QED BY <2>1, EmptySeq DEF QueueTyped
<1>5. regs \in Seq(Gens)
  BY DEF Init
<1>6. ran \in [Slots -> 0 .. 2]
  BY DEF Init
<1> QED BY <1>2, <1>3, <1>4, <1>5, <1>6, BoundsAssumption DEF Init, Typed

\* The steps of the system, in two groups.
LEMMA TypedStep == ASSUME Typed, [Next]_vars PROVE Typed'
<1>1. CASE UNCHANGED vars
  BY <1>1 DEF vars, Typed, QueueTyped, Keeps
<1>2. CASE Microtask
  <2>1. CASE BeginOp \/ BeginReplaceAll
    BY <2>1, BeginOpTyped, BeginReplaceAllTyped
  <2>2. ASSUME NEW g \in Gens, Claimed(g) \/ ClaimRefused(g) \/ FireFails(g) \/ Skipped(g)
                                \/ Dispatch(g) \/ AuthorizeRefused(g)
        PROVE  Typed'
    BY <2>2, ClaimedTyped, ClaimRefusedTyped, FireFailsTyped, SkippedTyped, DispatchTyped,
       AuthorizeRefusedTyped
  <2>3. ASSUME NEW g \in Gens, Abandoned(g) \/ AbandonFails(g) \/ Finalized(g) \/ FinalizeFails(g)
        PROVE  Typed'
    BY <2>3, AbandonedTyped, AbandonFailsTyped, FinalizedTyped, FinalizeFailsTyped
  <2>4. ASSUME NEW g \in Gens, Edited(g) \/ Deleted(g) \/ Created(g) \/ Detached(g)
        PROVE  Typed'
    BY <2>4, EditedTyped, DeletedTyped, CreatedTyped, DetachedTyped
  <2> QED BY <1>2, <2>1, <2>2, <2>3, <2>4 DEF Microtask
<1>3. CASE Event
  <2>1. CASE WriteDone \/ WriteFails \/ Unload \/ ClaimFence \/ Start \/ Crash \/ Tick
    BY <2>1, WriteDoneTyped, WriteFailsTyped, UnloadTyped, ClaimFenceTyped, StartTyped, CrashTyped, TickTyped
  <2>2. ASSUME NEW g \in Gens, OtherSave(g) \/ Wake(g) \/ WakeSkips(g) \/ WakeWhileFiring(g) \/ Missed(g)
        PROVE  Typed'
    BY <2>2, OtherSaveTyped, WakeTyped, WakeSkipsTyped, WakeWhileFiringTyped, MissedTyped
  <2>3. ASSUME NEW g \in Gens, GateEnds(g) \/ SendEnds(g) \/ Edit(g) \/ Delete(g) \/ Create(g) \/ Detach(g)
        PROVE  Typed'
    BY <2>3, GateEndsTyped, SendEndsTyped, EditTyped, DeleteTyped, CreateTyped, DetachTyped
  <2> QED BY <1>3, <2>1, <2>2, <2>3 DEF Event
<1> QED BY <1>1, <1>2, <1>3 DEF Next

\* Every variable keeps its type: TypeOK holds of every state the system reaches.
THEOREM TypeCorrect == Spec => []TypeOK
<1>1. Init => Typed
  BY InitTyped
<1>2. Typed /\ [Next]_vars => Typed'
  BY TypedStep
<1>3. Typed => TypeOK
  BY DEF Typed, TypeOK, Copy, Passes
<1> QED BY <1>1, <1>2, <1>3, PTL DEF Spec

-----------------------------------------------------------------------------
(* Generations, the fence and the queue, as long as no tool call reaches a   *)
(* destroyed scheduler.                                                      *)

\* The head of the queue has begun, and what it waits for.
Begun == queue # <<>> /\ Head(queue).stage # "queued"
HeadIs(op) == Begun /\ Head(queue).op = op
Waits == Begun /\ Head(queue).stage \in {"this", "next"}
Replacing == HeadIs("replaceAll") /\ Head(queue).by # 0

\* A generation that has not started its scheduler.
Unborn(g) == g > cur \/ (g = cur /\ up = "claimed")

\* The newest generation is the one that is registered, and the one that may own the file.
RegsOK ==
    /\ up = "loaded" => regs = <<cur>> /\ adapter = cur /\ fence = cur
    /\ up # "loaded" => regs = <<>> /\ adapter = 0
    /\ up = "claimed" => fence = cur
    /\ fence \in {0, cur}

\* A write in progress is of the newest generation, until the next has taken the fence.
PassOK == /\ pass.gen # 0 => fence # 0 /\ (pass.gen = cur <=> up # "claimed") /\ pass.gen <= cur
          /\ pass.gen = 0 => pass = NoPass

\* A generation that has not started does nothing.
UnbornOK == \A g \in Gens : Unborn(g) => /\ fire[g] = Idle /\ ~wake[g] /\ local[g] = Absent
                                         /\ settings[g] = Absent

\* Only the head of the queue has begun.
QueueOK == \A i \in 1 .. Len(queue) : /\ ~Unborn(queue[i].gen)
                                      /\ i # 1 => queue[i].stage = "queued"
                                      /\ queue[i].stage = "queued" => queue[i].by = 0 /\ ~queue[i].yes

\* An operation waits for the write in progress.
HeadOK ==
    /\ Begun => Head(queue).by <= cur
    /\ Begun /\ Head(queue).by # 0 => (Head(queue).by = cur <=> up # "claimed")
    /\ Waits => /\ pass.gen = Head(queue).by /\ Head(queue).by # 0
                /\ Head(queue).stage = "next" => pass.again

Life == RegsOK /\ PassOK /\ UnbornOK /\ QueueOK /\ HeadOK

Steady == regs' = regs /\ adapter' = adapter /\ fence' = fence /\ cur' = cur /\ up' = up

\* How a step may change the queue.
Pushes(g) == \E q : Queued(q, q.op, g) /\ queue' = Append(queue, q)
Pops(g) == /\ queue # <<>>
           /\ \/ queue' = Tail(queue)
              \/ \E q : Queued(q, q.op, g) /\ queue' = Append(Tail(queue), q)
Changes(b) == /\ queue # <<>> /\ b \in Entry /\ b.gen = Head(queue).gen /\ b.stage # "queued"
              /\ queue' = [queue EXCEPT ![1] = b]

LEMMA HeadQuiet == ASSUME Typed, Quiet PROVE queue = <<>> \/ Waits
BY DEF Quiet, Waits, Begun

LEMMA PushingQueue ==
    ASSUME Typed, QueueOK, Steady, NEW g, ~Unborn(g), Pushes(g)
    PROVE  /\ QueueOK'
           /\ queue' # <<>>
           /\ queue # <<>> => Head(queue') = Head(queue)
           /\ queue = <<>> => ~Begun'
<1>1. PICK q : Queued(q, q.op, g) /\ queue' = Append(queue, q)
  BY DEF Pushes
<1>2. queue \in Seq(Entry) /\ q \in Entry /\ q.gen = g /\ q.stage = "queued" /\ q.by = 0 /\ ~q.yes
  BY <1>1, FromTyped DEF QueueTyped, Queued
<1>3. /\ queue' # <<>> /\ Len(queue') = Len(queue) + 1 /\ Len(queue) \in Nat
      /\ \A i \in 1 .. Len(queue) : queue'[i] = queue[i]
      /\ queue'[Len(queue) + 1] = q
      /\ Head(queue') = IF queue = <<>> THEN q ELSE Head(queue)
      /\ queue = <<>> <=> Len(queue) = 0
  BY <1>1, <1>2, Appending, LenProperties, EmptySeq
<1>4. ASSUME NEW i \in 1 .. Len(queue')
      PROVE  /\ ~Unborn(queue'[i].gen)
             /\ i # 1 => queue'[i].stage = "queued"
             /\ queue'[i].stage = "queued" => queue'[i].by = 0 /\ ~queue'[i].yes
  <2>1. CASE i \in 1 .. Len(queue)
    BY <1>3, <2>1 DEF QueueOK
  <2>2. CASE i = Len(queue) + 1
    BY <1>2, <1>3, <2>2
  <2>3. i \in 1 .. Len(queue) \/ i = Len(queue) + 1
    BY <1>3
  <2> QED BY <2>1, <2>2, <2>3
<1>5. QueueOK'
  BY <1>4 DEF QueueOK, Unborn, Steady
<1> QED BY <1>2, <1>3, <1>5 DEF Begun

LEMMA PoppingQueue ==
    ASSUME Typed, QueueOK, Steady, NEW g, ~Unborn(g), Pops(g)
    PROVE  QueueOK' /\ ~Begun'
<1>1. queue # <<>> /\ queue \in Seq(Entry)
  BY FromTyped DEF QueueTyped, Pops
<1>2. /\ Len(queue) \in Nat \ {0} /\ Tail(queue) \in Seq(Entry) /\ Len(Tail(queue)) = Len(queue) - 1
      /\ \A i \in 1 .. Len(queue) - 1 : Tail(queue)[i] = queue[i + 1]
      /\ Tail(queue) # <<>> => Head(Tail(queue)) = queue[2] /\ Len(queue) > 1
  BY <1>1, Taking
<1>3. ASSUME NEW i \in 1 .. Len(queue) - 1
      PROVE  /\ ~Unborn(Tail(queue)[i].gen) /\ Tail(queue)[i].stage = "queued"
             /\ Tail(queue)[i].by = 0 /\ ~Tail(queue)[i].yes
  <2>1. i + 1 \in 1 .. Len(queue) /\ i + 1 # 1 /\ Tail(queue)[i] = queue[i + 1]
    BY <1>2
  <2> QED BY <2>1 DEF QueueOK
<1>4. Tail(queue) # <<>> => Head(Tail(queue)).stage = "queued"
  <2>1. ASSUME Tail(queue) # <<>> PROVE queue[2].stage = "queued"
    <3>1. Len(queue) \in Nat /\ Len(queue) > 1
      BY <1>2, <2>1
    <3>2. 2 \in 1 .. Len(queue) /\ 2 # 1
      BY <3>1
    <3> QED BY <3>2 DEF QueueOK
  <2> QED BY <1>2, <2>1
<1>5. CASE queue' = Tail(queue)
  BY <1>2, <1>3, <1>4, <1>5 DEF QueueOK, Begun, Unborn, Steady
<1>6. ASSUME NEW q, Queued(q, q.op, g), queue' = Append(Tail(queue), q) PROVE QueueOK' /\ ~Begun'
  <2>1. q \in Entry /\ q.gen = g /\ q.stage = "queued" /\ q.by = 0 /\ ~q.yes
    BY <1>6 DEF Queued
  <2>2. /\ Len(queue') = Len(queue) /\ queue' # <<>>
        /\ \A i \in 1 .. Len(queue) - 1 : queue'[i] = Tail(queue)[i]
        /\ queue'[Len(queue)] = q
        /\ Head(queue') = IF Tail(queue) = <<>> THEN q ELSE Head(Tail(queue))
    BY <1>2, <1>6, <2>1, Appending
  <2>3. ASSUME NEW i \in 1 .. Len(queue')
        PROVE  ~Unborn(queue'[i].gen) /\ queue'[i].stage = "queued" /\ queue'[i].by = 0 /\ ~queue'[i].yes
    <3>1. i \in 1 .. Len(queue) - 1 \/ i = Len(queue)
      <4>1. Len(queue) \in Nat /\ i \in 1 .. Len(queue)
        BY <1>2, <2>2
      <4> QED BY <4>1
    <3>2. CASE i \in 1 .. Len(queue) - 1
      BY <1>3, <2>2, <3>2
    <3>3. CASE i = Len(queue)
      BY <2>1, <2>2, <3>3
    <3> QED BY <3>1, <3>2, <3>3
  <2> QED BY <1>4, <2>1, <2>2, <2>3 DEF QueueOK, Begun, Unborn, Steady
<1> QED BY <1>5, <1>6 DEF Pops

LEMMA ChangingQueue ==
    ASSUME Typed, QueueOK, Steady, NEW b, Changes(b)
    PROVE  QueueOK' /\ Begun' /\ queue' # <<>> /\ Head(queue') = b
<1>1. queue # <<>> /\ queue \in Seq(Entry) /\ b \in Entry /\ b.gen = Head(queue).gen /\ b.stage # "queued"
  BY FromTyped DEF QueueTyped, Changes
<1>2. /\ queue' # <<>> /\ Len(queue') = Len(queue) /\ Head(queue') = b /\ queue'[1] = b
      /\ \A i \in 2 .. Len(queue) : queue'[i] = queue[i]
      /\ Len(queue) \in Nat \ {0} /\ Head(queue) = queue[1]
  BY <1>1, ChangingHead, Taking DEF Changes
<1>3. ASSUME NEW i \in 1 .. Len(queue')
      PROVE  /\ ~Unborn(queue'[i].gen)
             /\ i # 1 => queue'[i].stage = "queued"
             /\ queue'[i].stage = "queued" => queue'[i].by = 0 /\ ~queue'[i].yes
  <2>1. i = 1 \/ i \in 2 .. Len(queue)
    BY <1>2
  <2>2. CASE i = 1
    <3>1. 1 \in 1 .. Len(queue)
      BY <1>2
    <3> QED BY <1>1, <1>2, <2>2, <3>1 DEF QueueOK
  <2>3. CASE i \in 2 .. Len(queue)
    BY <1>2, <2>3 DEF QueueOK
  <2> QED BY <2>1, <2>2, <2>3
<1> QED BY <1>1, <1>2, <1>3 DEF QueueOK, Begun, Unborn, Steady

\* A step of the generations gens that leaves the others alone.
Touches(gens) ==
    /\ \A h \in Gens \ gens : /\ fire'[h] = fire[h] /\ wake'[h] = wake[h] /\ local'[h] = local[h]
                              /\ settings'[h] = settings[h]
    /\ pass' = pass \/ \E g \in gens, x \in Copy : pass' = Requested(pass, g, x)

LEMMA RequestingPass ==
    ASSUME Typed, RegsOK, PassOK, Steady, NEW g \in Gens, ~Unborn(g), NEW x \in Copy,
           pass' = Requested(pass, g, x)
    PROVE  /\ PassOK'
           /\ pass.gen # 0 => pass'.gen = pass.gen /\ pass'.snap = pass.snap /\ (pass.again => pass'.again)
           /\ pass.gen = 0 => pass' = pass \/ (g = cur /\ fence = g /\ pass' = [gen |-> g, snap |-> x, again |-> FALSE])
           /\ pass'.gen # 0 => pass'.gen = pass.gen \/ pass'.gen = g
<1>1. /\ pass \in Passes /\ pass.gen \in 0 .. MaxGen /\ g \in 1 .. MaxGen /\ MaxGen \in Nat
      /\ cur \in 0 .. MaxGen
  BY FromTyped DEF Gens
<1>2. CASE pass.gen = g
  <2>1. pass' = [pass EXCEPT !.again = TRUE]
    BY <1>2 DEF Requested
  <2>2. pass'.gen = pass.gen /\ pass'.snap = pass.snap /\ pass'.again = TRUE
    BY <1>1, <2>1 DEF Passes
  <2> QED BY <1>1, <1>2, <2>2 DEF PassOK, Steady
<1>3. CASE pass.gen # g /\ fence = g
  <2>1. g = cur /\ up # "claimed"
    BY <1>1, <1>3 DEF RegsOK, Unborn
  <2>2. pass.gen = 0
    BY <1>3, <2>1 DEF PassOK
  <2>3. pass' = [gen |-> g, snap |-> x, again |-> FALSE]
    BY <1>3 DEF Requested
  <2> QED BY <1>1, <1>3, <2>1, <2>2, <2>3 DEF PassOK, Steady
<1>4. CASE pass.gen # g /\ fence # g
  <2>1. pass' = pass
    BY <1>4 DEF Requested
  <2> QED BY <1>1, <2>1 DEF PassOK, Steady
<1> QED BY <1>2, <1>3, <1>4

\* The write in progress goes on, and what waits for it waits on.
PassGoesOn == pass.gen # 0 => pass'.gen = pass.gen /\ pass'.snap = pass.snap /\ (pass.again => pass'.again)

LEMMA TouchedPass ==
    ASSUME Typed, RegsOK, PassOK, Steady, NEW gens \in SUBSET Gens, \A g \in gens : ~Unborn(g), Touches(gens)
    PROVE  PassOK' /\ PassGoesOn
<1>1. CASE pass' = pass
  BY <1>1 DEF PassOK, PassGoesOn, Steady
<1>2. ASSUME NEW g \in gens, NEW x \in Copy, pass' = Requested(pass, g, x)
      PROVE  PassOK' /\ PassGoesOn
  BY <1>2, RequestingPass DEF PassGoesOn
<1> QED BY <1>1, <1>2 DEF Touches

LEMMA KeepingHead ==
    ASSUME Typed, HeadOK, Steady, PassGoesOn,
           queue # <<>> => queue' # <<>> /\ Head(queue') = Head(queue), queue = <<>> => ~Begun'
    PROVE  HeadOK' /\ (Begun' <=> Begun) /\ (Waits' <=> Waits) /\ (Replacing' <=> Replacing)
<1>1. CASE queue = <<>>
  BY <1>1 DEF HeadOK, Begun, Waits, Replacing, HeadIs
<1>2. CASE queue # <<>>
  <2>1. (Begun' <=> Begun) /\ (Waits' <=> Waits) /\ (Replacing' <=> Replacing) /\ Head(queue') = Head(queue)
    BY <1>2 DEF Begun, Waits, Replacing, HeadIs
  <2> QED BY <2>1 DEF HeadOK, Steady, PassGoesOn
<1> QED BY <1>1, <1>2

LEMMA TouchedUnborn ==
    ASSUME Typed, UnbornOK, Steady, NEW gens \in SUBSET Gens, \A g \in gens : ~Unborn(g), Touches(gens)
    PROVE  UnbornOK'
<1>1. ASSUME NEW g \in Gens, Unborn(g) PROVE fire'[g] = Idle /\ ~wake'[g] /\ local'[g] = Absent /\ settings'[g] = Absent
  BY <1>1 DEF UnbornOK, Touches
<1> QED BY <1>1 DEF UnbornOK, Unborn, Steady

\* A step of generations that have started keeps Life, whatever it does to the queue.
LEMMA TouchingLife ==
    ASSUME Typed, Life, Steady, NEW gens \in SUBSET Gens, \A g \in gens : ~Unborn(g), Touches(gens),
           NEW g, ~Unborn(g), queue' = queue \/ Pushes(g) \/ Pops(g)
    PROVE  Life' /\ PassGoesOn
<1>1. RegsOK' /\ PassOK' /\ PassGoesOn /\ UnbornOK'
  BY TouchedPass, TouchedUnborn DEF Life, RegsOK, Steady
<1>2. CASE queue' = queue
  <2>1. QueueOK'
    BY <1>2 DEF Life, QueueOK, Unborn, Steady
  <2>2. queue = <<>> => ~Begun'
    BY <1>2 DEF Begun
  <2>3. HeadOK'
    BY <1>1, <1>2, <2>2, KeepingHead DEF Life
  <2> QED BY <1>1, <2>1, <2>3 DEF Life
<1>3. CASE Pushes(g)
  <2>1. QueueOK' /\ HeadOK'
    BY <1>1, <1>3, PushingQueue, KeepingHead DEF Life
  <2> QED BY <1>1, <2>1 DEF Life
<1>4. CASE Pops(g)
  <2>1. QueueOK' /\ ~Begun'
    BY <1>4, PoppingQueue DEF Life
  <2>2. HeadOK'
    BY <2>1 DEF HeadOK, Waits, Replacing, HeadIs
  <2> QED BY <1>1, <2>1, <2>2 DEF Life
<1> QED BY <1>2, <1>3, <1>4

-----------------------------------------------------------------------------
(* What each kind of step does to the rest of the system.                    *)

\* Arming a timer concerns one generation.
LEMMA ArmingTouches ==
    ASSUME Typed, NEW g \in Gens, NEW held \in Copy, NEW it \in Copy, NEW also, ArmTimer(g, held, it, also)
    PROVE  /\ \A h \in Gens \ {g} : wake'[h] = wake[h] /\ local'[h] = local[h] /\ settings'[h] = settings[h]
           /\ pass' = pass \/ \E x \in Copy : pass' = Requested(pass, g, x)
           /\ mishaps \subseteq mishaps' /\ also \subseteq mishaps'
           /\ \/ /\ settings' = settings /\ pass' = pass
                 /\ mishaps' = mishaps \cup also
                 /\ local' = [local EXCEPT ![g] = held] /\ wake' = [wake EXCEPT ![g] = it # Absent /\ it.on]
              \/ /\ "missed" \in mishaps' /\ mishaps' = mishaps \cup also \cup {"missed"}
                 /\ it # Absent /\ it.on /\ kind # "once"
                 /\ settings' = [settings EXCEPT ![g] = [it EXCEPT !.next = now + 1]]
                 /\ pass' = Requested(pass, g, [it EXCEPT !.next = now + 1])
                 /\ local' = [local EXCEPT ![g] = IF held # Absent THEN [held EXCEPT !.next = now + 1] ELSE held]
                 /\ wake' = [wake EXCEPT ![g] = TRUE]
<1> DEFINE skip == it # Absent /\ it.on /\ Stale(it)
           moved == [it EXCEPT !.next = NextRun(it)]
<1>1. skip => moved \in Copy /\ kind # "once" /\ it # Absent /\ it.on /\ NextRun(it) = now + 1
  BY MovedTyped DEF Stale, NextRun
<1>2. /\ local' = [local EXCEPT ![g] =
                      IF skip /\ held # Absent THEN [held EXCEPT !.next = NextRun(it)] ELSE held]
      /\ settings' = IF skip THEN [settings EXCEPT ![g] = moved] ELSE settings
      /\ pass' = IF skip THEN Requested(pass, g, moved) ELSE pass
      /\ wake' = [wake EXCEPT ![g] = it # Absent /\ it.on]
      /\ mishaps' = mishaps \cup also \cup (IF skip THEN {"missed"} ELSE {})
  BY DEF ArmTimer
<1>3. /\ local \in [Gens -> Copy] /\ settings \in [Gens -> Copy] /\ wake \in [Gens -> BOOLEAN]
  BY FromTyped
<1>4. moved = [it EXCEPT !.next = NextRun(it)]
  OBVIOUS
<1> HIDE DEF skip, moved
<1>5. \A h \in Gens \ {g} : wake'[h] = wake[h] /\ local'[h] = local[h] /\ settings'[h] = settings[h]
  BY <1>2, <1>3
<1>6. pass' = pass \/ \E x \in Copy : pass' = Requested(pass, g, x)
  BY <1>1, <1>2
<1>7. CASE ~skip
  <2>1. /\ settings' = settings /\ pass' = pass /\ mishaps' = mishaps \cup also
        /\ local' = [local EXCEPT ![g] = held] /\ wake' = [wake EXCEPT ![g] = it # Absent /\ it.on]
    BY <1>2, <1>7
  <2> QED BY <1>5, <1>6, <2>1
<1>8. CASE skip
  <2>1. moved = [it EXCEPT !.next = now + 1]
    BY <1>1, <1>4, <1>8
  <2>2. (it # Absent /\ it.on) = TRUE
    BY <1>1, <1>8
  <2>3. /\ settings' = [settings EXCEPT ![g] = [it EXCEPT !.next = now + 1]]
        /\ pass' = Requested(pass, g, [it EXCEPT !.next = now + 1])
    BY <1>2, <1>8, <2>1, Zenon
  <2>4. /\ local' = [local EXCEPT ![g] = IF held # Absent THEN [held EXCEPT !.next = now + 1] ELSE held]
    BY <1>1, <1>2, <1>8, Zenon
  <2>5. wake' = [wake EXCEPT ![g] = TRUE]
    BY <1>2, <2>2, Zenon
  <2>6. mishaps' = mishaps \cup also \cup {"missed"}
    BY <1>2, <1>8
  <2> QED BY <1>1, <1>5, <1>6, <1>8, <2>3, <2>4, <2>5, <2>6
<1> QED BY <1>7, <1>8

LEMMA ArmingUnlessMissed ==
    ASSUME NEW g, NEW held, NEW it, NEW also, ArmTimer(g, held, it, also)
    PROVE  /\ mishaps \subseteq mishaps' /\ also \subseteq mishaps'
           /\ "missed" \notin mishaps' => settings' = settings /\ pass' = pass /\ mishaps' = mishaps \cup also
                                          /\ local' = [local EXCEPT ![g] = held]
                                          /\ wake' = [wake EXCEPT ![g] = it # Absent /\ it.on]
<1> DEFINE skip == it # Absent /\ it.on /\ Stale(it)
           moved == [it EXCEPT !.next = NextRun(it)]
<1>1. /\ local' = [local EXCEPT ![g] =
                      IF skip /\ held # Absent THEN [held EXCEPT !.next = NextRun(it)] ELSE held]
      /\ settings' = IF skip THEN [settings EXCEPT ![g] = moved] ELSE settings
      /\ pass' = IF skip THEN Requested(pass, g, moved) ELSE pass
      /\ wake' = [wake EXCEPT ![g] = it # Absent /\ it.on]
      /\ mishaps' = mishaps \cup also \cup (IF skip THEN {"missed"} ELSE {})
  BY DEF ArmTimer
<1> HIDE DEF skip, moved
<1> QED BY <1>1

\* A continuation: the caller of the operation that has answered goes on.
Continues(g) ==
    /\ Steady /\ Pops(g) /\ Touches({g})
    /\ queue # <<>> /\ Head(queue) \in Entry /\ Head(queue).gen = g /\ Head(queue).stage \in {"ok", "failed"}
    /\ Begun /\ ~Waits
    /\ disk' = disk /\ item' = item /\ claims' = claims /\ now' = now /\ kind' = kind /\ upsets' = upsets
    /\ edits' = edits
    /\ mishaps \subseteq mishaps'
    /\ "missed" \notin mishaps' => settings' = settings /\ pass' = pass /\ mishaps' = mishaps

LEMMA AnsweringHead ==
    ASSUME Typed, NEW name, NEW g \in Gens, Answers(name, g)
    PROVE  /\ queue # <<>> /\ Head(queue) \in Entry /\ Head(queue).gen = g
           /\ Head(queue).op = name
           /\ Head(queue).stage \in {"ok", "failed"} /\ Begun /\ ~Waits
           /\ Head(queue).res \in Copy /\ Head(queue).arg \in Copy
BY AnsweringTyped DEF Begun, Waits

LEMMA PopPushPops ==
    ASSUME NEW q, NEW name, NEW g, Queued(q, name, g), PopPush(q), queue # <<>>
    PROVE  Pops(g)
BY DEF PopPush, Pops, Queued

LEMMA ArmedContinues ==
    ASSUME Typed, NEW g \in Gens, NEW name, Answers(name, g), Pop, EndsFire(g),
           NEW held \in Copy, NEW it \in Copy, ArmTimer(g, held, it, {}),
           UNCHANGED <<kind, now, disk, item, regs, adapter, fence, cur, up, claims, edits, upsets>>
    PROVE  Continues(g)
<1>1. Steady /\ Pops(g)
  BY AnsweringHead DEF Steady, Pops, Pop
<1>2. \A h \in Gens \ {g} : fire'[h] = fire[h]
  BY FromTyped DEF EndsFire
<1>3. Touches({g})
  <2>1. /\ \A h \in Gens \ {g} : wake'[h] = wake[h] /\ local'[h] = local[h] /\ settings'[h] = settings[h]
        /\ pass' = pass \/ \E x \in Copy : pass' = Requested(pass, g, x)
    BY ArmingTouches
  <2> QED BY <1>2, <2>1 DEF Touches
<1>4. mishaps \subseteq mishaps' /\ ("missed" \notin mishaps' => settings' = settings /\ pass' = pass /\ mishaps' = mishaps)
  BY ArmingUnlessMissed
<1> QED BY <1>1, <1>3, <1>4, AnsweringHead DEF Continues

LEMMA PlainContinues ==
    ASSUME Typed, NEW g \in Gens, NEW name, Answers(name, g), Pops(g),
           \A h \in Gens \ {g} : fire'[h] = fire[h] /\ local'[h] = local[h] /\ wake'[h] = wake[h],
           UNCHANGED <<kind, now, disk, settings, item, regs, adapter, fence, pass, cur, up, claims, edits, upsets,
                       mishaps>>
    PROVE  Continues(g)
<1>1. Steady /\ Touches({g})
  BY DEF Steady, Touches
<1> QED BY <1>1, AnsweringHead DEF Continues

LEMMA EndsFireElsewhere ==
    ASSUME Typed, NEW g \in Gens
    PROVE  /\ EndsFire(g) => \A h \in Gens \ {g} : fire'[h] = fire[h]
           /\ \A at : fire' = [fire EXCEPT ![g].at = at] => \A h \in Gens \ {g} : fire'[h] = fire[h]
           /\ \A x : local' = [local EXCEPT ![g] = x] => \A h \in Gens \ {g} : local'[h] = local[h]
           /\ \A x : wake' = [wake EXCEPT ![g] = x] => \A h \in Gens \ {g} : wake'[h] = wake[h]
BY FromTyped DEF EndsFire

LEMMA ClaimedContinues == ASSUME Typed, NEW g \in Gens, Claimed(g) PROVE Continues(g)
<1>1. Answers("claim", g) /\ Pops(g)
  BY AnsweringHead DEF Claimed, Pops, Pop
<1>2. \A h \in Gens \ {g} : fire'[h] = fire[h] /\ local'[h] = local[h] /\ wake'[h] = wake[h]
  BY FromTyped DEF Claimed
<1> QED BY <1>1, <1>2, PlainContinues DEF Claimed

LEMMA ClaimRefusedContinues == ASSUME Typed, NEW g \in Gens, ClaimRefused(g) PROVE Continues(g)
<1>1. Answers("claim", g) /\ Pop /\ EndsFire(g) /\ Head(queue).res \in Copy
  BY AnsweringHead DEF ClaimRefused
<1>2. CASE Head(queue).res = Absent
  <2>1. Pops(g) /\ \A h \in Gens \ {g} : fire'[h] = fire[h] /\ local'[h] = local[h] /\ wake'[h] = wake[h]
    BY <1>1, <1>2, AnsweringHead, EndsFireElsewhere DEF ClaimRefused, Pops, Pop
  <2> QED BY <1>1, <1>2, <2>1, PlainContinues DEF ClaimRefused
<1>3. CASE Head(queue).res # Absent
  <2>1. ArmTimer(g, Head(queue).res, Head(queue).res, {})
    BY <1>3 DEF ClaimRefused, Rearm
  <2> QED BY <1>1, <2>1, ArmedContinues DEF ClaimRefused
<1> QED BY <1>2, <1>3

LEMMA FireFailsContinues == ASSUME Typed, NEW g \in Gens, FireFails(g) PROVE Continues(g)
<1>1. PICK name : Answers(name, g)
  BY DEF FireFails
<1>2. Pop /\ EndsFire(g) /\ local[g] \in Copy /\ fire[g].held \in Copy
  BY FromTyped, FireFields DEF FireFails
<1> QED BY <1>1, <1>2, ArmedContinues DEF FireFails

LEMMA SkippedContinues == ASSUME Typed, NEW g \in Gens, Skipped(g) PROVE Continues(g)
<1>1. Answers("update", g) /\ Pop /\ EndsFire(g) /\ Head(queue).res \in Copy
  BY AnsweringHead DEF Skipped
<1>2. ArmTimer(g, Head(queue).res, Head(queue).res, {})
  BY DEF Skipped, Rearm
<1> QED BY <1>1, <1>2, ArmedContinues DEF Skipped

LEMMA DispatchContinues == ASSUME Typed, NEW g \in Gens, Dispatch(g) PROVE Continues(g)
<1>1. Answers("authorize", g) /\ Pops(g)
  BY AnsweringHead DEF Dispatch, Pops, Pop
<1>2. \A h \in Gens \ {g} : fire'[h] = fire[h] /\ local'[h] = local[h] /\ wake'[h] = wake[h]
  BY EndsFireElsewhere DEF Dispatch
<1> QED BY <1>1, <1>2, PlainContinues DEF Dispatch

LEMMA AuthorizeRefusedContinues == ASSUME Typed, NEW g \in Gens, AuthorizeRefused(g) PROVE Continues(g)
<1> DEFINE q == [Op("abandon", g) EXCEPT !.tok = fire[g].tok]
<1>1. Answers("authorize", g) /\ PopPush(q)
  BY DEF AuthorizeRefused
<1>2. Queued(q, "abandon", g)
  BY QueuedTok, FireFields DEF Ops, FireOps
<1> HIDE DEF q
<1>3. Pops(g)
  BY <1>1, <1>2, AnsweringHead, PopPushPops
<1>4. \A h \in Gens \ {g} : fire'[h] = fire[h] /\ local'[h] = local[h] /\ wake'[h] = wake[h]
  BY EndsFireElsewhere DEF AuthorizeRefused
<1> QED BY <1>1, <1>3, <1>4, PlainContinues DEF AuthorizeRefused

LEMMA AbandonedContinues == ASSUME Typed, NEW g \in Gens, Abandoned(g) PROVE Continues(g)
<1>1. Answers("abandon", g) /\ Pop /\ EndsFire(g) /\ Head(queue).res \in Copy
  BY AnsweringHead DEF Abandoned
<1>2. CASE Head(queue).res = Absent
  <2>1. Pops(g) /\ \A h \in Gens \ {g} : fire'[h] = fire[h] /\ local'[h] = local[h] /\ wake'[h] = wake[h]
    BY <1>1, <1>2, AnsweringHead, EndsFireElsewhere DEF Abandoned, Pops, Pop
  <2> QED BY <1>1, <1>2, <2>1, PlainContinues DEF Abandoned
<1>3. CASE Head(queue).res # Absent
  <2>1. ArmTimer(g, Head(queue).res, Head(queue).res, {})
    BY <1>3 DEF Abandoned, Rearm
  <2> QED BY <1>1, <2>1, ArmedContinues DEF Abandoned
<1> QED BY <1>2, <1>3

LEMMA AbandonFailsContinues == ASSUME Typed, NEW g \in Gens, AbandonFails(g) PROVE Continues(g)
<1> DEFINE q == [Op("finalize", g) EXCEPT !.tok = fire[g].tok]
<1>1. Answers("abandon", g) /\ PopPush(q)
  BY DEF AbandonFails
<1>2. Queued(q, "finalize", g)
  BY QueuedTok, FireFields DEF Ops, FireOps
<1> HIDE DEF q
<1>3. Pops(g)
  BY <1>1, <1>2, AnsweringHead, PopPushPops
<1>4. \A h \in Gens \ {g} : fire'[h] = fire[h] /\ local'[h] = local[h] /\ wake'[h] = wake[h]
  BY EndsFireElsewhere DEF AbandonFails
<1> QED BY <1>1, <1>3, <1>4, PlainContinues DEF AbandonFails

LEMMA FinalizedContinues == ASSUME Typed, NEW g \in Gens, Finalized(g) PROVE Continues(g)
<1>1. Answers("finalize", g) /\ Pop /\ EndsFire(g) /\ Head(queue).res \in Copy
  BY AnsweringHead DEF Finalized
<1>2. CASE Head(queue).res = Absent
  <2>1. Pops(g) /\ \A h \in Gens \ {g} : fire'[h] = fire[h] /\ local'[h] = local[h] /\ wake'[h] = wake[h]
    BY <1>1, <1>2, AnsweringHead, EndsFireElsewhere DEF Finalized, Pops, Pop
  <2> QED BY <1>1, <1>2, <2>1, PlainContinues DEF Finalized
<1>3. CASE Head(queue).res # Absent
  <2>1. ArmTimer(g, Head(queue).res, Head(queue).res, {})
    BY <1>3 DEF Finalized, Rearm
  <2> QED BY <1>1, <2>1, ArmedContinues DEF Finalized
<1> QED BY <1>2, <1>3

LEMMA FinalizeFailsContinues == ASSUME Typed, NEW g \in Gens, FinalizeFails(g) PROVE Continues(g)
<1>1. Answers("finalize", g) /\ Pops(g)
  BY AnsweringHead DEF FinalizeFails, Pops, Pop
<1>2. \A h \in Gens \ {g} : fire'[h] = fire[h] /\ local'[h] = local[h] /\ wake'[h] = wake[h]
  BY EndsFireElsewhere DEF FinalizeFails
<1> QED BY <1>1, <1>2, PlainContinues DEF FinalizeFails

LEMMA EditedContinues == ASSUME Typed, NEW g \in Gens, Edited(g) PROVE Continues(g)
<1>1. Answers("update", g) /\ Pops(g)
  BY AnsweringHead DEF Edited, Pops, Pop
<1>2. \A h \in Gens \ {g} : fire'[h] = fire[h] /\ local'[h] = local[h] /\ wake'[h] = wake[h]
  BY EndsFireElsewhere DEF Edited
<1> QED BY <1>1, <1>2, PlainContinues DEF Edited

LEMMA DeletedContinues == ASSUME Typed, NEW g \in Gens, Deleted(g) PROVE Continues(g)
<1>1. Answers("delete", g) /\ Pops(g)
  BY AnsweringHead DEF Deleted, Pops, Pop
<1>2. \A h \in Gens \ {g} : fire'[h] = fire[h] /\ local'[h] = local[h] /\ wake'[h] = wake[h]
  BY EndsFireElsewhere DEF Deleted
<1> QED BY <1>1, <1>2, PlainContinues DEF Deleted

LEMMA CreatedContinues == ASSUME Typed, NEW g \in Gens, Created(g) PROVE Continues(g)
<1>1. Answers("create", g) /\ Pops(g)
  BY AnsweringHead DEF Created, Pops, Pop
<1>2. \A h \in Gens \ {g} : fire'[h] = fire[h] /\ local'[h] = local[h] /\ wake'[h] = wake[h]
  BY EndsFireElsewhere DEF Created
<1> QED BY <1>1, <1>2, PlainContinues DEF Created

\* Something happens to generation g, outside the operations.
Happens(g) ==
    /\ Quiet /\ Steady /\ Touches({g}) /\ ~Unborn(g)
    /\ disk' = disk /\ item' = item /\ claims' = claims /\ kind' = kind
    /\ mishaps \subseteq mishaps'
    /\ now' = now

\* An operation is queued for generation g.
Enqueues(g) ==
    /\ Happens(g) /\ Pushes(g)
    /\ "missed" \notin mishaps' => settings' = settings /\ pass' = pass

LEMMA NotUnborn ==
    ASSUME Typed, NEW g \in Gens
    PROVE  /\ UnbornOK => (wake[g] \/ fire[g].at # "idle" \/ local[g] # Absent => ~Unborn(g))
           /\ Live(g) => ~Unborn(g)
           /\ RegsOK /\ fence = g /\ up # "claimed" => ~Unborn(g)
<1>1. g \in Nat /\ g # 0 /\ cur \in Nat
  BY FromTyped, BoundsAssumption DEF Gens
<1> QED BY <1>1, IdleFields DEF UnbornOK, Unborn, Live, RegsOK

LEMMA LiveStays ==
    ASSUME Typed, RegsOK, NEW g \in Gens, Live(g), NEW it, ActivateIfNeeded(g, it)
    PROVE  regs' = regs /\ adapter' = adapter /\ item' = item
<1>1. regs = <<g>>
  BY DEF RegsOK, Live
<1>2. 1 \in DOMAIN regs /\ regs[1] = g
  BY <1>1
<1> QED BY <1>2 DEF ActivateIfNeeded, Registered

LEMMA WakeEnqueues == ASSUME Typed, Life, NEW g \in Gens, Wake(g) PROVE Enqueues(g)
<1> DEFINE q == [Op("claim", g) EXCEPT !.due = local[g].next]
<1>1. local[g] \in Copy /\ local[g] # Absent /\ wake[g] /\ queue' = Append(queue, q)
  BY FromTyped DEF Wake, Due
<1>2. Queued(q, "claim", g)
  BY <1>1, CopyFields, QueuedDue DEF Ops, FireOps
<1> HIDE DEF q
<1>3. Pushes(g)
  BY <1>1, <1>2 DEF Pushes, Queued
<1>4. ~Unborn(g)
  BY <1>1, NotUnborn DEF Life
<1>5. Touches({g})
  BY FromTyped DEF Wake, Touches
<1> QED BY <1>3, <1>4, <1>5 DEF Wake, Enqueues, Happens, Steady

LEMMA WakeSkipsEnqueues == ASSUME Typed, Life, NEW g \in Gens, WakeSkips(g) PROVE Enqueues(g)
<1> DEFINE q == [Op("update", g) EXCEPT !.patch = "skip"]
<1>1. wake[g] /\ queue' = Append(queue, q)
  BY DEF WakeSkips
<1>2. Queued(q, "update", g)
  BY QueuedPatch DEF Ops, Patches
<1> HIDE DEF q
<1>3. Pushes(g)
  BY <1>1, <1>2 DEF Pushes, Queued
<1>4. ~Unborn(g)
  BY <1>1, NotUnborn DEF Life
<1>5. Touches({g})
  BY FromTyped DEF WakeSkips, Touches
<1> QED BY <1>3, <1>4, <1>5 DEF WakeSkips, Enqueues, Happens, Steady

LEMMA GateEndsEnqueues == ASSUME Typed, Life, NEW g \in Gens, GateEnds(g) PROVE Enqueues(g)
<1>1. PICK next \in {"authorize", "finalize"} :
          /\ fire' = [fire EXCEPT ![g].at = next]
          /\ queue' = Append(queue, [Op(next, g) EXCEPT !.tok = fire[g].tok])
  BY DEF GateEnds
<1>2. next \in Ops /\ fire[g].tok \in Nat /\ fire[g].at = "gate"
  BY FireFields DEF Ops, FireOps, GateEnds
<1>3. Queued([Op(next, g) EXCEPT !.tok = fire[g].tok], next, g)
  BY <1>2, QueuedTok
<1>4. Pushes(g)
  BY <1>1, <1>3 DEF Pushes, Queued
<1>5. ~Unborn(g)
  BY <1>2, NotUnborn DEF Life
<1>6. Touches({g})
  BY <1>1, EndsFireElsewhere DEF GateEnds, Touches
<1> QED BY <1>4, <1>5, <1>6 DEF GateEnds, Enqueues, Happens, Steady

LEMMA SendEndsEnqueues == ASSUME Typed, Life, NEW g \in Gens, SendEnds(g) PROVE Enqueues(g)
<1> DEFINE q == [Op("finalize", g) EXCEPT !.tok = fire[g].tok]
<1>1. fire[g].at = "sending" /\ queue' = Append(queue, q)
  BY DEF SendEnds
<1>2. Queued(q, "finalize", g)
  BY QueuedTok, FireFields DEF Ops, FireOps
<1> HIDE DEF q
<1>3. Pushes(g)
  BY <1>1, <1>2 DEF Pushes, Queued
<1>4. ~Unborn(g)
  BY <1>1, NotUnborn DEF Life
<1>5. Touches({g})
  BY EndsFireElsewhere DEF SendEnds, Touches
<1> QED BY <1>3, <1>4, <1>5 DEF SendEnds, Enqueues, Happens, Steady

LEMMA NotLate == ASSUME NEW g, "late" \notin mishaps', Late(g) \subseteq mishaps' PROVE Live(g)
BY DEF Late

LEMMA EditEnqueues == ASSUME Typed, Life, NEW g \in Gens, Edit(g), "late" \notin mishaps' PROVE Enqueues(g) /\ Live(g)
<1>1. PICK patch \in {"off", "on", "prompt"}, a \in Item, skip \in BOOLEAN : EditsAs(g, patch, a, skip)
  BY EditEdits
<1>2. /\ local' = [local EXCEPT ![g] = a]
      /\ wake' = [wake EXCEPT ![g] = a.on]
      /\ settings' = IF skip THEN [settings EXCEPT ![g] = a] ELSE settings
      /\ pass' = IF skip THEN Requested(pass, g, a) ELSE pass
      /\ mishaps' = mishaps \union Late(g) \union (IF skip THEN {"missed"} ELSE {})
                          \union (IF InHand THEN {"edited"} ELSE {})
                          \union (IF Overtakes THEN {"overtaken"} ELSE {})
      /\ ActivateIfNeeded(g, a)
      /\ queue' = Append(queue, [Op("update", g) EXCEPT !.patch = patch])
  BY <1>1 DEF EditsAs
<1>3. Live(g) /\ mishaps \subseteq mishaps'
  BY <1>2, NotLate
<1>4. regs' = regs /\ adapter' = adapter /\ item' = item
  BY <1>2, <1>3, LiveStays DEF Life
<1>5. Pushes(g)
  <2>1. Queued([Op("update", g) EXCEPT !.patch = patch], "update", g)
    BY QueuedPatch DEF Ops, Patches
  <2> QED BY <1>2, <2>1 DEF Pushes, Queued
<1>6. Touches({g})
  <2>1. a \in Copy /\ \A h \in Gens \ {g} : local'[h] = local[h] /\ wake'[h] = wake[h] /\ settings'[h] = settings[h]
    BY <1>2, FromTyped DEF Copy
  <2>2. fire' = fire
    BY EditIs
  <2>3. pass' = pass \/ pass' = Requested(pass, g, a)
    BY <1>2
  <2> QED BY <2>1, <2>2, <2>3 DEF Touches
<1>7. "missed" \notin mishaps' => settings' = settings /\ pass' = pass
  BY <1>2
<1>8. ~Unborn(g)
  BY <1>3, NotUnborn
<1>9. Steady /\ Quiet
  BY <1>4, EditIs DEF Steady
<1> QED BY <1>3, <1>4, <1>5, <1>6, <1>7, <1>8, <1>9, EditIs DEF Enqueues, Happens

LEMMA DeleteEnqueues ==
    ASSUME Typed, Life, NEW g \in Gens, Delete(g), "late" \notin mishaps'
    PROVE  Enqueues(g) /\ Live(g) /\ settings' = settings /\ pass' = pass
<1>1. Live(g) /\ mishaps \subseteq mishaps' /\ settings' = settings /\ pass' = pass
  BY NotLate DEF Delete
<1>2. regs' = regs /\ adapter' = adapter /\ item' = item
  BY <1>1, LiveStays DEF Life, Delete
<1>3. Pushes(g)
  <2>1. Queued([Op("delete", g) EXCEPT !.arg = local[g]], "delete", g)
    BY FromTyped, QueuedArg DEF Ops
  <2> QED BY <2>1 DEF Pushes, Queued, Delete
<1>4. Touches({g})
  BY EndsFireElsewhere DEF Delete, Touches
<1>5. ~Unborn(g)
  BY <1>1, NotUnborn
<1> QED BY <1>1, <1>2, <1>3, <1>4, <1>5 DEF Enqueues, Happens, Steady, Delete

LEMMA CreateEnqueues == ASSUME Typed, Life, NEW g \in Gens, Create(g) PROVE Enqueues(g) /\ Live(g)
<1>1. Live(g)
  BY CreateIs
<1>2. Pushes(g)
  <2>1. Queued([Op("create", g) EXCEPT !.arg = NewItem], "create", g)
    BY NewItemTyped, QueuedArg DEF Ops
  <2> QED BY <2>1, CreateIs DEF Pushes, Queued
<1>3. Touches({g})
  BY CreateIs, EndsFireElsewhere DEF Create, Touches
<1>4. ~Unborn(g)
  BY <1>1, NotUnborn
<1> QED BY <1>1, <1>2, <1>3, <1>4 DEF Enqueues, Happens, Steady, Create

LEMMA DetachEnqueues ==
    ASSUME Typed, Life, NEW g \in Gens, Detach(g), "late" \notin mishaps'
    PROVE  Enqueues(g) /\ Live(g) /\ settings' = settings /\ pass' = pass
<1>1. Live(g) /\ mishaps \subseteq mishaps' /\ settings' = settings /\ pass' = pass
  BY NotLate DEF Detach
<1>2. regs' = regs /\ adapter' = adapter /\ item' = item
  BY <1>1, LiveStays DEF Life, Detach
<1>3. Pushes(g)
  <2>1. Queued([Op("replaceAll", g) EXCEPT !.arg = local[g]], "replaceAll", g)
    BY FromTyped, QueuedArg DEF Ops
  <2> QED BY <2>1 DEF Pushes, Queued, Detach
<1>4. Touches({g})
  BY DEF Detach, Touches
<1>5. ~Unborn(g)
  BY <1>1, NotUnborn
<1> QED BY <1>1, <1>2, <1>3, <1>4, <1>5 DEF Enqueues, Happens, Steady, Detach

LEMMA OtherSaveHappens ==
    ASSUME Typed, Life, NEW g \in Gens, OtherSave(g)
    PROVE  Happens(g) /\ queue' = queue
<1>1. ~Unborn(g)
  BY NotUnborn DEF Life, OtherSave
<1>2. Touches({g})
  BY FromTyped DEF Touches, OtherSave
<1> QED BY <1>1, <1>2 DEF OtherSave, Happens, Steady

LEMMA WakeWhileFiringHappens ==
    ASSUME Typed, Life, NEW g \in Gens, WakeWhileFiring(g)
    PROVE  Happens(g) /\ queue' = queue /\ settings' = settings /\ pass' = pass
<1>1. ~Unborn(g)
  BY NotUnborn DEF Life, WakeWhileFiring
<1>2. Touches({g})
  BY EndsFireElsewhere DEF Touches, WakeWhileFiring
<1> QED BY <1>1, <1>2 DEF WakeWhileFiring, Happens, Steady

LEMMA MissedHappens ==
    ASSUME Typed, Life, NEW g \in Gens, Missed(g)
    PROVE  Happens(g) /\ queue' = queue /\ ("missed" \notin mishaps' => settings' = settings /\ pass' = pass)
<1>1. ~Unborn(g)
  BY NotUnborn DEF Life, Missed
<1>2. ArmTimer(g, local[g], local[g], {}) /\ local[g] \in Copy
  BY FromTyped DEF Missed, Rearm
<1>3. /\ \A h \in Gens \ {g} : wake'[h] = wake[h] /\ local'[h] = local[h] /\ settings'[h] = settings[h]
      /\ pass' = pass \/ \E x \in Copy : pass' = Requested(pass, g, x)
      /\ mishaps \subseteq mishaps'
  BY <1>2, ArmingTouches
<1>4. Touches({g})
  BY <1>3 DEF Touches, Missed
<1>5. "missed" \notin mishaps' => settings' = settings /\ pass' = pass
  BY <1>2, ArmingUnlessMissed
<1> QED BY <1>1, <1>3, <1>4, <1>5 DEF Missed, Happens, Steady

\* replaceAll ends.
LEMMA DetachedIs ==
    ASSUME Typed, Life, NEW g \in Gens, Detached(g)
    PROVE  /\ Steady /\ Pops(g) /\ ~Unborn(g) /\ Touches({g, Head(queue).by} \ {0})
           /\ \A h \in {g, Head(queue).by} \ {0} : h \in Gens /\ ~Unborn(h)
           /\ Begun /\ ~Waits /\ Head(queue).op = "replaceAll"
           /\ Head(queue) \in Entry /\ Head(queue).gen = g
           /\ disk' = disk /\ claims' = claims /\ kind' = kind /\ now' = now
           /\ mishaps \subseteq mishaps'
<1> DEFINE q == Head(queue)
<1>1. /\ Answers("replaceAll", g) /\ Pop
  BY DEF Detached
<1>2. /\ queue # <<>> /\ q \in Entry /\ q.gen = g /\ q.op = "replaceAll" /\ Begun /\ ~Waits
      /\ q.res \in Copy /\ q.arg \in Copy /\ q.by \in 0 .. MaxGen
  BY <1>1, AnsweringHead, AnsweringTyped
<1>3. ~Unborn(g)
  <2>1. q = queue[1] /\ 1 \in 1 .. Len(queue)
    <3>1. Len(queue) \in Nat \ {0} /\ Head(queue) = queue[1]
      BY <1>2, FromTyped, Taking DEF QueueTyped
    <3> QED BY <3>1
  <2> QED BY <1>2, <2>1 DEF Life, QueueOK
<1>4. q.by # 0 => ~Unborn(q.by) /\ q.by \in Gens
  <2>1. ASSUME q.by # 0 PROVE q.by <= cur /\ (q.by = cur <=> up # "claimed")
    BY <1>2, <2>1 DEF Life, HeadOK, Replacing, HeadIs
  <2>2. q.by \in Nat /\ cur \in Nat /\ MaxGen \in Nat
    BY <1>2, FromTyped
  <2> QED BY <1>2, <2>1, <2>2 DEF Unborn, Gens
<1>5. Touches({g, q.by} \ {0}) /\ mishaps \subseteq mishaps'
  <2>1. g # 0 /\ fire' = fire
    BY DEF Gens, Detached
  <2>2. CASE ~Failed
    <3> DEFINE also == IF item # q.arg THEN {"replaced"} ELSE {}
    <3>1. ArmTimer(g, q.arg, q.arg, also)
      BY <2>2 DEF Detached
    <3> HIDE DEF also
    <3>2. /\ \A h \in Gens \ {g} : wake'[h] = wake[h] /\ local'[h] = local[h] /\ settings'[h] = settings[h]
          /\ pass' = pass \/ \E x \in Copy : pass' = Requested(pass, g, x)
          /\ mishaps \subseteq mishaps'
      BY <1>2, <3>1, ArmingTouches
    <3> QED BY <2>1, <3>2 DEF Touches
  <2>3. CASE Failed
    <3>1. /\ settings' = IF q.by = 0 THEN settings ELSE [settings EXCEPT ![q.by] = q.res]
          /\ local' = local /\ wake' = wake /\ pass' = pass /\ mishaps' = mishaps
      BY <2>3 DEF Detached
    <3>2. \A h \in Gens \ ({g, q.by} \ {0}) : settings'[h] = settings[h]
      <4> HIDE DEF q
      <4> QED BY <3>1, FromTyped DEF Gens
    <3> QED BY <2>1, <3>1, <3>2 DEF Touches
  <2> QED BY <2>2, <2>3
<1> QED BY <1>1, <1>2, <1>3, <1>4, <1>5 DEF Detached, Steady, Pops, Pop

-----------------------------------------------------------------------------
(* Every step keeps Life, unless a call comes late.                         *)

\* The write of data.json, for the operation that waits for it.
LEMMA WriteEnds ==
    ASSUME Typed, Life, NEW st \in Stages, Quiet, pass.gen # 0,
           queue' = IF ~Waiting(pass.gen) THEN queue ELSE HeadStage(st)
    PROVE  \/ /\ queue = <<>> /\ queue' = <<>> /\ ~Waiting(pass.gen)
           \/ /\ Waits /\ Waiting(pass.gen)
              /\ LET b == [Head(queue) EXCEPT !.stage = st] IN
                 /\ b \in Entry /\ queue' = [queue EXCEPT ![1] = b] /\ b.stage = st
                 /\ b.op = Head(queue).op /\ b.gen = Head(queue).gen /\ b.due = Head(queue).due
                 /\ b.tok = Head(queue).tok /\ b.patch = Head(queue).patch /\ b.arg = Head(queue).arg
                 /\ b.by = Head(queue).by /\ b.yes = Head(queue).yes /\ b.res = Head(queue).res
<1>1. CASE queue = <<>>
  BY <1>1 DEF Waiting, Running
<1>2. CASE queue # <<>>
  <2>1. Waits /\ Head(queue).by = pass.gen
    BY <1>2, HeadQuiet DEF Life, HeadOK
  <2>2. Waiting(pass.gen) /\ queue' = HeadStage(st)
    BY <2>1 DEF Waiting, Running, Waits, Begun
  <2>3. Head(queue) \in Entry /\ queue' = [queue EXCEPT ![1] = [Head(queue) EXCEPT !.stage = st]]
    BY <1>2, <2>2, FromTyped, HeadIsEntry, StageTyped
  <2> QED BY <2>1, <2>2, <2>3 DEF Entry
<1> QED BY <1>1, <1>2

LEMMA WriteDoneLife == ASSUME Typed, Life, WriteDone PROVE Life'
<1> DEFINE more == pass.again /\ fence = pass.gen
           st == AfterWrite(more)
<1>1. Steady /\ UnbornOK'
  BY DEF WriteDone, Steady, Life, UnbornOK, Unborn
<1>2. RegsOK'
  BY <1>1 DEF Life, RegsOK, Steady
<1>3. /\ pass.gen # 0
      /\ pass' = IF more THEN [gen |-> pass.gen, snap |-> settings[pass.gen], again |-> FALSE] ELSE NoPass
      /\ queue' = IF ~Waiting(pass.gen) THEN queue ELSE HeadStage(st)
  BY DEF WriteDone
<1>4. (more => pass'.gen = pass.gen) /\ (~more => pass' = NoPass /\ pass'.gen = 0)
  BY <1>3 DEF NoPass
<1>5. PassOK'
  BY <1>1, <1>3, <1>4 DEF Life, PassOK, Steady
<1>6. /\ st \in Stages /\ st \in {"this", "ok"}
      /\ st = "this" => more
  BY DEF AfterWrite, Stages
<1> HIDE DEF more, st
<1>7. CASE queue = <<>> /\ queue' = <<>>
  BY <1>1, <1>2, <1>5, <1>7 DEF Life, QueueOK, HeadOK, Begun, Waits, Replacing, HeadIs
<1>8. CASE Waits /\ Waiting(pass.gen)
  <2> DEFINE b == [Head(queue) EXCEPT !.stage = st]
  <2>1. queue # <<>> => b \in Entry /\ queue' = [queue EXCEPT ![1] = b] /\ b.stage = st /\ b.op = Head(queue).op
                        /\ b.gen = Head(queue).gen /\ b.by = Head(queue).by
    BY <1>3, <1>6, WriteEnds DEF WriteDone
  <2>2. queue # <<>>
    BY <1>8 DEF Waits, Begun
  <2> HIDE DEF b
  <2>3. Changes(b)
    BY <1>6, <2>1, <2>2 DEF Changes
  <2>4. QueueOK' /\ Begun' /\ Head(queue') = b
    BY <1>1, <2>3, ChangingQueue DEF Life
  <2>5. HeadOK'
    BY <1>1, <1>3, <1>4, <1>6, <1>8, <2>1, <2>2, <2>4 DEF Life, HeadOK, Waits, Replacing, HeadIs, Steady
  <2> QED BY <1>1, <1>2, <1>5, <2>4, <2>5 DEF Life
<1> QED BY <1>3, <1>6, <1>7, <1>8, WriteEnds DEF WriteDone

LEMMA WriteFailsLife == ASSUME Typed, Life, WriteFails PROVE Life'
<1>1. Steady /\ UnbornOK' /\ pass' = NoPass /\ pass'.gen = 0 /\ pass.gen # 0
  BY DEF WriteFails, Steady, Life, UnbornOK, Unborn, NoPass
<1>2. RegsOK' /\ PassOK'
  BY <1>1 DEF Life, RegsOK, PassOK, Steady
<1>3. queue' = IF ~Waiting(pass.gen) THEN queue ELSE HeadStage("failed")
  BY DEF WriteFails
<1>4. CASE queue = <<>> /\ queue' = <<>>
  BY <1>1, <1>2, <1>4 DEF Life, QueueOK, HeadOK, Begun, Waits, Replacing, HeadIs
<1>5. CASE Waits
  <2> DEFINE b == [Head(queue) EXCEPT !.stage = "failed"]
  <2>1. queue # <<>>
    BY <1>5 DEF Waits, Begun
  <2>2. b \in Entry /\ queue' = [queue EXCEPT ![1] = b] /\ b.stage = "failed" /\ b.op = Head(queue).op
        /\ b.gen = Head(queue).gen /\ b.by = Head(queue).by
    BY <1>1, <1>3, <2>1, WriteEnds DEF WriteFails, Stages
  <2> HIDE DEF b
  <2>3. Changes(b)
    BY <2>1, <2>2 DEF Changes
  <2>4. QueueOK' /\ Begun' /\ Head(queue') = b
    BY <1>1, <2>3, ChangingQueue DEF Life
  <2>5. HeadOK'
    BY <1>1, <1>5, <2>1, <2>2, <2>4 DEF Life, HeadOK, Waits, Replacing, HeadIs, Steady
  <2> QED BY <1>1, <1>2, <2>4, <2>5 DEF Life
<1> QED BY <1>1, <1>3, <1>4, <1>5, WriteEnds DEF WriteFails, Stages

\* A save through the registered scheduler.
LEMMA SavingPass ==
    ASSUME Typed, RegsOK, PassOK, adapter # 0, NEW x \in Copy, pass' = Requested(pass, adapter, x)
    PROVE  /\ up = "loaded" /\ adapter = cur /\ fence = cur /\ adapter \in Gens /\ ~Unborn(adapter)
           /\ \/ /\ pass.gen = cur /\ SaveStage(pass, adapter) = "next"
                 /\ pass'.gen = cur /\ pass'.again /\ pass'.snap = pass.snap
              \/ /\ pass.gen = 0 /\ SaveStage(pass, adapter) = "this"
                 /\ pass' = [gen |-> cur, snap |-> x, again |-> FALSE]
<1>1. up = "loaded" /\ adapter = cur /\ fence = cur /\ adapter \in Gens /\ pass \in Passes
      /\ cur \in Nat
  BY AdapterIsGen, FromTyped DEF RegsOK
<1>2. ~Unborn(adapter)
  BY <1>1 DEF Unborn
<1>3. CASE pass.gen = cur
  <2>1. pass' = [pass EXCEPT !.again = TRUE] /\ SaveStage(pass, adapter) = "next"
    BY <1>1, <1>3 DEF Requested, SaveStage
  <2>2. pass'.gen = cur /\ pass'.again = TRUE /\ pass'.snap = pass.snap
    BY <1>1, <1>3, <2>1 DEF Passes
  <2> QED BY <1>1, <1>2, <1>3, <2>1, <2>2
<1>4. CASE pass.gen # cur
  <2>1. pass.gen = 0
    BY <1>1, <1>4 DEF PassOK
  <2>2. pass' = [gen |-> cur, snap |-> x, again |-> FALSE] /\ SaveStage(pass, adapter) = "this"
    BY <1>1, <1>4 DEF Requested, SaveStage
  <2> QED BY <1>1, <1>2, <2>1, <2>2
<1> QED BY <1>3, <1>4

\* An operation that begins, in either way.
BeginningLife(q, b, x) ==
    /\ Changes(b) /\ b.op = q.op
    /\ b.by \in {0, adapter}
    /\ \/ /\ settings' = settings /\ pass' = pass /\ b.stage \in {"failed", "ok"}
          /\ b.op = "replaceAll" => b.by = 0
       \/ /\ adapter # 0 /\ x \in Copy /\ b.by = adapter
          /\ settings' = [settings EXCEPT ![adapter] = x] /\ pass' = Requested(pass, adapter, x)
          /\ b.stage = SaveStage(pass, adapter)

LEMMA BeginsLife ==
    ASSUME Typed, Life, NEW q, NEW b, NEW x, BeginningLife(q, b, x), Steady, fire' = fire, wake' = wake, local' = local
    PROVE  Life'
<1>1. QueueOK' /\ Begun' /\ Head(queue') = b
  BY ChangingQueue DEF Life, BeginningLife
<1>2. adapter \in {0, cur} /\ cur \in Nat /\ RegsOK'
  BY FromTyped DEF Life, RegsOK, Steady
<1>3. CASE settings' = settings /\ pass' = pass /\ b.stage \in {"failed", "ok"} /\ (b.op = "replaceAll" => b.by = 0)
  <2>1. PassOK' /\ UnbornOK'
    BY <1>3 DEF Life, PassOK, UnbornOK, Unborn, Steady
  <2>2. b.by # 0 => b.by = cur /\ up = "loaded"
    BY <1>2 DEF BeginningLife, Life, RegsOK
  <2>3. HeadOK'
    BY <1>1, <1>2, <1>3, <2>2 DEF BeginningLife, HeadOK, Waits, Steady
  <2> QED BY <1>1, <1>2, <2>1, <2>3 DEF Life
<1>4. CASE /\ adapter # 0 /\ x \in Copy /\ b.by = adapter
           /\ settings' = [settings EXCEPT ![adapter] = x] /\ pass' = Requested(pass, adapter, x)
           /\ b.stage = SaveStage(pass, adapter)
  <2>1. /\ up = "loaded" /\ adapter = cur /\ adapter \in Gens /\ ~Unborn(adapter)
        /\ \/ b.stage = "next" /\ pass'.gen = cur /\ pass'.again
           \/ b.stage = "this" /\ pass'.gen = cur
    BY <1>4, SavingPass DEF Life
  <2>2. Touches({adapter})
    BY <1>4, <2>1, FromTyped DEF Touches
  <2>3. PassOK' /\ UnbornOK'
    BY <2>1, <2>2, TouchedPass, TouchedUnborn DEF Life
  <2>4. HeadOK'
    BY <1>1, <1>2, <1>4, <2>1 DEF HeadOK, Waits, Replacing, HeadIs, Steady
  <2> QED BY <1>1, <1>2, <2>3, <2>4 DEF Life
<1> QED BY <1>3, <1>4 DEF BeginningLife

\* An operation that is queued has not been given an adapter.
LEMMA QueuedHead ==
    ASSUME Typed, Life, queue # <<>>
    PROVE  /\ Head(queue).stage = "queued" => Head(queue).by = 0 /\ ~Head(queue).yes
           /\ ~Unborn(Head(queue).gen)
<1>1. Head(queue) = queue[1] /\ 1 \in 1 .. Len(queue)
  <2>1. Len(queue) \in Nat \ {0} /\ Head(queue) = queue[1]
    BY FromTyped, Taking DEF QueueTyped
  <2> QED BY <2>1
<1> QED BY <1>1 DEF Life, QueueOK

LEMMA BeginOpLife == ASSUME Typed, Life, BeginOp PROVE Life'
<1> DEFINE q == Head(queue)
<1>1. queue # <<>> /\ q.stage = "queued" /\ q.op # "replaceAll" /\ q \in Entry /\ \E b : BeginsAs(q, b)
  BY BeginOpBegins
<1>2. PICK b : BeginsAs(q, b)
  BY <1>1
<1>3. q.by = 0 /\ adapter \in 0 .. MaxGen
  BY <1>1, QueuedHead, FromTyped
<1>4. Steady /\ fire' = fire /\ wake' = wake /\ local' = local
  BY DEF BeginOp, Steady
<1>5. item' \in Copy /\ b.stage # "queued"
  <2>1. item \in Copy
    BY FromTyped
  <2>2. item' = item \/ Returns(q, [to |-> item', save |-> Saving(q), yes |-> b.yes, res |-> b.res])
    BY <1>2 DEF BeginsAs
  <2>3. item' \in Copy
    BY <2>1, <2>2 DEF Returns
  <2>4. b.stage # "queued"
    BY <1>2, SaveStageTyped DEF BeginsAs
  <2> QED BY <2>3, <2>4
<1> HIDE DEF q
<1>6. BeginningLife(q, b, item')
  <2>1. Changes(b) /\ b.op = q.op /\ b.op # "replaceAll"
    BY <1>1, <1>2, <1>5 DEF Changes, BeginsAs, q
  <2> QED BY <1>2, <1>3, <1>5, <2>1 DEF BeginningLife, BeginsAs
<1> QED BY <1>4, <1>6, BeginsLife

LEMMA BeginReplaceAllLife == ASSUME Typed, Life, BeginReplaceAll PROVE Life'
<1> DEFINE q == Head(queue)
<1>1. queue # <<>> /\ q.stage = "queued" /\ q.op = "replaceAll" /\ q \in Entry /\ \E b : ReplacesAs(q, b)
  BY BeginReplaceAllReplaces
<1>2. PICK b : ReplacesAs(q, b)
  BY <1>1
<1>3. q.by = 0 /\ adapter \in 0 .. MaxGen /\ q.arg \in Copy
  BY <1>1, QueuedHead, FromTyped DEF Entry
<1>4. Steady /\ fire' = fire /\ wake' = wake /\ local' = local
  BY DEF BeginReplaceAll, Steady
<1>5. b.stage # "queued"
  BY <1>2, SaveStageTyped DEF ReplacesAs
<1> HIDE DEF q
<1>6. BeginningLife(q, b, q.arg)
  <2>1. Changes(b) /\ b.op = q.op
    BY <1>1, <1>2, <1>5 DEF Changes, ReplacesAs, q
  <2> QED BY <1>2, <1>3, <2>1 DEF BeginningLife, ReplacesAs
<1> QED BY <1>4, <1>6, BeginsLife

LEMMA PickingNone ==
    ASSUME NEW S, NEW s \in Seq(S)
    PROVE  Picked(s, {}) = <<>>
<1> DEFINE t == Picked(s, {})
<1>1. t \in Seq(S) /\ ToSet(t) = {s[i] : i \in {} \cap 1 .. Len(s)}
  BY InPicked
<1> HIDE DEF t
<1>2. ToSet(t) = {t[i] : i \in 1 .. Len(t)}
  BY <1>1, InSequence
<1>3. Len(t) \in Nat
  BY <1>1, LenProperties
<1>4. ASSUME Len(t) # 0 PROVE FALSE
  <2>1. 1 \in 1 .. Len(t)
    BY <1>3, <1>4
  <2> QED BY <1>1, <1>2, <2>1
<1>5. t = <<>>
  BY <1>1, <1>4, EmptySeq
<1> QED BY <1>5 DEF t

\* With one generation registered nobody is left when it goes.
LEMMA WithoutLast == ASSUME regs = <<cur>>, Typed PROVE Without(cur) = <<>>
<1> DEFINE P == {i \in DOMAIN regs : regs[i] # cur}
<1>1. Without(cur) = Picked(regs, P)
  BY DEF Without
<1>2. DOMAIN regs = {1} /\ regs[1] = cur
  OBVIOUS
<1>3. P = {}
  BY <1>2
<1> HIDE DEF P
<1>4. regs \in Seq(Gens)
  BY FromTyped
<1>5. Picked(regs, {}) = <<>>
  BY <1>4, PickingNone
<1> QED BY <1>1, <1>3, <1>5

LEMMA UnloadIs ==
    ASSUME Typed, RegsOK, Unload
    PROVE  /\ up = "loaded" /\ up' = "off" /\ regs' = <<>> /\ item' = Absent /\ adapter' = 0
           /\ cur' = cur /\ fence' = fence
BY WithoutLast DEF Unload, RegsOK

LEMMA UnloadLife == ASSUME Typed, Life, Unload PROVE Life'
<1>1. /\ up = "loaded" /\ up' = "off" /\ regs' = <<>> /\ item' = Absent /\ adapter' = 0
      /\ cur' = cur /\ fence' = fence /\ pass' = pass /\ queue' = queue /\ cur \in Nat
  BY UnloadIs, FromTyped DEF Life, Unload
<1>2. RegsOK' /\ PassOK'
  BY <1>1 DEF Life, RegsOK, PassOK
<1>3. UnbornOK'
  BY <1>1, FromTyped DEF Life, UnbornOK, Unborn, Unload
<1>4. QueueOK' /\ HeadOK'
  BY <1>1 DEF Life, QueueOK, HeadOK, Unborn, Begun, Waits, Replacing, HeadIs
<1> QED BY <1>2, <1>3, <1>4 DEF Life

LEMMA ClaimFenceLife == ASSUME Typed, Life, ClaimFence PROVE Life'
<1>1. /\ up = "off" /\ up' = "claimed" /\ cur' = cur + 1 /\ fence' = cur + 1 /\ cur \in Nat
      /\ regs' = regs /\ adapter' = adapter /\ pass' = pass /\ queue' = queue
  BY FromTyped DEF ClaimFence
<1>2. RegsOK' /\ PassOK'
  BY <1>1, FromTyped DEF Life, RegsOK, PassOK
<1>3. UnbornOK'
  BY <1>1, BoundsAssumption DEF Life, UnbornOK, Unborn, ClaimFence, Gens
<1>4. QueueOK'
  <2>1. queue \in Seq(Entry) /\ \A i \in 1 .. Len(queue) : queue[i] \in Entry
    BY FromTyped DEF QueueTyped
  <2>2. \A i \in 1 .. Len(queue) : queue[i].gen \in Nat
    BY <2>1, BoundsAssumption DEF Entry, Gens
  <2>3. \A h \in Nat : ~Unborn(h) => ~(h > cur + 1 \/ (h = cur + 1 /\ up' = "claimed"))
    BY <1>1 DEF Unborn
  <2> QED BY <1>1, <2>2, <2>3 DEF Life, QueueOK, Unborn
<1>5. HeadOK'
  <2>1. queue # <<>> => Head(queue) \in Entry
    BY FromTyped, HeadIsEntry
  <2>2. queue # <<>> => Head(queue).by \in Nat
    BY <2>1, BoundsAssumption DEF Entry
  <2> QED BY <1>1, <2>2 DEF Life, HeadOK, Begun, Waits, Replacing, HeadIs
<1> QED BY <1>2, <1>3, <1>4, <1>5 DEF Life

LEMMA StartIs ==
    ASSUME Typed, Life, Start
    PROVE  /\ cur \in Gens /\ queue = <<>> /\ queue' = <<>> /\ up = "claimed" /\ up' = "loaded" /\ fence = cur
           /\ regs = <<>> /\ regs' = <<cur>> /\ adapter' = cur /\ item' = disk
           /\ cur' = cur /\ fence' = fence /\ disk' = disk /\ pass.gen = 0 /\ pass = NoPass
           /\ \E a \in Copy, skip \in BOOLEAN : StartsAs(a, skip)
<1>1. cur \in Gens /\ up = "claimed" /\ pass.gen = 0 /\ Quiet /\ up' = "loaded" /\ Activate(cur, disk)
      /\ cur' = cur /\ fence' = fence /\ queue' = queue /\ disk' = disk
  BY DEF Start, Typed
<1>2. fence = cur /\ regs = <<>> /\ pass = NoPass
  BY <1>1 DEF Life, RegsOK, PassOK
<1>3. queue = <<>>
  BY <1>1, HeadQuiet DEF Life, HeadOK
<1>4. ~Registered(cur)
  BY <1>2 DEF Registered
<1>5. regs' = Append(<<>>, cur) /\ adapter' = cur /\ item' = disk
  BY <1>1, <1>2, <1>4 DEF Activate
<1>6. regs' = <<cur>>
  BY <1>5
<1> QED BY <1>1, <1>2, <1>3, <1>5, <1>6, StartStarts

LEMMA StartLife == ASSUME Typed, Life, Start PROVE Life'
<1>1. /\ cur \in Gens /\ queue = <<>> /\ queue' = <<>> /\ up = "claimed" /\ up' = "loaded" /\ fence = cur
      /\ regs = <<>> /\ regs' = <<cur>> /\ adapter' = cur /\ item' = disk
      /\ cur' = cur /\ fence' = fence /\ pass.gen = 0 /\ cur \in Nat /\ cur # 0
  BY StartIs, FromTyped, BoundsAssumption DEF Gens
<1>2. PICK a \in Copy, skip \in BOOLEAN : StartsAs(a, skip)
  BY StartIs
<1>3. RegsOK' /\ QueueOK' /\ HeadOK'
  BY <1>1 DEF RegsOK, QueueOK, HeadOK, Begun, Waits, Replacing, HeadIs
<1>4. PassOK'
  <2>1. pass' = pass \/ pass' = [gen |-> cur, snap |-> a, again |-> FALSE]
    BY <1>1, <1>2 DEF StartsAs, Requested
  <2> QED BY <1>1, <2>1 DEF Life, PassOK
<1>5. UnbornOK'
  <2>1. /\ local' = [local EXCEPT ![cur] = a] /\ settings' = [settings EXCEPT ![cur] = a]
        /\ wake' = [wake EXCEPT ![cur] = a # Absent /\ a.on] /\ fire' = fire
    BY <1>2 DEF StartsAs, Start
  <2>2. \A g \in Gens \ {cur} : local'[g] = local[g] /\ settings'[g] = settings[g] /\ wake'[g] = wake[g]
    BY <2>1, FromTyped
  <2>3. \A g \in Gens : g > cur => g # cur /\ Unborn(g)
    BY <1>1 DEF Unborn, Gens
  <2> QED BY <1>1, <2>1, <2>2, <2>3 DEF Life, UnbornOK, Unborn
<1> QED BY <1>3, <1>4, <1>5 DEF Life

LEMMA CrashLife == ASSUME Typed, Life, Crash PROVE Life'
BY DEF Crash, Life, RegsOK, PassOK, UnbornOK, QueueOK, HeadOK, Begun, Waits, Replacing, HeadIs, NoItems, NotArmed,
       NoFire, NoPass

LEMMA TickLife == ASSUME Typed, Life, Tick PROVE Life'
BY DEF Tick, Life, RegsOK, PassOK, UnbornOK, Unborn, QueueOK, HeadOK, Begun, Waits, Replacing, HeadIs

LEMMA ContinuesLife == ASSUME Typed, Life, NEW g \in Gens, Continues(g) PROVE Life'
<1>1. ~Unborn(g)
  BY QueuedHead DEF Continues
<1> QED BY <1>1, TouchingLife DEF Continues

LEMMA HappensLife == ASSUME Typed, Life, NEW g \in Gens, Happens(g), queue' = queue \/ Pushes(g) PROVE Life'
BY TouchingLife DEF Happens

LEMMA DetachedLife == ASSUME Typed, Life, NEW g \in Gens, Detached(g) PROVE Life'
<1> DEFINE gens == {g, Head(queue).by} \ {0}
<1>1. Steady /\ Pops(g) /\ ~Unborn(g) /\ Touches(gens) /\ \A h \in gens : h \in Gens /\ ~Unborn(h)
  BY DetachedIs
<1> HIDE DEF gens
<1> QED BY <1>1, TouchingLife

-----------------------------------------------------------------------------
(* The steps, in groups.                                                     *)

\* An event that leaves the queue alone.
Stays(g) ==
    /\ Happens(g) /\ queue' = queue
    /\ "missed" \notin mishaps' =>
          /\ settings' = settings
          /\ pass' = pass \/ (fence = g /\ up # "claimed" /\ pass' = Requested(pass, g, settings[g]))

StepOf(g) == Continues(g) \/ Detached(g) \/ Enqueues(g) \/ Stays(g)

StepAlone ==
    \/ BeginOp \/ BeginReplaceAll \/ WriteDone \/ WriteFails \/ Unload \/ ClaimFence \/ Start \/ Crash \/ Tick

LEMMA StepKinds ==
    ASSUME Typed, Life, [Next]_vars, "late" \notin mishaps'
    PROVE  UNCHANGED vars \/ StepAlone \/ \E g \in Gens : StepOf(g)
<1>1. CASE Microtask
  <2>1. CASE BeginOp \/ BeginReplaceAll
    BY <2>1 DEF StepAlone
  <2>2. ASSUME NEW g \in Gens, Claimed(g) \/ ClaimRefused(g) \/ FireFails(g) \/ Skipped(g)
                                \/ Dispatch(g) \/ AuthorizeRefused(g)
        PROVE  StepOf(g)
    BY <2>2, ClaimedContinues, ClaimRefusedContinues, FireFailsContinues, SkippedContinues, DispatchContinues,
       AuthorizeRefusedContinues DEF StepOf
  <2>3. ASSUME NEW g \in Gens, Abandoned(g) \/ AbandonFails(g) \/ Finalized(g) \/ FinalizeFails(g)
        PROVE  StepOf(g)
    BY <2>3, AbandonedContinues, AbandonFailsContinues, FinalizedContinues, FinalizeFailsContinues DEF StepOf
  <2>4. ASSUME NEW g \in Gens, Edited(g) \/ Deleted(g) \/ Created(g) \/ Detached(g)
        PROVE  StepOf(g)
    BY <2>4, EditedContinues, DeletedContinues, CreatedContinues DEF StepOf
  <2> QED BY <1>1, <2>1, <2>2, <2>3, <2>4 DEF Microtask
<1>2. CASE Event
  <2>1. CASE WriteDone \/ WriteFails \/ Unload \/ ClaimFence \/ Start \/ Crash \/ Tick
    BY <2>1 DEF StepAlone
  <2>2. ASSUME NEW g \in Gens, OtherSave(g) PROVE Stays(g)
    BY <2>2, OtherSaveHappens DEF Stays, OtherSave
  <2>3. ASSUME NEW g \in Gens, WakeWhileFiring(g) \/ Missed(g) PROVE Stays(g)
    BY <2>3, WakeWhileFiringHappens, MissedHappens DEF Stays
  <2>4. ASSUME NEW g \in Gens, Wake(g) \/ WakeSkips(g) \/ GateEnds(g) \/ SendEnds(g)
        PROVE  Enqueues(g)
    BY <2>4, WakeEnqueues, WakeSkipsEnqueues, GateEndsEnqueues, SendEndsEnqueues
  <2>5. ASSUME NEW g \in Gens, Edit(g) \/ Delete(g) \/ Create(g) \/ Detach(g)
        PROVE  Enqueues(g)
    BY <2>5, EditEnqueues, DeleteEnqueues, CreateEnqueues, DetachEnqueues
  <2> QED BY <1>2, <2>1, <2>2, <2>3, <2>4, <2>5 DEF Event, StepOf
<1> QED BY <1>1, <1>2 DEF Next

LEMMA LifeStep == ASSUME Typed, Life, [Next]_vars, "late" \notin mishaps' PROVE Life'
<1>1. CASE UNCHANGED vars
  BY <1>1 DEF vars, Life, RegsOK, PassOK, UnbornOK, Unborn, QueueOK, HeadOK, Begun, Waits, Replacing, HeadIs
<1>2. CASE StepAlone
  BY <1>2, BeginOpLife, BeginReplaceAllLife, WriteDoneLife, WriteFailsLife, UnloadLife, ClaimFenceLife, StartLife,
     CrashLife, TickLife DEF StepAlone
<1>3. ASSUME NEW g \in Gens, StepOf(g) PROVE Life'
  BY <1>3, ContinuesLife, DetachedLife, HappensLife DEF StepOf, Enqueues, Stays
<1> QED BY <1>1, <1>2, <1>3, StepKinds

LEMMA InitLife == ASSUME Init PROVE Life
BY DEF Init, Life, RegsOK, PassOK, UnbornOK, QueueOK, HeadOK, Begun, Waits, Replacing, HeadIs, NoItems, NotArmed,
       NoFire, NoPass, Gens

LEMMA ArmingKeepsMishaps ==
    ASSUME NEW g, NEW held, NEW it, NEW also, ArmTimer(g, held, it, also)
    PROVE  mishaps \subseteq mishaps'
BY DEF ArmTimer

\* What went wrong stays on record.
LEMMA MishapsGrow == ASSUME Typed, [Next]_vars PROVE mishaps \subseteq mishaps'
<1>1. CASE UNCHANGED vars
  BY <1>1 DEF vars
<1>2. CASE Microtask
  <2>1. CASE BeginOp \/ BeginReplaceAll
    BY <2>1 DEF BeginOp, BeginReplaceAll
  <2>2. ASSUME NEW g \in Gens, Claimed(g) \/ ClaimRefused(g) \/ FireFails(g) \/ Skipped(g)
                                \/ Dispatch(g) \/ AuthorizeRefused(g)
        PROVE  mishaps \subseteq mishaps'
    BY <2>2, ClaimedContinues, ClaimRefusedContinues, FireFailsContinues, SkippedContinues, DispatchContinues,
       AuthorizeRefusedContinues DEF Continues
  <2>3. ASSUME NEW g \in Gens, Abandoned(g) \/ AbandonFails(g) \/ Finalized(g) \/ FinalizeFails(g)
        PROVE  mishaps \subseteq mishaps'
    BY <2>3, AbandonedContinues, AbandonFailsContinues, FinalizedContinues, FinalizeFailsContinues DEF Continues
  <2>4. ASSUME NEW g \in Gens, Edited(g) \/ Deleted(g) \/ Created(g)
        PROVE  mishaps \subseteq mishaps'
    BY <2>4, EditedContinues, DeletedContinues, CreatedContinues DEF Continues
  <2>5. ASSUME NEW g \in Gens, Detached(g) PROVE mishaps \subseteq mishaps'
    <3>1. CASE Failed
      BY <2>5, <3>1 DEF Detached
    <3>2. CASE ~Failed
      <4>1. PICK also : ArmTimer(g, Head(queue).arg, Head(queue).arg, also)
        BY <2>5, <3>2 DEF Detached
      <4> QED BY <4>1, ArmingKeepsMishaps
    <3> QED BY <3>1, <3>2
  <2> QED BY <1>2, <2>1, <2>2, <2>3, <2>4, <2>5 DEF Microtask
<1>3. CASE Event
  <2>1. CASE WriteDone \/ WriteFails \/ Unload \/ ClaimFence \/ Crash \/ Tick
    BY <2>1 DEF WriteDone, WriteFails, Unload, ClaimFence, Crash, Tick
  <2>2. CASE Start
    BY <2>2 DEF Start
  <2>3. ASSUME NEW g \in Gens, OtherSave(g) \/ Wake(g) \/ WakeSkips(g) \/ WakeWhileFiring(g) \/ GateEnds(g)
                                \/ SendEnds(g) \/ Delete(g) \/ Create(g) \/ Detach(g)
        PROVE  mishaps \subseteq mishaps'
    BY <2>3 DEF OtherSave, Wake, WakeSkips, WakeWhileFiring, GateEnds, SendEnds, Delete, Create, Detach
  <2>4. ASSUME NEW g \in Gens, Missed(g) PROVE mishaps \subseteq mishaps'
    BY <2>4, ArmingKeepsMishaps DEF Missed, Rearm
  <2>5. ASSUME NEW g \in Gens, Edit(g) PROVE mishaps \subseteq mishaps'
    BY <2>5 DEF Edit
  <2> QED BY <1>3, <2>1, <2>2, <2>3, <2>4, <2>5 DEF Event
<1> QED BY <1>1, <1>2, <1>3 DEF Next

-----------------------------------------------------------------------------
(* An operation is told that it is saved when its result is on disk.         *)

\* What the operation makes of the item.
Target(q) == IF q.op = "replaceAll" THEN q.arg ELSE q.res
Saves(q) == q.op \in {"update", "delete", "create", "replaceAll"} \/ (q.op = "claim" /\ q.yes)

SavedAs(q, x) ==
    /\ q.by # 0 /\ settings[q.by] = x
    /\ q.stage # "next" /\ pass.gen # 0 => pass.snap = x
    /\ q.stage = "ok" => disk = x
    /\ q.op # "replaceAll" => item \in {Absent, x} /\ (up = "loaded" => item = x)

Saved == Waits \/ (HeadIs(Head(queue).op) /\ Head(queue).stage = "ok" /\ Saves(Head(queue)))
            => SavedAs(Head(queue), Target(Head(queue)))

\* While an operation waits, an event does not change which.
LEMMA EventHead ==
    ASSUME Typed, Life, Quiet, Steady, NEW g \in Gens, ~Unborn(g), queue' = queue \/ Pushes(g)
    PROVE  \/ Waits /\ Waits' /\ queue # <<>> /\ queue' # <<>> /\ Head(queue') = Head(queue)
              /\ Head(queue).stage \in {"this", "next"}
           \/ ~Waits /\ ~Begun' /\ queue = <<>>
<1>1. queue = <<>> \/ (Waits /\ queue # <<>>)
  BY HeadQuiet
<1>2. CASE queue' = queue
  BY <1>1, <1>2 DEF Waits, Begun
<1>3. CASE Pushes(g)
  BY <1>1, <1>3, PushingQueue DEF Life, Waits, Begun
<1> QED BY <1>2, <1>3

LEMMA SavedWhile ==
    ASSUME Typed, Saved, Waits, Waits', Head(queue') = Head(queue), Head(queue).stage \in {"this", "next"},
           settings' = settings, item' = item, up' = up,
           pass.gen # 0, pass'.snap = pass.snap
    PROVE  Saved'
<1>1. SavedAs(Head(queue), Target(Head(queue)))
  BY DEF Saved
<1>2. SavedAs(Head(queue), Target(Head(queue)))'
  BY <1>1 DEF SavedAs, Target
<1> QED BY <1>2 DEF Saved

\* A pass that another save only prolongs.
LEMMA WaitedPass ==
    ASSUME Typed, Life, Waits, NEW x,
           \/ pass' = pass
           \/ fence = cur /\ up # "claimed" /\ pass' = Requested(pass, cur, x)
    PROVE  pass.gen # 0 /\ pass'.gen = pass.gen /\ pass'.snap = pass.snap
<1>1. pass.gen # 0 /\ pass.gen = Head(queue).by /\ (Head(queue).by = cur <=> up # "claimed") /\ pass \in Passes
  BY FromTyped DEF Life, HeadOK, Waits
<1>2. CASE pass' = pass
  BY <1>1, <1>2
<1>3. CASE fence = cur /\ up # "claimed" /\ pass' = Requested(pass, cur, x)
  <2>1. pass.gen = cur
    BY <1>1, <1>3
  <2>2. pass' = [pass EXCEPT !.again = TRUE]
    BY <1>3, <2>1 DEF Requested
  <2> QED BY <1>1, <2>2 DEF Passes
<1> QED BY <1>2, <1>3

LEMMA EnqueuesSaved ==
    ASSUME Typed, Life, Saved, "missed" \notin mishaps', NEW g \in Gens, Enqueues(g) PROVE Saved'
<1>1. settings' = settings /\ pass' = pass /\ disk' = disk /\ item' = item /\ up' = up
  BY DEF Enqueues, Happens, Steady
<1>2. CASE ~Begun'
  BY <1>2 DEF Saved, Waits, HeadIs
<1>3. CASE Waits /\ Waits' /\ Head(queue') = Head(queue) /\ Head(queue).stage \in {"this", "next"}
  <2>1. pass.gen # 0
    BY <1>3 DEF Life, HeadOK
  <2> QED BY <1>1, <1>3, <2>1, SavedWhile
<1> QED BY <1>2, <1>3, EventHead DEF Enqueues, Happens

LEMMA StaysSaved ==
    ASSUME Typed, Life, Saved, "missed" \notin mishaps', NEW g \in Gens, Stays(g) PROVE Saved'
<1>1. settings' = settings /\ disk' = disk /\ item' = item /\ up' = up
  BY DEF Stays, Happens, Steady
<1>2. CASE ~Begun'
  BY <1>2 DEF Saved, Waits, HeadIs
<1>3. CASE Waits /\ Waits' /\ Head(queue') = Head(queue) /\ Head(queue).stage \in {"this", "next"}
  <2>1. fence = g => fence = cur
    BY BoundsAssumption DEF Life, RegsOK, Gens
  <2>2. \/ pass' = pass
        \/ fence = cur /\ up # "claimed" /\ pass' = Requested(pass, cur, settings[g])
    BY <2>1 DEF Stays
  <2>3. pass.gen # 0 /\ pass'.snap = pass.snap
    BY <1>3, <2>2, WaitedPass
  <2> QED BY <1>1, <1>3, <2>3, SavedWhile
<1> QED BY <1>2, <1>3, EventHead DEF Stays, Happens

LEMMA WriteDoneSaved ==
    ASSUME Typed, Life, Saved, "fenced" \notin mishaps', WriteDone PROVE Saved'
<1> DEFINE more == pass.again /\ fence = pass.gen
           st == AfterWrite(more)
           b == [Head(queue) EXCEPT !.stage = st]
<1>1. /\ Quiet /\ pass.gen # 0 /\ disk' = pass.snap
      /\ pass' = IF more THEN [gen |-> pass.gen, snap |-> settings[pass.gen], again |-> FALSE] ELSE NoPass
      /\ queue' = IF ~Waiting(pass.gen) THEN queue ELSE HeadStage(st)
      /\ mishaps' = IF Waiting(pass.gen) /\ Head(queue).stage = "next" /\ ~more
                      THEN mishaps \union {"fenced"} ELSE mishaps
      /\ settings' = settings /\ item' = item /\ up' = up
  BY DEF WriteDone
<1>2. st \in {"this", "ok"} /\ (st = "this" <=> Head(queue).stage = "next" /\ more)
  BY DEF AfterWrite
<1> HIDE DEF st, more
<1>3. CASE queue = <<>> /\ queue' = <<>>
  BY <1>3 DEF Saved, Waits, Begun, HeadIs
<1>4. CASE /\ Waits /\ Waiting(pass.gen)
           /\ b \in Entry /\ queue' = [queue EXCEPT ![1] = b] /\ b.stage = st
           /\ b.op = Head(queue).op /\ b.arg = Head(queue).arg
           /\ b.by = Head(queue).by /\ b.res = Head(queue).res
  <2> HIDE DEF b
  <2>1. queue # <<>> /\ SavedAs(Head(queue), Target(Head(queue))) /\ Head(queue).by = pass.gen
        /\ Head(queue).stage \in {"this", "next"}
    BY <1>4 DEF Saved, Waits, Begun, Waiting
  <2>2. Head(queue') = b
    BY <1>4, <2>1, FromTyped, ChangingHead DEF QueueTyped
  <2>3. Target(b) = Target(Head(queue))
    BY <1>4 DEF Target
  <2>4. Head(queue).stage = "next" => more
    BY <1>1, <1>4
  <2>5. pass'.gen # 0 => pass'.snap = Target(b)
    BY <1>1, <2>1, <2>3 DEF SavedAs, NoPass
  <2>6. st = "ok" => disk' = Target(b)
    BY <1>1, <1>2, <2>1, <2>3, <2>4 DEF SavedAs
  <2>7. SavedAs(Head(queue), Target(Head(queue)))'
    BY <1>1, <1>4, <2>1, <2>2, <2>3, <2>5, <2>6 DEF SavedAs, Target
  <2> QED BY <2>7 DEF Saved
<1>5. st \in Stages
  BY <1>2 DEF Stages
<1> QED BY <1>1, <1>3, <1>4, <1>5, WriteEnds

LEMMA FailingSaved ==
    ASSUME Typed, Life, NEW b, Changes(b), Steady, b.stage = "failed" PROVE Saved'
<1>1. Head(queue') = b
  BY ChangingQueue DEF Life
<1> QED BY <1>1 DEF Saved, Waits, HeadIs

LEMMA WriteFailsSaved == ASSUME Typed, Life, Saved, WriteFails PROVE Saved'
<1> DEFINE b == [Head(queue) EXCEPT !.stage = "failed"]
<1>1. /\ Quiet /\ pass.gen # 0 /\ queue' = IF ~Waiting(pass.gen) THEN queue ELSE HeadStage("failed")
      /\ Steady
  BY DEF WriteFails, Steady
<1>2. CASE queue = <<>> /\ queue' = <<>>
  BY <1>2 DEF Saved, Waits, Begun, HeadIs
<1>3. CASE /\ Waits
           /\ b \in Entry /\ queue' = [queue EXCEPT ![1] = b] /\ b.stage = "failed" /\ b.gen = Head(queue).gen
  <2>1. Changes(b)
    BY <1>3 DEF Changes, Waits, Begun
  <2> QED BY <1>1, <1>3, <2>1, FailingSaved
<1> QED BY <1>1, <1>2, <1>3, WriteEnds DEF Stages

\* Events of the plugin while an operation waits for its save.
LEMMA UnloadSaved == ASSUME Typed, Life, Saved, Unload PROVE Saved'
<1>1. /\ up' = "off" /\ item' = Absent /\ pass' = pass /\ queue' = queue /\ settings' = settings /\ disk' = disk
      /\ Quiet
  BY UnloadIs DEF Life, Unload
<1>2. queue = <<>> \/ Waits
  BY <1>1, HeadQuiet
<1> QED BY <1>1, <1>2 DEF Saved, SavedAs, Target, Waits, Begun, HeadIs

LEMMA ClaimFenceSaved == ASSUME Typed, Life, Saved, ClaimFence PROVE Saved'
BY DEF ClaimFence, Saved, SavedAs, Target, Waits, Begun, HeadIs, Saves

LEMMA TickSaved == ASSUME Typed, Life, Saved, Tick PROVE Saved'
BY DEF Tick, Saved, SavedAs, Target, Waits, Begun, HeadIs, Saves

LEMMA StartSaved == ASSUME Typed, Life, Saved, Start PROVE Saved'
<1>1. queue' = <<>>
  BY StartIs
<1> QED BY <1>1 DEF Saved, Waits, Begun, HeadIs

LEMMA CrashSaved == ASSUME Crash PROVE Saved'
BY DEF Crash, Saved, Waits, Begun, HeadIs

\* An operation begins to save.
LEMMA BeginsSaved ==
    ASSUME Typed, Life, NEW b, Changes(b), Steady, adapter # 0, NEW x \in Copy, b.by = adapter,
           settings' = [settings EXCEPT ![adapter] = x], pass' = Requested(pass, adapter, x),
           b.stage = SaveStage(pass, adapter), Target(b) = x, b.op # "replaceAll" => item' = x
    PROVE  Saved'
<1>1. Head(queue') = b
  BY ChangingQueue DEF Life
<1>2. /\ adapter \in Gens /\ b.stage \in {"this", "next"}
      /\ b.stage = "this" => pass'.snap = x
  BY SavingPass DEF Life
<1>3. settings'[adapter] = x
  BY <1>2, FromTyped
<1>4. SavedAs(Head(queue), Target(Head(queue)))'
  BY <1>1, <1>2, <1>3 DEF SavedAs, Target
<1> QED BY <1>4 DEF Saved

LEMMA BeginOpSaved == ASSUME Typed, Life, BeginOp PROVE Saved'
<1> DEFINE q == Head(queue)
<1>1. queue # <<>> /\ q.stage = "queued" /\ q.op # "replaceAll" /\ q \in Entry /\ \E b : BeginsAs(q, b)
  BY BeginOpBegins
<1>2. PICK b : BeginsAs(q, b)
  BY <1>1
<1>3. Steady
  BY DEF BeginOp, Steady
<1>4. b.stage # "queued" /\ b.op = q.op /\ b \in Entry /\ b.gen = q.gen
  BY <1>2, SaveStageTyped DEF BeginsAs
<1>5. Changes(b)
  BY <1>1, <1>2, <1>4 DEF Changes, BeginsAs
<1>6. CASE b.stage = "failed"
  BY <1>3, <1>5, <1>6, FailingSaved
<1>7. CASE /\ Returns(q, [to |-> item', save |-> Saving(q), yes |-> b.yes, res |-> b.res])
           /\ b.by = adapter /\ b.res = item' /\ adapter # 0
           /\ settings' = [settings EXCEPT ![adapter] = item'] /\ pass' = Requested(pass, adapter, item')
           /\ b.stage = SaveStage(pass, adapter)
  <2>1. item' \in Copy /\ Target(b) = item'
    BY <1>1, <1>4, <1>7 DEF Returns, Target
  <2> QED BY <1>3, <1>5, <1>7, <2>1, BeginsSaved
<1>8. CASE /\ Returns(q, [to |-> item', save |-> Saving(q), yes |-> b.yes, res |-> b.res])
           /\ ~Saving(q) /\ b.stage = "ok"
  <2>1. Head(queue') = b
    BY <1>3, <1>5, ChangingQueue DEF Life
  <2>2. q.op \notin {"update", "delete", "create"} /\ (q.op = "claim" => ~b.yes)
    BY <1>8 DEF Returns, Saving, Removing, Granting
  <2>3. ~Saves(b)
    BY <1>1, <1>4, <2>2 DEF Saves
  <2> QED BY <1>8, <2>1, <2>3 DEF Saved, Waits, HeadIs, Saves
<1> QED BY <1>2, <1>6, <1>7, <1>8 DEF BeginsAs

LEMMA BeginReplaceAllSaved == ASSUME Typed, Life, BeginReplaceAll PROVE Saved'
<1> DEFINE q == Head(queue)
<1>1. queue # <<>> /\ q.stage = "queued" /\ q.op = "replaceAll" /\ q \in Entry /\ \E b : ReplacesAs(q, b)
  BY BeginReplaceAllReplaces
<1>2. PICK b : ReplacesAs(q, b)
  BY <1>1
<1>3. Steady /\ q.arg \in Copy
  BY <1>1 DEF BeginReplaceAll, Steady, Entry
<1>4. b.stage # "queued" /\ b.op = q.op /\ b \in Entry /\ b.gen = q.gen /\ b.arg = q.arg
  BY <1>2, SaveStageTyped DEF ReplacesAs
<1>5. Changes(b)
  BY <1>1, <1>2, <1>4 DEF Changes, ReplacesAs
<1>6. CASE b.stage = "failed"
  BY <1>3, <1>5, <1>6, FailingSaved
<1>7. CASE /\ b.by = adapter /\ adapter # 0
           /\ settings' = [settings EXCEPT ![adapter] = q.arg] /\ pass' = Requested(pass, adapter, q.arg)
           /\ b.stage = SaveStage(pass, adapter)
  <2>1. Target(b) = q.arg
    BY <1>1, <1>4 DEF Target
  <2> QED BY <1>1, <1>3, <1>4, <1>5, <1>7, <2>1, BeginsSaved
<1> QED BY <1>2, <1>6, <1>7 DEF ReplacesAs

Unlost == Except({"late", "missed", "fenced"})

LEMMA SavedStep ==
    ASSUME Typed, Life, Saved, [Next]_vars, Unlost' PROVE Saved'
<1>1. "late" \notin mishaps' /\ "missed" \notin mishaps' /\ "fenced" \notin mishaps'
  BY DEF Unlost, Except
<1>2. CASE UNCHANGED vars
  BY <1>2 DEF vars, Saved, SavedAs, Target, Waits, Begun, HeadIs, Saves
<1>3. CASE StepAlone
  BY <1>1, <1>3, BeginOpSaved, BeginReplaceAllSaved, WriteDoneSaved, WriteFailsSaved, UnloadSaved, ClaimFenceSaved,
     StartSaved, CrashSaved, TickSaved DEF StepAlone
<1>4. ASSUME NEW g \in Gens, StepOf(g) PROVE Saved'
  <2>1. CASE Enqueues(g) \/ Stays(g)
    BY <1>1, <2>1, EnqueuesSaved, StaysSaved
  <2>2. CASE Continues(g) \/ Detached(g)
    <3>1. Steady /\ Pops(g) /\ ~Unborn(g)
      BY <2>2, DetachedIs, QueuedHead DEF Continues
    <3>2. ~Begun'
      BY <3>1, PoppingQueue DEF Life
    <3> QED BY <3>2 DEF Saved, Waits, HeadIs
  <2> QED BY <1>4, <2>1, <2>2 DEF StepOf
<1> QED BY <1>1, <1>2, <1>3, <1>4, StepKinds

LEMMA InitSaved == ASSUME Init PROVE Saved
BY DEF Init, Saved, Waits, HeadIs, Begun

SavedInv == Unlost => Saved
LifeInv == "late" \notin mishaps => Life

\* What the operation that waits is told when the write it waits for is done.
LEMMA ToldIs ==
    ASSUME Typed, Life, Saved, [Next]_vars, Told, "late" \notin mishaps', "fenced" \notin mishaps'
    PROVE  disk' = Target(Head(queue))
<1>1. /\ queue # <<>> /\ Head(queue).stage \in {"this", "next"} /\ queue' # <<>> /\ Head(queue').stage = "ok"
      /\ Waits /\ Begun'
      /\ SavedAs(Head(queue), Target(Head(queue)))
      /\ "late" \notin mishaps' /\ "fenced" \notin mishaps'
  BY DEF Told, Waits, Begun, Saved
<1>2. ~(Waits' /\ Head(queue') = Head(queue)) /\ ~Quiet'
  BY <1>1 DEF Quiet
<1>3. CASE WriteDone
  <2> DEFINE more == pass.again /\ fence = pass.gen
             st == AfterWrite(more)
  <2>1. /\ Quiet /\ pass.gen # 0 /\ disk' = pass.snap
        /\ queue' = IF ~Waiting(pass.gen) THEN queue ELSE HeadStage(st)
        /\ mishaps' = IF Waiting(pass.gen) /\ Head(queue).stage = "next" /\ ~more
                        THEN mishaps \union {"fenced"} ELSE mishaps
    BY <1>3 DEF WriteDone
  <2>2. st \in {"this", "ok"} /\ (st = "this" <=> Head(queue).stage = "next" /\ more)
    BY DEF AfterWrite
  <2> HIDE DEF st, more
  <2>3. Waiting(pass.gen) /\ Head(queue') = [Head(queue) EXCEPT !.stage = st]
        /\ [Head(queue) EXCEPT !.stage = st].stage = st
    <3>1. st \in Stages
      BY <2>2 DEF Stages
    <3> DEFINE b == [Head(queue) EXCEPT !.stage = st]
    <3>2. Waiting(pass.gen) /\ b \in Entry /\ b.stage = st /\ queue' = [queue EXCEPT ![1] = b]
      BY <1>1, <2>1, <3>1, WriteEnds
    <3>3. queue # <<>> /\ queue \in Seq(Entry)
      BY <1>1, FromTyped DEF QueueTyped
    <3> HIDE DEF b
    <3>4. Head(queue') = b
      BY <3>2, <3>3, ChangingHead
    <3> QED BY <3>2, <3>4 DEF b
  <2>4. Head(queue).stage # "next"
    BY <1>1, <2>1, <2>2, <2>3
  <2> QED BY <1>1, <2>1, <2>4 DEF SavedAs
<1>4. CASE UNCHANGED vars
  BY <1>1, <1>4 DEF vars
<1>5. CASE StepAlone /\ ~WriteDone
  <2>1. CASE BeginOp \/ BeginReplaceAll
    BY <1>1, <2>1 DEF BeginOp, BeginReplaceAll
  <2>2. CASE WriteFails
    <3> DEFINE b == [Head(queue) EXCEPT !.stage = "failed"]
    <3>1. /\ Quiet /\ pass.gen # 0 /\ queue' = IF ~Waiting(pass.gen) THEN queue ELSE HeadStage("failed")
      BY <2>2 DEF WriteFails
    <3>2. b \in Entry /\ queue' = [queue EXCEPT ![1] = b] /\ b.stage = "failed"
      BY <1>1, <3>1, WriteEnds DEF Stages
    <3>3. Head(queue') = b
      BY <1>1, <3>2, FromTyped, ChangingHead DEF QueueTyped
    <3> QED BY <1>1, <3>2, <3>3
  <2>3. CASE Unload \/ ClaimFence \/ Tick
    BY <1>1, <2>3 DEF Unload, ClaimFence, Tick
  <2>4. CASE Start \/ Crash
    BY <1>1, <2>4, StartIs DEF Crash
  <2> QED BY <1>5, <2>1, <2>2, <2>3, <2>4 DEF StepAlone
<1>6. ASSUME NEW g \in Gens, StepOf(g) PROVE FALSE
  <2>1. CASE Enqueues(g) \/ Stays(g)
    BY <1>1, <1>2, <2>1, EventHead DEF Enqueues, Stays, Happens
  <2>2. CASE Continues(g) \/ Detached(g)
    BY <1>1, <2>2, DetachedIs DEF Continues
  <2> QED BY <1>6, <2>1, <2>2 DEF StepOf
<1> QED BY <1>1, <1>3, <1>4, <1>5, <1>6, StepKinds

LEMMA AppendedIsNotTold ==
    ASSUME Typed, NEW q \in Entry, queue' = Append(queue, q), Told PROVE FALSE
<1>1. queue # <<>> /\ queue \in Seq(Entry)
  BY FromTyped DEF Told, QueueTyped
<1>2. Head(queue') = Head(queue)
  BY <1>1, Appending
<1> QED BY <1>2 DEF Told

\* Nobody is told by a tool call.
LEMMA NotToldLate ==
    ASSUME Typed, [Next]_vars, Told, "late" \in mishaps' PROVE "late" \in mishaps
<1>1. CASE Microtask
  <2>1. ~Settled(Head(queue).stage) /\ Head(queue).stage # "queued"
    BY DEF Told, Settled
  <2>2. ASSUME NEW name, NEW g, Answers(name, g) PROVE FALSE
    BY <2>1, <2>2 DEF Answers
  <2>3. ASSUME BeginOp \/ BeginReplaceAll PROVE FALSE
    BY <2>1, <2>3 DEF BeginOp, BeginReplaceAll
  <2>4. ASSUME NEW g \in Gens, Claimed(g) \/ ClaimRefused(g) \/ FireFails(g) \/ Skipped(g)
                                \/ Dispatch(g) \/ AuthorizeRefused(g)
        PROVE  FALSE
    BY <2>2, <2>4 DEF Claimed, ClaimRefused, FireFails, Skipped, Dispatch, AuthorizeRefused
  <2>5. ASSUME NEW g \in Gens, \/ Abandoned(g) \/ AbandonFails(g) \/ Finalized(g) \/ FinalizeFails(g)
                               \/ Edited(g) \/ Deleted(g) \/ Created(g) \/ Detached(g)
        PROVE  FALSE
    BY <2>2, <2>5 DEF Abandoned, AbandonFails, Finalized, FinalizeFails, Edited, Deleted, Created, Detached
  <2> QED BY <1>1, <2>3, <2>4, <2>5 DEF Microtask
<1>2. CASE Event
  <2>1. CASE WriteDone \/ WriteFails \/ Unload \/ ClaimFence \/ Start \/ Crash \/ Tick
    BY <2>1 DEF WriteDone, WriteFails, Unload, ClaimFence, Start, Crash, Tick
  <2>2. ASSUME NEW g \in Gens, \/ OtherSave(g) \/ Wake(g) \/ WakeSkips(g) \/ WakeWhileFiring(g)
                               \/ GateEnds(g) \/ SendEnds(g) \/ Create(g)
        PROVE  "late" \in mishaps
    BY <2>2 DEF OtherSave, Wake, WakeSkips, WakeWhileFiring, GateEnds, SendEnds, Create
  <2>3. ASSUME NEW g \in Gens, Missed(g) PROVE FALSE
    BY <2>3 DEF Missed, Told
  <2>4. ASSUME NEW g \in Gens, Edit(g) \/ Delete(g) \/ Detach(g) PROVE FALSE
    <3>1. \E q \in Entry : queue' = Append(queue, q)
      <4>1. CASE Edit(g)
        <5>1. PICK patch \in {"off", "on", "prompt"}, a \in Item, skip \in BOOLEAN : EditsAs(g, patch, a, skip)
          BY <4>1, EditEdits
        <5>2. Queued([Op("update", g) EXCEPT !.patch = patch], "update", g)
          BY QueuedPatch DEF Ops, Patches
        <5>3. [Op("update", g) EXCEPT !.patch = patch] \in Entry
          BY <5>2 DEF Queued
        <5> QED BY <5>1, <5>3 DEF EditsAs
      <4>2. CASE Delete(g)
        <5>1. Queued([Op("delete", g) EXCEPT !.arg = local[g]], "delete", g)
          BY FromTyped, QueuedArg DEF Ops
        <5>2. [Op("delete", g) EXCEPT !.arg = local[g]] \in Entry
          BY <5>1 DEF Queued
        <5>3. queue' = Append(queue, [Op("delete", g) EXCEPT !.arg = local[g]])
          BY <4>2 DEF Delete
        <5> QED BY <5>2, <5>3
      <4>3. CASE Detach(g)
        <5>1. Queued([Op("replaceAll", g) EXCEPT !.arg = local[g]], "replaceAll", g)
          BY FromTyped, QueuedArg DEF Ops
        <5>2. [Op("replaceAll", g) EXCEPT !.arg = local[g]] \in Entry
          BY <5>1 DEF Queued
        <5>3. queue' = Append(queue, [Op("replaceAll", g) EXCEPT !.arg = local[g]])
          BY <4>3 DEF Detach
        <5> QED BY <5>2, <5>3
      <4> QED BY <2>4, <4>1, <4>2, <4>3
    <3> QED BY <3>1, AppendedIsNotTold
  <2> QED BY <1>2, <2>1, <2>2, <2>3, <2>4 DEF Event
<1>3. CASE UNCHANGED vars
  BY <1>3 DEF vars
<1> QED BY <1>1, <1>2, <1>3 DEF Next

LEMMA SavedMeansWrittenStep ==
    ASSUME Typed, LifeInv, SavedInv, [Next]_vars
    PROVE  Told /\ Except({"late", "missed"}) /\ "fenced" \notin mishaps'
             => disk' = IF Head(queue).op = "replaceAll" THEN Head(queue).arg ELSE Head(queue).res
<1> SUFFICES ASSUME Told, Except({"late", "missed"}), "fenced" \notin mishaps'
             PROVE  disk' = Target(Head(queue))
  BY DEF Target
<1>1. "late" \notin mishaps' /\ mishaps \subseteq mishaps'
  BY NotToldLate, MishapsGrow DEF Except
<1>2. Life /\ Saved
  BY <1>1 DEF LifeInv, SavedInv, Unlost, Except
<1> QED BY <1>1, <1>2, ToldIs

\* A step of the system, and what went wrong before it.
LEMMA GoesOn ==
    ASSUME Typed, LifeInv, [Next]_vars
    PROVE  LifeInv' /\ (Unlost' => Unlost /\ Life) /\ \A what : Except(what)' => Except(what)
<1>1. mishaps \subseteq mishaps'
  BY MishapsGrow
<1> QED BY <1>1, LifeStep DEF LifeInv, Unlost, Except

\* An operation is told that it is saved by a write that holds its result: SavedMeansWritten holds of
\* every step, with any number of generations, edits, reloads and failed writes.
THEOREM SavedIsWritten == Spec => SavedMeansWritten
<1>1. Init => Typed /\ LifeInv /\ SavedInv
  BY InitTyped, InitLife, InitSaved DEF LifeInv, SavedInv
<1>2. Typed /\ LifeInv /\ SavedInv /\ [Next]_vars => (Typed /\ LifeInv /\ SavedInv)'
  <2> SUFFICES ASSUME Typed, LifeInv, SavedInv, [Next]_vars PROVE (Typed /\ LifeInv /\ SavedInv)'
    OBVIOUS
  <2>1. Typed' /\ LifeInv' /\ (Unlost' => Unlost /\ Life)
    BY TypedStep, GoesOn
  <2> QED BY <2>1, SavedStep DEF SavedInv
<1>3. Typed /\ LifeInv /\ SavedInv /\ [Next]_vars
        => [Told /\ Except({"late", "missed"}) /\ "fenced" \notin mishaps'
             => disk' = IF Head(queue).op = "replaceAll" THEN Head(queue).arg ELSE Head(queue).res]_vars
  BY SavedMeansWrittenStep
<1> QED BY <1>1, <1>2, <1>3, PTL DEF Spec, SavedMeansWritten

-----------------------------------------------------------------------------
(* The fire() in progress and the operations it waits for.                   *)

\* An operation of a fire(), and the fire() that waits for it.
OfFire(q) == q.op \in FireOps \/ (q.op = "update" /\ q.patch = "skip")
Fits(q, f) == /\ f.at = (IF q.op = "update" THEN "skip" ELSE q.op)
              /\ q.op = "claim" => f.due = q.due
              /\ q.op \in {"authorize", "abandon", "finalize"} => f.tok = q.tok

FireBecomes(g, at, due, tok) ==
    /\ \A h \in Gens \ {g} : fire'[h] = fire[h]
    /\ fire'[g].at = at /\ fire'[g].due = due /\ fire'[g].tok = tok

\* The continuations of an operation of a fire().
Ends(g) == /\ Continues(g) /\ OfFire(Head(queue)) /\ queue' = Tail(queue) /\ FireBecomes(g, "idle", 0, 0)
           /\ ran' = ran /\ off' = off
           /\ ClaimRefused(g) \/ FireFails(g) \/ Skipped(g) \/ Abandoned(g) \/ Finalized(g) \/ FinalizeFails(g)

Hands(g) ==
    /\ Continues(g)
    /\ \E n \in {"abandon", "finalize"}, q \in Entry :
          /\ Head(queue).op = IF n = "abandon" THEN "authorize" ELSE "abandon"
          /\ Queued(q, n, g) /\ q.tok = fire[g].tok /\ q.patch = "none" /\ queue' = Append(Tail(queue), q)
          /\ FireBecomes(g, n, fire[g].due, fire[g].tok)
    /\ ran' = ran /\ off' = off

Claims(g) ==
    /\ Continues(g) /\ Head(queue).op = "claim" /\ Head(queue).yes /\ Head(queue).stage = "ok"
    /\ queue' = Tail(queue) /\ FireBecomes(g, "gate", fire[g].due, Head(queue).res.tok)
    /\ ran' = ran /\ off' = off /\ settings' = settings /\ pass' = pass /\ mishaps' = mishaps

Sends(g) ==
    /\ Continues(g) /\ Head(queue).op = "authorize" /\ Head(queue).yes
    /\ queue' = Tail(queue) /\ FireBecomes(g, "sending", fire[g].due, fire[g].tok)
    /\ ran' = [ran EXCEPT ![fire[g].due] = IF @ = 0 THEN 1 ELSE 2] /\ off' = off
    /\ settings' = settings /\ pass' = pass /\ mishaps' = mishaps

\* The continuation of a tool call.
Informs(g) == /\ Continues(g) /\ ~OfFire(Head(queue)) /\ queue' = Tail(queue) /\ fire' = fire /\ ran' = ran
              /\ Edited(g) \/ Deleted(g) \/ Created(g)

\* A fire() begins, goes on, or a tool is called.
Wakes(g) ==
    /\ Enqueues(g) /\ fire[g].at = "idle" /\ local[g] # Absent /\ wake[g]
    /\ \E n \in {"claim", "skip"}, due \in Slots, q \in Entry :
          /\ OfFire(q) /\ q.op = IF n = "claim" THEN "claim" ELSE "update"
          /\ n = "skip" => (kind = "once" /\ InHand => "edited" \in mishaps')
          /\ n = "claim" => due = q.due /\ q.patch = "none"
          /\ Queued(q, q.op, g) /\ queue' = Append(queue, q)
          /\ due <= now /\ FireBecomes(g, n, due, 0)
    /\ ran' = ran /\ off' = off

Proceeds(g) ==
    /\ Enqueues(g)
    /\ \E n \in {"authorize", "finalize"}, q \in Entry :
          /\ fire[g].at = "gate" \/ (fire[g].at = "sending" /\ n = "finalize")
          /\ Queued(q, n, g) /\ q.tok = fire[g].tok /\ q.patch = "none" /\ queue' = Append(queue, q)
          /\ FireBecomes(g, n, fire[g].due, fire[g].tok)
    /\ ran' = ran /\ off' = off

\* What a tool call asks for.
Asked(q) ==
    \/ /\ q.op = "update" /\ q.patch \in {"off", "on", "prompt"} /\ off' = IF q.patch = "on" THEN "on" ELSE off
       /\ InHand => "edited" \in mishaps'
    \/ q.op \in {"delete", "replaceAll"} /\ q.patch = "none" /\ off' = off
    \/ q.op = "create" /\ q.patch = "none" /\ q.arg = NewItem /\ off = "new" /\ off' = "on"

Asks(g) ==
    /\ Enqueues(g) /\ Live(g) /\ fire' = fire /\ ran' = ran
    /\ \E q \in Entry : ~OfFire(q) /\ Asked(q) /\ Queued(q, q.op, g) /\ queue' = Append(queue, q)
    /\ Edit(g) \/ Delete(g) \/ Create(g) \/ Detach(g)

Rests(g) == /\ Stays(g) /\ fire' = fire /\ ran' = ran /\ off' = off
            /\ OtherSave(g) \/ WakeWhileFiring(g) \/ Missed(g)

LEMMA EndingFire ==
    ASSUME Typed, NEW g \in Gens
    PROVE  /\ EndsFire(g) => FireBecomes(g, "idle", 0, 0)
           /\ \A at \in FirePoints : fire' = [fire EXCEPT ![g].at = at]
                 => FireBecomes(g, at, fire[g].due, fire[g].tok)
<1>1. fire \in [Gens -> Fires] /\ fire[g] \in Fires
  BY FromTyped
<1>2. EndsFire(g) => FireBecomes(g, "idle", 0, 0)
  BY <1>1, IdleFields DEF EndsFire, FireBecomes
<1>3. ASSUME NEW at \in FirePoints, fire' = [fire EXCEPT ![g].at = at]
      PROVE  FireBecomes(g, at, fire[g].due, fire[g].tok)
  <2>1. fire' = [fire EXCEPT ![g] = [fire[g] EXCEPT !.at = at]]
    BY <1>3, NewFire
  <2>2. fire'[g] = [fire[g] EXCEPT !.at = at] /\ \A h \in Gens \ {g} : fire'[h] = fire[h]
    BY <1>1, <2>1
  <2>3. [fire[g] EXCEPT !.at = at].at = at /\ [fire[g] EXCEPT !.at = at].due = fire[g].due
        /\ [fire[g] EXCEPT !.at = at].tok = fire[g].tok
    BY <1>1 DEF Fires
  <2> QED BY <2>2, <2>3 DEF FireBecomes
<1> QED BY <1>2, <1>3

LEMMA EndsKinds ==
    ASSUME Typed, NEW g \in Gens,
           ClaimRefused(g) \/ FireFails(g) \/ Skipped(g) \/ Abandoned(g) \/ Finalized(g) \/ FinalizeFails(g)
    PROVE  Ends(g)
<1>1. Continues(g)
  BY ClaimRefusedContinues, FireFailsContinues, SkippedContinues, AbandonedContinues, FinalizedContinues,
     FinalizeFailsContinues
<1>2. OfFire(Head(queue)) /\ queue' = Tail(queue) /\ EndsFire(g) /\ ran' = ran /\ off' = off
  BY DEF ClaimRefused, FireFails, Skipped, Abandoned, Finalized, FinalizeFails, Answers, OfFire, FireOps, Pop
<1> QED BY <1>1, <1>2, EndingFire DEF Ends

LEMMA HandsKinds ==
    ASSUME Typed, NEW g \in Gens, AuthorizeRefused(g) \/ AbandonFails(g)
    PROVE  Hands(g)
<1>1. Continues(g)
  BY AuthorizeRefusedContinues, AbandonFailsContinues
<1>2. ran' = ran /\ off' = off
  BY DEF AuthorizeRefused, AbandonFails
<1>3. CASE AuthorizeRefused(g)
  <2>1. Head(queue).op = "authorize" /\ queue' = Append(Tail(queue), [Op("abandon", g) EXCEPT !.tok = fire[g].tok])
        /\ fire' = [fire EXCEPT ![g].at = "abandon"]
    BY <1>3 DEF AuthorizeRefused, Answers, PopPush
  <2>2. /\ Queued([Op("abandon", g) EXCEPT !.tok = fire[g].tok], "abandon", g)
        /\ [Op("abandon", g) EXCEPT !.tok = fire[g].tok].tok = fire[g].tok
        /\ [Op("abandon", g) EXCEPT !.tok = fire[g].tok].patch = "none"
    BY QueuedTok, FireFields DEF Ops, FireOps
  <2>3. FireBecomes(g, "abandon", fire[g].due, fire[g].tok)
    BY <2>1, EndingFire DEF FirePoints
  <2> QED BY <1>1, <1>2, <2>1, <2>2, <2>3 DEF Hands, Queued
<1>4. CASE AbandonFails(g)
  <2>1. Head(queue).op = "abandon" /\ queue' = Append(Tail(queue), [Op("finalize", g) EXCEPT !.tok = fire[g].tok])
        /\ fire' = [fire EXCEPT ![g].at = "finalize"]
    BY <1>4 DEF AbandonFails, Answers, PopPush
  <2>2. /\ Queued([Op("finalize", g) EXCEPT !.tok = fire[g].tok], "finalize", g)
        /\ [Op("finalize", g) EXCEPT !.tok = fire[g].tok].tok = fire[g].tok
        /\ [Op("finalize", g) EXCEPT !.tok = fire[g].tok].patch = "none"
    BY QueuedTok, FireFields DEF Ops, FireOps
  <2>3. FireBecomes(g, "finalize", fire[g].due, fire[g].tok)
    BY <2>1, EndingFire DEF FirePoints
  <2> QED BY <1>1, <1>2, <2>1, <2>2, <2>3 DEF Hands, Queued
<1> QED BY <1>3, <1>4

LEMMA ClaimsKinds == ASSUME Typed, NEW g \in Gens, Claimed(g) PROVE Claims(g)
<1>1. Continues(g) /\ Head(queue).op = "claim" /\ Head(queue).yes /\ Head(queue).stage = "ok"
  <2>1. Answers("claim", g) /\ ~Failed /\ Head(queue).yes
    BY DEF Claimed
  <2> QED BY <2>1, ClaimedContinues, AnsweringHead DEF Failed
<1>2. fire' = [fire EXCEPT ![g] = [Idle EXCEPT !.at = "gate", !.due = fire[g].due, !.tok = Head(queue).res.tok]]
  BY DEF Claimed
<1>3. FireBecomes(g, "gate", fire[g].due, Head(queue).res.tok)
  BY <1>2, FromTyped, IdleFields DEF FireBecomes, Idle
<1> QED BY <1>1, <1>3 DEF Claims, Claimed, Pop

LEMMA SendsKinds == ASSUME Typed, NEW g \in Gens, Dispatch(g) PROVE Sends(g)
<1>1. Continues(g) /\ Head(queue).op = "authorize" /\ Head(queue).yes
  BY DispatchContinues DEF Dispatch, Answers
<1>2. FireBecomes(g, "sending", fire[g].due, fire[g].tok)
  BY EndingFire DEF Dispatch, FirePoints
<1> QED BY <1>1, <1>2 DEF Sends, Dispatch, Pop

LEMMA InformsKinds ==
    ASSUME Typed, NEW g \in Gens, Edited(g) \/ Deleted(g) \/ Created(g)
    PROVE  Informs(g)
<1>1. Continues(g)
  BY EditedContinues, DeletedContinues, CreatedContinues
<1> QED BY <1>1 DEF Informs, Edited, Deleted, Created, Answers, OfFire, FireOps, Pop

LEMMA WakesKinds == ASSUME Typed, Life, NEW g \in Gens, Wake(g) \/ WakeSkips(g) PROVE Wakes(g)
<1>1. Enqueues(g)
  BY WakeEnqueues, WakeSkipsEnqueues
<1>2. /\ fire[g].at = "idle" /\ local[g] # Absent /\ wake[g] /\ local[g] \in Copy /\ local[g].next <= now
      /\ ran' = ran /\ off' = off
  BY FromTyped DEF Wake, WakeSkips, Due
<1>3. CASE Wake(g)
  <2> DEFINE q == [Op("claim", g) EXCEPT !.due = local[g].next]
  <2>1. queue' = Append(queue, q)
        /\ fire' = [fire EXCEPT ![g] = [Idle EXCEPT !.at = "claim", !.due = local[g].next, !.held = local[g]]]
    BY <1>3 DEF Wake
  <2>2. Queued(q, "claim", g) /\ q.due = local[g].next /\ local[g].next \in Slots /\ q.patch = "none"
    BY <1>2, CopyFields, QueuedDue DEF Ops, FireOps
  <2> HIDE DEF q
  <2>3. FireBecomes(g, "claim", local[g].next, 0)
    BY <2>1, FromTyped DEF FireBecomes, Idle
  <2>4. q.op = "claim" /\ OfFire(q)
    BY <2>2 DEF Queued, OfFire, FireOps
  <2> QED BY <1>1, <1>2, <2>1, <2>2, <2>3, <2>4 DEF Wakes, Queued
<1>4. CASE WakeSkips(g)
  <2> DEFINE q == [Op("update", g) EXCEPT !.patch = "skip"]
  <2>1. queue' = Append(queue, q) /\ (kind = "once" /\ InHand => "edited" \in mishaps')
        /\ fire' = [fire EXCEPT ![g] = [Idle EXCEPT !.at = "skip", !.held = local[g]]]
    BY <1>4 DEF WakeSkips
  <2>2. Queued(q, "update", g) /\ q.patch = "skip"
    BY QueuedPatch DEF Ops, Patches
  <2> HIDE DEF q
  <2>3. FireBecomes(g, "skip", 0, 0) /\ 0 \in Slots /\ 0 <= now
    BY <2>1, FromTyped, BoundsAssumption DEF FireBecomes, Idle, Slots, Typed
  <2>4. q.op = "update" /\ OfFire(q)
    BY <2>2 DEF Queued, OfFire, FireOps
  <2> QED BY <1>1, <1>2, <2>1, <2>2, <2>3, <2>4 DEF Wakes, Queued
<1> QED BY <1>3, <1>4

LEMMA ProceedsKinds == ASSUME Typed, Life, NEW g \in Gens, GateEnds(g) \/ SendEnds(g) PROVE Proceeds(g)
<1>1. Enqueues(g) /\ ran' = ran /\ off' = off
  BY GateEndsEnqueues, SendEndsEnqueues DEF GateEnds, SendEnds
<1>2. PICK n \in {"authorize", "finalize"} :
          /\ fire[g].at = "gate" \/ (fire[g].at = "sending" /\ n = "finalize")
          /\ fire' = [fire EXCEPT ![g].at = n]
          /\ queue' = Append(queue, [Op(n, g) EXCEPT !.tok = fire[g].tok])
  BY DEF GateEnds, SendEnds
<1>3. n \in Ops /\ n \in FirePoints /\ fire[g].tok \in Nat
  BY FireFields DEF Ops, FireOps, FirePoints
<1>4. /\ Queued([Op(n, g) EXCEPT !.tok = fire[g].tok], n, g)
      /\ [Op(n, g) EXCEPT !.tok = fire[g].tok].tok = fire[g].tok
      /\ [Op(n, g) EXCEPT !.tok = fire[g].tok].patch = "none"
  BY <1>3, QueuedTok
<1>5. FireBecomes(g, n, fire[g].due, fire[g].tok)
  BY <1>2, <1>3, EndingFire
<1> QED BY <1>1, <1>2, <1>4, <1>5 DEF Proceeds, Queued

LEMMA AsksKinds ==
    ASSUME Typed, Life, NEW g \in Gens, Edit(g) \/ Delete(g) \/ Create(g) \/ Detach(g), "late" \notin mishaps'
    PROVE  Asks(g)
<1>1. Enqueues(g) /\ Live(g)
  BY EditEnqueues, DeleteEnqueues, CreateEnqueues, DetachEnqueues
<1>2. fire' = fire /\ ran' = ran
  BY EditIs DEF Delete, Create, Detach
<1>3. \E q \in Entry : ~OfFire(q) /\ Asked(q) /\ Queued(q, q.op, g) /\ queue' = Append(queue, q)
  <2>1. CASE Edit(g)
    <3>1. PICK patch \in {"off", "on", "prompt"}, a \in Item, skip \in BOOLEAN : EditsAs(g, patch, a, skip)
      BY <2>1, EditEdits
    <3> DEFINE q == [Op("update", g) EXCEPT !.patch = patch]
    <3>2. Queued(q, "update", g) /\ q.patch = patch
      <4>1. patch \in Patches /\ "update" \in Ops
        BY DEF Ops, Patches
      <4> QED BY <4>1, QueuedPatch
    <3>3. queue' = Append(queue, q)
      BY <3>1 DEF EditsAs
    <3> HIDE DEF q
    <3>4. off' = (IF patch = "on" THEN "on" ELSE off) /\ (InHand => "edited" \in mishaps')
      BY <3>1 DEF EditsAs
    <3> QED BY <3>2, <3>3, <3>4 DEF OfFire, Queued, FireOps, Asked
  <2>2. CASE Delete(g)
    <3> DEFINE q == [Op("delete", g) EXCEPT !.arg = local[g]]
    <3>1. Queued(q, "delete", g) /\ q.patch = "none"
      <4>1. local[g] \in Copy /\ "delete" \in Ops
        BY FromTyped DEF Ops
      <4> QED BY <4>1, QueuedArg
    <3>2. queue' = Append(queue, q)
      BY <2>2 DEF Delete
    <3> HIDE DEF q
    <3>3. off' = off
      BY <2>2 DEF Delete
    <3> QED BY <3>1, <3>2, <3>3 DEF OfFire, Queued, FireOps, Asked
  <2>3. CASE Create(g)
    <3> DEFINE q == [Op("create", g) EXCEPT !.arg = NewItem]
    <3>1. Queued(q, "create", g) /\ q.patch = "none" /\ q.arg = NewItem
      BY NewItemTyped, QueuedArg DEF Ops
    <3>2. queue' = Append(queue, q)
      BY <2>3, CreateIs
    <3> HIDE DEF q
    <3>3. off = "new" /\ off' = "on"
      BY <2>3 DEF Create
    <3> QED BY <3>1, <3>2, <3>3 DEF OfFire, Queued, FireOps, Asked
  <2>4. CASE Detach(g)
    <3> DEFINE q == [Op("replaceAll", g) EXCEPT !.arg = local[g]]
    <3>1. Queued(q, "replaceAll", g) /\ q.patch = "none"
      <4>1. local[g] \in Copy /\ "replaceAll" \in Ops
        BY FromTyped DEF Ops
      <4> QED BY <4>1, QueuedArg
    <3>2. queue' = Append(queue, q)
      BY <2>4 DEF Detach
    <3> HIDE DEF q
    <3>3. off' = off
      BY <2>4 DEF Detach
    <3> QED BY <3>1, <3>2, <3>3 DEF OfFire, Queued, FireOps, Asked
  <2> QED BY <2>1, <2>2, <2>3, <2>4
<1> QED BY <1>1, <1>2, <1>3 DEF Asks

LEMMA RestsKinds == ASSUME Typed, Life, NEW g \in Gens, OtherSave(g) \/ WakeWhileFiring(g) \/ Missed(g) PROVE Rests(g)
<1>1. Stays(g)
  BY OtherSaveHappens, WakeWhileFiringHappens, MissedHappens DEF Stays, OtherSave
<1> QED BY <1>1 DEF Rests, OtherSave, WakeWhileFiring, Missed

\* How a step of generation g may concern its settings and the write in progress: it saves what
\* they hold, or the copy that a stale miss has moved on.
Moves(g) ==
    \/ /\ settings' = settings
       /\ pass' = pass \/ (fence = g /\ up # "claimed" /\ pass' = Requested(pass, g, settings[g]))
    \/ /\ "missed" \in mishaps' /\ kind # "once"
       /\ \E m \in Item : /\ m.next = now + 1
                          /\ settings' = [settings EXCEPT ![g] = m] /\ pass' = Requested(pass, g, m)

LEMMA ArmingMoves ==
    ASSUME Typed, NEW g \in Gens, NEW held \in Copy, NEW it \in Copy, NEW also, ArmTimer(g, held, it, also)
    PROVE  Moves(g)
<1> DEFINE m == [it EXCEPT !.next = now + 1]
<1>1. \/ settings' = settings /\ pass' = pass
      \/ /\ "missed" \in mishaps' /\ it # Absent /\ kind # "once"
         /\ settings' = [settings EXCEPT ![g] = m] /\ pass' = Requested(pass, g, m)
  BY ArmingTouches
<1>2. it # Absent => m \in Item /\ m.next = now + 1
  <2>1. now + 1 \in Slots
    BY BoundsAssumption DEF Typed, Slots
  <2> QED BY <2>1 DEF Copy, Item
<1> HIDE DEF m
<1> QED BY <1>1, <1>2 DEF Moves

LEMMA MovesKinds ==
    ASSUME Typed, NEW g \in Gens,
           \/ Claimed(g) \/ ClaimRefused(g) \/ FireFails(g) \/ Skipped(g) \/ Dispatch(g) \/ AuthorizeRefused(g)
           \/ Abandoned(g) \/ AbandonFails(g) \/ Finalized(g) \/ FinalizeFails(g)
           \/ Edited(g) \/ Deleted(g) \/ Created(g)
           \/ OtherSave(g) \/ Wake(g) \/ WakeSkips(g) \/ WakeWhileFiring(g) \/ Missed(g)
           \/ GateEnds(g) \/ SendEnds(g) \/ Edit(g) \/ Delete(g) \/ Create(g) \/ Detach(g)
    PROVE  Moves(g)
<1>1. CASE \/ Claimed(g) \/ Dispatch(g) \/ AuthorizeRefused(g) \/ AbandonFails(g) \/ FinalizeFails(g)
           \/ Edited(g) \/ Deleted(g) \/ Created(g)
  BY <1>1 DEF Moves, Claimed, Dispatch, AuthorizeRefused, AbandonFails, FinalizeFails, Edited, Deleted, Created
<1>2. CASE \/ OtherSave(g) \/ Wake(g) \/ WakeSkips(g) \/ WakeWhileFiring(g)
           \/ GateEnds(g) \/ SendEnds(g) \/ Delete(g) \/ Create(g) \/ Detach(g)
  BY <1>2 DEF Moves, OtherSave, Wake, WakeSkips, WakeWhileFiring, GateEnds, SendEnds, Delete, Create, Detach
<1>3. CASE ClaimRefused(g) \/ Skipped(g) \/ Abandoned(g) \/ Finalized(g)
  <2>1. PICK name : Answers(name, g)
    BY <1>3 DEF ClaimRefused, Skipped, Abandoned, Finalized
  <2>2. Head(queue).res \in Copy
    BY <2>1, AnsweringHead
  <2>3. \/ settings' = settings /\ pass' = pass
        \/ ArmTimer(g, Head(queue).res, Head(queue).res, {})
    BY <1>3 DEF ClaimRefused, Skipped, Abandoned, Finalized, Rearm
  <2> QED BY <2>2, <2>3, ArmingMoves DEF Moves
<1>4. CASE FireFails(g)
  <2>1. ArmTimer(g, local[g], fire[g].held, {}) /\ local[g] \in Copy /\ fire[g].held \in Copy
    BY <1>4, FromTyped, FireFields DEF FireFails
  <2> QED BY <2>1, ArmingMoves
<1>5. CASE Missed(g)
  <2>1. ArmTimer(g, local[g], local[g], {}) /\ local[g] \in Copy
    BY <1>5, FromTyped DEF Missed, Rearm
  <2> QED BY <2>1, ArmingMoves
<1>6. CASE Edit(g)
  <2>1. PICK patch \in {"off", "on", "prompt"}, a \in Item, skip \in BOOLEAN : EditsAs(g, patch, a, skip)
    BY <1>6, EditEdits
  <2>2. \/ settings' = settings /\ pass' = pass
        \/ /\ "missed" \in mishaps' /\ kind # "once" /\ a.next = now + 1
           /\ settings' = [settings EXCEPT ![g] = a] /\ pass' = Requested(pass, g, a)
    BY <2>1 DEF EditsAs
  <2> QED BY <2>2 DEF Moves
<1> QED BY <1>1, <1>2, <1>3, <1>4, <1>5, <1>6

FlowOf(g) == \/ Ends(g) \/ Hands(g) \/ Claims(g) \/ Sends(g) \/ Informs(g) \/ Detached(g)
             \/ Wakes(g) \/ Proceeds(g) \/ Asks(g) \/ Rests(g)

LEMMA FlowKinds ==
    ASSUME Typed, Life, [Next]_vars, "late" \notin mishaps'
    PROVE  UNCHANGED vars \/ StepAlone \/ \E g \in Gens : FlowOf(g) /\ (Detached(g) \/ Moves(g))
<1>1. CASE Microtask
  <2>1. CASE BeginOp \/ BeginReplaceAll
    BY <2>1 DEF StepAlone
  <2>2. ASSUME NEW g \in Gens, Claimed(g) \/ ClaimRefused(g) \/ FireFails(g) \/ Skipped(g)
                                \/ Dispatch(g) \/ AuthorizeRefused(g)
        PROVE  FlowOf(g) /\ (Detached(g) \/ Moves(g))
    BY <2>2, ClaimsKinds, EndsKinds, HandsKinds, SendsKinds, MovesKinds DEF FlowOf
  <2>3. ASSUME NEW g \in Gens, Abandoned(g) \/ AbandonFails(g) \/ Finalized(g) \/ FinalizeFails(g)
        PROVE  FlowOf(g) /\ (Detached(g) \/ Moves(g))
    BY <2>3, EndsKinds, HandsKinds, MovesKinds DEF FlowOf
  <2>4. ASSUME NEW g \in Gens, Edited(g) \/ Deleted(g) \/ Created(g) \/ Detached(g)
        PROVE  FlowOf(g) /\ (Detached(g) \/ Moves(g))
    BY <2>4, InformsKinds, MovesKinds DEF FlowOf
  <2> QED BY <1>1, <2>1, <2>2, <2>3, <2>4 DEF Microtask
<1>2. CASE Event
  <2>1. CASE WriteDone \/ WriteFails \/ Unload \/ ClaimFence \/ Start \/ Crash \/ Tick
    BY <2>1 DEF StepAlone
  <2>2. ASSUME NEW g \in Gens, OtherSave(g) \/ WakeWhileFiring(g) \/ Missed(g) PROVE FlowOf(g) /\ (Detached(g) \/ Moves(g))
    BY <2>2, RestsKinds, MovesKinds DEF FlowOf
  <2>3. ASSUME NEW g \in Gens, Wake(g) \/ WakeSkips(g) \/ GateEnds(g) \/ SendEnds(g) PROVE FlowOf(g) /\ (Detached(g) \/ Moves(g))
    BY <2>3, WakesKinds, ProceedsKinds, MovesKinds DEF FlowOf
  <2>4. ASSUME NEW g \in Gens, Edit(g) \/ Delete(g) \/ Create(g) \/ Detach(g) PROVE FlowOf(g) /\ (Detached(g) \/ Moves(g))
    BY <2>4, AsksKinds, MovesKinds DEF FlowOf
  <2> QED BY <1>2, <2>1, <2>2, <2>3, <2>4 DEF Event
<1> QED BY <1>1, <1>2 DEF Next

-----------------------------------------------------------------------------
(* Each operation of a fire() is in the queue at most once, while it waits.  *)

Fitting(s, f) == \A i \in 1 .. Len(s) : OfFire(s[i]) => Fits(s[i], f[s[i].gen])
Single(s) == \A i, j \in 1 .. Len(s) : OfFire(s[i]) /\ OfFire(s[j]) /\ s[i].gen = s[j].gen => i = j
Without1(s, g) == \A i \in 1 .. Len(s) : ~(OfFire(s[i]) /\ s[i].gen = g)

Matched == Fitting(queue, fire) /\ Single(queue)

SameCall(b, q) == /\ b.op = q.op /\ b.gen = q.gen /\ b.due = q.due /\ b.tok = q.tok /\ b.patch = q.patch
                  /\ b.arg = q.arg

LEMMA FittingAppend ==
    ASSUME NEW s \in Seq(Entry), NEW f, NEW x \in Entry, Fitting(s, f), Single(s),
           OfFire(x) => Fits(x, f[x.gen]) /\ Without1(s, x.gen)
    PROVE  Fitting(Append(s, x), f) /\ Single(Append(s, x))
<1> DEFINE t == Append(s, x)
<1>1. /\ Len(t) = Len(s) + 1 /\ t[Len(s) + 1] = x
      /\ \A i \in 1 .. Len(s) : t[i] = s[i]
      /\ Len(s) \in Nat
  BY Appending, LenProperties
<1> HIDE DEF t
<1>2. \A i \in 1 .. Len(t) : i \in 1 .. Len(s) \/ i = Len(s) + 1
  BY <1>1
<1>3. Fitting(t, f)
  BY <1>1, <1>2 DEF Fitting
<1>4. Single(t)
  <2> SUFFICES ASSUME NEW i \in 1 .. Len(t), NEW j \in 1 .. Len(t),
                      OfFire(t[i]), OfFire(t[j]), t[i].gen = t[j].gen
               PROVE  i = j
    BY DEF Single
  <2>1. CASE i \in 1 .. Len(s) /\ j \in 1 .. Len(s)
    BY <1>1, <2>1 DEF Single
  <2>2. CASE i \in 1 .. Len(s) /\ j = Len(s) + 1
    BY <1>1, <2>2 DEF Without1
  <2>3. CASE i = Len(s) + 1 /\ j \in 1 .. Len(s)
    BY <1>1, <2>3 DEF Without1
  <2> QED BY <1>2, <2>1, <2>2, <2>3
<1> QED BY <1>3, <1>4 DEF t

LEMMA FittingTail ==
    ASSUME NEW s \in Seq(Entry), s # <<>>, NEW f, NEW f2, NEW g, Fitting(s, f), Single(s),
           Head(s).gen = g, OfFire(Head(s)) \/ f2 = f, \A h \in Gens \ {g} : f2[h] = f[h]
    PROVE  /\ Tail(s) \in Seq(Entry) /\ Fitting(Tail(s), f2) /\ Single(Tail(s))
           /\ OfFire(Head(s)) => Without1(Tail(s), g)
<1> DEFINE t == Tail(s)
<1>1. /\ Len(s) \in Nat \ {0} /\ t \in Seq(Entry) /\ Len(t) = Len(s) - 1 /\ Head(s) = s[1]
      /\ \A i \in 1 .. Len(s) - 1 : t[i] = s[i + 1]
  BY Taking
<1> HIDE DEF t
<1>2. \A i \in 1 .. Len(t) : t[i] = s[i + 1] /\ i + 1 \in 1 .. Len(s) /\ i + 1 # 1 /\ i \in Nat
  BY <1>1
<1>3. 1 \in 1 .. Len(s)
  BY <1>1
<1>4. OfFire(Head(s)) => Without1(t, g)
  BY <1>1, <1>2, <1>3 DEF Single, Without1
<1>5. Single(t)
  BY <1>2 DEF Single
<1>6. Fitting(t, f2)
  <2> SUFFICES ASSUME NEW i \in 1 .. Len(t), OfFire(t[i]) PROVE Fits(t[i], f2[t[i].gen])
    BY DEF Fitting
  <2>1. Fits(t[i], f[t[i].gen]) /\ t[i] \in Entry
    BY <1>1, <1>2 DEF Fitting
  <2>2. t[i].gen \in Gens
    BY <2>1 DEF Entry
  <2>3. OfFire(Head(s)) => t[i].gen # g
    BY <1>4 DEF Without1
  <2> QED BY <2>1, <2>2, <2>3
<1> QED BY <1>1, <1>4, <1>5, <1>6 DEF t

LEMMA FittingChange ==
    ASSUME NEW s \in Seq(Entry), s # <<>>, NEW f, NEW b \in Entry, SameCall(b, Head(s)), Fitting(s, f), Single(s)
    PROVE  Fitting([s EXCEPT ![1] = b], f) /\ Single([s EXCEPT ![1] = b])
<1> DEFINE t == [s EXCEPT ![1] = b]
<1>1. /\ Len(t) = Len(s) /\ t[1] = b /\ \A i \in 2 .. Len(s) : t[i] = s[i]
      /\ Len(s) \in Nat \ {0} /\ Head(s) = s[1]
  BY ChangingHead, Taking
<1> HIDE DEF t
<1>2. \A i \in 1 .. Len(t) : (i = 1 \/ i \in 2 .. Len(s)) /\ i \in 1 .. Len(s)
  BY <1>1
<1>3. \A i \in 1 .. Len(t) : /\ (OfFire(t[i]) <=> OfFire(s[i])) /\ t[i].gen = s[i].gen
                             /\ \A x : Fits(s[i], x) => Fits(t[i], x)
  BY <1>1, <1>2 DEF OfFire, Fits, SameCall
<1> QED BY <1>2, <1>3 DEF Fitting, Single, t

\* A fire() that waits for no operation has none in the queue.
LEMMA NoneQueued ==
    ASSUME Typed, Matched, NEW g \in Gens, fire[g].at \in {"idle", "gate", "sending"}
    PROVE  Without1(queue, g)
<1> SUFFICES ASSUME NEW i \in 1 .. Len(queue), OfFire(queue[i]), queue[i].gen = g PROVE FALSE
  BY DEF Without1
<1>1. Fits(queue[i], fire[g])
  BY DEF Matched, Fitting
<1> QED BY <1>1 DEF Fits, OfFire, FireOps

LEMMA HeadFits ==
    ASSUME Typed, Matched, queue # <<>>, OfFire(Head(queue))
    PROVE  Fits(Head(queue), fire[Head(queue).gen])
<1>1. Len(queue) \in Nat \ {0} /\ Head(queue) = queue[1]
  BY FromTyped, Taking DEF QueueTyped
<1>2. 1 \in 1 .. Len(queue)
  BY <1>1
<1> QED BY <1>1, <1>2 DEF Matched, Fitting

\* The other steps, and what they leave alone.
LEMMA AloneFire == ASSUME StepAlone PROVE (Crash \/ fire' = fire) /\ ran' = ran /\ off' = off
BY DEF StepAlone, BeginOp, BeginReplaceAll, WriteDone, WriteFails, Unload, ClaimFence, Start, Crash, Tick

LEMMA AloneQueue ==
    ASSUME Typed, Life, StepAlone
    PROVE  \/ queue' = <<>>
           \/ queue' = queue
           \/ \E b \in Entry : Changes(b) /\ SameCall(b, Head(queue))
<1>1. CASE BeginOp
  <2>1. queue # <<>> /\ Head(queue) \in Entry /\ \E b : BeginsAs(Head(queue), b)
    BY <1>1, BeginOpBegins
  <2>2. PICK b : BeginsAs(Head(queue), b)
    BY <2>1
  <2>3. b \in Entry /\ b.stage # "queued"
    BY <2>2, SaveStageTyped DEF BeginsAs
  <2> QED BY <2>1, <2>2, <2>3 DEF Changes, BeginsAs, SameCall
<1>2. CASE BeginReplaceAll
  <2>1. queue # <<>> /\ Head(queue) \in Entry /\ \E b : ReplacesAs(Head(queue), b)
    BY <1>2, BeginReplaceAllReplaces
  <2>2. PICK b : ReplacesAs(Head(queue), b)
    BY <2>1
  <2>3. b \in Entry /\ b.stage # "queued"
    BY <2>2, SaveStageTyped DEF ReplacesAs
  <2> QED BY <2>1, <2>2, <2>3 DEF Changes, ReplacesAs, SameCall
<1>3. ASSUME NEW st \in Stages, st # "queued", Quiet, pass.gen # 0,
             queue' = IF ~Waiting(pass.gen) THEN queue ELSE HeadStage(st)
      PROVE  queue' = queue \/ \E b \in Entry : Changes(b) /\ SameCall(b, Head(queue))
  <2> DEFINE b == [Head(queue) EXCEPT !.stage = st]
  <2>1. \/ queue = <<>> /\ queue' = <<>>
        \/ /\ Waits /\ b \in Entry /\ queue' = [queue EXCEPT ![1] = b] /\ b.stage = st
           /\ b.op = Head(queue).op /\ b.gen = Head(queue).gen /\ b.due = Head(queue).due
           /\ b.tok = Head(queue).tok /\ b.patch = Head(queue).patch /\ b.arg = Head(queue).arg
    BY <1>3, WriteEnds
  <2> HIDE DEF b
  <2> QED BY <1>3, <2>1 DEF Changes, SameCall, Waits, Begun
<1>4. CASE WriteDone
  <2> DEFINE st == AfterWrite(pass.again /\ fence = pass.gen)
  <2>1. Quiet /\ pass.gen # 0 /\ queue' = IF ~Waiting(pass.gen) THEN queue ELSE HeadStage(st)
    BY <1>4 DEF WriteDone
  <2>2. st \in Stages /\ st # "queued"
    BY DEF AfterWrite, Stages
  <2> HIDE DEF st
  <2> QED BY <1>3, <2>1, <2>2
<1>5. CASE WriteFails
  <2>1. Quiet /\ pass.gen # 0 /\ queue' = IF ~Waiting(pass.gen) THEN queue ELSE HeadStage("failed")
    BY <1>5 DEF WriteFails
  <2> QED BY <1>3, <2>1 DEF Stages
<1>6. CASE Unload \/ ClaimFence \/ Start \/ Crash \/ Tick
  BY <1>6 DEF Unload, ClaimFence, Start, Crash, Tick
<1> QED BY <1>1, <1>2, <1>4, <1>5, <1>6 DEF StepAlone

\* A step of one fire().
LEMMA FireElsewhere ==
    ASSUME NEW g \in Gens, NEW at, NEW due, NEW tok, FireBecomes(g, at, due, tok)
    PROVE  \A h \in Gens \ {g} : fire'[h] = fire[h]
BY DEF FireBecomes

LEMMA MatchedStep ==
    ASSUME Typed, Life, Matched, [Next]_vars, "late" \notin mishaps'
    PROVE  Matched'
<1>1. queue \in Seq(Entry) /\ Fitting(queue, fire) /\ Single(queue) /\ \A i \in 1 .. Len(queue) : queue[i] \in Entry
  BY FromTyped DEF QueueTyped, Matched
<1>2. CASE UNCHANGED vars
  BY <1>2 DEF vars, Matched, Fitting, Single
<1>3. CASE StepAlone
  <2>1. CASE queue' = <<>>
    BY <2>1 DEF Matched, Fitting, Single
  <2>2. fire' = fire \/ queue' = <<>>
    BY <1>3, AloneFire DEF Crash
  <2>3. CASE queue' = queue /\ fire' = fire
    BY <2>3 DEF Matched, Fitting, Single
  <2>4. ASSUME NEW b \in Entry, Changes(b), SameCall(b, Head(queue)), fire' = fire PROVE Matched'
    <3>1. queue # <<>> /\ queue' = [queue EXCEPT ![1] = b]
      BY <2>4 DEF Changes
    <3>2. Fitting([queue EXCEPT ![1] = b], fire) /\ Single([queue EXCEPT ![1] = b])
      BY <1>1, <2>4, <3>1, FittingChange
    <3>3. Fitting(queue', fire') /\ Single(queue')
      BY <2>4, <3>1, <3>2
    <3> QED BY <3>3 DEF Matched, Fitting, Single
  <2> QED BY <1>3, <2>1, <2>2, <2>3, <2>4, AloneQueue
<1>4. ASSUME NEW g \in Gens, FlowOf(g) PROVE Matched'
  <2>1. ASSUME queue' = Tail(queue), Continues(g) \/ Detached(g), OfFire(Head(queue)) \/ fire' = fire,
               \A h \in Gens \ {g} : fire'[h] = fire[h]
        PROVE  Matched'
    <3>1. queue # <<>> /\ Head(queue).gen = g
      BY <2>1, DetachedIs DEF Continues, Pops
    <3> QED BY <1>1, <2>1, <3>1, FittingTail DEF Matched, Fitting, Single
  <2>2. CASE Ends(g) \/ Claims(g) \/ Sends(g)
    BY <2>1, <2>2, FireElsewhere DEF Ends, Claims, Sends, OfFire, FireOps
  <2>3. CASE Informs(g)
    BY <2>1, <2>3 DEF Informs
  <2>4. CASE Detached(g)
    BY <2>1, <2>4 DEF Detached, Pop
  <2>5. CASE Rests(g)
    BY <2>5 DEF Rests, Stays, Matched, Fitting, Single
  <2>6. CASE Hands(g)
    <3>1. PICK n \in {"abandon", "finalize"}, q \in Entry :
              /\ Head(queue).op = IF n = "abandon" THEN "authorize" ELSE "abandon"
              /\ Queued(q, n, g) /\ q.tok = fire[g].tok /\ queue' = Append(Tail(queue), q)
              /\ FireBecomes(g, n, fire[g].due, fire[g].tok)
      BY <2>6 DEF Hands
    <3>2. queue # <<>> /\ Head(queue).gen = g /\ OfFire(Head(queue))
      BY <2>6, <3>1 DEF Hands, Continues, OfFire, FireOps
    <3>3. /\ Tail(queue) \in Seq(Entry) /\ Fitting(Tail(queue), fire') /\ Single(Tail(queue))
          /\ Without1(Tail(queue), g)
      BY <1>1, <3>1, <3>2, FittingTail, FireElsewhere
    <3>4. q.gen = g /\ Fits(q, fire'[g])
      BY <3>1 DEF Queued, Fits, FireBecomes
    <3>5. Fitting(queue', fire') /\ Single(queue')
      BY <3>1, <3>3, <3>4, FittingAppend
    <3> QED BY <3>5 DEF Matched, Fitting, Single
  <2>7. ASSUME NEW q \in Entry, queue' = Append(queue, q), q.gen = g,
               \/ ~OfFire(q) /\ fire' = fire
               \/ /\ fire[g].at \in {"idle", "gate", "sending"} /\ Fits(q, fire'[g])
                  /\ \A h \in Gens \ {g} : fire'[h] = fire[h]
        PROVE  Matched'
    <3>1. CASE ~OfFire(q) /\ fire' = fire
      <4>1. Fitting(queue', fire) /\ Single(queue')
        BY <1>1, <2>7, <3>1, FittingAppend
      <4> QED BY <3>1, <4>1 DEF Matched, Fitting, Single
    <3>2. CASE /\ fire[g].at \in {"idle", "gate", "sending"} /\ Fits(q, fire'[g])
               /\ \A h \in Gens \ {g} : fire'[h] = fire[h]
      <4>1. Without1(queue, g)
        BY <3>2, NoneQueued
      <4>2. Fitting(queue, fire')
        <5> SUFFICES ASSUME NEW i \in 1 .. Len(queue), OfFire(queue[i])
                     PROVE  Fits(queue[i], fire'[queue[i].gen])
          BY DEF Fitting
        <5>1. queue[i].gen \in Gens /\ queue[i].gen # g
          BY <1>1, <4>1 DEF Without1, Entry
        <5> QED BY <1>1, <3>2, <5>1 DEF Fitting
      <4>3. Fitting(queue', fire') /\ Single(queue')
        BY <1>1, <2>7, <3>2, <4>1, <4>2, FittingAppend
      <4> QED BY <4>3 DEF Matched, Fitting, Single
    <3> QED BY <2>7, <3>1, <3>2
  <2>8. CASE Wakes(g)
    <3>1. PICK n \in {"claim", "skip"}, due \in Slots, q \in Entry :
              /\ OfFire(q) /\ q.op = IF n = "claim" THEN "claim" ELSE "update"
              /\ n = "claim" => due = q.due
              /\ Queued(q, q.op, g) /\ queue' = Append(queue, q)
              /\ FireBecomes(g, n, due, 0)
      BY <2>8 DEF Wakes
    <3>2. q.gen = g /\ Fits(q, fire'[g]) /\ fire[g].at = "idle"
      BY <2>8, <3>1 DEF Queued, Fits, FireBecomes, Wakes
    <3> QED BY <2>7, <3>1, <3>2, FireElsewhere
  <2>9. CASE Proceeds(g)
    <3>1. PICK n \in {"authorize", "finalize"}, q \in Entry :
              /\ fire[g].at = "gate" \/ (fire[g].at = "sending" /\ n = "finalize")
              /\ Queued(q, n, g) /\ q.tok = fire[g].tok /\ queue' = Append(queue, q)
              /\ FireBecomes(g, n, fire[g].due, fire[g].tok)
      BY <2>9 DEF Proceeds
    <3>2. q.gen = g /\ Fits(q, fire'[g]) /\ fire[g].at \in {"gate", "sending"}
      BY <3>1 DEF Queued, Fits, FireBecomes
    <3> QED BY <2>7, <3>1, <3>2, FireElsewhere
  <2>10. CASE Asks(g)
    BY <2>7, <2>10 DEF Asks, Queued
  <2> QED BY <1>4, <2>2, <2>3, <2>4, <2>5, <2>6, <2>8, <2>9, <2>10 DEF FlowOf
<1> QED BY <1>2, <1>3, <1>4, FlowKinds

LEMMA InitMatched == ASSUME Init PROVE Matched
BY DEF Init, Matched, Fitting, Single

-----------------------------------------------------------------------------
(* What is queued stays as it was asked for.                                 *)

Fresh(q) ==
    \/ /\ OfFire(q) /\ q.patch \in {"none", "skip"}
       /\ q.patch = "skip" => (kind = "once" /\ InHand => "edited" \in mishaps')
    \/ ~OfFire(q) /\ Asked(q)

\* The queue moves up by n, and at most the last entry is new.
Shifts(n) ==
    \A i \in 1 .. Len(queue') :
        \/ i + n \in 1 .. Len(queue) /\ SameCall(queue'[i], queue[i + n])
        \/ i = Len(queue') /\ i + n > Len(queue) /\ Fresh(queue'[i])

LEMMA SameCallItself == ASSUME NEW q PROVE SameCall(q, q)
BY DEF SameCall

LEMMA ShiftsNone ==
    ASSUME Typed, queue' = queue \/ queue' = <<>>
    PROVE  Shifts(0)
<1>1. queue \in Seq(Entry) /\ Len(queue) \in Nat
  BY FromTyped, LenProperties DEF QueueTyped
<1>2. CASE queue' = <<>>
  BY <1>2 DEF Shifts
<1>3. CASE queue' = queue
  <2>1. \A i \in 1 .. Len(queue) : i + 0 = i
    BY <1>1
  <2> QED BY <1>3, <2>1, SameCallItself DEF Shifts
<1> QED BY <1>2, <1>3

LEMMA ShiftsChange ==
    ASSUME Typed, NEW b, Changes(b), SameCall(b, Head(queue))
    PROVE  Shifts(0)
<1>1. queue \in Seq(Entry) /\ queue # <<>> /\ b \in Entry /\ queue' = [queue EXCEPT ![1] = b]
  BY FromTyped DEF QueueTyped, Changes
<1>2. /\ Len(queue') = Len(queue) /\ queue'[1] = b /\ \A i \in 2 .. Len(queue) : queue'[i] = queue[i]
      /\ Len(queue) \in Nat \ {0} /\ Head(queue) = queue[1]
  BY <1>1, ChangingHead, Taking
<1>3. \A i \in 1 .. Len(queue') : (i = 1 \/ i \in 2 .. Len(queue)) /\ i + 0 = i /\ i \in 1 .. Len(queue)
  BY <1>2
<1>4. \A i \in 1 .. Len(queue') : SameCall(queue'[i], queue[i])
  BY <1>2, <1>3, SameCallItself
<1> QED BY <1>3, <1>4 DEF Shifts

LEMMA ShiftsTail ==
    ASSUME Typed, queue # <<>>, queue' = Tail(queue)
    PROVE  Shifts(1)
<1>1. queue \in Seq(Entry)
  BY FromTyped DEF QueueTyped
<1>2. /\ Len(queue') = Len(queue) - 1 /\ Len(queue) \in Nat \ {0}
      /\ \A i \in 1 .. Len(queue) - 1 : queue'[i] = queue[i + 1]
  BY <1>1, Taking
<1>3. \A i \in 1 .. Len(queue') : i + 1 \in 1 .. Len(queue) /\ queue'[i] = queue[i + 1]
  BY <1>2
<1> QED BY <1>3, SameCallItself DEF Shifts

LEMMA ShiftsAppend ==
    ASSUME Typed, NEW q \in Entry, Fresh(q), queue' = Append(queue, q)
    PROVE  Shifts(0)
<1>1. queue \in Seq(Entry) /\ Len(queue) \in Nat
  BY FromTyped, LenProperties DEF QueueTyped
<1>2. /\ Len(queue') = Len(queue) + 1 /\ queue'[Len(queue) + 1] = q
      /\ \A i \in 1 .. Len(queue) : queue'[i] = queue[i]
  BY <1>1, Appending
<1>3. ASSUME NEW i \in 1 .. Len(queue')
      PROVE  \/ i + 0 \in 1 .. Len(queue) /\ SameCall(queue'[i], queue[i + 0])
             \/ i = Len(queue') /\ i + 0 > Len(queue) /\ Fresh(queue'[i])
  <2>1. i \in Nat /\ i + 0 = i /\ (i \in 1 .. Len(queue) \/ i = Len(queue) + 1)
    BY <1>1, <1>2
  <2>2. CASE i \in 1 .. Len(queue)
    BY <1>2, <2>1, <2>2, SameCallItself
  <2>3. CASE i = Len(queue) + 1
    <3>1. i > Len(queue) /\ i = Len(queue') /\ queue'[i] = q
      BY <1>1, <1>2, <2>3
    <3> QED BY <2>1, <3>1
  <2> QED BY <2>1, <2>2, <2>3
<1> QED BY <1>3 DEF Shifts

LEMMA ShiftsTailAppend ==
    ASSUME Typed, queue # <<>>, NEW q \in Entry, Fresh(q), queue' = Append(Tail(queue), q)
    PROVE  Shifts(1)
<1>1. queue \in Seq(Entry)
  BY FromTyped DEF QueueTyped
<1>2. /\ Len(Tail(queue)) = Len(queue) - 1 /\ Len(queue) \in Nat \ {0} /\ Tail(queue) \in Seq(Entry)
      /\ \A i \in 1 .. Len(queue) - 1 : Tail(queue)[i] = queue[i + 1]
  BY <1>1, Taking
<1>3. /\ Len(queue') = Len(queue) /\ queue'[Len(queue)] = q
      /\ \A i \in 1 .. Len(queue) - 1 : queue'[i] = queue[i + 1]
  BY <1>2, Appending
<1>4. ASSUME NEW i \in 1 .. Len(queue')
      PROVE  \/ i + 1 \in 1 .. Len(queue) /\ SameCall(queue'[i], queue[i + 1])
             \/ i = Len(queue') /\ i + 1 > Len(queue) /\ Fresh(queue'[i])
  <2>1. Len(queue) \in Nat /\ i \in 1 .. Len(queue)
    BY <1>2, <1>3
  <2>2. i \in 1 .. Len(queue) - 1 \/ i = Len(queue)
    BY <2>1
  <2>3. CASE i \in 1 .. Len(queue) - 1
    <3>1. i + 1 \in 1 .. Len(queue) /\ queue'[i] = queue[i + 1]
      BY <1>3, <2>1, <2>3
    <3> QED BY <3>1, SameCallItself
  <2>4. CASE i = Len(queue)
    <3>1. i + 1 > Len(queue) /\ i = Len(queue') /\ queue'[i] = q
      BY <1>3, <2>1, <2>4
    <3> QED BY <3>1
  <2> QED BY <2>2, <2>3, <2>4
<1> QED BY <1>4 DEF Shifts

LEMMA QueueShifts ==
    ASSUME Typed, Life, [Next]_vars, "late" \notin mishaps'
    PROVE  Shifts(0) \/ Shifts(1)
<1>1. CASE UNCHANGED vars
  BY <1>1, ShiftsNone DEF vars
<1>2. CASE StepAlone
  <2>1. CASE queue' = <<>> \/ queue' = queue
    BY <2>1, ShiftsNone
  <2>2. ASSUME NEW b \in Entry, Changes(b), SameCall(b, Head(queue)) PROVE Shifts(0)
    BY <2>2, ShiftsChange
  <2> QED BY <1>2, <2>1, <2>2, AloneQueue
<1>3. ASSUME NEW g \in Gens, FlowOf(g) PROVE Shifts(0) \/ Shifts(1)
  <2>1. CASE Ends(g) \/ Claims(g) \/ Sends(g) \/ Informs(g) \/ Detached(g)
    <3>1. queue # <<>>
      BY <2>1, DetachedIs DEF Ends, Claims, Sends, Informs, Continues, Begun
    <3>2. queue' = Tail(queue)
      BY <2>1 DEF Ends, Claims, Sends, Informs, Detached, Pop
    <3> QED BY <3>1, <3>2, ShiftsTail
  <2>2. CASE Hands(g)
    <3>1. PICK n \in {"abandon", "finalize"}, q \in Entry :
              Queued(q, n, g) /\ q.patch = "none" /\ queue' = Append(Tail(queue), q)
      BY <2>2 DEF Hands
    <3>2. Fresh(q)
      BY <3>1 DEF Fresh, OfFire, FireOps, Queued
    <3>3. queue # <<>>
      BY <2>2 DEF Hands, Continues
    <3> QED BY <3>1, <3>2, <3>3, ShiftsTailAppend
  <2>3. CASE Wakes(g)
    <3>1. PICK n \in {"claim", "skip"}, due \in Slots, q \in Entry :
              /\ OfFire(q) /\ q.op = IF n = "claim" THEN "claim" ELSE "update"
              /\ n = "skip" => (kind = "once" /\ InHand => "edited" \in mishaps')
              /\ n = "claim" => q.patch = "none"
              /\ queue' = Append(queue, q)
      BY <2>3 DEF Wakes
    <3>2. Fresh(q)
      BY <3>1 DEF Fresh, OfFire, FireOps
    <3> QED BY <3>1, <3>2, ShiftsAppend
  <2>4. CASE Proceeds(g)
    <3>1. PICK n \in {"authorize", "finalize"}, q \in Entry :
              Queued(q, n, g) /\ q.patch = "none" /\ queue' = Append(queue, q)
      BY <2>4 DEF Proceeds
    <3>2. Fresh(q)
      BY <3>1 DEF Fresh, OfFire, FireOps, Queued
    <3> QED BY <3>1, <3>2, ShiftsAppend
  <2>5. CASE Asks(g)
    <3>1. PICK q \in Entry : ~OfFire(q) /\ Asked(q) /\ queue' = Append(queue, q)
      BY <2>5 DEF Asks
    <3>2. Fresh(q)
      BY <3>1 DEF Fresh
    <3> QED BY <3>1, <3>2, ShiftsAppend
  <2>6. CASE Rests(g)
    BY <2>6, ShiftsNone DEF Rests, Stays
  <2> QED BY <1>3, <2>1, <2>2, <2>3, <2>4, <2>5, <2>6 DEF FlowOf
<1> QED BY <1>1, <1>2, <1>3, FlowKinds

\* A new item carries no claim.
Worded == \A i \in 1 .. Len(queue) : queue[i].op = "create" => queue[i].arg # Absent /\ queue[i].arg.tok = 0

LEMMA KindStays == ASSUME [Next]_vars PROVE kind' = kind
<1>1. CASE Microtask
  <2>1. CASE BeginOp \/ BeginReplaceAll
    BY <2>1 DEF BeginOp, BeginReplaceAll
  <2>2. ASSUME NEW g \in Gens, Claimed(g) \/ ClaimRefused(g) \/ FireFails(g) \/ Skipped(g)
                                \/ Dispatch(g) \/ AuthorizeRefused(g)
        PROVE  kind' = kind
    BY <2>2 DEF Claimed, ClaimRefused, FireFails, Skipped, Dispatch, AuthorizeRefused
  <2>3. ASSUME NEW g \in Gens, \/ Abandoned(g) \/ AbandonFails(g) \/ Finalized(g) \/ FinalizeFails(g)
                               \/ Edited(g) \/ Deleted(g) \/ Created(g) \/ Detached(g)
        PROVE  kind' = kind
    BY <2>3 DEF Abandoned, AbandonFails, Finalized, FinalizeFails, Edited, Deleted, Created, Detached
  <2> QED BY <1>1, <2>1, <2>2, <2>3 DEF Microtask
<1>2. CASE Event
  <2>1. CASE WriteDone \/ WriteFails \/ Unload \/ ClaimFence \/ Start \/ Crash \/ Tick
    BY <2>1 DEF WriteDone, WriteFails, Unload, ClaimFence, Start, Crash, Tick
  <2>2. ASSUME NEW g \in Gens, OtherSave(g) \/ Wake(g) \/ WakeSkips(g) \/ WakeWhileFiring(g) \/ Missed(g)
                                \/ GateEnds(g) \/ SendEnds(g)
        PROVE  kind' = kind
    BY <2>2 DEF OtherSave, Wake, WakeSkips, WakeWhileFiring, Missed, GateEnds, SendEnds
  <2>3. ASSUME NEW g \in Gens, Edit(g) \/ Delete(g) \/ Create(g) \/ Detach(g) PROVE kind' = kind
    BY <2>3 DEF Edit, Delete, Create, Detach
  <2> QED BY <1>2, <2>1, <2>2, <2>3 DEF Event
<1> QED BY <1>1, <1>2 DEF Next, vars

LEMMA WordedStep == ASSUME Typed, Life, Worded, [Next]_vars, "late" \notin mishaps' PROVE Worded'
<1>2. ASSUME NEW n \in {0, 1}, Shifts(n) PROVE Worded'
  <2> SUFFICES ASSUME NEW i \in 1 .. Len(queue')
               PROVE  queue'[i].op = "create" => queue'[i].arg # Absent /\ queue'[i].arg.tok = 0
    BY DEF Worded
  <2>1. CASE i + n \in 1 .. Len(queue) /\ SameCall(queue'[i], queue[i + n])
    BY <2>1 DEF Worded, SameCall
  <2>2. CASE Fresh(queue'[i])
    <3>1. NewItem \in Item /\ NewItem # Absent /\ NewItem.tok = 0
      BY NewItemTyped, AbsentAssumption DEF NewItem
    <3> QED BY <2>2, <3>1 DEF Fresh, Asked, OfFire, FireOps
  <2> QED BY <1>2, <2>1, <2>2 DEF Shifts
<1> QED BY <1>2, QueueShifts

LEMMA InitWorded == ASSUME Init PROVE Worded
BY DEF Init, Worded

-----------------------------------------------------------------------------
(* The running operation, from step to step.                                 *)

\* It goes on waiting, or learns how its save went.
HeadGoesOn ==
    /\ queue # <<>> /\ queue' # <<>> /\ Begun /\ Begun' /\ Waits
    /\ SameCall(Head(queue'), Head(queue))
    /\ Head(queue').yes = Head(queue).yes /\ Head(queue').res = Head(queue).res
    /\ Head(queue').by = Head(queue).by
    /\ WriteDone \/ WriteFails \/ Head(queue').stage = Head(queue).stage

LEMMA HeadSteps ==
    ASSUME Typed, Life, [Next]_vars, "late" \notin mishaps', ~BeginOp, ~BeginReplaceAll
    PROVE  ~Begun' \/ UNCHANGED vars \/ HeadGoesOn
<1>1. ASSUME NEW st \in Stages, Quiet, pass.gen # 0,
             queue' = IF ~Waiting(pass.gen) THEN queue ELSE HeadStage(st), WriteDone \/ WriteFails
      PROVE  ~Begun' \/ HeadGoesOn
  <2> DEFINE b == [Head(queue) EXCEPT !.stage = st]
  <2>1. \/ queue = <<>> /\ queue' = <<>>
        \/ /\ Waits /\ b \in Entry /\ queue' = [queue EXCEPT ![1] = b] /\ b.stage = st
           /\ b.op = Head(queue).op /\ b.gen = Head(queue).gen /\ b.due = Head(queue).due
           /\ b.tok = Head(queue).tok /\ b.patch = Head(queue).patch /\ b.arg = Head(queue).arg
           /\ b.by = Head(queue).by /\ b.yes = Head(queue).yes /\ b.res = Head(queue).res
    BY <1>1, WriteEnds
  <2> HIDE DEF b
  <2>2. CASE queue' = <<>>
    BY <2>2 DEF Begun
  <2>3. CASE Waits /\ b \in Entry /\ queue' = [queue EXCEPT ![1] = b] /\ queue # <<>>
    <3>1. queue' # <<>> /\ Head(queue') = b
      BY <2>3, FromTyped, ChangingHead DEF QueueTyped
    <3> QED BY <1>1, <2>1, <2>3, <3>1 DEF HeadGoesOn, SameCall, Waits, Begun
  <2> QED BY <2>1, <2>2, <2>3 DEF Waits, Begun
<1>2. CASE WriteDone
  <2> DEFINE st == AfterWrite(pass.again /\ fence = pass.gen)
  <2>1. Quiet /\ pass.gen # 0 /\ queue' = IF ~Waiting(pass.gen) THEN queue ELSE HeadStage(st)
    BY <1>2 DEF WriteDone
  <2>2. st \in Stages
    BY DEF AfterWrite, Stages
  <2> HIDE DEF st
  <2> QED BY <1>1, <1>2, <2>1, <2>2
<1>3. CASE WriteFails
  <2>1. Quiet /\ pass.gen # 0 /\ queue' = IF ~Waiting(pass.gen) THEN queue ELSE HeadStage("failed")
    BY <1>3 DEF WriteFails
  <2> QED BY <1>1, <1>3, <2>1 DEF Stages
<1>4. CASE Unload \/ ClaimFence \/ Tick
  <2>1. Quiet /\ queue' = queue
    BY <1>4 DEF Unload, ClaimFence, Tick
  <2> QED BY <2>1, HeadQuiet DEF HeadGoesOn, SameCall, Waits, Begun
<1>5. CASE Start \/ Crash
  BY <1>5, StartIs DEF Crash, Begun
<1>6. ASSUME NEW g \in Gens, FlowOf(g) PROVE ~Begun' \/ HeadGoesOn
  <2>1. CASE Wakes(g) \/ Proceeds(g) \/ Asks(g) \/ Rests(g)
    <3>1. Quiet /\ Steady /\ ~Unborn(g) /\ (queue' = queue \/ Pushes(g))
      BY <2>1 DEF Wakes, Proceeds, Asks, Rests, Stays, Enqueues, Happens
    <3> QED BY <3>1, EventHead DEF HeadGoesOn, SameCall, Waits
  <2>2. CASE Ends(g) \/ Hands(g) \/ Claims(g) \/ Sends(g) \/ Informs(g) \/ Detached(g)
    <3>1. Steady /\ Pops(g) /\ ~Unborn(g)
      BY <2>2, DetachedIs, QueuedHead DEF Ends, Hands, Claims, Sends, Informs, Continues
    <3> QED BY <3>1, PoppingQueue DEF Life
  <2> QED BY <1>6, <2>1, <2>2 DEF FlowOf
<1> QED BY <1>2, <1>3, <1>4, <1>5, <1>6, FlowKinds DEF StepAlone

\* How an operation that has just begun looks.
LEMMA HeadBegins ==
    ASSUME Typed, Life, BeginOp
    PROVE  LET q == Head(queue) IN
           /\ queue # <<>> /\ q \in Entry /\ q.stage = "queued" /\ q.op # "replaceAll" /\ q.by = 0 /\ ~q.yes
           /\ Steady
           /\ \E b : BeginsAs(q, b) /\ queue' # <<>> /\ Head(queue') = b /\ b.stage # "queued" /\ Changes(b)
<1> DEFINE q == Head(queue)
<1>1. queue # <<>> /\ q.stage = "queued" /\ q.op # "replaceAll" /\ q \in Entry /\ \E b : BeginsAs(q, b)
  BY BeginOpBegins
<1>2. PICK b : BeginsAs(q, b)
  BY <1>1
<1>3. Steady
  BY DEF BeginOp, Steady
<1>4. b.stage # "queued" /\ b \in Entry
  BY <1>2, SaveStageTyped DEF BeginsAs
<1>5. Changes(b)
  BY <1>1, <1>2, <1>4 DEF Changes, BeginsAs
<1>6. queue' # <<>> /\ Head(queue') = b
  BY <1>3, <1>5, ChangingQueue DEF Life
<1>7. q.by = 0 /\ ~q.yes
  BY <1>1, QueuedHead
<1> QED BY <1>1, <1>2, <1>3, <1>4, <1>5, <1>6, <1>7

LEMMA HeadReplaces ==
    ASSUME Typed, Life, BeginReplaceAll
    PROVE  LET q == Head(queue) IN
           /\ queue # <<>> /\ q \in Entry /\ q.stage = "queued" /\ q.op = "replaceAll" /\ q.by = 0 /\ ~q.yes
           /\ Steady
           /\ \E b : ReplacesAs(q, b) /\ queue' # <<>> /\ Head(queue') = b /\ b.stage # "queued" /\ Changes(b)
<1> DEFINE q == Head(queue)
<1>1. queue # <<>> /\ q.stage = "queued" /\ q.op = "replaceAll" /\ q \in Entry /\ \E b : ReplacesAs(q, b)
  BY BeginReplaceAllReplaces
<1>2. PICK b : ReplacesAs(q, b)
  BY <1>1
<1>3. Steady
  BY DEF BeginReplaceAll, Steady
<1>4. b.stage # "queued" /\ b \in Entry
  BY <1>2, SaveStageTyped DEF ReplacesAs
<1>5. Changes(b)
  BY <1>1, <1>2, <1>4 DEF Changes, ReplacesAs
<1>6. queue' # <<>> /\ Head(queue') = b
  BY <1>3, <1>5, ChangingQueue DEF Life
<1>7. q.by = 0 /\ ~q.yes
  BY <1>1, QueuedHead
<1> QED BY <1>1, <1>2, <1>3, <1>4, <1>5, <1>6, <1>7

-----------------------------------------------------------------------------
(* Authorizations, failures and the times of the occurrences.                *)

\* An authorization answers in the turn in which it looks at the item.
AuthorizedOK == HeadIs("authorize") => Head(queue).stage = "ok" /\ (Head(queue).yes => Authorized(Head(queue)))

LEMMA AuthorizedStep ==
    ASSUME Typed, Life, AuthorizedOK, [Next]_vars, "late" \notin mishaps' PROVE AuthorizedOK'
<1>1. CASE BeginOp
  <2>1. PICK b : BeginsAs(Head(queue), b) /\ queue' # <<>> /\ Head(queue') = b
    BY <1>1, HeadBegins
  <2>2. SUFFICES ASSUME b.op = "authorize" PROVE b.stage = "ok" /\ (b.yes => Authorized(b)')
    BY <2>1 DEF AuthorizedOK, HeadIs
  <2>3. b.op = Head(queue).op /\ b.tok = Head(queue).tok
    BY <2>1 DEF BeginsAs
  <2>4. ~Saving(Head(queue)) /\ ~Throws(Head(queue))
    BY <2>2, <2>3 DEF Saving, Granting, Releasing, Removing, Throws
  <2>5. b.stage = "ok" /\ item' = item /\ (b.yes <=> Authorized(Head(queue)))
    BY <2>1, <2>2, <2>3, <2>4 DEF BeginsAs, Returns
  <2> QED BY <2>3, <2>5 DEF Authorized, Holds
<1>2. CASE BeginReplaceAll
  <2>1. PICK b : ReplacesAs(Head(queue), b) /\ queue' # <<>> /\ Head(queue') = b /\ Head(queue).op = "replaceAll"
    BY <1>2, HeadReplaces
  <2>2. Head(queue').op = "replaceAll"
    BY <2>1 DEF ReplacesAs
  <2> QED BY <2>2 DEF AuthorizedOK, HeadIs
<1>3. CASE UNCHANGED vars
  BY <1>3 DEF vars, AuthorizedOK, HeadIs, Begun, Authorized, Holds
<1>4. CASE ~Begun'
  BY <1>4 DEF AuthorizedOK, HeadIs
<1>5. CASE HeadGoesOn
  BY <1>5 DEF AuthorizedOK, HeadIs, HeadGoesOn, SameCall, Waits
<1> QED BY <1>1, <1>2, <1>3, <1>4, <1>5, HeadSteps

\* When the save of an operation has failed, no write is in progress.
FailedOK == Begun /\ Head(queue).stage = "failed" /\ Head(queue).by # 0 => pass = NoPass

LEMMA FailedStep ==
    ASSUME Typed, Life, FailedOK, [Next]_vars, "late" \notin mishaps' PROVE FailedOK'
<1>1. CASE BeginOp
  <2>1. PICK b : BeginsAs(Head(queue), b) /\ queue' # <<>> /\ Head(queue') = b /\ Head(queue).by = 0
    BY <1>1, HeadBegins
  <2>2. b.stage = "failed" => b.by = 0
    BY <2>1, SaveStageTyped DEF BeginsAs
  <2> QED BY <2>1, <2>2 DEF FailedOK
<1>2. CASE BeginReplaceAll
  <2>1. PICK b : ReplacesAs(Head(queue), b) /\ queue' # <<>> /\ Head(queue') = b /\ Head(queue).by = 0
    BY <1>2, HeadReplaces
  <2>2. b.stage = "failed" => b.by = 0
    BY <2>1, SaveStageTyped DEF ReplacesAs
  <2> QED BY <2>1, <2>2 DEF FailedOK
<1>3. CASE UNCHANGED vars
  BY <1>3 DEF vars, FailedOK, Begun
<1>4. CASE ~Begun'
  BY <1>4 DEF FailedOK
<1>5. CASE WriteFails
  BY <1>5 DEF WriteFails, FailedOK
<1>6. CASE HeadGoesOn /\ ~WriteFails
  <2>1. CASE WriteDone
    <3> DEFINE st == AfterWrite(pass.again /\ fence = pass.gen)
    <3>1. Quiet /\ pass.gen # 0 /\ queue' = IF ~Waiting(pass.gen) THEN queue ELSE HeadStage(st)
      BY <2>1 DEF WriteDone
    <3>2. st \in Stages /\ st # "failed"
      BY DEF AfterWrite, Stages
    <3> HIDE DEF st
    <3> DEFINE b == [Head(queue) EXCEPT !.stage = st]
    <3>3. queue = <<>> \/ (b \in Entry /\ queue' = [queue EXCEPT ![1] = b] /\ b.stage = st)
      BY <3>1, <3>2, WriteEnds
    <3> HIDE DEF b
    <3>4. Head(queue').stage # "failed"
      BY <1>6, <3>2, <3>3, FromTyped, ChangingHead DEF HeadGoesOn, QueueTyped
    <3> QED BY <3>4 DEF FailedOK
  <2>2. CASE Head(queue').stage = Head(queue).stage
    BY <1>6, <2>2 DEF FailedOK, HeadGoesOn, Waits
  <2> QED BY <1>6, <2>1, <2>2 DEF HeadGoesOn
<1> QED BY <1>1, <1>2, <1>3, <1>4, <1>5, <1>6, HeadSteps

\* An occurrence is not claimed before its time.
DueOK == \A g \in Gens : fire[g].due <= now

LEMMA DueStep == ASSUME Typed, Life, DueOK, [Next]_vars, "late" \notin mishaps' PROVE DueOK'
<1>1. now \in Nat /\ \A g \in Gens : fire[g].due \in Nat
  BY FireFields, BoundsAssumption DEF Typed, Slots
<1>2. CASE UNCHANGED vars
  BY <1>2 DEF vars, DueOK
<1>3. CASE StepAlone
  <2>1. CASE Crash
    BY <1>1, <2>1, IdleFields DEF Crash, DueOK, NoFire
  <2>2. CASE Tick
    BY <1>1, <2>2 DEF Tick, DueOK
  <2>3. CASE ~Crash /\ ~Tick
    <3>1. fire' = fire /\ now' = now
      BY <1>3, <2>3 DEF StepAlone, BeginOp, BeginReplaceAll, WriteDone, WriteFails, Unload, ClaimFence, Start
    <3> QED BY <3>1 DEF DueOK
  <2> QED BY <2>1, <2>2, <2>3
<1>4. ASSUME NEW g \in Gens, FlowOf(g) PROVE DueOK'
  <2>1. now' = now
    BY <1>4, DetachedIs DEF FlowOf, Ends, Hands, Claims, Sends, Informs, Wakes, Proceeds, Asks, Rests, Stays,
       Continues, Enqueues, Happens
  <2>2. ASSUME NEW at, NEW due, NEW tok, FireBecomes(g, at, due, tok), due <= now PROVE DueOK'
    BY <2>1, <2>2 DEF FireBecomes, DueOK
  <2>3. CASE Ends(g)
    BY <1>1, <2>2, <2>3 DEF Ends
  <2>4. CASE Hands(g) \/ Claims(g) \/ Sends(g) \/ Proceeds(g)
    BY <1>1, <2>2, <2>4 DEF Hands, Claims, Sends, Proceeds, DueOK
  <2>5. CASE Wakes(g)
    BY <2>2, <2>5 DEF Wakes
  <2>6. CASE Informs(g) \/ Detached(g) \/ Asks(g) \/ Rests(g)
    <3>1. fire' = fire
      BY <2>6 DEF Informs, Detached, Asks, Rests
    <3> QED BY <2>1, <3>1 DEF DueOK
  <2> QED BY <1>4, <2>3, <2>4, <2>5, <2>6 DEF FlowOf
<1> QED BY <1>2, <1>3, <1>4, FlowKinds

LEMMA InitFlow == ASSUME Init PROVE AuthorizedOK /\ FailedOK /\ DueOK
BY DEF Init, AuthorizedOK, FailedOK, DueOK, HeadIs, Begun, NoFire, Idle

-----------------------------------------------------------------------------
(* The token of a claim is held by one fire() only.                          *)

ActivePoints == {"gate", "authorize", "sending", "abandon", "finalize"}
Pending == HeadIs("claim") /\ Head(queue).yes

Tokens ==
    /\ \A g \in Gens : fire[g].tok <= claims /\ (fire[g].at \in ActivePoints <=> fire[g].tok > 0)
    /\ \A g, h \in Gens : fire[g].tok > 0 /\ fire[g].tok = fire[h].tok => g = h
    /\ Pending => /\ Head(queue).res # Absent
                  /\ Head(queue).res.tok > 0 /\ Head(queue).res.tok <= claims
                  /\ \A g \in Gens : fire[g].tok # Head(queue).res.tok

\* The claim that is pending stays the same until it is answered.
LEMMA PendingStays ==
    ASSUME Typed, Life, [Next]_vars, "late" \notin mishaps', ~BeginOp, ~BeginReplaceAll, Pending'
    PROVE  /\ Pending /\ Head(queue').res = Head(queue).res /\ Head(queue').due = Head(queue).due
           /\ Head(queue').by = Head(queue).by /\ Head(queue').tok = Head(queue).tok
           /\ UNCHANGED vars \/ HeadGoesOn
<1>1. Begun' /\ Head(queue').op = "claim" /\ Head(queue').yes
  BY DEF Pending, HeadIs
<1>2. CASE UNCHANGED vars
  BY <1>2 DEF vars, Pending, HeadIs, Begun
<1>3. CASE HeadGoesOn
  BY <1>1, <1>3 DEF HeadGoesOn, SameCall, Pending, HeadIs
<1> QED BY <1>1, <1>2, <1>3, HeadSteps

\* A fire() goes on with its token, gives it up, or is given the token of its claim.
LEMMA TokensBecome ==
    ASSUME Typed, Tokens, NEW g \in Gens, NEW at, NEW due, NEW tok, FireBecomes(g, at, due, tok), claims' = claims,
           \/ at \notin ActivePoints /\ tok = 0
           \/ at \in ActivePoints /\ fire[g].at \in ActivePoints /\ tok = fire[g].tok
           \/ at \in ActivePoints /\ Pending /\ tok = Head(queue).res.tok /\ ~Pending',
           Pending' => Pending /\ Head(queue').res = Head(queue).res
    PROVE  Tokens'
<1>1. fire'[g].tok = tok /\ fire'[g].at = at /\ \A h \in Gens \ {g} : fire'[h] = fire[h]
  BY DEF FireBecomes
<1>2. claims \in Nat /\ \A h \in Gens : fire[h].tok \in Nat
  BY FireFields DEF Typed
<1>3. tok <= claims /\ (at \in ActivePoints <=> tok > 0)
  BY <1>2 DEF Tokens
<1>4. \A h \in Gens \ {g} : tok > 0 => fire[h].tok # tok
  BY <1>2 DEF Tokens
<1>5. \A h \in Gens : fire'[h].tok <= claims /\ (fire'[h].at \in ActivePoints <=> fire'[h].tok > 0)
  BY <1>1, <1>3 DEF Tokens
<1>6. \A h, k \in Gens : fire'[h].tok > 0 /\ fire'[h].tok = fire'[k].tok => h = k
  BY <1>1, <1>4 DEF Tokens
<1>7. ASSUME Pending'
      PROVE  /\ Head(queue').res # Absent /\ Head(queue').res.tok > 0 /\ Head(queue').res.tok <= claims
             /\ \A h \in Gens : fire'[h].tok # Head(queue').res.tok
  <2>1. Pending /\ Head(queue').res = Head(queue).res
    BY <1>7
  <2>2. tok # Head(queue).res.tok
    BY <1>7, <2>1 DEF Tokens
  <2> QED BY <1>1, <2>1, <2>2 DEF Tokens
<1> QED BY <1>5, <1>6, <1>7 DEF Tokens

LEMMA TokensKeep ==
    ASSUME Tokens, fire' = fire, claims' = claims,
           Pending' => Pending /\ Head(queue').res = Head(queue).res
    PROVE  Tokens'
BY DEF Tokens

LEMMA BeginOpTokens == ASSUME Typed, Life, Tokens, BeginOp PROVE Tokens'
<1>1. PICK b : /\ queue # <<>> /\ Head(queue) \in Entry /\ ~Head(queue).yes
               /\ BeginsAs(Head(queue), b) /\ queue' # <<>> /\ Head(queue') = b
  BY HeadBegins
<1>2. fire' = fire
  BY DEF BeginOp
<1>3. claims \in Nat /\ \A h \in Gens : fire[h].tok \in Nat
  BY FireFields DEF Typed
<1>4. b.op = Head(queue).op
  BY <1>1 DEF BeginsAs
<1>5. CASE Granting(Head(queue))
  <2>1. /\ item # Absent /\ claims' = claims + 1 /\ b.res = ClaimedItem /\ ClaimedItem.tok = claims + 1
        /\ ClaimedItem # Absent
    <3>1. ~Throws(Head(queue))
      BY <1>5 DEF Granting, Throws
    <3>2. item # Absent /\ claims' = claims + 1 /\ b.res = ClaimedItem
      BY <1>1, <1>5, <3>1 DEF BeginsAs, Returns
    <3> QED BY <3>2, ClaimedItemFields, AbsentAssumption
  <2>2. \A g \in Gens : fire[g].tok < claims + 1
    BY <1>3 DEF Tokens
  <2>3. \A g \in Gens : fire[g].tok <= claims + 1
    BY <1>3, <2>2
  <2> QED BY <1>1, <1>2, <1>3, <2>1, <2>2, <2>3 DEF Tokens
<1>6. CASE ~Granting(Head(queue))
  <2>1. ~Pending'
    <3>1. b.op = "claim" => ~b.yes
      BY <1>1, <1>4, <1>6 DEF BeginsAs, Returns, Granting, Throws
    <3> QED BY <1>1, <3>1 DEF Pending, HeadIs
  <2>2. claims' = claims
    BY <1>1, <1>6 DEF BeginsAs
  <2> QED BY <1>2, <2>1, <2>2, TokensKeep
<1> QED BY <1>5, <1>6

LEMMA TokensStep ==
    ASSUME Typed, Life, Matched, Tokens, [Next]_vars, "late" \notin mishaps' PROVE Tokens'
<1>1. CASE BeginOp
  BY <1>1, BeginOpTokens
<1>2. CASE BeginReplaceAll
  <2>1. PICK b : ReplacesAs(Head(queue), b) /\ queue' # <<>> /\ Head(queue') = b /\ Head(queue).op = "replaceAll"
    BY <1>2, HeadReplaces
  <2>2. ~Pending'
    BY <2>1 DEF ReplacesAs, Pending, HeadIs
  <2> QED BY <1>2, <2>2, TokensKeep DEF BeginReplaceAll
<1>3. CASE ~BeginOp /\ ~BeginReplaceAll
  <2>1. Pending' => Pending /\ Head(queue').res = Head(queue).res
    BY <1>3, PendingStays
  <2>2. CASE UNCHANGED vars
    BY <2>1, <2>2, TokensKeep DEF vars
  <2>3. CASE StepAlone
    <3>1. CASE Crash
      <4>1. fire' = NoFire /\ claims' = claims /\ ~Pending'
        BY <3>1 DEF Crash, Pending, HeadIs, Begun
      <4>2. \A g \in Gens : fire'[g].tok = 0 /\ fire'[g].at = "idle"
        BY <4>1, IdleFields DEF NoFire
      <4>3. claims \in Nat
        BY DEF Typed
      <4> QED BY <4>1, <4>2, <4>3 DEF Tokens, ActivePoints
    <3>2. CASE WriteDone \/ WriteFails \/ Unload \/ ClaimFence \/ Start \/ Tick
      BY <2>1, <3>2, TokensKeep DEF WriteDone, WriteFails, Unload, ClaimFence, Start, Tick
    <3> QED BY <1>3, <2>3, <3>1, <3>2 DEF StepAlone
  <2>4. ASSUME NEW g \in Gens, FlowOf(g) PROVE Tokens'
    <3>1. claims' = claims
      BY <2>4, DetachedIs DEF FlowOf, Ends, Hands, Claims, Sends, Informs, Wakes, Proceeds, Asks, Rests, Stays,
         Continues, Enqueues, Happens
    <3>2. CASE Ends(g)
      BY <2>1, <3>1, <3>2, TokensBecome DEF Ends, ActivePoints
    <3>3. CASE Hands(g)
      <4>1. PICK n \in {"abandon", "finalize"} :
                /\ Head(queue).op \in {"authorize", "abandon"}
                /\ FireBecomes(g, n, fire[g].due, fire[g].tok)
        BY <3>3 DEF Hands
      <4>2. queue # <<>> /\ Head(queue).gen = g
        BY <3>3 DEF Hands, Continues
      <4>3. fire[g].at \in ActivePoints
        BY <4>1, <4>2, HeadFits DEF OfFire, FireOps, Fits, ActivePoints
      <4>4. n \in ActivePoints
        BY DEF ActivePoints
      <4> QED BY <2>1, <3>1, <4>1, <4>3, <4>4, TokensBecome
    <3>4. CASE Claims(g)
      <4>1. Pending /\ FireBecomes(g, "gate", fire[g].due, Head(queue).res.tok)
        BY <3>4 DEF Claims, Continues, Pending, HeadIs
      <4>2. ~Pending'
        <5>1. Steady /\ Pops(g) /\ ~Unborn(g)
          BY <3>4, QueuedHead DEF Claims, Continues
        <5> QED BY <5>1, PoppingQueue DEF Life, Pending, HeadIs
      <4> QED BY <2>1, <3>1, <4>1, <4>2, TokensBecome DEF ActivePoints
    <3>5. CASE Sends(g)
      <4>1. /\ queue # <<>> /\ Head(queue).gen = g /\ Head(queue).op = "authorize"
            /\ FireBecomes(g, "sending", fire[g].due, fire[g].tok)
        BY <3>5 DEF Sends, Continues
      <4>2. fire[g].at \in ActivePoints
        BY <4>1, HeadFits DEF OfFire, FireOps, Fits, ActivePoints
      <4> QED BY <2>1, <3>1, <4>1, <4>2, TokensBecome DEF ActivePoints
    <3>6. CASE Wakes(g)
      <4>1. PICK n \in {"claim", "skip"}, due \in Slots : FireBecomes(g, n, due, 0)
        BY <3>6 DEF Wakes
      <4>2. n \notin ActivePoints
        BY DEF ActivePoints
      <4> QED BY <2>1, <3>1, <4>1, <4>2, TokensBecome
    <3>7. CASE Proceeds(g)
      <4>1. PICK n \in {"authorize", "finalize"} :
                fire[g].at \in {"gate", "sending"} /\ FireBecomes(g, n, fire[g].due, fire[g].tok)
        BY <3>7 DEF Proceeds
      <4>2. n \in ActivePoints /\ fire[g].at \in ActivePoints
        BY <4>1 DEF ActivePoints
      <4> QED BY <2>1, <3>1, <4>1, <4>2, TokensBecome
    <3>8. CASE Informs(g) \/ Detached(g) \/ Asks(g) \/ Rests(g)
      <4>1. fire' = fire
        BY <3>8 DEF Informs, Detached, Asks, Rests
      <4> QED BY <2>1, <3>1, <4>1, TokensKeep
    <3> QED BY <2>4, <3>2, <3>3, <3>4, <3>5, <3>6, <3>7, <3>8 DEF FlowOf
  <2> QED BY <2>2, <2>3, <2>4, FlowKinds
<1> QED BY <1>1, <1>2, <1>3

LEMMA InitTokens == ASSUME Init PROVE Tokens
BY DEF Init, Tokens, Pending, HeadIs, Begun, NoFire, Idle, ActivePoints

-----------------------------------------------------------------------------
(* The copies of the item that the coordinator may come to hold.             *)

\* The newest generation owns the file and has loaded it.
Owner == fence = cur /\ fence # 0 /\ up # "claimed"

\* Copies that are on their way to the file, in it, or put back when a save fails.  A
\* list that replaces the items counts as theirs only when it has replaced them.
InSettings(c) == Owner /\ c = settings[cur] /\ ~(Replacing /\ c = Head(queue).arg)
InPass(c) == pass.gen # 0 /\ c = pass.snap /\ ~(Replacing /\ Head(queue).stage # "next" /\ c = Head(queue).arg)
OnDisk(c) == c = disk /\ ~(Replacing /\ Head(queue).stage = "ok" /\ c = Head(queue).arg)
KeptBack(c) == Replacing /\ c = Head(queue).res
Lives(c) == c = item \/ KeptBack(c) \/ InSettings(c) \/ InPass(c) \/ OnDisk(c)

\* A stale miss has moved a scheduler's own copy on.
MovedOn(c) == "missed" \in mishaps' /\ kind # "once" /\ c # Absent /\ c.next = now + 1

LEMMA MovingLives ==
    ASSUME Typed, Life, Steady, NEW g \in Gens, ~Unborn(g), Moves(g), disk' = disk,
           \/ ~Replacing /\ ~Replacing'
           \/ Replacing /\ Replacing' /\ Head(queue') = Head(queue),
           Replacing => Waits,
           NEW c, Lives(c)'
    PROVE  Lives(c) \/ c = item' \/ MovedOn(c)
<1>1. /\ pass \in Passes /\ settings \in [Gens -> Copy] /\ cur \in 0 .. MaxGen /\ g # 0
      /\ cur' = cur /\ fence' = fence /\ up' = up
  BY FromTyped, BoundsAssumption DEF Gens, Steady
<1>2. fence = g => g = cur /\ up # "claimed" /\ Owner
  BY <1>1 DEF Life, RegsOK, Unborn, Owner
<1>3. pass.gen # g /\ fence = g => pass.gen = 0 /\ ~Waits
  BY <1>2 DEF Life, PassOK, HeadOK
<1>4. CASE c = item' \/ KeptBack(c)' \/ OnDisk(c)'
  BY <1>4 DEF Lives, KeptBack, OnDisk
<1>5. CASE InSettings(c)'
  <2>1. Owner /\ c = settings'[cur] /\ ~(Replacing /\ c = Head(queue).arg)
    BY <1>1, <1>5 DEF InSettings, Owner
  <2>2. CASE settings' = settings
    BY <2>1, <2>2 DEF InSettings, Lives
  <2>3. ASSUME NEW m \in Item, "missed" \in mishaps' /\ kind # "once", m.next = now + 1,
               settings' = [settings EXCEPT ![g] = m]
        PROVE  InSettings(c) \/ MovedOn(c)
    <3>1. c = m \/ c = settings[cur]
      BY <1>1, <2>1, <2>3 DEF Owner, Gens
    <3>2. m # Absent
      BY AbsentAssumption
    <3> QED BY <2>1, <2>3, <3>1, <3>2 DEF InSettings, MovedOn
  <2> QED BY <2>2, <2>3 DEF Moves, Lives
<1>6. CASE InPass(c)'
  <2>1. /\ pass'.gen # 0 /\ c = pass'.snap
        /\ ~(Replacing /\ Head(queue).stage # "next" /\ c = Head(queue).arg)
    BY <1>6 DEF InPass
  <2>2. ASSUME NEW x \in Copy, pass' = Requested(pass, g, x)
        PROVE  InPass(c) \/ (c = x /\ Owner /\ g = cur /\ ~Replacing)
    <3>1. CASE pass.gen = g
      <4>1. pass' = [pass EXCEPT !.again = TRUE]
        BY <2>2, <3>1 DEF Requested
      <4>2. pass'.snap = pass.snap
        BY <1>1, <4>1 DEF Passes
      <4> QED BY <1>1, <2>1, <3>1, <4>2 DEF InPass
    <3>2. CASE pass.gen # g /\ fence = g
      <4>1. pass'.snap = x
        BY <2>2, <3>2 DEF Requested
      <4> QED BY <1>2, <1>3, <2>1, <3>2, <4>1
    <3>3. CASE pass.gen # g /\ fence # g
      <4>1. pass' = pass
        BY <2>2, <3>3 DEF Requested
      <4> QED BY <2>1, <4>1 DEF InPass
    <3> QED BY <3>1, <3>2, <3>3
  <2>3. CASE pass' = pass
    BY <2>1, <2>3 DEF InPass, Lives
  <2>4. CASE pass' = Requested(pass, g, settings[g])
    <3>1. settings[g] \in Copy
      BY <1>1
    <3> QED BY <2>2, <2>4, <3>1 DEF Lives, InSettings
  <2>5. ASSUME NEW m \in Item, "missed" \in mishaps' /\ kind # "once", m.next = now + 1,
               pass' = Requested(pass, g, m)
        PROVE  Lives(c) \/ MovedOn(c)
    <3>1. m # Absent /\ m \in Copy
      BY AbsentAssumption DEF Copy
    <3> QED BY <2>2, <2>5, <3>1 DEF Lives, MovedOn
  <2> QED BY <2>3, <2>4, <2>5 DEF Moves
<1> QED BY <1>4, <1>5, <1>6 DEF Lives

LEMMA FlowLives ==
    ASSUME Typed, Life, NEW g \in Gens, FlowOf(g), ~Detached(g), Moves(g), NEW c, Lives(c)'
    PROVE  Lives(c) \/ c = item' \/ MovedOn(c)
<1>1. CASE Wakes(g) \/ Proceeds(g) \/ Asks(g) \/ Rests(g)
  <2>1. Quiet /\ Steady /\ ~Unborn(g) /\ (queue' = queue \/ Pushes(g)) /\ disk' = disk
    BY <1>1 DEF Wakes, Proceeds, Asks, Rests, Stays, Enqueues, Happens
  <2>2. \/ Waits /\ Waits' /\ Head(queue') = Head(queue)
        \/ ~Begun /\ ~Begun'
    BY <2>1, EventHead DEF Begun
  <2>3. \/ ~Replacing /\ ~Replacing'
        \/ Replacing /\ Replacing' /\ Head(queue') = Head(queue) /\ Waits
    BY <2>2 DEF Replacing, HeadIs, Waits
  <2> QED BY <2>1, <2>3, MovingLives
<1>2. CASE Ends(g) \/ Hands(g) \/ Claims(g) \/ Sends(g) \/ Informs(g)
  <2>1. Continues(g) /\ Head(queue).op # "replaceAll"
    BY <1>2 DEF Ends, Hands, Claims, Sends, Informs, Edited, Deleted, Created, Answers, OfFire, FireOps
  <2>2. Steady /\ Pops(g) /\ ~Unborn(g) /\ disk' = disk
    BY <2>1, QueuedHead DEF Continues
  <2>3. ~Replacing /\ ~Replacing'
    BY <2>1, <2>2, PoppingQueue DEF Life, Replacing, HeadIs
  <2> QED BY <2>2, <2>3, MovingLives
<1> QED BY <1>1, <1>2 DEF FlowOf

LEMMA DetachedLives ==
    ASSUME Typed, Life, FailedOK, NEW g \in Gens, Detached(g), NEW c, Lives(c)'
    PROVE  Lives(c) \/ c = item' \/ MovedOn(c)
<1>1. /\ Steady /\ Pops(g) /\ ~Unborn(g) /\ disk' = disk /\ Begun /\ ~Waits /\ Head(queue).op = "replaceAll"
      /\ Head(queue) \in Entry /\ Head(queue).gen = g /\ Settled(Head(queue).stage)
      /\ settings \in [Gens -> Copy] /\ cur \in 0 .. MaxGen
  BY DetachedIs, FromTyped DEF Detached, Answers
<1>2. ~Begun'
  BY <1>1, PoppingQueue DEF Life
<1>3. ~Replacing' /\ cur' = cur /\ fence' = fence /\ up' = up /\ ~KeptBack(c)'
  BY <1>1, <1>2 DEF Replacing, HeadIs, Steady, KeptBack
<1>4. CASE ~Failed
  <2>1. item' = Head(queue).arg /\ Moves(g)
    <3>1. Head(queue).arg \in Copy
      BY <1>1 DEF Entry
    <3> QED BY <1>4, <3>1, ArmingMoves DEF Detached
  <2>2. SUFFICES ASSUME c # item' PROVE Lives(c) \/ MovedOn(c)
    OBVIOUS
  <2>3. c # Head(queue).arg /\ Head(queue).stage = "ok" /\ (c = settings[cur] /\ Owner => InSettings(c))
        /\ (c = pass.snap /\ pass.gen # 0 => InPass(c))
    BY <1>1, <1>4, <2>1, <2>2 DEF Failed, Settled, InSettings, InPass
  <2>4. CASE OnDisk(c)'
    BY <1>1, <2>3, <2>4 DEF OnDisk, Lives
  <2>5. CASE InSettings(c)'
    <3>1. Owner /\ c = settings'[cur]
      BY <1>3, <2>5 DEF InSettings, Owner
    <3>2. ASSUME NEW m \in Item, "missed" \in mishaps' /\ kind # "once", m.next = now + 1,
                 settings' = [settings EXCEPT ![g] = m]
          PROVE  InSettings(c) \/ MovedOn(c)
      <4>1. c = m \/ c = settings[cur]
        BY <1>1, <3>1, <3>2 DEF Owner, Gens
      <4>2. m # Absent
        BY AbsentAssumption
      <4> QED BY <2>3, <3>1, <3>2, <4>1, <4>2 DEF MovedOn
    <3> QED BY <2>1, <2>3, <3>1, <3>2 DEF Moves, Lives
  <2>6. CASE InPass(c)'
    <3>1. pass'.gen # 0 /\ c = pass'.snap
      BY <2>6 DEF InPass
    <3>2. pass \in Passes
      BY FromTyped
    <3>3. ASSUME NEW x \in Copy, pass' = Requested(pass, g, x)
          PROVE  InPass(c) \/ (c = x /\ Owner /\ g = cur)
      <4>1. CASE pass.gen = g
        <5>1. pass' = [pass EXCEPT !.again = TRUE]
          BY <3>3, <4>1 DEF Requested
        <5>2. pass'.snap = pass.snap /\ g # 0
          BY <3>2, <5>1 DEF Passes, Gens
        <5> QED BY <2>3, <3>1, <4>1, <5>2
      <4>2. CASE pass.gen # g /\ fence = g
        <5>1. pass'.snap = x
          BY <3>3, <4>2 DEF Requested
        <5>2. g = cur /\ Owner
          BY <1>1, <4>2 DEF Life, RegsOK, Unborn, Owner, Gens
        <5> QED BY <3>1, <5>1, <5>2
      <4>3. CASE pass.gen # g /\ fence # g
        <5>1. pass' = pass
          BY <3>3, <4>3 DEF Requested
        <5> QED BY <2>3, <3>1, <5>1
      <4> QED BY <4>1, <4>2, <4>3
    <3>4. CASE pass' = pass
      BY <2>3, <3>1, <3>4 DEF Lives
    <3>5. CASE pass' = Requested(pass, g, settings[g])
      <4>1. settings[g] \in Copy
        BY <1>1
      <4> QED BY <2>3, <3>3, <3>5, <4>1 DEF Lives
    <3>6. ASSUME NEW m \in Item, "missed" \in mishaps' /\ kind # "once", m.next = now + 1,
                 pass' = Requested(pass, g, m)
          PROVE  Lives(c) \/ MovedOn(c)
      <4>1. m # Absent /\ m \in Copy
        BY AbsentAssumption DEF Copy
      <4> QED BY <3>3, <3>6, <4>1 DEF Lives, MovedOn
    <3> QED BY <2>1, <3>4, <3>5, <3>6 DEF Moves
  <2> QED BY <1>3, <2>2, <2>4, <2>5, <2>6 DEF Lives
<1>5. CASE Failed
  <2>1. /\ item' = item /\ pass' = pass /\ Head(queue).stage = "failed"
        /\ settings' = IF Head(queue).by = 0 THEN settings ELSE [settings EXCEPT ![Head(queue).by] = Head(queue).res]
    BY <1>5 DEF Detached, Failed
  <2>2. Head(queue).by # 0 => pass = NoPass
    BY <1>1, <2>1 DEF FailedOK
  <2>3. CASE OnDisk(c)'
    BY <1>1, <2>1, <2>3 DEF OnDisk, Lives
  <2>4. CASE InSettings(c)'
    <3>1. Owner /\ c = settings'[cur]
      BY <1>3, <2>4 DEF InSettings, Owner
    <3>2. CASE Head(queue).by = 0
      BY <2>1, <3>1, <3>2 DEF InSettings, Replacing, Lives
    <3>3. CASE Head(queue).by # 0
      <4>1. Head(queue).by = cur
        BY <1>1, <3>1, <3>3 DEF Life, HeadOK, Owner
      <4>2. c = Head(queue).res /\ Replacing
        BY <1>1, <2>1, <3>1, <3>3, <4>1 DEF Replacing, HeadIs, Owner, Gens
      <4> QED BY <4>2 DEF KeptBack, Lives
    <3> QED BY <3>2, <3>3
  <2>5. CASE InPass(c)'
    <3>1. pass.gen # 0 /\ c = pass.snap
      BY <2>1, <2>5 DEF InPass
    <3>2. Head(queue).by = 0
      BY <2>2, <3>1 DEF NoPass
    <3> QED BY <3>1, <3>2 DEF InPass, Replacing, Lives
  <2> QED BY <1>3, <2>1, <2>3, <2>4, <2>5 DEF Lives
<1> QED BY <1>4, <1>5

LEMMA BeginOpLives ==
    ASSUME Typed, Life, BeginOp, NEW c, Lives(c)' PROVE Lives(c) \/ c = item'
<1>1. PICK b : /\ queue # <<>> /\ Head(queue).stage = "queued" /\ Head(queue).op # "replaceAll" /\ Steady
               /\ BeginsAs(Head(queue), b) /\ queue' # <<>> /\ Head(queue') = b
  BY HeadBegins
<1>2. ~Replacing /\ ~Replacing' /\ disk' = disk
  BY <1>1 DEF Replacing, HeadIs, Begun, BeginsAs, BeginOp
<1>3. CASE settings' = settings /\ pass' = pass
  BY <1>1, <1>2, <1>3 DEF Lives, KeptBack, InSettings, InPass, OnDisk, Owner, Steady
<1>4. CASE /\ adapter # 0 /\ settings' = [settings EXCEPT ![adapter] = item']
           /\ pass' = Requested(pass, adapter, item')
  <2>1. item' \in Copy /\ settings \in [Gens -> Copy]
    BY BeginOpTyped DEF Typed, Copy
  <2>2. /\ adapter = cur /\ adapter \in Gens
        /\ \/ pass.gen = cur /\ pass'.snap = pass.snap
           \/ pass'.snap = item'
    <3>1. \/ pass.gen = cur /\ pass'.snap = pass.snap
          \/ pass' = [gen |-> cur, snap |-> item', again |-> FALSE]
      BY <1>4, <2>1, SavingPass DEF Life
    <3> QED BY <1>4, <2>1, <3>1, SavingPass DEF Life
  <2>3. settings'[cur] = item' /\ cur' = cur
    BY <1>1, <1>4, <2>1, <2>2 DEF Steady
  <2>4. adapter # 0
    BY <1>4
  <2> QED BY <1>2, <2>2, <2>3, <2>4 DEF Lives, KeptBack, InSettings, InPass, OnDisk
<1> QED BY <1>1, <1>3, <1>4 DEF BeginsAs

LEMMA BeginReplaceAllLives ==
    ASSUME Typed, Life, BeginReplaceAll, NEW c, Lives(c)' PROVE Lives(c)
<1>1. PICK b : /\ queue # <<>> /\ Head(queue).stage = "queued" /\ Head(queue).by = 0 /\ Steady
               /\ ReplacesAs(Head(queue), b) /\ queue' # <<>> /\ Head(queue') = b /\ b.stage # "queued"
               /\ Head(queue).op = "replaceAll" /\ Head(queue) \in Entry
  BY HeadReplaces
<1>2. ~Replacing /\ disk' = disk /\ item' = item
  BY <1>1 DEF Replacing, HeadIs, Begun, BeginReplaceAll
<1>3. CASE adapter = 0
  <2>1. ~Replacing' /\ settings' = settings /\ pass' = pass
    BY <1>1, <1>3 DEF ReplacesAs, Replacing
  <2> QED BY <1>1, <1>2, <2>1 DEF Lives, KeptBack, InSettings, InPass, OnDisk, Owner, Steady
<1>4. CASE adapter # 0
  <2>1. /\ settings' = [settings EXCEPT ![adapter] = Head(queue).arg] /\ pass' = Requested(pass, adapter, Head(queue).arg)
        /\ b.stage = SaveStage(pass, adapter) /\ b.by = adapter /\ b.res = settings[adapter]
        /\ b.arg = Head(queue).arg /\ b.op = "replaceAll" /\ Head(queue).arg \in Copy
    BY <1>1, <1>4 DEF ReplacesAs, Entry
  <2>2. /\ up = "loaded" /\ adapter = cur /\ fence = cur /\ cur \in Gens
        /\ \/ pass.gen = cur /\ b.stage = "next" /\ pass'.snap = pass.snap
           \/ b.stage = "this" /\ pass'.snap = Head(queue).arg
    <3>1. \/ pass.gen = cur /\ b.stage = "next" /\ pass'.snap = pass.snap
          \/ b.stage = "this" /\ pass' = [gen |-> cur, snap |-> Head(queue).arg, again |-> FALSE]
      BY <1>4, <2>1, SavingPass DEF Life
    <3> QED BY <1>4, <2>1, <3>1, SavingPass DEF Life
  <2>3. Replacing'
    BY <1>1, <1>4, <2>1 DEF Replacing, HeadIs, Begun
  <2>4. cur # 0 /\ settings'[cur] = Head(queue).arg /\ cur' = cur
    BY <1>1, <1>4, <2>1, <2>2, FromTyped DEF Steady
  <2>5. CASE KeptBack(c)'
    BY <1>1, <1>2, <2>1, <2>2, <2>4, <2>5 DEF KeptBack, InSettings, Owner, Lives
  <2>6. ~InSettings(c)'
    BY <1>1, <2>1, <2>3, <2>4 DEF InSettings
  <2>7. CASE InPass(c)'
    BY <1>1, <1>2, <2>1, <2>2, <2>3, <2>4, <2>7 DEF InPass, Lives
  <2>8. CASE OnDisk(c)'
    BY <1>2, <2>8 DEF OnDisk, Lives
  <2> QED BY <1>2, <2>5, <2>6, <2>7, <2>8 DEF Lives
<1> QED BY <1>3, <1>4

LEMMA WriteDoneLives ==
    ASSUME Typed, Life, WriteDone, "fenced" \notin mishaps', NEW c, Lives(c)' PROVE Lives(c)
<1> DEFINE more == pass.again /\ fence = pass.gen
           st == AfterWrite(more)
           b == [Head(queue) EXCEPT !.stage = st]
<1>1. /\ Quiet /\ pass.gen # 0 /\ disk' = pass.snap
      /\ pass' = IF more THEN [gen |-> pass.gen, snap |-> settings[pass.gen], again |-> FALSE] ELSE NoPass
      /\ queue' = IF ~Waiting(pass.gen) THEN queue ELSE HeadStage(st)
      /\ mishaps' = IF Waiting(pass.gen) /\ Head(queue).stage = "next" /\ ~more
                      THEN mishaps \union {"fenced"} ELSE mishaps
      /\ settings' = settings /\ item' = item /\ up' = up /\ cur' = cur /\ fence' = fence
  BY DEF WriteDone
<1>2. st \in {"this", "ok"} /\ (st = "this" <=> Head(queue).stage = "next" /\ more)
  BY DEF AfterWrite
<1>3. more => Owner /\ pass.gen = cur
  BY <1>1 DEF Life, RegsOK, PassOK, Owner
<1> HIDE DEF st, more
<1>4. CASE queue = <<>> /\ queue' = <<>>
  <2>1. ~Replacing /\ ~Replacing'
    BY <1>4 DEF Replacing, HeadIs, Begun
  <2> QED BY <1>1, <1>3, <2>1 DEF Lives, KeptBack, InSettings, InPass, OnDisk, Owner, NoPass
<1>5. CASE /\ Waits /\ Waiting(pass.gen)
           /\ b \in Entry /\ queue' = [queue EXCEPT ![1] = b] /\ b.stage = st
           /\ b.op = Head(queue).op /\ b.arg = Head(queue).arg
           /\ b.by = Head(queue).by /\ b.res = Head(queue).res
  <2> HIDE DEF b
  <2>1. queue # <<>> /\ Head(queue).stage \in {"this", "next"} /\ Begun
    BY <1>5 DEF Waits, Begun
  <2>2. Head(queue') = b /\ queue' # <<>>
    BY <1>5, <2>1, FromTyped, ChangingHead DEF QueueTyped
  <2>3. Head(queue).stage = "next" => more
    BY <1>1, <1>5
  <2>4. Begun' /\ (Replacing' <=> Replacing)
    BY <1>2, <1>5, <2>1, <2>2 DEF Begun, Replacing, HeadIs
  <2>5. CASE ~Replacing
    BY <1>1, <1>3, <2>4, <2>5 DEF Lives, KeptBack, InSettings, InPass, OnDisk, Owner, NoPass
  <2>6. CASE Replacing
    <3>1. CASE KeptBack(c)' \/ InSettings(c)' \/ c = item'
      BY <1>1, <1>5, <2>2, <2>4, <3>1 DEF Lives, KeptBack, InSettings, Owner
    <3>2. CASE InPass(c)'
      <4>1. more /\ c = settings[cur] /\ c # Head(queue).arg
        BY <1>1, <1>2, <1>3, <1>5, <2>2, <2>4, <2>6, <3>2 DEF InPass, NoPass
      <4> QED BY <1>3, <4>1 DEF InSettings, Lives
    <3>3. CASE OnDisk(c)'
      <4>1. c = pass.snap /\ ~(st = "ok" /\ c = Head(queue).arg)
        BY <1>1, <1>5, <2>2, <2>4, <2>6, <3>3 DEF OnDisk
      <4>2. Head(queue).stage # "next" => st = "ok"
        BY <1>2
      <4> QED BY <1>1, <4>1, <4>2 DEF InPass, Lives
    <3> QED BY <3>1, <3>2, <3>3 DEF Lives
  <2> QED BY <2>5, <2>6
<1>6. st \in Stages
  BY <1>2 DEF Stages
<1> QED BY <1>1, <1>4, <1>5, <1>6, WriteEnds

LEMMA WriteFailsLives ==
    ASSUME Typed, Life, WriteFails, NEW c, Lives(c)' PROVE Lives(c)
<1> DEFINE b == [Head(queue) EXCEPT !.stage = "failed"]
<1>1. /\ Quiet /\ pass.gen # 0 /\ queue' = IF ~Waiting(pass.gen) THEN queue ELSE HeadStage("failed")
      /\ pass' = NoPass /\ disk' = disk /\ item' = item /\ settings' = settings
      /\ up' = up /\ cur' = cur /\ fence' = fence
  BY DEF WriteFails
<1>2. CASE queue = <<>> /\ queue' = <<>>
  <2>1. ~Replacing /\ ~Replacing'
    BY <1>2 DEF Replacing, HeadIs, Begun
  <2> QED BY <1>1, <2>1 DEF Lives, KeptBack, InSettings, InPass, OnDisk, Owner, NoPass
<1>3. CASE /\ Waits
           /\ b \in Entry /\ queue' = [queue EXCEPT ![1] = b] /\ b.stage = "failed"
           /\ b.op = Head(queue).op /\ b.arg = Head(queue).arg
           /\ b.by = Head(queue).by /\ b.res = Head(queue).res
  <2> HIDE DEF b
  <2>1. queue # <<>> /\ Head(queue).stage \in {"this", "next"} /\ Begun
    BY <1>3 DEF Waits, Begun
  <2>2. Head(queue') = b /\ queue' # <<>>
    BY <1>3, <2>1, FromTyped, ChangingHead DEF QueueTyped
  <2>3. Replacing' <=> Replacing
    BY <1>3, <2>1, <2>2 DEF Begun, Replacing, HeadIs
  <2> QED BY <1>1, <1>3, <2>1, <2>2, <2>3 DEF Lives, KeptBack, InSettings, InPass, OnDisk, Owner, NoPass
<1> QED BY <1>1, <1>2, <1>3, WriteEnds DEF Stages

LEMMA StartLives ==
    ASSUME Typed, Life, Start, NEW c, Lives(c)' PROVE c = item' \/ MovedOn(c)
<1>1. /\ cur \in Gens /\ queue' = <<>> /\ fence = cur /\ item' = disk /\ cur' = cur /\ disk' = disk
      /\ pass = NoPass /\ settings \in [Gens -> Copy]
  BY StartIs, FromTyped
<1>2. PICK a \in Copy, skip \in BOOLEAN : StartsAs(a, skip)
  BY StartIs
<1>3. a = item' \/ MovedOn(a)
  <2>1. CASE ~skip
    BY <1>1, <1>2, <2>1 DEF StartsAs
  <2>2. CASE skip
    <3>1. "missed" \in mishaps' /\ disk # Absent /\ kind # "once" /\ a = [disk EXCEPT !.next = NextRun(disk)]
      BY <1>2, <2>2 DEF StartsAs
    <3>2. disk \in Item /\ NextRun(disk) = now + 1
      BY <3>1, FromTyped DEF Copy, NextRun
    <3>3. a.next = now + 1 /\ a # Absent
      <4>1. a.next = now + 1
        BY <3>1, <3>2 DEF Item
      <4>2. NextRun(disk) \in Slots
        BY <3>1, FromTyped, NextRunTyped
      <4>3. a \in Item
        BY <3>1, <3>2, <4>2 DEF Item
      <4> QED BY <4>1, <4>3, AbsentAssumption
    <3> QED BY <3>1, <3>3 DEF MovedOn
  <2> QED BY <2>1, <2>2
<1>4. settings'[cur] = a
  BY <1>1, <1>2 DEF StartsAs
<1>5. pass' = NoPass \/ pass'.snap = a
  <2>1. pass' = pass \/ pass' = Requested(pass, cur, a)
    BY <1>2 DEF StartsAs
  <2>2. pass.gen # cur /\ cur # 0
    BY <1>1 DEF NoPass, Gens
  <2> QED BY <1>1, <2>1, <2>2 DEF Requested
<1>6. ~Replacing'
  BY <1>1 DEF Replacing, HeadIs, Begun
<1> QED BY <1>1, <1>3, <1>4, <1>5, <1>6 DEF Lives, KeptBack, InSettings, InPass, OnDisk, NoPass

LEMMA LivesStep ==
    ASSUME Typed, Life, FailedOK, [Next]_vars, mishaps' \cap {"late", "fenced"} = {}, NEW c, Lives(c)'
    PROVE  Lives(c) \/ c = item' \/ MovedOn(c)
<1>1. "late" \notin mishaps' /\ "fenced" \notin mishaps'
  OBVIOUS
<1>2. CASE UNCHANGED vars \/ Tick
  BY <1>2 DEF vars, Tick, Lives, KeptBack, InSettings, InPass, OnDisk, Owner, Replacing, HeadIs, Begun
<1>3. CASE Unload
  <2>1. /\ up = "loaded" /\ item' = Absent /\ cur' = cur /\ fence' = fence /\ pass' = pass /\ queue' = queue
        /\ settings' = settings /\ disk' = disk
    BY <1>3, UnloadIs DEF Life, Unload
  <2> QED BY <2>1 DEF Lives, KeptBack, InSettings, InPass, OnDisk, Owner, Replacing, HeadIs, Begun
<1>4. CASE ClaimFence
  BY <1>4 DEF ClaimFence, Lives, KeptBack, InSettings, InPass, OnDisk, Owner, Replacing, HeadIs, Begun
<1>5. CASE Crash
  <2>1. /\ Quiet /\ item' = Absent /\ disk' = disk /\ fence' = 0 /\ pass' = NoPass /\ queue' = <<>>
    BY <1>5 DEF Crash
  <2>2. ~(Replacing /\ Head(queue).stage = "ok")
    BY <2>1 DEF Quiet, Replacing, HeadIs, Begun
  <2> QED BY <2>1, <2>2 DEF Lives, KeptBack, InSettings, InPass, OnDisk, Owner, Replacing, HeadIs, Begun, NoPass
<1>6. CASE WriteDone \/ WriteFails \/ Start \/ BeginOp \/ BeginReplaceAll
  BY <1>1, <1>6, WriteDoneLives, WriteFailsLives, StartLives, BeginOpLives, BeginReplaceAllLives
<1>7. ASSUME NEW g \in Gens, FlowOf(g), Detached(g) \/ Moves(g) PROVE Lives(c) \/ c = item' \/ MovedOn(c)
  BY <1>7, FlowLives, DetachedLives
<1> QED BY <1>1, <1>2, <1>3, <1>4, <1>5, <1>6, <1>7, FlowKinds DEF StepAlone

-----------------------------------------------------------------------------
(* The claim a run goes ahead under is in every copy, the file included.     *)

\* The fire() of g holds a claim and has not sent yet.
Going(g) == fire[g].at \in {"gate", "authorize"}

InForce == item # Absent /\ \E g \in Gens : Going(g) /\ fire[g].tok = item.tok

Durable == InForce => \A c : Lives(c) => c # Absent /\ c.tok = item.tok

\* A fire() begins to hold a claim only when it is told of it.
LEMMA GoingBefore ==
    ASSUME Typed, NEW g \in Gens, FlowOf(g), ~Claims(g), NEW h \in Gens, Going(h)'
    PROVE  Going(h) /\ fire'[h].tok = fire[h].tok /\ fire'[h].due = fire[h].due
<1>1. CASE Ends(g) \/ Hands(g) \/ Sends(g) \/ Wakes(g)
  BY <1>1 DEF Ends, Hands, Sends, Wakes, FireBecomes, Going
<1>2. CASE Proceeds(g)
  <2>1. PICK n \in {"authorize", "finalize"} :
          /\ fire[g].at = "gate" \/ (fire[g].at = "sending" /\ n = "finalize")
          /\ FireBecomes(g, n, fire[g].due, fire[g].tok)
    BY <1>2 DEF Proceeds
  <2> QED BY <2>1 DEF FireBecomes, Going
<1>3. CASE Informs(g) \/ Detached(g) \/ Asks(g) \/ Rests(g)
  <2>1. fire' = fire
    BY <1>3 DEF Informs, Detached, Asks, Rests
  <2> QED BY <2>1 DEF Going
<1> QED BY <1>1, <1>2, <1>3 DEF FlowOf

\* What the beginning of an operation may make of the item.
LEMMA BeginOpItem ==
    ASSUME Typed, Life, BeginOp
    PROVE  LET q == Head(queue) IN
           /\ queue # <<>> /\ q \in Entry
           /\ \/ item' = item /\ claims' = claims
              \/ /\ Granting(q) /\ item # Absent /\ claims' = claims + 1 /\ item' \in Item
                 /\ item' = ClaimedItem /\ item'.tok = claims + 1 /\ item'.on = item.on /\ item'.next = ClaimedNext(item)
                 /\ item'.rev = item.rev + 1 /\ item'.crev = item'.rev
              \/ /\ Releasing(q) /\ item # Absent /\ claims' = claims /\ item' \in Item
                 /\ item'.tok = 0 /\ item'.crev = 0 /\ item'.on = item.on /\ item'.next = item.next
                 /\ item'.rev = item.rev + 1
              \/ Removing(q) /\ item' = Absent /\ claims' = claims
              \/ /\ q.op = "update" /\ item # Absent /\ claims' = claims /\ item' \in Item
                 /\ item'.tok = item.tok /\ item'.crev = item.crev /\ item'.rev = item.rev + 1
                 /\ q.patch = "off" => ~item'.on
                 /\ q.patch = "on" => item'.on
                 /\ q.patch \in {"skip", "prompt", "none"} => item'.on = item.on
                 /\ item'.next = PatchedNext(item, q.patch)
              \/ q.op = "create" /\ item' = q.arg /\ claims' = claims
<1>1. PICK b : queue # <<>> /\ Head(queue) \in Entry /\ BeginsAs(Head(queue), b)
  BY HeadBegins
<1> DEFINE q == Head(queue)
<1>2. CASE Throws(q)
  BY <1>1, <1>2 DEF BeginsAs, Throws, Granting
<1>3. CASE ~Throws(q)
  <2>1. /\ Returns(q, [to |-> item', save |-> Saving(q), yes |-> b.yes, res |-> b.res])
        /\ claims' = IF Granting(q) THEN claims + 1 ELSE claims
    BY <1>1, <1>3 DEF BeginsAs
  <2>2. CASE Granting(q)
    <3>1. item # Absent /\ item' = ClaimedItem /\ claims' = claims + 1
      BY <2>1, <2>2 DEF Returns
    <3> QED BY <1>1, <2>2, <3>1, ClaimedItemFields
  <2>3. CASE Releasing(q)
    <3>1. item # Absent /\ item' = Unclaimed(item) /\ claims' = claims
      BY <2>1, <2>3 DEF Returns, Releasing, Granting
    <3> QED BY <1>1, <2>3, <3>1, UnclaimedFields
  <2>4. CASE Removing(q)
    BY <1>1, <2>1, <2>4 DEF Returns, Removing, Granting
  <2>5. CASE q.op = "update"
    <3>1. item # Absent /\ item' = UpdatedItem(q) /\ claims' = claims
      BY <2>1, <2>5 DEF Returns, Granting
    <3> QED BY <1>1, <2>5, <3>1, UpdatedItemFields
  <2>6. CASE q.op = "create"
    BY <1>1, <2>1, <2>6 DEF Returns, Granting
  <2>7. CASE ~Saving(q)
    BY <1>1, <2>1, <2>7 DEF Returns, Saving
  <2> QED BY <2>2, <2>3, <2>4, <2>5, <2>6, <2>7 DEF Saving
<1> QED BY <1>2, <1>3

\* Nothing that carries another claim is added.
LEMMA DurableKeeps ==
    ASSUME Durable, \A c : Lives(c)' => Lives(c) \/ c = item',
           InForce' => InForce /\ item'.tok = item.tok /\ item' # Absent
    PROVE  Durable'
BY DEF Durable

\* A claim that is granted is in every copy when the fire() is told of it.
LEMMA ClaimsDurable ==
    ASSUME Typed, Life, Saved, Tokens, NEW g \in Gens, Claims(g), \A c : Lives(c)' => Lives(c) \/ c = item'
    PROVE  Durable'
<1> DEFINE r == Head(queue).res
<1>1. /\ HeadIs("claim") /\ Head(queue).op = "claim" /\ Head(queue).stage = "ok" /\ Saves(Head(queue))
      /\ item' = item /\ ~Replacing /\ Begun
      /\ FireBecomes(g, "gate", fire[g].due, r.tok) /\ r # Absent
  <2>1. r # Absent
    BY DEF Claims, Continues, Tokens, Pending, HeadIs
  <2> QED BY <2>1 DEF Claims, Continues, HeadIs, Saves, Replacing
<1>2. /\ Head(queue).by # 0 /\ settings[Head(queue).by] = r
      /\ pass.gen # 0 => pass.snap = r
      /\ disk = r /\ item \in {Absent, r}
  BY <1>1 DEF Saved, SavedAs, Target
<1>3. Owner => Head(queue).by = cur
  BY <1>1, <1>2 DEF Life, HeadOK, Owner
<1>4. \A c : Lives(c) => c \in {item, r}
  BY <1>1, <1>2, <1>3 DEF Lives, KeptBack, InSettings, InPass, OnDisk
<1>5. InForce' => item = r
  BY <1>1, <1>2 DEF InForce
<1>6. item' # Absent => \A c : Lives(c)' => c = r /\ item' = r
  BY <1>1, <1>2, <1>4
<1> QED BY <1>1, <1>6 DEF Durable, InForce

LEMMA BeginOpDurable ==
    ASSUME Typed, Life, Worded, Tokens, Durable, BeginOp PROVE Durable'
<1>1. \A c : Lives(c)' => Lives(c) \/ c = item'
  BY BeginOpLives
<1>2. fire' = fire
  BY DEF BeginOp
<1>3. \A g \in Gens : fire[g].tok \in Nat /\ fire[g].tok <= claims /\ (Going(g) => fire[g].tok > 0)
  BY FireFields DEF Tokens, Going, ActivePoints
<1>4. claims \in Nat
  BY DEF Typed
<1>5. CASE item' = item
  BY <1>1, <1>2, <1>5, DurableKeeps DEF InForce, Going
<1>6. CASE item' # Absent /\ item'.tok = claims + 1
  <2>1. ~InForce'
    <3>1. \A g \in Gens : fire[g].tok # claims + 1
      BY <1>3, <1>4
    <3> QED BY <1>2, <1>6, <3>1 DEF InForce
  <2> QED BY <2>1 DEF Durable
<1>7. CASE item' = Absent \/ item'.tok = 0
  <2>1. ~InForce'
    BY <1>2, <1>3, <1>7 DEF InForce, Going
  <2> QED BY <2>1 DEF Durable
<1>8. CASE item # Absent /\ item' \in Item /\ item'.tok = item.tok
  <2>1. item' # Absent
    BY <1>8, AbsentAssumption
  <2> QED BY <1>1, <1>2, <1>8, <2>1, DurableKeeps DEF InForce, Going
<1>9. CASE Head(queue).op = "create" /\ item' = Head(queue).arg /\ queue # <<>>
  <2>1. Len(queue) \in Nat \ {0} /\ Head(queue) = queue[1]
    BY <1>9, FromTyped, Taking DEF QueueTyped
  <2>2. 1 \in 1 .. Len(queue)
    BY <2>1
  <2>3. item'.tok = 0
    BY <1>9, <2>1, <2>2 DEF Worded
  <2> QED BY <1>7, <2>3
<1>10. Typed' /\ (item' \in Item => item' # Absent)
  BY BeginOpTyped, AbsentAssumption
<1> QED BY <1>5, <1>6, <1>7, <1>8, <1>9, <1>10, BeginOpItem

LEMMA DetachedDurable ==
    ASSUME Typed, Life, Saved, FailedOK, Durable, NEW g \in Gens, Detached(g), "missed" \notin mishaps'
    PROVE  Durable'
<1>1. /\ Steady /\ Pops(g) /\ ~Unborn(g) /\ disk' = disk /\ Begun /\ Head(queue).op = "replaceAll"
      /\ Settled(Head(queue).stage) /\ fire' = fire
  BY DetachedIs DEF Detached, Answers
<1>2. CASE Failed
  <2>1. item' = item
    BY <1>2 DEF Detached
  <2>2. \A c : Lives(c)' => Lives(c) \/ c = item'
    BY DetachedLives DEF MovedOn
  <2> QED BY <1>1, <2>1, <2>2, DurableKeeps DEF InForce, Going
<1>3. CASE ~Failed
  <2>1. /\ item' = Head(queue).arg /\ settings' = settings /\ pass' = pass /\ Head(queue).stage = "ok"
    BY <1>1, <1>3, ArmingUnlessMissed DEF Detached, Failed, Settled
  <2>2. SavedAs(Head(queue), Head(queue).arg)
    BY <1>1, <2>1 DEF Saved, HeadIs, Saves, Target
  <2>3. /\ Head(queue).by # 0 /\ settings[Head(queue).by] = item' /\ disk = item'
        /\ pass.gen # 0 => pass.snap = item'
    BY <2>1, <2>2 DEF SavedAs
  <2>4. Owner' => Head(queue).by = cur /\ cur' = cur
    BY <1>1, <2>3 DEF Life, HeadOK, Owner, Steady
  <2>5. ~Replacing'
    BY <1>1, PoppingQueue DEF Life, Replacing, HeadIs
  <2>6. \A c : Lives(c)' => c = item'
    BY <1>1, <2>1, <2>3, <2>4, <2>5 DEF Lives, KeptBack, InSettings, InPass, OnDisk
  <2> QED BY <2>6 DEF Durable, InForce
<1> QED BY <1>2, <1>3

LEMMA DurableStep ==
    ASSUME Typed, Life, Saved, Worded, FailedOK, Tokens, Durable, [Next]_vars, Unlost' PROVE Durable'
<1>1. mishaps' \cap {"late", "fenced"} = {} /\ "late" \notin mishaps' /\ "missed" \notin mishaps'
  BY DEF Unlost, Except
<1>2. \A c : Lives(c)' => Lives(c) \/ c = item'
  BY <1>1, LivesStep DEF MovedOn
<1>3. CASE item' = item /\ fire' = fire
  BY <1>2, <1>3, DurableKeeps DEF InForce, Going
<1>4. CASE UNCHANGED vars
  BY <1>3, <1>4 DEF vars
<1>5. CASE WriteDone \/ WriteFails \/ ClaimFence \/ Tick
  BY <1>3, <1>5 DEF WriteDone, WriteFails, ClaimFence, Tick
<1>6. CASE Unload \/ Crash
  <2>1. item' = Absent
    BY <1>6, UnloadIs DEF Life, Crash
  <2> QED BY <2>1 DEF Durable, InForce
<1>7. CASE Start
  <2>1. \A c : Lives(c)' => c = item'
    BY <1>1, <1>7, StartLives DEF MovedOn
  <2> QED BY <2>1 DEF Durable, InForce
<1>8. CASE BeginReplaceAll
  BY <1>3, <1>8 DEF BeginReplaceAll
<1>9. ASSUME NEW g \in Gens, FlowOf(g) PROVE Durable'
  <2>1. CASE Detached(g)
    BY <1>1, <2>1, DetachedDurable
  <2>2. CASE Claims(g)
    BY <1>2, <2>2, ClaimsDurable
  <2>3. CASE ~Detached(g) /\ ~Claims(g)
    <3>1. item' = item
      BY <1>9, <2>3 DEF FlowOf, Ends, Hands, Sends, Informs, Wakes, Proceeds, Asks, Rests, Stays,
         Continues, Enqueues, Happens
    <3>2. InForce' => InForce
      BY <1>9, <2>3, <3>1, GoingBefore DEF InForce
    <3> QED BY <1>2, <3>1, <3>2, DurableKeeps DEF InForce
  <2> QED BY <2>1, <2>2, <2>3
<1> QED BY <1>1, <1>4, <1>5, <1>6, <1>7, <1>8, <1>9, BeginOpDurable, FlowKinds DEF StepAlone

LEMMA InitDurable == ASSUME Init PROVE Durable
BY DEF Init, Durable, InForce

\* Work is dispatched by one kind of step only.
LEMMA RanChanges == ASSUME [Next]_vars, ran' # ran PROVE \E g \in Gens : Dispatch(g)
<1>1. CASE Microtask
  <2>1. CASE BeginOp \/ BeginReplaceAll
    BY <2>1 DEF BeginOp, BeginReplaceAll
  <2>2. ASSUME NEW g \in Gens, Claimed(g) \/ ClaimRefused(g) \/ FireFails(g) \/ Skipped(g) \/ AuthorizeRefused(g)
        PROVE  FALSE
    BY <2>2 DEF Claimed, ClaimRefused, FireFails, Skipped, AuthorizeRefused
  <2>3. ASSUME NEW g \in Gens, \/ Abandoned(g) \/ AbandonFails(g) \/ Finalized(g) \/ FinalizeFails(g)
                               \/ Edited(g) \/ Deleted(g) \/ Created(g) \/ Detached(g)
        PROVE  FALSE
    BY <2>3 DEF Abandoned, AbandonFails, Finalized, FinalizeFails, Edited, Deleted, Created, Detached
  <2> QED BY <1>1, <2>1, <2>2, <2>3 DEF Microtask
<1>2. CASE Event
  <2>1. CASE WriteDone \/ WriteFails \/ Unload \/ ClaimFence \/ Start \/ Crash \/ Tick
    BY <2>1 DEF WriteDone, WriteFails, Unload, ClaimFence, Start, Crash, Tick
  <2>2. ASSUME NEW g \in Gens, OtherSave(g) \/ Wake(g) \/ WakeSkips(g) \/ WakeWhileFiring(g) \/ Missed(g)
                                \/ GateEnds(g) \/ SendEnds(g)
        PROVE  FALSE
    BY <2>2 DEF OtherSave, Wake, WakeSkips, WakeWhileFiring, Missed, GateEnds, SendEnds
  <2>3. ASSUME NEW g \in Gens, Edit(g) \/ Delete(g) \/ Create(g) \/ Detach(g) PROVE FALSE
    BY <2>3 DEF Edit, Delete, Create, Detach
  <2> QED BY <1>2, <2>1, <2>2, <2>3 DEF Event
<1> QED BY <1>1, <1>2 DEF Next, vars

\* What is known of the operations as long as no destroyed scheduler takes a tool call.
Orderly == Life /\ Matched /\ Worded /\ AuthorizedOK /\ FailedOK /\ DueOK /\ Tokens
OrderlyInv == "late" \notin mishaps => Orderly

LEMMA InitOrderly == ASSUME Init PROVE OrderlyInv
BY InitLife, InitMatched, InitWorded, InitFlow, InitTokens DEF OrderlyInv, Orderly

LEMMA OrderlyStep == ASSUME Typed, OrderlyInv, [Next]_vars PROVE OrderlyInv'
<1>1. SUFFICES ASSUME "late" \notin mishaps' PROVE Orderly'
  BY DEF OrderlyInv
<1>2. "late" \notin mishaps
  BY <1>1, MishapsGrow
<1>3. Life /\ Matched /\ Worded /\ AuthorizedOK /\ FailedOK /\ DueOK /\ Tokens
  BY <1>2 DEF OrderlyInv, Orderly
<1> QED BY <1>1, <1>3, LifeStep, MatchedStep, WordedStep, AuthorizedStep, FailedStep, DueStep, TokensStep DEF Orderly

DurableInv == Unlost => Saved /\ Durable

LEMMA DurableInvStep == ASSUME Typed, OrderlyInv, DurableInv, [Next]_vars PROVE DurableInv'
<1>1. SUFFICES ASSUME Unlost' PROVE Saved' /\ Durable'
  BY DEF DurableInv
<1>2. Unlost /\ "late" \notin mishaps
  <2>1. mishaps \subseteq mishaps'
    BY MishapsGrow
  <2> QED BY <1>1, <2>1 DEF Unlost, Except
<1>3. Saved /\ Durable /\ Life /\ Worded /\ FailedOK /\ Tokens
  BY <1>2 DEF DurableInv, OrderlyInv, Orderly
<1> QED BY <1>1, <1>3, SavedStep, DurableStep

\* A run that is dispatched has its claim in force.
LEMMA DispatchInForce ==
    ASSUME Typed, Matched, AuthorizedOK, NEW g \in Gens, Dispatch(g)
    PROVE  /\ ~Replacing /\ item # Absent /\ item.on /\ item.crev = item.rev
           /\ fire[g].at = "authorize" /\ fire[g].tok = item.tok /\ Going(g) /\ InForce
           /\ item' = item /\ mishaps' = mishaps /\ off' = off /\ disk' = disk
           /\ ran' = [ran EXCEPT ![fire[g].due] = IF @ = 0 THEN 1 ELSE 2]
<1>1. /\ queue # <<>> /\ Settled(Head(queue).stage) /\ Head(queue).op = "authorize" /\ Head(queue).gen = g
      /\ Head(queue).yes
  BY DEF Dispatch, Answers
<1>2. HeadIs("authorize") /\ ~Replacing
  BY <1>1 DEF HeadIs, Begun, Settled, Replacing
<1>3. item # Absent /\ item.tok = Head(queue).tok /\ item.on /\ item.crev = item.rev
  BY <1>1, <1>2 DEF AuthorizedOK, Authorized, Holds
<1>4. fire[g].at = "authorize" /\ fire[g].tok = Head(queue).tok
  BY <1>1, HeadFits DEF OfFire, FireOps, Fits
<1> QED BY <1>2, <1>3, <1>4 DEF Going, InForce, Dispatch

LEMMA DurableBeforeDispatchStep ==
    ASSUME Typed, OrderlyInv, DurableInv, [Next]_vars
    PROVE  ran' # ran /\ Except({"late", "missed", "fenced"}) => disk # Absent /\ disk.tok = item.tok
<1> SUFFICES ASSUME ran' # ran, Except({"late", "missed", "fenced"}) PROVE disk # Absent /\ disk.tok = item.tok
  OBVIOUS
<1>1. Unlost /\ "late" \notin mishaps
  BY DEF Unlost, Except
<1>2. Durable /\ Matched /\ AuthorizedOK
  BY <1>1 DEF DurableInv, OrderlyInv, Orderly
<1>3. ~Replacing /\ InForce
  BY <1>2, RanChanges, DispatchInForce
<1>4. Lives(disk)
  BY <1>3 DEF Lives, OnDisk
<1> QED BY <1>2, <1>3, <1>4 DEF Durable

\* "The claim is durable before a gate, thread creation, or send begins": DurableBeforeDispatch holds of
\* every step that dispatches work, with any number of generations, edits, reloads and failed writes.
THEOREM ClaimIsDurable == Spec => DurableBeforeDispatch
<1>1. Init => Typed /\ OrderlyInv /\ DurableInv
  BY InitTyped, InitOrderly, InitSaved, InitDurable DEF DurableInv
<1>2. Typed /\ OrderlyInv /\ DurableInv /\ [Next]_vars => (Typed /\ OrderlyInv /\ DurableInv)'
  BY TypedStep, OrderlyStep, DurableInvStep
<1>3. Typed /\ OrderlyInv /\ DurableInv /\ [Next]_vars
        => [ran' # ran /\ Except({"late", "missed", "fenced"}) => disk # Absent /\ disk.tok = item.tok]_vars
  BY DurableBeforeDispatchStep
<1> QED BY <1>1, <1>2, <1>3, PTL DEF Spec, DurableBeforeDispatch

-----------------------------------------------------------------------------
(* Before the item is created, and while its creation is under way.          *)

Plain == Except({"late", "replaced", "fenced"})

NothingRan == \A d \in Slots : ran[d] = 0
NothingFires == \A g \in Gens : fire[g].at = "idle"

\* There is no item yet.
Blank == off = "new" => /\ \A c : Lives(c) => c = Absent
                        /\ queue = <<>> /\ NothingRan /\ NothingFires
                        /\ \A g \in Gens : local[g] = Absent
                        /\ "missed" \notin mishaps

\* An item is created at once, before anything else is asked of it.
Creating == /\ \A i \in 1 .. Len(queue) : queue[i].op = "create" => i = 1
            /\ queue # <<>> /\ Head(queue).op = "create" /\ Head(queue).stage = "queued"
                 => up = "loaded" /\ off = "on" /\ NothingRan /\ NothingFires

\* The coordinator holds no item while no scheduler is registered.
Resting == up # "loaded" => item = Absent

LEMMA PlainIs == ASSUME Plain' PROVE mishaps' \cap {"late", "fenced"} = {} /\ "late" \notin mishaps'
                                      /\ "fenced" \notin mishaps' /\ "replaced" \notin mishaps'
BY DEF Plain, Except

\* The event of a plugin that has no item yet.
LEMMA BlankEvent ==
    ASSUME Typed, Life, Blank, off = "new", [Next]_vars
    PROVE  /\ queue' = <<>> /\ ran' = ran /\ ("missed" \in mishaps' => "missed" \in mishaps)
           /\ item' = Absent
           /\ NothingFires'
           /\ off' = "new" => \A g \in Gens : local'[g] = Absent
           /\ off' = "on" \/ off' = off
        \/ \E g \in Gens : Create(g)
<1>1. /\ queue = <<>> /\ item = Absent /\ disk = Absent /\ local \in [Gens -> Copy]
      /\ \A g \in Gens : local[g] = Absent /\ fire[g].at = "idle"
  BY FromTyped DEF Blank, Lives, OnDisk, NothingFires, Replacing, HeadIs, Begun
<1>2. CASE UNCHANGED vars
  BY <1>1, <1>2 DEF vars, NothingFires
<1>3. ~Microtask
  BY <1>1 DEF Microtask, BeginOp, BeginReplaceAll, Claimed, ClaimRefused, FireFails, Skipped, Dispatch, AuthorizeRefused,
     Abandoned, AbandonFails, Finalized, FinalizeFails, Edited, Deleted, Created, Detached, Answers
<1>4. CASE WriteDone \/ WriteFails
  <2>1. ~Waiting(pass.gen)
    BY <1>1 DEF Waiting, Running
  <2>2. CASE WriteDone
    BY <1>1, <2>1, <2>2 DEF WriteDone, NothingFires
  <2>3. CASE WriteFails
    BY <1>1, <2>1, <2>3 DEF WriteFails, NothingFires
  <2> QED BY <1>4, <2>2, <2>3
<1>5. CASE Unload
  <2>1. item' = Absent /\ queue' = queue /\ ran' = ran /\ off' = off /\ fire' = fire /\ local' = local
        /\ mishaps' = IF fire[cur].at = "idle" THEN mishaps ELSE mishaps \union {"unload"}
    BY <1>5, UnloadIs DEF Life, Unload
  <2> QED BY <1>1, <1>5, <2>1 DEF NothingFires
<1>6. CASE ClaimFence \/ Tick
  BY <1>1, <1>6 DEF ClaimFence, Tick, NothingFires
<1>7. CASE Start
  <2>1. PICK a \in Copy, skip \in BOOLEAN : StartsAs(a, skip)
    BY <1>7, StartIs
  <2>2. ~skip /\ a = Absent
    BY <1>1, <2>1 DEF StartsAs
  <2>3. mishaps' = mishaps /\ local' = [local EXCEPT ![cur] = Absent] /\ item' = Absent
    BY <1>1, <1>7, <2>1, <2>2, StartIs DEF StartsAs
  <2>4. queue' = queue /\ ran' = ran /\ off' = off /\ fire' = fire
    BY <1>7 DEF Start
  <2> QED BY <1>1, <2>3, <2>4 DEF NothingFires
<1>8. CASE Crash
  BY <1>1, <1>8, IdleFields DEF Crash, NothingFires, NoFire, NoItems
<1>9. ASSUME NEW g \in Gens, OtherSave(g)
      PROVE  /\ queue' = <<>> /\ ran' = ran /\ ("missed" \in mishaps' => "missed" \in mishaps)
             /\ item' = Absent /\ NothingFires' /\ \A h \in Gens : local'[h] = Absent
             /\ off' = off
  BY <1>1, <1>9 DEF OtherSave, NothingFires
<1>10. ASSUME NEW g \in Gens, \/ Wake(g) \/ WakeSkips(g) \/ WakeWhileFiring(g) \/ Missed(g)
                              \/ GateEnds(g) \/ SendEnds(g) \/ Edit(g) \/ Delete(g)
       PROVE  FALSE
  BY <1>1, <1>10 DEF Wake, WakeSkips, WakeWhileFiring, Missed, GateEnds, SendEnds, Edit, Delete, Due
<1>11. ASSUME NEW g \in Gens, Detach(g) PROVE FALSE
  BY <1>11 DEF Detach
<1> QED BY <1>1, <1>2, <1>3, <1>4, <1>5, <1>6, <1>7, <1>8, <1>9, <1>10, <1>11 DEF Next, Event

LEMMA OffIsNotNew ==
    ASSUME Typed, Life, [Next]_vars, "late" \notin mishaps'
    PROVE  off' = off \/ off' \in {"on", "disabled", "deleted"}
<1>1. CASE UNCHANGED vars
  BY <1>1 DEF vars
<1>2. ASSUME NEW g \in Gens, FlowOf(g) PROVE off' = off \/ off' \in {"on", "disabled", "deleted"}
  <2>1. CASE Ends(g) \/ Hands(g) \/ Claims(g) \/ Sends(g) \/ Detached(g) \/ Wakes(g) \/ Proceeds(g) \/ Rests(g)
    BY <2>1 DEF Ends, Hands, Claims, Sends, Detached, Wakes, Proceeds, Rests
  <2>2. CASE Informs(g)
    BY <2>2 DEF Informs, Edited, Deleted, Created
  <2>3. CASE Asks(g)
    BY <2>3 DEF Asks, Asked
  <2> QED BY <1>2, <2>1, <2>2, <2>3 DEF FlowOf
<1> QED BY <1>1, <1>2, FlowKinds, AloneFire

LEMMA BlankStep ==
    ASSUME Typed, Life, FailedOK, Blank, [Next]_vars, Plain' PROVE Blank'
<1> SUFFICES ASSUME off' = "new"
             PROVE  /\ \A c : Lives(c)' => c = Absent
                    /\ queue' = <<>> /\ NothingRan' /\ NothingFires'
                    /\ \A g \in Gens : local'[g] = Absent
                    /\ "missed" \notin mishaps'
  BY DEF Blank
<1>1. off = "new"
  BY PlainIs, OffIsNotNew
<1>2. ~\E g \in Gens : Create(g)
  BY DEF Create
<1>3. /\ queue' = <<>> /\ ran' = ran /\ ("missed" \in mishaps' => "missed" \in mishaps) /\ item' = Absent
      /\ NothingFires'
      /\ \A g \in Gens : local'[g] = Absent
  BY <1>1, <1>2, BlankEvent
<1>4. "missed" \notin mishaps' /\ NothingRan'
  BY <1>1, <1>3 DEF Blank, NothingRan
<1>5. ASSUME NEW c, Lives(c)' PROVE c = Absent
  <2>1. Lives(c) \/ c = item' \/ MovedOn(c)
    BY <1>5, PlainIs, LivesStep
  <2> QED BY <1>1, <1>3, <1>4, <2>1 DEF Blank, MovedOn
<1> QED BY <1>3, <1>4, <1>5

\* A creation that has not begun was asked for by this very step.
LEMMA CreateIsNew ==
    ASSUME Typed, Life, Creating, [Next]_vars, "late" \notin mishaps', off # "new",
           queue' # <<>>, Head(queue').op = "create", Head(queue').stage = "queued"
    PROVE  UNCHANGED vars
<1>1. \A i \in 1 .. Len(queue) : queue[i].op = "create" => i = 1
  BY DEF Creating
<1>2. ~Begun'
  BY DEF Begun
<1>3. ASSUME queue # <<>>, queue' = Tail(queue) PROVE FALSE
  <2>1. Len(queue) \in Nat /\ Len(queue) > 1 /\ Head(queue') = queue[2]
    BY <1>3, FromTyped, Taking DEF QueueTyped
  <2>2. 2 \in 1 .. Len(queue)
    BY <2>1
  <2> QED BY <1>1, <2>1, <2>2
<1>4. ASSUME NEW q \in Entry, q.op # "create", queue # <<>>, queue' = Append(Tail(queue), q) PROVE FALSE
  <2>1. /\ Tail(queue) \in Seq(Entry) /\ Len(queue) \in Nat
        /\ Tail(queue) # <<>> => Head(Tail(queue)) = queue[2] /\ Len(queue) > 1
    BY <1>4, FromTyped, Taking DEF QueueTyped
  <2>2. Head(queue') = IF Tail(queue) = <<>> THEN q ELSE Head(Tail(queue))
    <3> DEFINE s == Tail(queue)
    <3>1. s \in Seq(Entry) /\ q \in Entry /\ queue' = Append(s, q)
      BY <1>4, <2>1
    <3> HIDE DEF s
    <3>2. Head(Append(s, q)) = IF s = <<>> THEN q ELSE Head(s)
      BY <3>1, Appending
    <3> QED BY <3>1, <3>2 DEF s
  <2>3. CASE Tail(queue) = <<>>
    BY <1>4, <2>2, <2>3
  <2>4. CASE Tail(queue) # <<>>
    <3>1. Head(queue') = queue[2] /\ 2 \in 1 .. Len(queue)
      BY <2>1, <2>2, <2>4
    <3> QED BY <1>1, <3>1
  <2> QED BY <2>3, <2>4
<1>5. ASSUME NEW q \in Entry, q.op # "create", queue' = Append(queue, q), Quiet PROVE FALSE
  <2>1. Head(queue') = IF queue = <<>> THEN q ELSE Head(queue)
    BY <1>5, FromTyped, Appending DEF QueueTyped
  <2>2. queue # <<>> => Head(queue).stage # "queued"
    BY <1>5 DEF Quiet
  <2> QED BY <1>5, <2>1, <2>2
<1>6. ASSUME NEW st \in Stages, st # "queued", Quiet, pass.gen # 0,
             queue' = IF ~Waiting(pass.gen) THEN queue ELSE HeadStage(st)
      PROVE  FALSE
  <2> DEFINE b == [Head(queue) EXCEPT !.stage = st]
  <2>1. \/ queue' = <<>>
        \/ Waits /\ b \in Entry /\ queue' = [queue EXCEPT ![1] = b] /\ b.stage = st
    BY <1>6, WriteEnds
  <2> HIDE DEF b
  <2>2. queue' # <<>> /\ queue # <<>> /\ Head(queue') = b
    BY <2>1, FromTyped, ChangingHead DEF QueueTyped, Waits, Begun
  <2> QED BY <1>6, <2>1, <2>2
<1>7. ASSUME Quiet, queue' = queue PROVE FALSE
  BY <1>7 DEF Quiet
<1>8. CASE BeginOp \/ BeginReplaceAll
  BY <1>2, <1>8, HeadBegins, HeadReplaces DEF Begun
<1>9. CASE WriteDone
  <2>1. AfterWrite(pass.again /\ fence = pass.gen) \in {"this", "ok"}
    BY DEF AfterWrite
  <2>2. /\ Quiet /\ pass.gen # 0
        /\ queue' = IF ~Waiting(pass.gen) THEN queue ELSE HeadStage(AfterWrite(pass.again /\ fence = pass.gen))
    BY <1>9 DEF WriteDone
  <2> QED BY <1>6, <2>1, <2>2 DEF Stages
<1>10. CASE WriteFails
  <2>1. Quiet /\ pass.gen # 0 /\ queue' = IF ~Waiting(pass.gen) THEN queue ELSE HeadStage("failed")
    BY <1>10 DEF WriteFails
  <2> QED BY <1>6, <2>1 DEF Stages
<1>11. CASE Unload \/ ClaimFence \/ Start \/ Tick \/ Crash
  BY <1>7, <1>11 DEF Unload, ClaimFence, Start, Tick, Crash
<1>12. ASSUME NEW g \in Gens, FlowOf(g) PROVE FALSE
  <2>1. CASE Ends(g) \/ Claims(g) \/ Sends(g) \/ Informs(g) \/ Detached(g)
    <3>1. queue # <<>> /\ queue' = Tail(queue)
      BY <2>1 DEF Ends, Claims, Sends, Informs, Detached, Continues, Answers, Pop
    <3> QED BY <1>3, <3>1
  <2>2. CASE Hands(g)
    <3>1. PICK n \in {"abandon", "finalize"}, q \in Entry : Queued(q, n, g) /\ queue' = Append(Tail(queue), q)
      BY <2>2 DEF Hands
    <3>2. q.op # "create" /\ queue # <<>>
      BY <2>2, <3>1 DEF Queued, Hands, Continues
    <3> QED BY <1>4, <3>1, <3>2
  <2>3. CASE Wakes(g)
    <3>1. PICK n \in {"claim", "skip"}, due \in Slots, q \in Entry :
             OfFire(q) /\ q.op = (IF n = "claim" THEN "claim" ELSE "update") /\ queue' = Append(queue, q)
      BY <2>3 DEF Wakes
    <3>2. Quiet /\ q.op # "create"
      BY <2>3, <3>1 DEF Wakes, Enqueues, Happens
    <3> QED BY <1>5, <3>1, <3>2
  <2>4. CASE Proceeds(g)
    <3>1. PICK n \in {"authorize", "finalize"}, q \in Entry : Queued(q, n, g) /\ queue' = Append(queue, q)
      BY <2>4 DEF Proceeds
    <3>2. Quiet /\ q.op # "create"
      BY <2>4, <3>1 DEF Proceeds, Enqueues, Happens, Queued
    <3> QED BY <1>5, <3>1, <3>2
  <2>5. CASE Asks(g)
    <3>1. PICK q \in Entry : Asked(q) /\ queue' = Append(queue, q)
      BY <2>5 DEF Asks
    <3>2. Quiet /\ q.op # "create"
      BY <2>5, <3>1 DEF Asks, Enqueues, Happens, Asked
    <3> QED BY <1>5, <3>1, <3>2
  <2>6. CASE Rests(g)
    BY <1>7, <2>6 DEF Rests, Stays, Happens
  <2> QED BY <1>12, <2>1, <2>2, <2>3, <2>4, <2>5, <2>6 DEF FlowOf
<1> QED BY <1>8, <1>9, <1>10, <1>11, <1>12, FlowKinds DEF StepAlone

LEMMA CreatingStep ==
    ASSUME Typed, Life, Blank, Creating, [Next]_vars, Plain' PROVE Creating'
<1>1. "late" \notin mishaps'
  BY PlainIs
<1>2. CASE off = "new"
  <2>1. queue = <<>>
    BY <1>2 DEF Blank
  <2>2. CASE queue' = <<>>
    BY <2>2 DEF Creating
  <2>3. ASSUME NEW g \in Gens, Create(g) PROVE Creating'
    <3>1. PICK q \in Entry : Queued(q, q.op, g) /\ queue' = Append(queue, q)
      BY <2>3, <1>1, CreateEnqueues DEF Enqueues, Pushes, Queued
    <3>2. Len(queue') = 1
      BY <2>1, <3>1
    <3>3. up' = "loaded" /\ off' = "on" /\ ran' = ran /\ fire' = fire
      BY <2>3 DEF Create, Live
    <3>4. NothingRan /\ NothingFires
      BY <1>2 DEF Blank
    <3> QED BY <3>2, <3>3, <3>4 DEF Creating, NothingRan, NothingFires
  <2> QED BY <1>2, <2>2, <2>3, BlankEvent
<1>3. CASE off # "new"
  <2>1. ASSUME NEW i \in 1 .. Len(queue'), queue'[i].op = "create" PROVE i = 1
    <3>1. ASSUME NEW n \in {0, 1}, Shifts(n) PROVE i = 1
      <4>1. ~Fresh(queue'[i])
        BY <1>3, <2>1 DEF Fresh, Asked, OfFire, FireOps
      <4>2. i + n \in 1 .. Len(queue) /\ queue[i + n].op = "create"
        BY <2>1, <3>1, <4>1 DEF Shifts, SameCall
      <4>3. i + n = 1 /\ i \in Nat
        BY <4>2 DEF Creating
      <4> QED BY <4>3
    <3> QED BY <1>1, <3>1, QueueShifts
  <2>2. ASSUME queue' # <<>>, Head(queue').op = "create", Head(queue').stage = "queued"
        PROVE  up' = "loaded" /\ off' = "on" /\ NothingRan' /\ NothingFires'
    <3>1. UNCHANGED vars
      BY <1>1, <1>3, <2>2, CreateIsNew
    <3> QED BY <2>2, <3>1 DEF vars, Creating, NothingRan, NothingFires
  <2> QED BY <2>1, <2>2 DEF Creating
<1> QED BY <1>2, <1>3

LEMMA RestingStep ==
    ASSUME Typed, Life, Creating, Resting, [Next]_vars, Plain' PROVE Resting'
<1> SUFFICES ASSUME up' # "loaded" PROVE item' = Absent
  BY DEF Resting
<1>1. "late" \notin mishaps' /\ "replaced" \notin mishaps'
  BY PlainIs
<1>2. CASE item' = item /\ up' = up
  BY <1>2 DEF Resting
<1>3. CASE UNCHANGED vars
  BY <1>2, <1>3 DEF vars
<1>4. CASE BeginOp
  <2>1. up' = up /\ item = Absent
    BY <1>4 DEF BeginOp, Resting
  <2>2. ~(Head(queue).op = "create" /\ queue # <<>>)
    BY <1>4, <2>1, HeadBegins DEF Creating
  <2> QED BY <1>2, <1>4, <2>1, <2>2, BeginOpItem
<1>5. CASE BeginReplaceAll \/ WriteDone \/ WriteFails \/ Tick
  BY <1>2, <1>5 DEF BeginReplaceAll, WriteDone, WriteFails, Tick
<1>6. CASE ClaimFence
  BY <1>6 DEF ClaimFence, Resting
<1>7. CASE Unload \/ Crash
  BY <1>7, UnloadIs DEF Life, Crash
<1>8. CASE Start
  BY <1>8, StartIs
<1>9. ASSUME NEW g \in Gens, FlowOf(g) PROVE item' = Absent
  <2>1. CASE Detached(g)
    <3>1. up' = up
      BY <2>1, DetachedIs DEF Steady
    <3>2. CASE Failed
      BY <1>2, <2>1, <3>1, <3>2 DEF Detached
    <3>3. CASE ~Failed
      <4>1. /\ item' = Head(queue).arg
            /\ ArmTimer(g, Head(queue).arg, Head(queue).arg, IF item # Head(queue).arg THEN {"replaced"} ELSE {})
        BY <2>1, <3>3 DEF Detached
      <4>2. item = Head(queue).arg
        BY <1>1, <4>1 DEF ArmTimer
      <4> QED BY <1>2, <3>1, <4>1, <4>2
    <3> QED BY <3>2, <3>3
  <2>2. CASE ~Detached(g)
    <3>1. item' = item /\ up' = up
      BY <1>9, <2>2 DEF FlowOf, Ends, Hands, Claims, Sends, Informs, Wakes, Proceeds, Asks, Rests, Stays,
         Continues, Enqueues, Happens, Steady
    <3> QED BY <1>2, <3>1
  <2> QED BY <2>1, <2>2
<1> QED BY <1>1, <1>3, <1>4, <1>5, <1>6, <1>7, <1>8, <1>9, FlowKinds DEF StepAlone

LEMMA InitPlain == ASSUME Init PROVE Blank /\ Creating /\ Resting
BY IdleFields DEF Init, Blank, Creating, Resting, NothingRan, NothingFires, NoFire, NoItems, Lives, KeptBack, InSettings, InPass,
   OnDisk, Owner, Replacing, HeadIs, Begun, NoPass

-----------------------------------------------------------------------------
(* A disable or a deletion that was confirmed.                               *)

\* What an operation answers when it is saved.
Said == Begun /\ Head(queue).stage # "failed" =>
           /\ Head(queue).op = "update" /\ Head(queue).patch = "off" => Head(queue).res # Absent /\ ~Head(queue).res.on
           /\ Head(queue).op = "delete" => Head(queue).res = Absent

\* No copy that may come back is enabled, and nobody has asked for one that is.
Stopped ==
    /\ off = "disabled" => /\ \A c : Lives(c) /\ c # Absent => ~c.on
                           /\ \A i \in 1 .. Len(queue) : queue[i].patch # "on"
    /\ off = "deleted" => \A c : Lives(c) => c = Absent

LEMMA SaidStep == ASSUME Typed, Life, Said, [Next]_vars, "late" \notin mishaps' PROVE Said'
<1>1. CASE BeginOp
  <2>1. PICK b : /\ queue # <<>> /\ Head(queue) \in Entry /\ BeginsAs(Head(queue), b) /\ queue' # <<>> /\ Head(queue') = b
    BY <1>1, HeadBegins
  <2>2. SUFFICES ASSUME b.stage # "failed"
                 PROVE  /\ b.op = "update" /\ b.patch = "off" => b.res # Absent /\ ~b.res.on
                        /\ b.op = "delete" => b.res = Absent
    BY <2>1 DEF Said
  <2>3. /\ b.op = Head(queue).op /\ b.patch = Head(queue).patch /\ b.res = item'
        /\ ~Throws(Head(queue))
    BY <2>1, <2>2 DEF BeginsAs
  <2>4. CASE b.op = "delete"
    <3>1. item' = Absent
      BY <2>1, <2>3, <2>4 DEF BeginsAs, Returns, Removing
    <3> QED BY <2>3, <2>4, <3>1
  <2>5. CASE b.op = "update" /\ b.patch = "off"
    <3>1. item' = UpdatedItem(Head(queue)) /\ item # Absent
      BY <2>1, <2>3, <2>5 DEF BeginsAs, Returns
    <3>2. item' \in Item /\ ~item'.on
      BY <2>1, <2>3, <2>5, <3>1, UpdatedItemFields
    <3> QED BY <2>3, <2>5, <3>2, AbsentAssumption
  <2> QED BY <2>4, <2>5
<1>2. CASE BeginReplaceAll
  <2>1. PICK b : ReplacesAs(Head(queue), b) /\ queue' # <<>> /\ Head(queue') = b /\ Head(queue).op = "replaceAll"
    BY <1>2, HeadReplaces
  <2> QED BY <2>1 DEF ReplacesAs, Said
<1>3. CASE ~Begun'
  BY <1>3 DEF Said
<1>4. CASE UNCHANGED vars
  BY <1>4 DEF vars, Said, Begun
<1>5. CASE HeadGoesOn
  BY <1>5 DEF HeadGoesOn, SameCall, Said, Waits
<1> QED BY <1>1, <1>2, <1>3, <1>4, <1>5, HeadSteps

LEMMA ItemKeeps ==
    ASSUME Typed, Life, [Next]_vars, Plain', ~BeginOp
    PROVE  item' = Absent \/ item' = item \/ (item' = disk /\ Lives(disk) /\ queue = <<>>)
<1>1. "late" \notin mishaps' /\ "replaced" \notin mishaps'
  BY PlainIs
<1>2. CASE UNCHANGED vars
  BY <1>2 DEF vars
<1>3. CASE BeginReplaceAll \/ WriteDone \/ WriteFails \/ Tick \/ ClaimFence
  BY <1>3 DEF BeginReplaceAll, WriteDone, WriteFails, Tick, ClaimFence
<1>4. CASE Unload \/ Crash
  BY <1>4, UnloadIs DEF Life, Crash
<1>5. CASE Start
  <2>1. item' = disk /\ queue = <<>>
    BY <1>5, StartIs
  <2> QED BY <2>1 DEF Lives, OnDisk, Replacing, HeadIs, Begun
<1>6. ASSUME NEW g \in Gens, FlowOf(g) PROVE item' = item
  <2>1. CASE Detached(g)
    <3>1. CASE Failed
      BY <2>1, <3>1 DEF Detached
    <3>2. CASE ~Failed
      <4>1. /\ item' = Head(queue).arg
            /\ ArmTimer(g, Head(queue).arg, Head(queue).arg, IF item # Head(queue).arg THEN {"replaced"} ELSE {})
        BY <2>1, <3>2 DEF Detached
      <4> QED BY <1>1, <4>1 DEF ArmTimer
    <3> QED BY <3>1, <3>2
  <2>2. CASE ~Detached(g)
    BY <1>6, <2>2 DEF FlowOf, Ends, Hands, Claims, Sends, Informs, Wakes, Proceeds, Asks, Rests, Stays,
       Continues, Enqueues, Happens
  <2> QED BY <2>1, <2>2
<1> QED BY <1>1, <1>2, <1>3, <1>4, <1>5, <1>6, FlowKinds DEF StepAlone

LEMMA OffChanges ==
    ASSUME Typed, Life, [Next]_vars, "late" \notin mishaps', off' # off, off' # "on"
    PROVE  \E g \in Gens :
             \/ /\ Edited(g) /\ ~Failed /\ Head(queue).patch = "off" /\ off' = "disabled"
                /\ \A i \in 2 .. Len(queue) : queue[i].patch # "on"
             \/ Deleted(g) /\ ~Failed /\ off' = "deleted"
<1>1. CASE UNCHANGED vars
  BY <1>1 DEF vars
<1>2. ASSUME NEW g \in Gens, FlowOf(g)
      PROVE  \/ /\ Edited(g) /\ ~Failed /\ Head(queue).patch = "off" /\ off' = "disabled"
                /\ \A i \in 2 .. Len(queue) : queue[i].patch # "on"
             \/ Deleted(g) /\ ~Failed /\ off' = "deleted"
  <2>1. CASE Ends(g) \/ Hands(g) \/ Claims(g) \/ Sends(g) \/ Detached(g) \/ Wakes(g) \/ Proceeds(g) \/ Rests(g)
    BY <2>1 DEF Ends, Hands, Claims, Sends, Detached, Wakes, Proceeds, Rests
  <2>2. CASE Informs(g)
    BY <2>2 DEF Informs, Edited, Deleted, Created
  <2>3. CASE Asks(g)
    BY <2>3 DEF Asks, Asked
  <2> QED BY <1>2, <2>1, <2>2, <2>3 DEF FlowOf
<1> QED BY <1>1, <1>2, FlowKinds, AloneFire

\* Once it is saved, what an operation answers is what every copy holds.
LEMMA SavedEverywhere ==
    ASSUME Typed, Life, Saved, Begun, Head(queue).stage = "ok", Head(queue).op \in {"update", "delete"}, NEW c, Lives(c)
    PROVE  c = Absent \/ c = Head(queue).res
<1>1. SavedAs(Head(queue), Head(queue).res)
  BY DEF Saved, Saves, Target, HeadIs
<1>2. ~Replacing
  BY DEF Replacing, HeadIs
<1>3. Owner => settings[cur] = Head(queue).res
  BY <1>1 DEF SavedAs, Owner, Life, HeadOK
<1> QED BY <1>1, <1>2, <1>3 DEF Lives, KeptBack, InSettings, InPass, OnDisk, SavedAs

LEMMA StoppedStep ==
    ASSUME Typed, Life, FailedOK, Saved, Said, Creating, Stopped, [Next]_vars, Plain', "missed" \notin mishaps'
    PROVE  Stopped'
<1>1. "late" \notin mishaps' /\ \A c : Lives(c)' => Lives(c) \/ c = item'
  BY PlainIs, LivesStep DEF MovedOn
<1>2. CASE off' = "on"
  BY <1>2 DEF Stopped
<1>3. CASE off' # off /\ off' # "on"
  <2>1. PICK g \in Gens :
             \/ /\ Edited(g) /\ ~Failed /\ Head(queue).patch = "off" /\ off' = "disabled"
                /\ \A i \in 2 .. Len(queue) : queue[i].patch # "on"
             \/ Deleted(g) /\ ~Failed /\ off' = "deleted"
    BY <1>1, <1>3, OffChanges
  <2>2. /\ Continues(g) /\ item' = item /\ queue # <<>> /\ Begun /\ Head(queue).stage = "ok" /\ queue' = Tail(queue)
        /\ Head(queue).op = IF off' = "disabled" THEN "update" ELSE "delete"
    <3>1. Continues(g) /\ Head(queue).stage # "failed" /\ queue' = Tail(queue)
          /\ Head(queue).op = IF off' = "disabled" THEN "update" ELSE "delete"
      BY <2>1, EditedContinues, DeletedContinues DEF Edited, Deleted, Answers, Failed, Pop
    <3> QED BY <3>1 DEF Continues
  <2>3. \A c : Lives(c)' => c = Absent \/ c = Head(queue).res
    BY <1>1, <2>2, SavedEverywhere DEF Lives
  <2>5. CASE off' = "disabled"
    <3>1. ~Head(queue).res.on /\ Head(queue).patch = "off"
      BY <2>1, <2>2, <2>5 DEF Said
    <3>2. ASSUME NEW i \in 1 .. Len(queue') PROVE queue'[i].patch # "on"
      <4>1. Len(queue') = Len(queue) - 1 /\ queue'[i] = queue[i + 1] /\ Len(queue) \in Nat
        BY <2>2, <3>2, FromTyped, Taking DEF QueueTyped
      <4>2. i + 1 \in 2 .. Len(queue)
        BY <3>2, <4>1
      <4> QED BY <2>1, <2>5, <4>1, <4>2
    <3> QED BY <2>3, <2>5, <3>1, <3>2 DEF Stopped
  <2>6. CASE off' = "deleted"
    BY <2>2, <2>3, <2>6 DEF Stopped, Said
  <2> QED BY <2>1, <2>5, <2>6
<1>4. CASE off' = off /\ off \in {"disabled", "deleted"}
  <2>1. queue # <<>> => Head(queue) = queue[1] /\ 1 \in 1 .. Len(queue)
    <3>1. queue # <<>> => Len(queue) \in Nat \ {0} /\ Head(queue) = queue[1]
      BY FromTyped, Taking DEF QueueTyped
    <3> QED BY <3>1
  <2>2. /\ off = "disabled" => item' = Absent \/ ~item'.on
        /\ off = "deleted" => item' = Absent
    <3>1. CASE BeginOp
      <4>1. queue # <<>> /\ Head(queue).stage = "queued"
        BY <3>1, HeadBegins
      <4>2. Head(queue).op # "create"
        BY <1>4, <4>1 DEF Creating
      <4>3. Lives(item)
        BY DEF Lives
      <4>4. off = "disabled" => Head(queue).patch \in {"none", "off", "prompt", "skip"}
        <5>1. Head(queue).patch \in Patches
          BY <4>1, FromTyped, HeadIsEntry DEF Entry
        <5> QED BY <4>1, <2>1, <5>1 DEF Stopped, Patches
      <4> QED BY <1>4, <3>1, <4>1, <4>2, <4>3, <4>4, BeginOpItem DEF Stopped
    <3>2. CASE ~BeginOp
      <4>1. Lives(item)
        BY DEF Lives
      <4> QED BY <3>2, <4>1, ItemKeeps DEF Stopped
    <3> QED BY <3>1, <3>2
  <2>3. ASSUME off = "disabled", NEW i \in 1 .. Len(queue') PROVE queue'[i].patch # "on"
    <3>1. ASSUME NEW n \in {0, 1}, Shifts(n) PROVE queue'[i].patch # "on"
      <4>1. CASE Fresh(queue'[i])
        BY <1>4, <2>3, <4>1 DEF Fresh, Asked
      <4>2. CASE i + n \in 1 .. Len(queue) /\ SameCall(queue'[i], queue[i + n])
        BY <2>3, <4>2 DEF Stopped, SameCall
      <4> QED BY <2>3, <3>1, <4>1, <4>2 DEF Shifts
    <3> QED BY <1>1, <3>1, QueueShifts
  <2> QED BY <1>1, <1>4, <2>2, <2>3 DEF Stopped
<1>5. CASE off' = off /\ off \notin {"disabled", "deleted"}
  BY <1>5 DEF Stopped
<1> QED BY <1>2, <1>3, <1>4, <1>5

PlainInv == Plain => Blank /\ Creating /\ Resting
StoppedInv == Plain /\ "missed" \notin mishaps => Stopped
SaidInv == "late" \notin mishaps => Said

LEMMA PlainGrows == ASSUME Typed, [Next]_vars PROVE /\ Plain' => Plain
                                                    /\ "missed" \notin mishaps' => "missed" \notin mishaps
                                                    /\ "late" \notin mishaps' => "late" \notin mishaps
BY MishapsGrow DEF Plain, Except

LEMMA PlainInvStep == ASSUME Typed, OrderlyInv, PlainInv, [Next]_vars PROVE PlainInv'
<1>1. SUFFICES ASSUME Plain' PROVE (Blank /\ Creating /\ Resting)'
  BY DEF PlainInv
<1>2. Plain /\ "late" \notin mishaps
  BY <1>1, PlainGrows, PlainIs
<1>3. Life /\ FailedOK /\ Blank /\ Creating /\ Resting
  BY <1>2 DEF OrderlyInv, Orderly, PlainInv
<1> QED BY <1>1, <1>3, BlankStep, CreatingStep, RestingStep

LEMMA StoppedInvStep ==
    ASSUME Typed, OrderlyInv, SavedInv, PlainInv, SaidInv, StoppedInv, [Next]_vars PROVE SaidInv' /\ StoppedInv'
<1>1. SaidInv'
  BY PlainGrows, SaidStep DEF SaidInv, OrderlyInv, Orderly
<1>2. ASSUME Plain', "missed" \notin mishaps' PROVE Stopped'
  <2>1. Plain /\ "late" \notin mishaps /\ "missed" \notin mishaps
    BY <1>2, PlainGrows, PlainIs
  <2>2. Unlost
    BY <2>1 DEF Unlost, Plain, Except
  <2>3. Life /\ FailedOK /\ Saved /\ Said /\ Creating /\ Stopped
    BY <2>1, <2>2 DEF OrderlyInv, Orderly, SavedInv, SaidInv, PlainInv, StoppedInv
  <2> QED BY <1>2, <2>3, StoppedStep
<1> QED BY <1>1, <1>2 DEF StoppedInv

LEMMA InitStopped == ASSUME Init PROVE Said /\ Stopped
BY DEF Init, Said, Begun, Stopped

LEMMA NothingRunsWhenOffStep ==
    ASSUME Typed, OrderlyInv, PlainInv, StoppedInv, [Next]_vars
    PROVE  ran' # ran /\ Except({"late", "replaced", "fenced", "missed"}) => off = "on"
<1> SUFFICES ASSUME ran' # ran, Except({"late", "replaced", "fenced", "missed"}) PROVE off = "on"
  OBVIOUS
<1>1. Plain /\ "missed" \notin mishaps /\ "late" \notin mishaps
  BY DEF Plain, Except
<1>2. Life /\ Matched /\ AuthorizedOK /\ Blank /\ Stopped
  BY <1>1 DEF OrderlyInv, Orderly, PlainInv, StoppedInv
<1>3. PICK g \in Gens : Dispatch(g)
  BY RanChanges
<1>4. item # Absent /\ item.on /\ Lives(item) /\ queue # <<>>
  BY <1>2, <1>3, DispatchInForce DEF Lives, Dispatch, Answers
<1>5. off # "new" /\ off # "disabled" /\ off # "deleted"
  BY <1>2, <1>4 DEF Blank, Stopped
<1>6. off \in {"new", "on", "disabled", "deleted"}
  BY DEF Typed
<1> QED BY <1>5, <1>6

\* Once a disable or a deletion is confirmed nothing more is dispatched: not by a fire() that waits for its
\* gate, not by the next generation, not after a crash.  NothingRunsWhenOff holds of every step.
THEOREM OffStaysOff == Spec => NothingRunsWhenOff
<1> DEFINE Inv == Typed /\ OrderlyInv /\ SavedInv /\ PlainInv /\ SaidInv /\ StoppedInv
<1>1. Init => Inv
  BY InitTyped, InitOrderly, InitSaved, InitPlain, InitStopped DEF SavedInv, PlainInv, SaidInv, StoppedInv
<1>2. Inv /\ [Next]_vars => Inv'
  <2> SUFFICES ASSUME Inv, [Next]_vars PROVE Inv'
    OBVIOUS
  <2>1. Typed' /\ OrderlyInv' /\ PlainInv' /\ SaidInv' /\ StoppedInv'
    BY TypedStep, OrderlyStep, PlainInvStep, StoppedInvStep
  <2>2. SavedInv'
    <3>1. Unlost' => Unlost /\ Life
      <4>1. mishaps \subseteq mishaps'
        BY MishapsGrow
      <4> QED BY <4>1 DEF Unlost, Except, OrderlyInv, Orderly
    <3> QED BY <3>1, SavedStep DEF SavedInv
  <2> QED BY <2>1, <2>2
<1>3. Inv /\ [Next]_vars
        => [ran' # ran /\ Except({"late", "replaced", "fenced", "missed"}) => off = "on"]_vars
  BY NothingRunsWhenOffStep
<1> HIDE DEF Inv
<1> QED BY <1>1, <1>2, <1>3, PTL DEF Spec, NothingRunsWhenOff

-----------------------------------------------------------------------------
(* An occurrence of an interval or calendar schedule is granted once.        *)

Granted(d) == ran[d] > 0 \/ \E g \in Gens : Going(g) /\ fire[g].due = d
Beyond(c, d) == c = Absent \/ c.next > d

\* Every copy that may come back is past the occurrences that were granted.
PastGranted == \A c : Lives(c) => \A d \in Slots : Granted(d) => Beyond(c, d)

\* A granted occurrence is due, has run at most once, and is held by one fire().
GrantedOnce ==
    /\ \A d \in Slots : (Granted(d) => d <= now) /\ ran[d] < 2
    /\ \A g \in Gens : Going(g) => ran[fire[g].due] = 0
    /\ \A g, h \in Gens : Going(g) /\ Going(h) /\ fire[g].due = fire[h].due => g = h

\* The claim that is being saved is for an occurrence nobody was granted.
ClaimSaved ==
    LET q == Head(queue) IN
    /\ q.due <= now /\ ~Granted(q.due)
    /\ Beyond(item, q.due)
    /\ q.stage # "failed" => q.by # 0 /\ Beyond(settings[q.by], q.due)
    /\ q.stage \in {"this", "ok"} /\ pass.gen # 0 => Beyond(pass.snap, q.due)
    /\ q.stage = "ok" => Beyond(disk, q.due)

Slotted == PastGranted /\ GrantedOnce /\ (Pending => ClaimSaved)

\* The history of the slots.
LEMMA RanTyped == ASSUME Typed PROVE ran \in [Slots -> 0 .. 2] /\ now \in Nat /\ \A d \in Slots : d \in Nat /\ ran[d] \in 0 .. 2
BY BoundsAssumption DEF Typed, Slots

LEMMA GrantedBefore ==
    ASSUME Typed, Life, Matched, AuthorizedOK, GrantedOnce, [Next]_vars, "late" \notin mishaps',
           \A g \in Gens : ~Claims(g), NEW d \in Slots, Granted(d)'
    PROVE  Granted(d)
<1>1. CASE ran' = ran /\ \A h \in Gens : Going(h)' => Going(h) /\ fire'[h].due = fire[h].due
  BY <1>1 DEF Granted
<1>2. CASE UNCHANGED vars
  BY <1>1, <1>2 DEF vars, Going
<1>3. CASE StepAlone
  <2>1. fire' = fire => \A h \in Gens : Going(h)' => Going(h) /\ fire'[h].due = fire[h].due
    BY DEF Going
  <2>2. Crash => \A h \in Gens : ~Going(h)'
    BY IdleFields DEF Crash, NoFire, Going
  <2> QED BY <1>1, <1>3, <2>1, <2>2, AloneFire
<1>4. ASSUME NEW g \in Gens, FlowOf(g) PROVE Granted(d)
  <2>1. \A h \in Gens : Going(h)' => Going(h) /\ fire'[h].due = fire[h].due
    BY <1>4, GoingBefore
  <2>2. CASE ran' = ran
    BY <1>1, <2>1, <2>2
  <2>3. CASE ran' # ran
    <3>1. PICK k \in Gens : Dispatch(k)
      BY <2>3, RanChanges
    <3>2. Going(k) /\ ran' = [ran EXCEPT ![fire[k].due] = IF @ = 0 THEN 1 ELSE 2]
      BY <3>1, DispatchInForce
    <3>3. CASE d = fire[k].due
      BY <3>2, <3>3 DEF Granted
    <3>4. CASE d # fire[k].due
      <4>1. ran'[d] = ran[d]
        BY <3>2, <3>4, RanTyped
      <4> QED BY <2>1, <4>1 DEF Granted
    <3> QED BY <3>3, <3>4
  <2> QED BY <2>2, <2>3
<1> QED BY <1>2, <1>3, <1>4, FlowKinds

\* The history of the runs, unless a claim is handed to its fire().
LEMMA GrantedOnceKeeps ==
    ASSUME Typed, Life, Matched, AuthorizedOK, GrantedOnce, [Next]_vars, "late" \notin mishaps',
           \A g \in Gens : ~Claims(g)
    PROVE  GrantedOnce'
<1>1. now' >= now
  <2>1. CASE UNCHANGED vars
    BY <2>1, RanTyped DEF vars
  <2>2. CASE StepAlone
    BY <2>2, RanTyped DEF StepAlone, BeginOp, BeginReplaceAll, WriteDone, WriteFails, Unload, ClaimFence, Start, Crash, Tick
  <2>3. ASSUME NEW g \in Gens, FlowOf(g) PROVE now' = now
    BY <2>3, DetachedIs DEF FlowOf, Ends, Hands, Claims, Sends, Informs, Wakes, Proceeds, Asks, Rests, Stays,
       Continues, Enqueues, Happens
  <2> QED BY <2>1, <2>2, <2>3, FlowKinds, RanTyped
<1>2. \A d \in Slots : Granted(d)' => Granted(d)
  BY GrantedBefore
<1>3. ran \in [Slots -> 0 .. 2] /\ now \in Nat /\ now' \in Nat /\ \A d \in Slots : d \in Nat /\ ran[d] \in 0 .. 2
  <2>1. Typed'
    BY TypedStep
  <2>2. now' \in Nat
    BY <2>1, BoundsAssumption DEF Typed
  <2> QED BY <2>2, RanTyped
<1>4. \A h \in Gens : Going(h)' => Going(h) /\ fire'[h].due = fire[h].due
  <2>1. CASE UNCHANGED vars
    BY <2>1 DEF vars, Going
  <2>2. CASE StepAlone
    <3>1. fire' = fire => \A h \in Gens : Going(h)' => Going(h) /\ fire'[h].due = fire[h].due
      BY DEF Going
    <3>2. Crash => \A h \in Gens : ~Going(h)'
      BY IdleFields DEF Crash, NoFire, Going
    <3> QED BY <2>2, <3>1, <3>2, AloneFire
  <2>3. ASSUME NEW g \in Gens, FlowOf(g) PROVE \A h \in Gens : Going(h)' => Going(h) /\ fire'[h].due = fire[h].due
    BY <2>3, GoingBefore
  <2> QED BY <2>1, <2>2, <2>3, FlowKinds
<1>5. CASE ran' = ran
  BY <1>1, <1>2, <1>3, <1>4, <1>5 DEF GrantedOnce
<1>6. ASSUME NEW k \in Gens, Dispatch(k) PROVE GrantedOnce'
  <2>1. Going(k) /\ ran' = [ran EXCEPT ![fire[k].due] = IF @ = 0 THEN 1 ELSE 2] /\ fire[k].due \in Slots
    BY <1>6, DispatchInForce, FireFields
  <2>2. ran[fire[k].due] = 0
    BY <2>1 DEF GrantedOnce
  <2>3. \A d \in Slots : ran'[d] = IF d = fire[k].due THEN 1 ELSE ran[d]
    BY <1>3, <2>1, <2>2
  <2>4. ~Going(k)'
    <3>1. fire' = [fire EXCEPT ![k].at = "sending"] /\ fire \in [Gens -> Fires]
      BY <1>6, FromTyped DEF Dispatch
    <3> QED BY <3>1 DEF Going, Fires
  <2>5. \A h \in Gens : Going(h)' => h # k /\ fire'[h].due # fire[k].due /\ fire'[h].due \in Slots
    BY <1>4, <2>1, <2>4, FireFields DEF GrantedOnce
  <2> QED BY <1>1, <1>2, <1>3, <1>4, <2>3, <2>5 DEF GrantedOnce
<1> QED BY <1>5, <1>6, RanChanges

LEMMA PastKeeps ==
    ASSUME Typed, PastGranted, GrantedOnce,
           \A c : Lives(c)' => Lives(c) \/ c = item' \/ MovedOn(c),
           \A d \in Slots : Granted(d)' => Granted(d) /\ Beyond(item', d)
    PROVE  PastGranted'
<1> SUFFICES ASSUME NEW c, Lives(c)', NEW d \in Slots, Granted(d)' PROVE Beyond(c, d)
  BY DEF PastGranted, Beyond
<1>1. Granted(d) /\ d <= now /\ d \in Nat /\ now \in Nat /\ Beyond(item', d)
  BY RanTyped DEF GrantedOnce
<1>2. now + 1 > d
  BY <1>1
<1> QED BY <1>1, <1>2 DEF PastGranted, Beyond, MovedOn

\* What an operation that begins makes of the item is past the same occurrences.
LEMMA BeginOpBeyond ==
    ASSUME Typed, Life, Creating, kind # "once", PastGranted, GrantedOnce, BeginOp, NEW d \in Slots, Granted(d)
    PROVE  Beyond(item', d)
<1>1. d <= now /\ d \in Nat /\ now \in Nat /\ now + 1 > d
  BY RanTyped DEF GrantedOnce
<1>2. Beyond(item, d)
  BY DEF PastGranted, Lives
<1>3. item # Absent => NextRun(item) = now + 1 /\ ClaimedNext(item) = now + 1
  BY DEF NextRun, ClaimedNext
<1>4. ~(Head(queue).op = "create" /\ queue # <<>>)
  <2>1. queue # <<>> /\ Head(queue).stage = "queued"
    BY HeadBegins
  <2>2. ~(NothingRan /\ NothingFires)
    BY RanTyped DEF Granted, NothingRan, NothingFires, Going
  <2> QED BY <2>1, <2>2 DEF Creating
<1> QED BY <1>1, <1>2, <1>3, <1>4, BeginOpItem DEF Beyond, PatchedNext

LEMMA BeginOpClaimSaved ==
    ASSUME Typed, Life, Matched, DueOK, kind # "once", PastGranted, GrantedOnce, BeginOp, Pending'
    PROVE  ClaimSaved'
<1>1. PICK b : /\ queue # <<>> /\ Head(queue) \in Entry /\ ~Head(queue).yes /\ Steady
               /\ BeginsAs(Head(queue), b) /\ queue' # <<>> /\ Head(queue') = b
  BY HeadBegins
<1> DEFINE q == Head(queue)
<1>0. PICK d : d = q.due
  OBVIOUS
<1>2. /\ b.op = "claim" /\ b.yes /\ q.op = "claim" /\ b.due = d /\ ~Throws(q) /\ q.gen \in Gens
  BY <1>0, <1>1 DEF Pending, HeadIs, BeginsAs, Throws, Entry
<1>3. Granting(q) /\ Saving(q)
  BY <1>1, <1>2 DEF BeginsAs, Returns, Granting, Saving
<1>4. /\ item # Absent /\ item.next = d /\ item' = ClaimedItem /\ b.by = adapter
      /\ fire' = fire /\ ran' = ran /\ now' = now /\ disk' = disk
  <2>1. item # Absent /\ item.next = d
    BY <1>0, <1>3 DEF Granting, ClaimGranted
  <2>2. item' = ClaimedItem /\ b.by = adapter
    BY <1>1, <1>2, <1>3 DEF BeginsAs, Returns
  <2> QED BY <2>1, <2>2 DEF BeginOp
<1>5. item' # Absent /\ item'.next = now + 1 /\ item' \in Item
  <2>1. ClaimedItem \in Item /\ ClaimedItem.next = now + 1
    BY <1>4, ClaimedItemFields DEF ClaimedNext
  <2> QED BY <1>4, <2>1, AbsentAssumption
<1>6. d <= now /\ d \in Slots /\ now \in Nat /\ d \in Nat
  <2>1. fire[q.gen].due = d /\ d \in Slots
    BY <1>0, <1>1, <1>2, HeadFits DEF OfFire, FireOps, Fits, Entry
  <2> QED BY <1>2, <2>1, RanTyped DEF DueOK
<1>7. Beyond(item', d)
  BY <1>5, <1>6 DEF Beyond
<1>8. ~Granted(d) /\ ~Granted(d)'
  <2>1. ~Granted(d)
    <3>1. Granted(d) => Beyond(item, d)
      BY <1>6 DEF PastGranted, Lives
    <3>2. ~(item.next > d)
      BY <1>4, <1>6
    <3> QED BY <1>4, <3>1, <3>2 DEF Beyond
  <2> QED BY <1>4, <2>1 DEF Granted, Going
<1>9. CASE adapter # 0 /\ settings' = [settings EXCEPT ![adapter] = item'] /\ pass' = Requested(pass, adapter, item')
           /\ b.stage = SaveStage(pass, adapter)
  <2>1. item' \in Copy /\ settings \in [Gens -> Copy]
    BY <1>5, FromTyped DEF Copy
  <2>2. adapter \in Gens /\ (b.stage = "next" \/ (b.stage = "this" /\ pass'.snap = item'))
    <3>1. \/ b.stage = "next"
          \/ b.stage = "this" /\ pass' = [gen |-> cur, snap |-> item', again |-> FALSE]
      BY <1>9, <2>1, SavingPass DEF Life
    <3> QED BY <1>9, <2>1, <3>1, SavingPass DEF Life
  <2>3. settings'[adapter] = item'
    BY <1>9, <2>1, <2>2
  <2> QED BY <1>1, <1>2, <1>4, <1>6, <1>7, <1>8, <1>9, <2>2, <2>3 DEF ClaimSaved, Beyond
<1>10. CASE adapter = 0 /\ b.stage = "failed"
  BY <1>1, <1>2, <1>4, <1>6, <1>7, <1>8, <1>10 DEF ClaimSaved, Beyond
<1> QED BY <1>1, <1>2, <1>3, <1>9, <1>10 DEF BeginsAs

LEMMA ClaimSavedKeeps ==
    ASSUME Typed, Life, Matched, AuthorizedOK, kind # "once", GrantedOnce, ClaimSaved, [Next]_vars, Plain',
           ~BeginOp, ~BeginReplaceAll, Pending'
    PROVE  ClaimSaved'
<1>0. PICK d, by : d = Head(queue).due /\ by = Head(queue).by
  OBVIOUS
<1>1. "late" \notin mishaps' /\ "fenced" \notin mishaps'
  BY PlainIs
<1>2. /\ Pending /\ Head(queue').due = d /\ Head(queue').by = by
      /\ UNCHANGED vars \/ HeadGoesOn
  BY <1>0, <1>1, PendingStays
<1>3. CASE UNCHANGED vars
  BY <1>3 DEF vars, ClaimSaved, Granted, Going
<1>4. CASE HeadGoesOn
  <2>1. Waits /\ queue # <<>> /\ queue' # <<>> /\ ~Replacing
    BY <1>2, <1>4 DEF HeadGoesOn, Pending, HeadIs, Replacing
  <2>2. pass.gen = by /\ by # 0 /\ by \in Gens
    <3>1. pass.gen = by /\ by # 0
      BY <1>0, <2>1 DEF Life, HeadOK
    <3> QED BY <3>1, FromTyped DEF Gens, Passes
  <2>3. d \in Slots /\ d \in Nat /\ d <= now /\ ~Granted(d) /\ now \in Nat
    <3>1. d \in Slots
      BY <1>0, <2>1, FromTyped, HeadIsEntry DEF Entry
    <3> QED BY <1>0, <3>1, RanTyped DEF ClaimSaved
  <2>4. Beyond(item, d) /\ Beyond(settings[by], d) /\ (Head(queue).stage = "this" => Beyond(pass.snap, d))
    BY <1>0, <2>1, <2>2 DEF ClaimSaved, Waits
  <2>5. \A g \in Gens : ~Claims(g)
    BY <2>1 DEF Claims, Continues
  <2>6. ~Granted(d)'
    BY <1>1, <2>3, <2>5, GrantedBefore
  <2>7. Beyond(item', d)
    BY <2>1, <2>4, ItemKeeps DEF Beyond
  <2>8. CASE WriteDone
    <3>1. Waiting(by)
      BY <1>0, <2>1 DEF Waiting, Running, Waits, Begun
    <3>2. /\ disk' = pass.snap /\ now' = now /\ settings' = settings
          /\ pass' = NoPass \/ pass'.snap = settings[by]
          /\ queue' = HeadStage(AfterWrite(pass.again /\ fence = by))
          /\ Head(queue).stage = "next" => pass.again /\ fence = by
      BY <1>1, <2>2, <2>8, <3>1 DEF WriteDone
    <3>3. Head(queue').stage = AfterWrite(pass.again /\ fence = by)
      <4>1. AfterWrite(pass.again /\ fence = by) \in Stages
        BY DEF AfterWrite, Stages
      <4> DEFINE st == AfterWrite(pass.again /\ fence = by)
                 b == [Head(queue) EXCEPT !.stage = st]
      <4>2. Head(queue) \in Entry /\ st \in Stages /\ queue' = [queue EXCEPT ![1] = b]
        BY <2>1, <3>2, <4>1, FromTyped, HeadIsEntry DEF HeadStage
      <4> HIDE DEF st
      <4>3. b \in Entry /\ b.stage = st
        BY <4>2 DEF Entry
      <4> HIDE DEF b
      <4>4. Head(queue') = b
        BY <2>1, <4>2, <4>3, FromTyped, ChangingHead DEF QueueTyped
      <4> QED BY <4>3, <4>4 DEF st
    <3>4. Head(queue').stage = "ok" => Head(queue).stage = "this"
      BY <2>1, <3>2, <3>3 DEF AfterWrite, Waits
    <3>5. Head(queue').stage # "failed" /\ pass'.gen # 0 => Beyond(pass'.snap, d)
      BY <2>4, <3>2 DEF NoPass
    <3> QED BY <1>2, <2>2, <2>3, <2>4, <2>6, <2>7, <3>2, <3>4, <3>5 DEF ClaimSaved
  <2>9. CASE WriteFails
    <3>1. Waiting(by)
      BY <1>0, <2>1 DEF Waiting, Running, Waits, Begun
    <3>2. now' = now /\ queue' = HeadStage("failed")
      BY <2>2, <2>9, <3>1 DEF WriteFails
    <3>3. Head(queue').stage = "failed"
      <4> DEFINE b == [Head(queue) EXCEPT !.stage = "failed"]
      <4>1. Head(queue) \in Entry /\ queue' = [queue EXCEPT ![1] = b]
        BY <2>1, <3>2, FromTyped, HeadIsEntry DEF HeadStage
      <4>2. b \in Entry /\ b.stage = "failed"
        BY <4>1 DEF Entry, Stages
      <4> HIDE DEF b
      <4>3. Head(queue') = b
        BY <2>1, <4>1, <4>2, FromTyped, ChangingHead DEF QueueTyped
      <4> QED BY <4>2, <4>3
    <3> QED BY <1>2, <2>3, <2>6, <2>7, <3>2, <3>3 DEF ClaimSaved
  <2>10. CASE ~WriteDone /\ ~WriteFails
    <3>1. Head(queue').stage = Head(queue).stage /\ Head(queue').stage \in {"this", "next"}
      BY <1>4, <2>1, <2>10 DEF HeadGoesOn, Waits
    <3>2. now' >= now /\ Beyond(settings'[by], d) /\ pass'.snap = pass.snap
      <4>1. CASE UNCHANGED vars
        BY <2>3, <2>4, <4>1 DEF vars
      <4>2. CASE Unload \/ ClaimFence \/ Tick
        BY <2>3, <2>4, <4>2 DEF Unload, ClaimFence, Tick
      <4>3. CASE Crash \/ Start
        BY <1>4, <2>2, <4>3 DEF Crash, Start, HeadGoesOn
      <4>4. CASE BeginOp \/ BeginReplaceAll
        BY <4>4
      <4>5. ASSUME NEW g \in Gens, FlowOf(g), Detached(g) \/ Moves(g)
            PROVE  now' >= now /\ Beyond(settings'[by], d) /\ pass'.snap = pass.snap
        <5>1. ~Detached(g) /\ Moves(g)
          BY <2>1, <4>5, DetachedIs
        <5>2. Happens(g)
          BY <2>1, <4>5, <5>1 DEF FlowOf, Ends, Hands, Claims, Sends, Informs, Wakes, Proceeds, Asks, Rests, Stays,
             Continues, Enqueues
        <5>3. PassGoesOn
          BY <5>2, TouchedPass DEF Happens, Life
        <5>4. Beyond(settings'[by], d)
          <6>1. CASE settings' = settings
            BY <2>4, <6>1
          <6>2. ASSUME NEW m \in Item, m.next = now + 1, settings' = [settings EXCEPT ![g] = m] PROVE Beyond(settings'[by], d)
            <7>1. settings \in [Gens -> Copy]
              BY FromTyped
            <7>2. settings'[by] = m \/ settings'[by] = settings[by]
              BY <2>2, <6>2, <7>1
            <7>3. m.next > d
              BY <2>3, <6>2
            <7> QED BY <2>4, <7>2, <7>3 DEF Beyond
          <6> QED BY <5>1, <6>1, <6>2 DEF Moves
        <5>5. now' = now
          BY <5>2 DEF Happens
        <5> QED BY <2>2, <2>3, <5>3, <5>4, <5>5 DEF PassGoesOn
      <4> QED BY <1>1, <2>10, <4>1, <4>2, <4>3, <4>4, <4>5, FlowKinds DEF StepAlone
    <3>3. d <= now'
      <4>1. now' \in Nat
        <5>1. Typed'
          BY TypedStep
        <5> QED BY <5>1, BoundsAssumption DEF Typed
      <4> QED BY <2>3, <3>2, <4>1
    <3>4. Head(queue').stage = "this" => Beyond(pass'.snap, d)
      BY <2>4, <3>1, <3>2
    <3> QED BY <1>2, <2>2, <2>6, <2>7, <3>1, <3>2, <3>3, <3>4 DEF ClaimSaved
  <2> QED BY <2>8, <2>9, <2>10
<1> QED BY <1>2, <1>3, <1>4

\* The occurrence whose claim is saved is granted.
LEMMA ClaimsSlotted ==
    ASSUME Typed, Life, Matched, FailedOK, Slotted, [Next]_vars, Plain', NEW g \in Gens, Claims(g)
    PROVE  Slotted'
<1>0. PICK d : d = Head(queue).due
  OBVIOUS
<1>1. /\ queue # <<>> /\ Head(queue) \in Entry /\ Head(queue).gen = g /\ Begun /\ ~Waits /\ Pops(g) /\ Steady
      /\ Head(queue).op = "claim" /\ Head(queue).yes /\ Head(queue).stage = "ok"
      /\ FireBecomes(g, "gate", fire[g].due, Head(queue).res.tok)
      /\ ran' = ran /\ now' = now /\ item' = item /\ disk' = disk /\ settings' = settings /\ pass' = pass
  BY DEF Claims, Continues
<1>2. Pending /\ ~Replacing
  BY <1>1 DEF Pending, HeadIs, Replacing
<1>3. fire[g].due = d /\ d \in Slots
  BY <1>0, <1>1, HeadFits DEF OfFire, FireOps, Fits, Entry
<1>4. /\ d <= now /\ ~Granted(d) /\ Beyond(item, d) /\ Beyond(disk, d)
      /\ Head(queue).by # 0 /\ Beyond(settings[Head(queue).by], d)
      /\ pass.gen # 0 => Beyond(pass.snap, d)
  BY <1>0, <1>1, <1>2 DEF Slotted, ClaimSaved
<1>5. \A c : Lives(c) => Beyond(c, d)
  <2>1. Owner => Head(queue).by = cur
    BY <1>1, <1>4 DEF Life, HeadOK, Owner
  <2> QED BY <1>2, <1>4, <2>1 DEF Lives, KeptBack, InSettings, InPass, OnDisk
<1>6. /\ fire'[g].at = "gate" /\ fire'[g].due = d
      /\ \A h \in Gens \ {g} : fire'[h] = fire[h]
  BY <1>1, <1>3 DEF FireBecomes
<1>7. /\ \A h \in Gens \ {g} : Going(h)' => Going(h) /\ fire'[h].due = fire[h].due /\ fire[h].due # d
      /\ \A x \in Slots : Granted(x)' => Granted(x) \/ x = d
  <2>1. \A h \in Gens \ {g} : Going(h)' => Going(h) /\ fire'[h].due = fire[h].due
    BY <1>6 DEF Going
  <2>2. \A h \in Gens : Going(h) => fire[h].due # d
    BY <1>4 DEF Granted
  <2>3. \A x \in Slots : Granted(x)' => Granted(x) \/ x = d
    BY <1>1, <1>6, <2>1 DEF Granted
  <2> QED BY <2>1, <2>2, <2>3
<1>8. GrantedOnce'
  <2>1. ran[d] = 0
    <3>1. ran[d] \in 0 .. 2 /\ ~(ran[d] > 0)
      BY <1>3, <1>4, RanTyped DEF Granted
    <3> QED BY <3>1
  <2>2. \A x \in Slots : (Granted(x)' => x <= now) /\ ran[x] < 2
    BY <1>4, <1>7 DEF Slotted, GrantedOnce
  <2>3. \A h \in Gens : Going(h)' => ran[fire'[h].due] = 0
    BY <1>6, <1>7, <2>1 DEF Slotted, GrantedOnce
  <2>4. \A h, k \in Gens : Going(h)' /\ Going(k)' /\ fire'[h].due = fire'[k].due => h = k
    BY <1>6, <1>7 DEF Slotted, GrantedOnce
  <2> QED BY <1>1, <2>2, <2>3, <2>4 DEF GrantedOnce
<1>9. PastGranted'
  <2> SUFFICES ASSUME NEW c, Lives(c)', NEW x \in Slots, Granted(x)' PROVE Beyond(c, x)
    BY DEF PastGranted, Beyond
  <2>1. Lives(c) \/ MovedOn(c)
    BY <1>1, PlainIs, LivesStep DEF Lives
  <2>2. x <= now /\ x \in Nat /\ now \in Nat
    BY <1>4, <1>7, RanTyped DEF Slotted, GrantedOnce
  <2>3. now + 1 > x
    BY <2>2
  <2>4. Lives(c) => Beyond(c, x)
    BY <1>5, <1>7 DEF Slotted, PastGranted
  <2> QED BY <2>1, <2>3, <2>4 DEF MovedOn, Beyond
<1>10. ~Pending'
  <2>1. ~Unborn(g)
    BY <1>1, QueuedHead
  <2> QED BY <1>1, <2>1, PoppingQueue DEF Life, Pending, HeadIs
<1> QED BY <1>8, <1>9, <1>10 DEF Slotted

LEMMA SlottedStep ==
    ASSUME Typed, Orderly, Creating, kind # "once", Slotted, [Next]_vars, Plain'
    PROVE  Slotted'
<1>1. "late" \notin mishaps' /\ mishaps' \cap {"late", "fenced"} = {}
  BY PlainIs
<1>2. Life /\ Matched /\ AuthorizedOK /\ FailedOK /\ DueOK
  BY DEF Orderly
<1>3. PastGranted /\ GrantedOnce /\ (Pending => ClaimSaved)
  BY DEF Slotted
<1>4. ASSUME NEW g \in Gens, Claims(g) PROVE Slotted'
  BY <1>2, <1>4, ClaimsSlotted
<1>5. CASE \A g \in Gens : ~Claims(g)
  <2>1. GrantedOnce'
    BY <1>1, <1>2, <1>3, <1>5, GrantedOnceKeeps
  <2>2. \A d \in Slots : Granted(d)' => Granted(d)
    BY <1>1, <1>2, <1>3, <1>5, GrantedBefore
  <2>3. ASSUME NEW d \in Slots, Granted(d) PROVE Beyond(item', d)
    <3>1. CASE BeginOp
      BY <1>2, <1>3, <2>3, <3>1, BeginOpBeyond
    <3>2. CASE ~BeginOp
      <4>1. Lives(item')  \/ item' = Absent
        BY <1>2, <3>2, ItemKeeps DEF Lives
      <4> QED BY <1>3, <2>3, <4>1 DEF PastGranted, Beyond
    <3> QED BY <3>1, <3>2
  <2>4. PastGranted'
    <3>1. \A c : Lives(c)' => Lives(c) \/ c = item' \/ MovedOn(c)
      BY <1>1, <1>2, LivesStep
    <3> QED BY <1>3, <2>2, <2>3, <3>1, PastKeeps
  <2>5. ASSUME Pending' PROVE ClaimSaved'
    <3>1. CASE BeginOp
      BY <1>2, <1>3, <2>5, <3>1, BeginOpClaimSaved
    <3>2. CASE BeginReplaceAll
      <4>1. PICK b : ReplacesAs(Head(queue), b) /\ queue' # <<>> /\ Head(queue') = b /\ Head(queue).op = "replaceAll"
        BY <1>2, <3>2, HeadReplaces
      <4> QED BY <2>5, <4>1 DEF ReplacesAs, Pending, HeadIs
    <3>3. CASE ~BeginOp /\ ~BeginReplaceAll
      <4>1. Pending
        BY <1>1, <1>2, <2>5, <3>3, PendingStays
      <4> QED BY <1>2, <1>3, <2>5, <3>3, <4>1, ClaimSavedKeeps
    <3> QED BY <3>1, <3>2, <3>3
  <2> QED BY <2>1, <2>4, <2>5 DEF Slotted
<1> QED BY <1>4, <1>5

LEMMA InitSlotted == ASSUME Init PROVE Slotted
<1>1. \A d \in Slots : ~Granted(d) /\ ran[d] = 0
  BY DEF Init, Granted, Going, NoFire, Idle
<1>2. \A g \in Gens : ~Going(g)
  BY DEF Init, Going, NoFire, Idle
<1>3. ~Pending
  BY DEF Init, Pending, HeadIs, Begun
<1> QED BY <1>1, <1>2, <1>3 DEF Slotted, PastGranted, GrantedOnce

-----------------------------------------------------------------------------
(* A one-shot runs once, unless it is edited during its run.                 *)

\* A one-shot is exempt from the skipping of stale misses.
LEMMA OnceIsNotMissed == ASSUME Typed, kind = "once", [Next]_vars, "missed" \notin mishaps PROVE "missed" \notin mishaps'
<1>0. ASSUME NEW g \in Gens, NEW held \in Copy, NEW it \in Copy, NEW also, "missed" \notin also, ArmTimer(g, held, it, also)
      PROVE  "missed" \notin mishaps'
  BY <1>0, ArmingTouches
<1>1. ASSUME NEW g \in Gens, NEW it \in Copy, Rearm(g, it) PROVE "missed" \notin mishaps'
  BY <1>0, <1>1 DEF Rearm
<1>2. ASSUME NEW name, NEW g \in Gens, Answers(name, g) PROVE Head(queue).res \in Copy /\ Head(queue).arg \in Copy
  BY <1>2, AnsweringHead DEF Entry
<1>3. CASE UNCHANGED vars
  BY <1>3 DEF vars
<1>4. CASE Microtask
  <2>1. CASE BeginOp \/ BeginReplaceAll
    BY <2>1 DEF BeginOp, BeginReplaceAll
  <2>2. ASSUME NEW g \in Gens, \/ Claimed(g) \/ Dispatch(g) \/ AuthorizeRefused(g) \/ AbandonFails(g)
                               \/ FinalizeFails(g) \/ Edited(g) \/ Deleted(g) \/ Created(g)
        PROVE  "missed" \notin mishaps'
    BY <2>2 DEF Claimed, Dispatch, AuthorizeRefused, AbandonFails, FinalizeFails, Edited, Deleted, Created
  <2>3. ASSUME NEW g \in Gens, ClaimRefused(g) PROVE "missed" \notin mishaps'
    BY <1>1, <1>2, <2>3 DEF ClaimRefused
  <2>4. ASSUME NEW g \in Gens, FireFails(g) PROVE "missed" \notin mishaps'
    <3>1. ArmTimer(g, local[g], fire[g].held, {}) /\ local[g] \in Copy /\ fire[g].held \in Copy
      BY <2>4, FromTyped, FireFields DEF FireFails
    <3> QED BY <1>0, <3>1
  <2>5. ASSUME NEW g \in Gens, Skipped(g) PROVE "missed" \notin mishaps'
    BY <1>1, <1>2, <2>5 DEF Skipped
  <2>6. ASSUME NEW g \in Gens, Abandoned(g) PROVE "missed" \notin mishaps'
    BY <1>1, <1>2, <2>6 DEF Abandoned
  <2>7. ASSUME NEW g \in Gens, Finalized(g) PROVE "missed" \notin mishaps'
    BY <1>1, <1>2, <2>7 DEF Finalized
  <2>8. ASSUME NEW g \in Gens, Detached(g) PROVE "missed" \notin mishaps'
    <3>1. CASE Failed
      BY <2>8, <3>1 DEF Detached
    <3>2. CASE ~Failed
      <4>1. /\ ArmTimer(g, Head(queue).arg, Head(queue).arg, IF item # Head(queue).arg THEN {"replaced"} ELSE {})
            /\ Head(queue).arg \in Copy
        BY <1>2, <2>8, <3>2 DEF Detached
      <4>2. "missed" \notin (IF item # Head(queue).arg THEN {"replaced"} ELSE {})
        OBVIOUS
      <4> QED BY <1>0, <4>1, <4>2
    <3> QED BY <3>1, <3>2
  <2> QED BY <1>4, <2>1, <2>2, <2>3, <2>4, <2>5, <2>6, <2>7, <2>8 DEF Microtask
<1>5. CASE Event
  <2>1. CASE WriteDone \/ WriteFails \/ Unload \/ ClaimFence \/ Crash \/ Tick
    <3>1. mishaps' \subseteq mishaps \cup {"fenced", "failure", "unload", "crash"}
      BY <2>1 DEF WriteDone, WriteFails, Unload, ClaimFence, Crash, Tick
    <3> QED BY <3>1
  <2>2. CASE Start
    BY <2>2, StartStarts DEF StartsAs
  <2>3. ASSUME NEW g \in Gens, OtherSave(g) \/ Wake(g) \/ WakeSkips(g) \/ WakeWhileFiring(g) \/ GateEnds(g)
                                \/ SendEnds(g) \/ Delete(g) \/ Create(g) \/ Detach(g)
        PROVE  "missed" \notin mishaps'
    <3>1. mishaps' \subseteq mishaps \cup {"late", "edited"}
      BY <2>3 DEF OtherSave, Wake, WakeSkips, WakeWhileFiring, GateEnds, SendEnds, Delete, Create, Detach, Late
    <3> QED BY <3>1
  <2>4. ASSUME NEW g \in Gens, Missed(g) PROVE "missed" \notin mishaps'
    BY <2>4 DEF Missed
  <2>5. ASSUME NEW g \in Gens, Edit(g) PROVE "missed" \notin mishaps'
    <3>1. PICK patch \in {"off", "on", "prompt"}, a \in Item, skip \in BOOLEAN : EditsAs(g, patch, a, skip)
      BY <2>5, EditEdits
    <3>2. mishaps' \subseteq mishaps \cup {"late", "edited", "overtaken"}
      BY <3>1 DEF EditsAs, Late
    <3> QED BY <3>2
  <2> QED BY <1>5, <2>1, <2>2, <2>3, <2>4, <2>5 DEF Event
<1> QED BY <1>3, <1>4, <1>5 DEF Next

Ran == \E d \in Slots : ran[d] > 0
Active(g) == fire[g].at \in ActivePoints
Holding(g) == fire[g].at \in {"gate", "authorize", "sending"}

\* A copy with a claim on it was enabled when it was claimed.
OnceCopies == \A c : Lives(c) /\ c # Absent /\ c.tok # 0 => c.crev <= c.rev /\ c.tok <= claims /\ (c.crev = c.rev => c.on)

\* While a fire() holds the claim, no copy carries another or none.
OnceHeld == \A g \in Gens : Holding(g) => \A c : Lives(c) => c = Absent \/ c.tok = fire[g].tok

\* A claim is granted when nothing has run and nobody holds one.
OnceAlone == Pending => ~Ran /\ \A g \in Gens : ~Holding(g)

\* When it has run every copy carries a claim, and a fire() that still has it will remove the item.
OnceSpent == Ran => \A c : Lives(c) /\ c # Absent =>
                        /\ c.tok # 0
                        /\ \A g \in Gens : Active(g) /\ fire[g].tok = c.tok => fire[g].at \in {"sending", "finalize"} /\ c.crev = c.rev

\* The copies with the coordinator's claim are as old as its own, unless that was edited.
OnceAgrees == \A c : Lives(c) /\ item # Absent /\ c # Absent /\ c.tok = item.tok /\ item.tok # 0 /\ item.crev = item.rev
                        => c.crev = c.rev

\* No edit is queued behind an authorization of the claim, nor while a fire() still has it after the run.
OnceOrder == \A g \in Gens, i, j \in 1 .. Len(queue) :
                 /\ item # Absent /\ fire[g].at = "authorize" /\ fire[g].tok = item.tok
                 /\ i < j /\ queue[i].op = "authorize" /\ queue[i].gen = g
                 => queue[j].op # "update"

OnceQuiet == \A g \in Gens, i \in 1 .. Len(queue) :
                 Ran /\ Active(g) /\ item # Absent /\ fire[g].tok = item.tok => queue[i].op # "update"

Once == OnceCopies /\ OnceHeld /\ OnceAlone /\ OnceSpent /\ OnceAgrees /\ OnceOrder /\ OnceQuiet

LEMMA LivesTyped == ASSUME Typed, NEW c, Lives(c) PROVE c \in Copy
<1>1. /\ item \in Copy /\ disk \in Copy /\ settings \in [Gens -> Copy] /\ pass \in Passes /\ cur \in 0 .. MaxGen
      /\ queue # <<>> => Head(queue).res \in Copy
  <2>1. queue # <<>> => Head(queue) \in Entry
    BY FromTyped, HeadIsEntry
  <2> QED BY <2>1, FromTyped DEF Entry
<1>2. InPass(c) => c \in Copy
  BY <1>1 DEF InPass, Passes
<1>3. InSettings(c) => c \in Copy
  BY <1>1 DEF InSettings, Owner, Gens
<1> QED BY <1>1, <1>2, <1>3 DEF Lives, KeptBack, Replacing, HeadIs, Begun, OnDisk

\* Only a claim that is granted gives out a token.
LEMMA ClaimsKeep == ASSUME Typed, Life, [Next]_vars, "late" \notin mishaps', ~BeginOp PROVE claims' = claims
<1>1. CASE UNCHANGED vars
  BY <1>1 DEF vars
<1>2. CASE StepAlone
  BY <1>2 DEF StepAlone, BeginReplaceAll, WriteDone, WriteFails, Unload, ClaimFence, Start, Crash, Tick
<1>3. ASSUME NEW g \in Gens, FlowOf(g) PROVE claims' = claims
  BY <1>3, DetachedIs DEF FlowOf, Ends, Hands, Claims, Sends, Informs, Wakes, Proceeds, Asks, Rests, Stays,
     Continues, Enqueues, Happens
<1> QED BY <1>1, <1>2, <1>3, FlowKinds

\* How a fire() that holds a claim came to where it is.
LEMMA ActiveBefore ==
    ASSUME Typed, Life, Matched, [Next]_vars, "late" \notin mishaps', NEW g \in Gens, ~Claims(g), Active(g)'
    PROVE  /\ Active(g) /\ fire'[g].tok = fire[g].tok
           /\ Holding(g)' => Holding(g)
           /\ fire[g].at \in {"sending", "finalize"} => fire'[g].at \in {"sending", "finalize"}
<1> DEFINE Goal == /\ Active(g) /\ fire'[g].tok = fire[g].tok
                   /\ Holding(g)' => Holding(g)
                   /\ fire[g].at \in {"sending", "finalize"} => fire'[g].at \in {"sending", "finalize"}
<1>1. ASSUME fire'[g] = fire[g] PROVE Goal
  BY <1>1 DEF Active, Holding
<1>2. CASE UNCHANGED vars
  BY <1>1, <1>2 DEF vars
<1>3. CASE StepAlone
  <2>1. ~Crash
    BY IdleFields DEF Crash, NoFire, Active, ActivePoints
  <2> QED BY <1>1, <1>3, <2>1, AloneFire
<1>4. ASSUME NEW h \in Gens, FlowOf(h) PROVE Goal
  <2>1. CASE Informs(h) \/ Detached(h) \/ Asks(h) \/ Rests(h)
    <3>1. fire' = fire
      BY <2>1 DEF Informs, Detached, Asks, Rests
    <3> QED BY <1>1, <3>1
  <2>2. CASE h # g /\ (Ends(h) \/ Hands(h) \/ Claims(h) \/ Sends(h) \/ Wakes(h) \/ Proceeds(h))
    <3>1. fire'[g] = fire[g]
      BY <2>2 DEF Ends, Hands, Claims, Sends, Wakes, Proceeds, FireBecomes
    <3> QED BY <1>1, <3>1
  <2>3. CASE h = g /\ (Ends(g) \/ Wakes(g))
    <3>1. fire'[g].at \in {"idle", "claim", "skip"}
      BY <2>3 DEF Ends, Wakes, FireBecomes
    <3> QED BY <3>1 DEF Active, ActivePoints
  <2>4. CASE h = g /\ Hands(g)
    <3>1. PICK n \in {"abandon", "finalize"} :
              /\ Head(queue).op = (IF n = "abandon" THEN "authorize" ELSE "abandon")
              /\ FireBecomes(g, n, fire[g].due, fire[g].tok)
      BY <2>4 DEF Hands
    <3>2. queue # <<>> /\ Head(queue).gen = g
      BY <2>4 DEF Hands, Continues
    <3>3. fire[g].at = Head(queue).op
      BY <3>1, <3>2, HeadFits DEF OfFire, FireOps, Fits
    <3> QED BY <3>1, <3>3 DEF FireBecomes, Active, ActivePoints, Holding
  <2>5. CASE h = g /\ Sends(g)
    <3>1. /\ queue # <<>> /\ Head(queue).gen = g /\ Head(queue).op = "authorize"
          /\ FireBecomes(g, "sending", fire[g].due, fire[g].tok)
      BY <2>5 DEF Sends, Continues
    <3>2. fire[g].at = "authorize"
      BY <3>1, HeadFits DEF OfFire, FireOps, Fits
    <3> QED BY <3>1, <3>2 DEF FireBecomes, Active, ActivePoints, Holding
  <2>6. CASE h = g /\ Proceeds(g)
    <3>1. PICK n \in {"authorize", "finalize"} :
              /\ fire[g].at = "gate" \/ (fire[g].at = "sending" /\ n = "finalize")
              /\ FireBecomes(g, n, fire[g].due, fire[g].tok)
      BY <2>6 DEF Proceeds
    <3> QED BY <3>1 DEF FireBecomes, Active, ActivePoints, Holding
  <2> QED BY <1>4, <2>1, <2>2, <2>3, <2>4, <2>5, <2>6 DEF FlowOf
<1> QED BY <1>2, <1>3, <1>4, FlowKinds

\* Without a new operation the item stays as it is, or is the one that a scheduler starts with.
LEMMA ItemStays ==
    ASSUME Typed, Life, kind = "once", [Next]_vars, Plain', ~BeginOp
    PROVE  \/ item' = Absent
           \/ item' = item
           \/ queue' = <<>> /\ \A c : Lives(c)' => c = item'
<1>1. CASE Start
  <2>1. queue' = <<>>
    BY <1>1, StartIs
  <2> QED BY <1>1, <2>1, StartLives DEF MovedOn
<1>2. CASE ~Start
  <2>1. "late" \notin mishaps' /\ "replaced" \notin mishaps'
    BY PlainIs
  <2>2. CASE UNCHANGED vars
    BY <2>2 DEF vars
  <2>3. CASE BeginReplaceAll \/ WriteDone \/ WriteFails \/ Tick \/ ClaimFence
    BY <2>3 DEF BeginReplaceAll, WriteDone, WriteFails, Tick, ClaimFence
  <2>4. CASE Unload \/ Crash
    BY <2>4, UnloadIs DEF Life, Crash
  <2>5. ASSUME NEW g \in Gens, FlowOf(g) PROVE item' = item
    <3>1. CASE Detached(g)
      <4>1. CASE Failed
        BY <3>1, <4>1 DEF Detached
      <4>2. CASE ~Failed
        <5>1. /\ item' = Head(queue).arg
              /\ ArmTimer(g, Head(queue).arg, Head(queue).arg, IF item # Head(queue).arg THEN {"replaced"} ELSE {})
          BY <3>1, <4>2 DEF Detached
        <5> QED BY <2>1, <5>1 DEF ArmTimer
      <4> QED BY <4>1, <4>2
    <3>2. CASE ~Detached(g)
      BY <2>5, <3>2 DEF FlowOf, Ends, Hands, Claims, Sends, Informs, Wakes, Proceeds, Asks, Rests, Stays,
         Continues, Enqueues, Happens
    <3> QED BY <3>1, <3>2
  <2> QED BY <1>2, <2>1, <2>2, <2>3, <2>4, <2>5, FlowKinds DEF StepAlone
<1> QED BY <1>1, <1>2

LEMMA OnceLives ==
    ASSUME Typed, Life, FailedOK, kind = "once", [Next]_vars, Plain', ~BeginOp, NEW c, Lives(c)'
    PROVE  Lives(c) \/ c = Absent
<1>1. Lives(c) \/ c = item'
  BY PlainIs, LivesStep DEF MovedOn
<1>2. item' = Absent \/ Lives(item')
  BY ItemKeeps DEF Lives
<1> QED BY <1>1, <1>2

\* Nobody holds the claim of an item that an operation releases, or that it claims.
LEMMA NobodyHolds ==
    ASSUME Typed, Matched, Tokens, OnceHeld, queue # <<>>, Granting(Head(queue)) \/ Releasing(Head(queue)), NEW g \in Gens
    PROVE  ~Holding(g) /\ item # Absent
<1>1. Lives(item) /\ item # Absent
  BY DEF Lives, Granting, ClaimGranted, Releasing, Holds
<1>2. SUFFICES ASSUME Holding(g) PROVE FALSE
  BY <1>1
<1>3. fire[g].tok = item.tok /\ fire[g].tok > 0
  BY <1>1, <1>2 DEF OnceHeld, Tokens, Holding, ActivePoints
<1>4. CASE Granting(Head(queue))
  BY <1>3, <1>4 DEF Granting, ClaimGranted
<1>5. CASE Releasing(Head(queue))
  <2> DEFINE h == Head(queue).gen
  <2>1. Head(queue).op \in {"abandon", "finalize"} /\ item.tok = Head(queue).tok /\ h \in Gens
    BY <1>5, FromTyped, HeadIsEntry DEF Releasing, Holds, Entry
  <2>2. fire[h].at = Head(queue).op /\ fire[h].tok = item.tok
    BY <2>1, HeadFits DEF OfFire, FireOps, Fits
  <2>3. g = h
    BY <1>3, <2>1, <2>2 DEF Tokens
  <2> QED BY <1>2, <2>1, <2>2, <2>3 DEF Holding
<1> QED BY <1>4, <1>5

\* After the run a fire() does not release its claim: it removes the item.
LEMMA SpentIsNotReleased ==
    ASSUME Typed, Matched, Tokens, kind = "once", OnceCopies, OnceSpent, queue # <<>>,
           Granting(Head(queue)) \/ Releasing(Head(queue))
    PROVE  ~Ran
<1>1. Lives(item) /\ item # Absent
  BY DEF Lives, Granting, ClaimGranted, Releasing, Holds
<1>2. SUFFICES ASSUME Ran PROVE FALSE
  OBVIOUS
<1>3. item.tok # 0
  BY <1>1, <1>2 DEF OnceSpent
<1>4. CASE Granting(Head(queue))
  BY <1>3, <1>4 DEF Granting, ClaimGranted
<1>5. CASE Releasing(Head(queue))
  <2> DEFINE q == Head(queue)
             h == Head(queue).gen
  <2>1. q.op \in {"abandon", "finalize"} /\ item.tok = q.tok /\ h \in Gens /\ Holds(q)
    BY <1>5, FromTyped, HeadIsEntry DEF Releasing, Holds, Entry
  <2>2. fire[h].at = q.op /\ fire[h].tok = item.tok
    BY <2>1, HeadFits DEF OfFire, FireOps, Fits
  <2>3. Active(h)
    BY <2>1, <2>2 DEF Active, ActivePoints
  <2>4. q.op = "finalize" /\ item.crev = item.rev
    BY <1>1, <1>2, <2>1, <2>2, <2>3 DEF OnceSpent
  <2>5. item.on
    BY <1>1, <1>3, <2>4 DEF OnceCopies
  <2>6. Completes(q)
    BY <2>1, <2>4, <2>5 DEF Completes, Authorized
  <2> QED BY <1>5, <2>4, <2>6 DEF Releasing
<1> QED BY <1>4, <1>5

\* What an operation that begins makes of the item of a one-shot, and when.
LEMMA OnceBegins ==
    ASSUME Typed, Life, Matched, Worded, Tokens, Creating, kind = "once", OnceCopies, OnceHeld, OnceSpent, OnceQuiet, BeginOp
    PROVE  /\ fire' = fire /\ ran' = ran /\ claims \in Nat
           /\ claims' = claims \/ claims' = claims + 1
           /\ \/ item' = item \/ item' = Absent
              \/ /\ item' \in Item /\ item' # Absent /\ ~Ran /\ claims' = claims + 1
                 /\ item'.tok = claims + 1 /\ item'.crev = item'.rev /\ item'.on /\ \A g \in Gens : ~Holding(g)
              \/ item' # Absent /\ ~Ran /\ item'.tok = 0 /\ \A g \in Gens : ~Holding(g)
              \/ /\ item # Absent /\ item \in Item /\ item' \in Item /\ item' # Absent
                 /\ item'.tok = item.tok /\ item'.crev = item.crev /\ item'.rev = item.rev + 1
                 /\ Ran => \A g \in Gens : Active(g) => fire[g].tok # item.tok
<1> DEFINE q == Head(queue)
<1>1. fire' = fire /\ ran' = ran /\ claims \in Nat /\ (claims' = claims \/ claims' = claims + 1)
  <2>1. claims' = claims \/ claims' = claims + 1
    BY BeginOpItem
  <2> QED BY <2>1 DEF BeginOp, Typed
<1>2. queue # <<>> /\ q \in Entry /\ q.stage = "queued"
  BY HeadBegins
<1>3. 1 \in 1 .. Len(queue) /\ q = queue[1]
  <2>1. Len(queue) \in Nat \ {0} /\ q = queue[1]
    BY <1>2, FromTyped, Taking DEF QueueTyped
  <2> QED BY <2>1
<1>4. item' \in Item => item' # Absent
  BY AbsentAssumption
<1>5. CASE /\ Granting(q) /\ item # Absent /\ claims' = claims + 1 /\ item' \in Item
           /\ item'.tok = claims + 1 /\ item'.on = item.on /\ item'.crev = item'.rev
  <2>1. item.on
    BY <1>5 DEF Granting, ClaimGranted
  <2>2. ~Ran /\ \A g \in Gens : ~Holding(g)
    BY <1>2, <1>5, SpentIsNotReleased, NobodyHolds
  <2> QED BY <1>1, <1>4, <1>5, <2>1, <2>2
<1>6. CASE Releasing(q) /\ item' \in Item /\ item'.tok = 0
  <2>1. ~Ran /\ \A g \in Gens : ~Holding(g)
    BY <1>2, <1>6, SpentIsNotReleased, NobodyHolds
  <2> QED BY <1>1, <1>4, <1>6, <2>1
<1>7. CASE /\ q.op = "update" /\ item # Absent /\ item' \in Item
           /\ item'.tok = item.tok /\ item'.crev = item.crev /\ item'.rev = item.rev + 1
  <2>1. ASSUME Ran, NEW g \in Gens, Active(g) PROVE fire[g].tok # item.tok
    BY <1>3, <1>7, <2>1 DEF OnceQuiet
  <2>2. item \in Item
    BY <1>7, FromTyped DEF Copy
  <2> QED BY <1>1, <1>4, <1>7, <2>1, <2>2
<1>8. CASE q.op = "create" /\ item' = q.arg
  <2>1. NothingRan /\ NothingFires
    BY <1>2, <1>8 DEF Creating
  <2>2. item' # Absent /\ item'.tok = 0
    BY <1>3, <1>8 DEF Worded
  <2>3. ~Ran /\ \A g \in Gens : ~Holding(g)
    BY <2>1, RanTyped DEF Ran, NothingRan, NothingFires, Holding
  <2> QED BY <1>1, <2>2, <2>3
<1>9. CASE item' = item \/ item' = Absent
  BY <1>1, <1>9
<1> QED BY <1>5, <1>6, <1>7, <1>8, <1>9, BeginOpItem

LEMMA OnceBeginOp ==
    ASSUME Typed, Life, Matched, Worded, Tokens, Creating, kind = "once", OnceCopies, OnceHeld, OnceSpent, OnceAgrees,
           OnceQuiet, BeginOp
    PROVE  OnceCopies' /\ OnceHeld' /\ OnceAlone' /\ OnceSpent' /\ OnceAgrees'
<1>1. /\ fire' = fire /\ ran' = ran /\ claims \in Nat
      /\ claims' = claims \/ claims' = claims + 1
  BY OnceBegins
<1>2. (Ran' <=> Ran) /\ \A g \in Gens : (Active(g)' <=> Active(g)) /\ (Holding(g)' <=> Holding(g)) /\ fire'[g].tok = fire[g].tok
  BY <1>1 DEF Ran, Active, Holding
<1>3. ASSUME NEW c, Lives(c)' PROVE Lives(c) \/ c = item'
  BY <1>3, BeginOpLives
<1>4. ASSUME NEW c, Lives(c), c # Absent PROVE c \in Item /\ c.rev \in Nat /\ c.crev \in Nat /\ c.tok \in Nat
  BY <1>4, LivesTyped DEF Copy, Item
<1>5. Lives(item)
  BY DEF Lives
<1>6. \A g \in Gens : Holding(g) => Active(g) /\ fire[g].tok > 0
  BY DEF Holding, Active, Tokens, ActivePoints
<1>7. \A g \in Gens : fire[g].tok \in Nat /\ fire[g].tok <= claims
  BY FireFields DEF Tokens
<1>8. OnceCopies'
  <2> SUFFICES ASSUME NEW c, Lives(c)', c # Absent, c.tok # 0
               PROVE  c.crev <= c.rev /\ c.tok <= claims' /\ (c.crev = c.rev => c.on)
    BY DEF OnceCopies
  <2>1. CASE Lives(c)
    BY <1>1, <1>4, <2>1 DEF OnceCopies
  <2>2. CASE c = item' /\ item' # item
    <3>1. CASE /\ item' \in Item /\ claims' = claims + 1
               /\ item'.tok = claims + 1 /\ item'.crev = item'.rev /\ item'.on
      BY <1>1, <2>2, <3>1 DEF Item
    <3>2. CASE /\ item # Absent /\ item \in Item /\ item' \in Item
               /\ item'.tok = item.tok /\ item'.crev = item.crev /\ item'.rev = item.rev + 1
      <4>1. item.crev <= item.rev /\ item.tok <= claims /\ item.crev \in Nat /\ item.rev \in Nat /\ item.tok \in Nat
        BY <1>4, <1>5, <2>2, <3>2 DEF OnceCopies
      <4> QED BY <1>1, <2>2, <3>2, <4>1
    <3> QED BY <2>2, <3>1, <3>2, OnceBegins
  <2> QED BY <1>3, <1>5, <2>1, <2>2
<1>9. OnceHeld'
  <2> SUFFICES ASSUME NEW g \in Gens, Holding(g), NEW c, Lives(c)' PROVE c = Absent \/ c.tok = fire[g].tok
    BY <1>2 DEF OnceHeld
  <2> QED BY <1>3, <1>5, OnceBegins DEF OnceHeld
<1>10. OnceAlone'
  <2> SUFFICES ASSUME Pending' PROVE ~Ran /\ \A g \in Gens : ~Holding(g)
    BY <1>2 DEF OnceAlone
  <2>1. PICK b : /\ queue # <<>> /\ BeginsAs(Head(queue), b) /\ queue' # <<>> /\ Head(queue') = b
    BY HeadBegins
  <2>2. b.op = "claim" /\ b.yes /\ b.op = Head(queue).op
    BY <2>1 DEF Pending, HeadIs, BeginsAs
  <2>3. Granting(Head(queue))
    BY <2>1, <2>2 DEF BeginsAs, Returns, Granting, Throws
  <2> QED BY <2>1, <2>3, SpentIsNotReleased, NobodyHolds
<1>11. OnceSpent'
  <2> SUFFICES ASSUME Ran, NEW c, Lives(c)', c # Absent
               PROVE  /\ c.tok # 0
                      /\ \A g \in Gens : Active(g) /\ fire[g].tok = c.tok => fire[g].at \in {"sending", "finalize"} /\ c.crev = c.rev
    BY <1>1, <1>2 DEF OnceSpent
  <2>1. CASE Lives(c)
    BY <2>1 DEF OnceSpent
  <2>2. CASE c = item' /\ item' # item
    <3>1. item # Absent /\ item'.tok = item.tok /\ \A g \in Gens : Active(g) => fire[g].tok # item.tok
      BY <2>2, OnceBegins
    <3>2. item.tok # 0
      BY <1>5, <3>1 DEF OnceSpent
    <3> QED BY <2>2, <3>1, <3>2
  <2> QED BY <1>3, <1>5, <2>1, <2>2
<1>12. OnceAgrees'
  <2> SUFFICES ASSUME NEW c, Lives(c)', item' # Absent, c # Absent, c.tok = item'.tok, item'.tok # 0, item'.crev = item'.rev
               PROVE  c.crev = c.rev
    BY DEF OnceAgrees
  <2>1. CASE c = item'
    BY <2>1
  <2>2. CASE Lives(c) /\ item' = item
    BY <2>2 DEF OnceAgrees
  <2>3. CASE Lives(c) /\ item'.tok = claims + 1
    <3>1. c.tok <= claims
      BY <2>3 DEF OnceCopies
    <3> QED BY <1>1, <2>3, <3>1
  <2>4. CASE /\ item # Absent /\ item \in Item /\ item' \in Item /\ item'.tok = item.tok /\ item'.crev = item.crev
             /\ item'.rev = item.rev + 1
    <3>1. item.crev <= item.rev /\ item.crev \in Nat /\ item.rev \in Nat
      BY <1>4, <1>5, <2>4 DEF OnceCopies
    <3>2. item.crev = item.rev + 1
      BY <2>4
    <3> QED BY <3>1, <3>2
  <2> QED BY <1>3, <2>1, <2>2, <2>3, <2>4, OnceBegins
<1> QED BY <1>8, <1>9, <1>10, <1>11, <1>12

\* A claim that is granted is in every copy when the fire() is told of it.
LEMMA ClaimedEverywhere ==
    ASSUME Typed, Life, Saved, NEW g \in Gens, Claims(g), NEW c, Lives(c)
    PROVE  c = Absent \/ c = Head(queue).res
<1>1. Head(queue).op = "claim" /\ Head(queue).stage = "ok" /\ Saves(Head(queue)) /\ Begun
  BY DEF Claims, Continues, Saves
<1>2. SavedAs(Head(queue), Head(queue).res)
  BY <1>1 DEF Saved, Target, HeadIs
<1>3. ~Replacing
  BY <1>1 DEF Replacing, HeadIs
<1>4. Owner => settings[cur] = Head(queue).res
  BY <1>1, <1>2 DEF SavedAs, Owner, Life, HeadOK
<1> QED BY <1>1, <1>2, <1>3, <1>4 DEF Lives, KeptBack, InSettings, InPass, OnDisk, SavedAs

\* Work is dispatched when nothing has run yet.
LEMMA OnceDispatches ==
    ASSUME Typed, Matched, AuthorizedOK, OnceSpent, NEW k \in Gens, Dispatch(k)
    PROVE  ~Ran
<1>1. item # Absent /\ fire[k].at = "authorize" /\ fire[k].tok = item.tok /\ Lives(item)
  BY DispatchInForce DEF Lives
<1> QED BY <1>1 DEF OnceSpent, Active, ActivePoints

LEMMA OnceElse ==
    ASSUME Typed, Life, Matched, AuthorizedOK, FailedOK, Tokens, Saved, kind = "once", OnceCopies, OnceHeld, OnceAlone, OnceSpent,
           OnceAgrees, [Next]_vars, Plain', ~BeginOp
    PROVE  OnceCopies' /\ OnceHeld' /\ OnceAlone' /\ OnceSpent' /\ OnceAgrees'
<1>0. "late" \notin mishaps'
  BY PlainIs
<1>1. claims' = claims
  BY <1>0, ClaimsKeep
<1>2. ASSUME NEW c, Lives(c)' PROVE Lives(c) \/ c = Absent
  BY <1>2, OnceLives
<1>3. ASSUME NEW g \in Gens, ~Claims(g), Active(g)'
      PROVE  /\ Active(g) /\ fire'[g].tok = fire[g].tok
             /\ Holding(g)' => Holding(g)
             /\ fire[g].at \in {"sending", "finalize"} => fire'[g].at \in {"sending", "finalize"}
  BY <1>0, <1>3, ActiveBefore
<1>4. \A g \in Gens : (Holding(g) => Active(g)) /\ (Holding(g)' => Active(g)')
  BY DEF Holding, Active, ActivePoints
<1>5. ASSUME NEW g \in Gens, Claims(g)
      PROVE  /\ ~Ran /\ ran' = ran /\ fire'[g].at = "gate" /\ fire'[g].tok = Head(queue).res.tok
             /\ \A h \in Gens : ~Holding(h)
             /\ \A h \in Gens \ {g} : fire'[h] = fire[h]
  <2>1. Pending /\ ran' = ran
    BY <1>5 DEF Claims, Continues, Pending, HeadIs
  <2> QED BY <1>5, <2>1 DEF OnceAlone, Claims, FireBecomes
<1>6. OnceCopies'
  BY <1>1, <1>2 DEF OnceCopies
<1>7. OnceHeld'
  <2> SUFFICES ASSUME NEW g \in Gens, Holding(g)', NEW c, Lives(c)', c # Absent PROVE c.tok = fire'[g].tok
    BY DEF OnceHeld
  <2>1. Lives(c)
    BY <1>2
  <2>2. CASE Claims(g)
    BY <1>5, <2>1, <2>2, ClaimedEverywhere
  <2>3. CASE ~Claims(g)
    BY <1>3, <1>4, <2>1, <2>3 DEF OnceHeld
  <2> QED BY <2>2, <2>3
<1>8. OnceAlone'
  <2> SUFFICES ASSUME Pending' PROVE ~Ran' /\ \A g \in Gens : ~Holding(g)'
    BY DEF OnceAlone
  <2>1. ~BeginReplaceAll
    <3> SUFFICES ASSUME BeginReplaceAll PROVE FALSE
      OBVIOUS
    <3>1. PICK b : ReplacesAs(Head(queue), b) /\ queue' # <<>> /\ Head(queue') = b /\ Head(queue).op = "replaceAll"
      BY HeadReplaces
    <3> QED BY <3>1 DEF ReplacesAs, Pending, HeadIs
  <2>2. Pending /\ (UNCHANGED vars \/ Waits)
    <3>1. Pending /\ (UNCHANGED vars \/ HeadGoesOn)
      BY <1>0, <2>1, PendingStays
    <3> QED BY <3>1 DEF HeadGoesOn
  <2>3. ~Ran /\ \A g \in Gens : ~Holding(g)
    BY <2>2 DEF OnceAlone
  <2>4. CASE UNCHANGED vars
    BY <2>3, <2>4 DEF vars, Ran, Holding
  <2>5. CASE Waits
    <3>1. \A g \in Gens : ~Claims(g) /\ ~Dispatch(g)
      BY <2>5 DEF Waits, Claims, Continues, Dispatch, Answers, Settled
    <3>2. ran' = ran
      BY <3>1, RanChanges
    <3> QED BY <1>3, <1>4, <2>3, <3>1, <3>2 DEF Ran
  <2> QED BY <2>2, <2>4, <2>5
<1>9. OnceSpent'
  <2> SUFFICES ASSUME Ran', NEW c, Lives(c)', c # Absent
               PROVE  /\ c.tok # 0
                      /\ \A g \in Gens : Active(g)' /\ fire'[g].tok = c.tok => fire'[g].at \in {"sending", "finalize"} /\ c.crev = c.rev
    BY DEF OnceSpent
  <2>1. Lives(c)
    BY <1>2
  <2>2. CASE Ran
    <3>1. \A g \in Gens : ~Claims(g)
      BY <1>5, <2>2
    <3> QED BY <1>3, <2>1, <2>2, <3>1 DEF OnceSpent
  <2>3. CASE ~Ran
    <3>1. ran' # ran
      BY <2>3 DEF Ran
    <3>2. PICK k \in Gens : Dispatch(k)
      BY <3>1, RanChanges
    <3>3. /\ item # Absent /\ item.crev = item.rev /\ fire[k].at = "authorize" /\ fire[k].tok = item.tok
          /\ Holding(k) /\ fire[k].tok > 0
      BY <3>2, DispatchInForce DEF Holding, Tokens, ActivePoints
    <3>4. c.tok = item.tok /\ item.tok # 0 /\ c.crev = c.rev
      <4>1. c.tok = fire[k].tok
        BY <2>1, <3>3 DEF OnceHeld
      <4>2. fire[k].tok # 0
        BY <3>3
      <4> QED BY <2>1, <3>3, <4>1, <4>2 DEF OnceAgrees
    <3>5. ASSUME NEW g \in Gens, Active(g)', fire'[g].tok = c.tok PROVE fire'[g].at \in {"sending", "finalize"}
      <4>1. FireBecomes(k, "sending", fire[k].due, fire[k].tok)
        BY <3>2, SendsKinds DEF Sends
      <4>2. g # k => fire'[g] = fire[g]
        BY <4>1 DEF FireBecomes
      <4>3. g # k => fire[g].tok # fire[k].tok
        BY <3>3 DEF Tokens
      <4>4. g = k
        BY <3>3, <3>4, <3>5, <4>2, <4>3
      <4> QED BY <4>1, <4>4 DEF FireBecomes
    <3> QED BY <3>4, <3>5
  <2> QED BY <2>2, <2>3
<1>10. OnceAgrees'
  <2> SUFFICES ASSUME NEW c, Lives(c)', item' # Absent, c # Absent, c.tok = item'.tok, item'.tok # 0, item'.crev = item'.rev
               PROVE  c.crev = c.rev
    BY DEF OnceAgrees
  <2>1. CASE item' = item
    BY <1>2, <2>1 DEF OnceAgrees
  <2>2. CASE \A x : Lives(x)' => x = item'
    <3>1. c = item'
      BY <2>2
    <3> QED BY <3>1
  <2> QED BY <2>1, <2>2, ItemStays
<1> QED BY <1>6, <1>7, <1>8, <1>9, <1>10

\* A fire() has the claim of the item only if it had it before.
LEMMA ClaimBefore ==
    ASSUME Typed, Life, Matched, Worded, Tokens, Creating, kind = "once", OnceCopies, OnceHeld, OnceSpent, OnceQuiet,
           [Next]_vars, Plain', NEW g \in Gens, ~Claims(g), Active(g)', item' # Absent, fire'[g].tok = item'.tok, queue' # <<>>
    PROVE  item # Absent /\ Active(g) /\ fire[g].tok = item.tok /\ fire'[g].tok = fire[g].tok
<1>1. Active(g) /\ fire'[g].tok = fire[g].tok
  BY PlainIs, ActiveBefore
<1>2. fire[g].tok > 0 /\ fire[g].tok <= claims /\ fire[g].tok \in Nat /\ claims \in Nat
  BY <1>1, FireFields DEF Tokens, Active, Typed
<1>3. CASE BeginOp
  <2>1. item'.tok # 0 /\ item'.tok # claims + 1
    BY <1>1, <1>2
  <2> QED BY <1>1, <1>3, <2>1, OnceBegins
<1>4. CASE ~BeginOp
  <2>1. CASE item' = item
    BY <1>1, <2>1
  <2> QED BY <1>4, <2>1, ItemStays
<1> QED BY <1>3, <1>4

\* While a fire() has the claim, an update that is asked for is an edit during its run.
LEMMA UpdateIsOld ==
    ASSUME Typed, kind = "once", "edited" \notin mishaps', NEW n \in {0, 1}, Shifts(n), NEW j \in 1 .. Len(queue'),
           queue'[j].op = "update", NEW g \in Gens, item # Absent, Active(g), fire[g].tok = item.tok
    PROVE  j + n \in 1 .. Len(queue) /\ queue[j + n].op = "update"
<1>1. InHand
  BY DEF InHand, Active, ActivePoints
<1>2. ~Fresh(queue'[j])
  BY <1>1 DEF Fresh, Asked, OfFire, FireOps
<1> QED BY <1>2 DEF Shifts, SameCall

LEMMA QueueLength == ASSUME Typed PROVE Len(queue) \in Nat
BY FromTyped, LenProperties DEF QueueTyped

LEMMA OnceOrderStep ==
    ASSUME Typed, Life, Matched, Worded, Tokens, Creating, kind = "once", OnceCopies, OnceHeld, OnceSpent, OnceQuiet, OnceOrder,
           [Next]_vars, Plain', "edited" \notin mishaps'
    PROVE  OnceOrder'
<1> SUFFICES ASSUME NEW g \in Gens, NEW i \in 1 .. Len(queue'), NEW j \in 1 .. Len(queue'),
                    item' # Absent, fire'[g].at = "authorize", fire'[g].tok = item'.tok,
                    i < j, queue'[i].op = "authorize", queue'[i].gen = g, queue'[j].op = "update"
             PROVE  FALSE
  BY DEF OnceOrder
<1>1. ~Claims(g) /\ Active(g)'
  BY DEF Claims, FireBecomes, Active, ActivePoints
<1>2. queue' # <<>> /\ Len(queue) \in Nat /\ Len(queue') \in Nat
  <2>1. Typed'
    BY TypedStep
  <2>2. Len(queue') \in Nat
    BY <2>1, FromTyped, LenProperties DEF Typed, QueueTyped
  <2> QED BY <2>2, QueueLength
<1>3. item # Absent /\ Active(g) /\ fire[g].tok = item.tok
  BY <1>1, <1>2, ClaimBefore
<1>4. PICK n \in {0, 1} : Shifts(n)
  BY PlainIs, QueueShifts
<1>5. j + n \in 1 .. Len(queue) /\ queue[j + n].op = "update"
  BY <1>3, <1>4, UpdateIsOld
<1>6. i + n \in 1 .. Len(queue) /\ SameCall(queue'[i], queue[i + n])
  <2>1. i # Len(queue') /\ i \in Nat /\ j \in Nat
    BY <1>2
  <2> QED BY <1>4, <2>1 DEF Shifts
<1>7. queue[i + n].op = "authorize" /\ queue[i + n].gen = g
  BY <1>6 DEF SameCall
<1>8. fire[g].at = "authorize"
  <2>1. Fits(queue[i + n], fire[g])
    BY <1>6, <1>7 DEF Matched, Fitting, OfFire, FireOps
  <2> QED BY <1>7, <2>1 DEF Fits
<1>9. i + n < j + n
  OBVIOUS
<1> QED BY <1>3, <1>5, <1>6, <1>7, <1>8, <1>9 DEF OnceOrder

LEMMA OnceQuietStep ==
    ASSUME Typed, Life, Matched, AuthorizedOK, Worded, Tokens, Creating, kind = "once", OnceCopies, OnceHeld, OnceAlone, OnceSpent,
           OnceQuiet, OnceOrder, [Next]_vars, Plain', "edited" \notin mishaps'
    PROVE  OnceQuiet'
<1> SUFFICES ASSUME NEW g \in Gens, NEW i \in 1 .. Len(queue'), Ran', Active(g)', item' # Absent, fire'[g].tok = item'.tok,
                    queue'[i].op = "update"
             PROVE  FALSE
  BY DEF OnceQuiet
<1>1. ~Claims(g)
  <2> SUFFICES ASSUME Claims(g) PROVE FALSE
    OBVIOUS
  <2>1. Pending /\ ran' = ran
    BY DEF Claims, Continues, Pending, HeadIs
  <2> QED BY <2>1 DEF OnceAlone, Ran
<1>2. queue' # <<>> /\ Len(queue) \in Nat /\ Len(queue') \in Nat
  <2>1. Typed'
    BY TypedStep
  <2>2. Len(queue') \in Nat
    BY <2>1, FromTyped, LenProperties DEF Typed, QueueTyped
  <2>3. Len(queue') # 0
    BY <2>2
  <2> QED BY <2>2, <2>3, QueueLength
<1>3. item # Absent /\ Active(g) /\ fire[g].tok = item.tok
  BY <1>1, <1>2, ClaimBefore
<1>4. CASE Ran
  <2>1. PICK n \in {0, 1} : Shifts(n)
    BY PlainIs, QueueShifts
  <2>2. i + n \in 1 .. Len(queue) /\ queue[i + n].op = "update"
    BY <1>3, <2>1, UpdateIsOld
  <2> QED BY <1>3, <1>4, <2>2 DEF OnceQuiet
<1>5. CASE ~Ran
  <2>1. ran' # ran
    BY <1>5 DEF Ran
  <2>2. PICK k \in Gens : Dispatch(k)
    BY <2>1, RanChanges
  <2>3. item # Absent /\ fire[k].at = "authorize" /\ fire[k].tok = item.tok
    BY <2>2, DispatchInForce
  <2>4. /\ queue # <<>> /\ queue' = Tail(queue) /\ Head(queue).op = "authorize" /\ Head(queue).gen = k
    BY <2>2 DEF Dispatch, Answers, Pop
  <2>5. /\ Head(queue) = queue[1] /\ Len(queue') = Len(queue) - 1 /\ queue'[i] = queue[i + 1]
    BY <2>4, FromTyped, Taking DEF QueueTyped
  <2>6. 1 \in 1 .. Len(queue) /\ i + 1 \in 1 .. Len(queue) /\ 1 < i + 1
    BY <1>2, <2>5
  <2>7. queue[1].op = "authorize" /\ queue[1].gen = k /\ queue[i + 1].op = "update"
    BY <2>4, <2>5
  <2> QED BY <2>3, <2>6, <2>7 DEF OnceOrder
<1> QED BY <1>4, <1>5

LEMMA OnceStep ==
    ASSUME Typed, Orderly, Creating, Saved, kind = "once", Once, [Next]_vars, Plain', "edited" \notin mishaps'
    PROVE  Once'
<1>1. Life /\ Matched /\ Worded /\ AuthorizedOK /\ FailedOK /\ DueOK /\ Tokens
  BY DEF Orderly
<1>2. OnceCopies /\ OnceHeld /\ OnceAlone /\ OnceSpent /\ OnceAgrees /\ OnceOrder /\ OnceQuiet
  BY DEF Once
<1>3. OnceCopies' /\ OnceHeld' /\ OnceAlone' /\ OnceSpent' /\ OnceAgrees'
  BY <1>1, <1>2, OnceBeginOp, OnceElse
<1>4. OnceOrder' /\ OnceQuiet'
  BY <1>1, <1>2, OnceOrderStep, OnceQuietStep
<1> QED BY <1>3, <1>4 DEF Once

LEMMA InitOnce == ASSUME Init PROVE Once
<1>1. queue = <<>> /\ ~Ran /\ ~Pending
  BY DEF Init, Ran, Pending, HeadIs, Begun
<1>2. \A g \in Gens : ~Holding(g) /\ ~Active(g)
  BY DEF Init, NoFire, Idle, Holding, Active, ActivePoints
<1>3. \A c : Lives(c) => c = Absent \/ (c.tok = 0 /\ c = disk)
  BY DEF Init, Lives, KeptBack, InSettings, InPass, OnDisk, Owner, Replacing, HeadIs, Begun, NoPass
<1>4. item = Absent
  BY DEF Init
<1> QED BY <1>1, <1>2, <1>3, <1>4 DEF Once, OnceCopies, OnceHeld, OnceAlone, OnceSpent, OnceAgrees, OnceOrder, OnceQuiet

\* No slot has run twice, for the two sorts of schedules.
SlottedInv == Plain /\ kind # "once" => Slotted
RanOnce == \A d, e \in Slots : ran[d] < 2 /\ (ran[d] > 0 /\ ran[e] > 0 => d = e)
OnceInv == Plain /\ "edited" \notin mishaps /\ kind = "once" => "missed" \notin mishaps /\ Once /\ RanOnce

LEMMA OnceRuns ==
    ASSUME Typed, Matched, AuthorizedOK, OnceSpent, [Next]_vars, RanOnce
    PROVE  RanOnce'
<1>1. CASE ran' = ran
  BY <1>1 DEF RanOnce
<1>2. CASE ran' # ran
  <2>1. PICK k \in Gens : Dispatch(k)
    BY <1>2, RanChanges
  <2>2. ~Ran /\ ran' = [ran EXCEPT ![fire[k].due] = IF @ = 0 THEN 1 ELSE 2] /\ fire[k].due \in Slots
    BY <2>1, OnceDispatches, DispatchInForce, FireFields
  <2>3. \A d \in Slots : ran[d] = 0
    BY <2>2, RanTyped DEF Ran
  <2>4. \A d \in Slots : ran'[d] = IF d = fire[k].due THEN 1 ELSE 0
    BY <2>2, <2>3, RanTyped
  <2> QED BY <2>4 DEF RanOnce
<1> QED BY <1>1, <1>2

LEMMA SlottedInvStep == ASSUME Typed, OrderlyInv, PlainInv, SlottedInv, [Next]_vars PROVE SlottedInv'
<1>1. SUFFICES ASSUME Plain', kind' # "once" PROVE Slotted'
  BY DEF SlottedInv
<1>2. Plain /\ "late" \notin mishaps /\ kind # "once"
  BY <1>1, PlainGrows, PlainIs, KindStays
<1>3. Orderly /\ Creating /\ Slotted
  BY <1>2 DEF OrderlyInv, PlainInv, SlottedInv
<1> QED BY <1>1, <1>2, <1>3, SlottedStep

LEMMA OnceInvStep == ASSUME Typed, OrderlyInv, SavedInv, PlainInv, OnceInv, [Next]_vars PROVE OnceInv'
<1>1. SUFFICES ASSUME Plain', "edited" \notin mishaps', kind' = "once"
               PROVE  "missed" \notin mishaps' /\ Once' /\ RanOnce'
  BY DEF OnceInv
<1>2. Plain /\ "late" \notin mishaps /\ kind = "once" /\ "edited" \notin mishaps
  <2>1. mishaps \subseteq mishaps'
    BY MishapsGrow
  <2> QED BY <1>1, <2>1, PlainGrows, PlainIs, KindStays
<1>3. "missed" \notin mishaps /\ Once /\ RanOnce
  BY <1>2 DEF OnceInv
<1>4. Unlost
  BY <1>2, <1>3 DEF Unlost, Plain, Except
<1>5. Orderly /\ Creating /\ Saved /\ Matched /\ AuthorizedOK /\ OnceSpent
  BY <1>2, <1>3, <1>4 DEF OrderlyInv, Orderly, PlainInv, SavedInv, Once
<1> QED BY <1>1, <1>2, <1>3, <1>5, OnceIsNotMissed, OnceStep, OnceRuns

LEMMA InitRuns == ASSUME Init PROVE SlottedInv /\ OnceInv
<1>1. mishaps = {} /\ \A d \in Slots : ran[d] = 0
  BY DEF Init
<1> QED BY <1>1, InitSlotted, InitOnce DEF SlottedInv, OnceInv, RanOnce

LEMMA RunsOncePerSlotHolds == ASSUME SlottedInv, OnceInv PROVE RunsOncePerSlot
<1> SUFFICES ASSUME Except({"late", "replaced", "fenced", "edited"})
             PROVE  /\ \A d \in Slots : ran[d] < 2
                    /\ kind = "once" => \A d, e \in Slots : ran[d] > 0 /\ ran[e] > 0 => d = e
  BY DEF RunsOncePerSlot
<1>1. Plain /\ "edited" \notin mishaps
  BY DEF Plain, Except
<1>2. CASE kind = "once"
  BY <1>1, <1>2 DEF OnceInv, RanOnce
<1>3. CASE kind # "once"
  BY <1>1, <1>3 DEF SlottedInv, Slotted, GrantedOnce
<1> QED BY <1>2, <1>3

\* The work due at a slot is dispatched once, whatever reloads, crashes and failed writes come between and however
\* many schedulers are awake, and a one-shot once in all: RunsOncePerSlot holds in every state.
THEOREM RunsOnce == Spec => []RunsOncePerSlot
<1> DEFINE Inv == Typed /\ OrderlyInv /\ SavedInv /\ PlainInv /\ SlottedInv /\ OnceInv
<1>1. Init => Inv
  BY InitTyped, InitOrderly, InitSaved, InitPlain, InitRuns DEF SavedInv, PlainInv
<1>2. Inv /\ [Next]_vars => Inv'
  <2> SUFFICES ASSUME Inv, [Next]_vars PROVE Inv'
    OBVIOUS
  <2>1. Typed' /\ OrderlyInv' /\ PlainInv' /\ SlottedInv' /\ OnceInv'
    BY TypedStep, OrderlyStep, PlainInvStep, SlottedInvStep, OnceInvStep
  <2>2. SavedInv'
    <3>1. Unlost' => Unlost /\ Life
      <4>1. mishaps \subseteq mishaps'
        BY MishapsGrow
      <4> QED BY <4>1 DEF Unlost, Except, OrderlyInv, Orderly
    <3> QED BY <3>1, SavedStep DEF SavedInv
  <2> QED BY <2>1, <2>2
<1>3. Inv => RunsOncePerSlot
  BY RunsOncePerSlotHolds
<1> HIDE DEF Inv
<1> QED BY <1>1, <1>2, <1>3, PTL DEF Spec

-----------------------------------------------------------------------------
(* An item is armed for as long as nothing goes wrong around it.             *)

Calm == mishaps = {}
Loaded == up = "loaded"

\* Only the scheduler that is loaded is armed or runs anything.
Lone == \A g \in Gens : g # cur \/ ~Loaded => fire[g].at = "idle" /\ ~wake[g]

\* What is queued was asked for by the scheduler that is loaded.
Own == Loaded => \A i \in 1 .. Len(queue) : queue[i].gen = cur

\* The settings, the write in progress and the file keep up with the item.
InStep == Loaded =>
    /\ settings[cur] = IF Replacing THEN Head(queue).arg ELSE item
    /\ pass.gen # 0 /\ ~(Waits /\ Head(queue).stage = "next") => pass.snap = settings[cur]
    /\ pass.gen # 0 /\ Replacing /\ Head(queue).stage = "next" => pass.snap = item
    /\ ~Waits => disk = settings[cur]
    /\ Replacing /\ Head(queue).stage # "ok" => disk = item

\* The running operation answers with the item as it is.
Answered == Loaded /\ Begun /\ Head(queue).op # "replaceAll" /\ Head(queue).stage # "failed" => Head(queue).res = item

\* It is saved, and fails only when there is nothing to update or no scheduler is registered.
Unfailed == Loaded /\ Begun =>
    /\ \/ Head(queue).by = cur /\ Head(queue).stage # "failed"
       \/ Head(queue).stage = "failed" /\ Head(queue).op = "update" /\ item = Absent
    /\ Waits /\ Head(queue).op = "claim" => Head(queue).yes
Unsaved == Begun /\ Head(queue).stage = "failed" => Head(queue).by = 0

\* A claim on the item is worked on: it was just granted, or the fire() in progress holds it.
Claimant == Loaded /\ item # Absent /\ item.tok # 0 =>
    Pending \/ (fire[cur].tok = item.tok /\ ~(Begun /\ Head(queue).op \in {"abandon", "finalize"}))

\* No copy keeps a claim that nobody works on.
Attended == \A c : Lives(c) /\ c # Absent /\ c.tok # 0 => \E g \in Gens : fire[g].at # "idle"

\* The edits in the queue: one at a time, behind nothing but a claim that is granted.
IsEdit(q) == q.op = "update" /\ q.patch # "skip"
EditsFirst == Loaded => \A i \in 1 .. Len(queue) : IsEdit(queue[i]) => i = 1 \/ (i = 2 /\ Pending)

\* No fire() is in progress and nobody has asked for the item to be deleted.
Still == Loaded /\ fire[cur].at = "idle" /\ \A i \in 1 .. Len(queue) : queue[i].op # "delete"

\* The scheduler's copy is the coordinator's and is armed, unless an edit is queued; then it is armed for what the
\* edit makes of the item.
Enabled(it, patch) == patch = "on" \/ (patch # "off" /\ it.on)
Armed == Still /\ item # Absent /\ (\A i \in 1 .. Len(queue) : ~IsEdit(queue[i]))
            => local[cur] = item /\ (item.on => wake[cur])
Arming == Still /\ item # Absent /\ queue # <<>> /\ IsEdit(Head(queue))
            => IF Head(queue).stage = "queued" THEN Enabled(item, Head(queue).patch) => wake[cur]
               ELSE item.on => wake[cur]
Making == Still /\ queue # <<>> /\ Head(queue).op = "create" /\ Head(queue).stage = "queued"
            => local[cur] = Head(queue).arg /\ wake[cur]

Kept == Lone /\ Own /\ InStep /\ Answered /\ Unfailed /\ Unsaved /\ Claimant /\ Attended /\ EditsFirst
Watched == Armed /\ Arming /\ Making
Whole == Kept /\ Watched

LEMMA CalmIs ==
    ASSUME Typed, [Next]_vars, Calm'
    PROVE  /\ Calm /\ Plain /\ Plain' /\ mishaps' \cap {"late", "fenced"} = {}
           /\ \A what \in Mishaps : what \notin mishaps'
BY MishapsGrow DEF Calm, Plain, Except

\* Under calm only the loaded scheduler starts, ends or asks for anything; the item, the settings and the file stay
\* as they are, and at most the settings are saved once more.
CalmStep(g) ==
    /\ FlowOf(g) /\ Steady /\ (Loaded => g = cur)
    /\ item' = item /\ disk' = disk /\ settings' = settings
    /\ pass' = pass \/ (fence = cur /\ up # "claimed" /\ pass' = Requested(pass, cur, settings[cur]))

LEMMA CalmDetached ==
    ASSUME Typed, Life, Own, Unfailed, Unsaved, Resting, NEW g \in Gens, Detached(g), Calm'
    PROVE  /\ CalmStep(g)
           /\ Loaded => /\ ~Failed /\ Replacing /\ item = Head(queue).arg
                        /\ local' = [local EXCEPT ![g] = item] /\ wake' = [wake EXCEPT ![g] = item # Absent /\ item.on]
           /\ ~Loaded => wake' = wake \/ wake' = [wake EXCEPT ![g] = FALSE]
           /\ queue # <<>> /\ queue' = Tail(queue) /\ fire' = fire /\ Begun /\ ~Waits /\ HeadIs("replaceAll")
           /\ ~Begun'
<1>1. /\ Steady /\ Begun /\ ~Waits /\ Head(queue).op = "replaceAll" /\ Head(queue).gen = g /\ disk' = disk
      /\ ~Unborn(g) /\ Pops(g) /\ queue # <<>> /\ queue' = Tail(queue) /\ fire' = fire
  BY DetachedIs DEF Detached, Answers, Pop
<1>2. ~Begun'
  BY <1>1, PoppingQueue DEF Life
<1>3. Loaded => g = cur
  <2>1. queue # <<>> => Len(queue) \in Nat \ {0} /\ Head(queue) = queue[1]
    BY FromTyped, Taking DEF QueueTyped
  <2> QED BY <1>1, <2>1 DEF Own
<1>4. CASE Failed
  <2>1. settings' = settings /\ item' = item /\ pass' = pass /\ wake' = wake /\ ~Loaded
    BY <1>1, <1>4 DEF Detached, Unfailed, Unsaved, Failed
  <2> QED BY <1>1, <1>2, <1>3, <2>1 DEF CalmStep, FlowOf, HeadIs
<1>5. CASE ~Failed
  <2>1. /\ item' = Head(queue).arg
        /\ ArmTimer(g, Head(queue).arg, Head(queue).arg, IF item # Head(queue).arg THEN {"replaced"} ELSE {})
    BY <1>5 DEF Detached
  <2>2. item = Head(queue).arg
    BY <2>1, ArmingUnlessMissed DEF Calm
  <2>3. /\ settings' = settings /\ pass' = pass /\ local' = [local EXCEPT ![g] = item]
        /\ wake' = [wake EXCEPT ![g] = item # Absent /\ item.on]
    BY <2>1, <2>2, ArmingUnlessMissed DEF Calm
  <2>4. Loaded => Replacing
    BY <1>1, <1>5 DEF Unfailed, Replacing, HeadIs, Failed, Typed, Loaded, Gens
  <2>5. ~Loaded => item = Absent
    BY DEF Resting, Loaded
  <2> QED BY <1>1, <1>2, <1>3, <1>5, <2>1, <2>2, <2>3, <2>4, <2>5 DEF CalmStep, FlowOf, HeadIs
<1> QED BY <1>4, <1>5

LEMMA CalmFlows ==
    ASSUME Typed, Life, Lone, Own, Unfailed, Unsaved, Resting, NEW g \in Gens, FlowOf(g), Detached(g) \/ Moves(g), Calm'
    PROVE  CalmStep(g)
<1>1. CASE Detached(g)
  BY <1>1, CalmDetached
<1>2. CASE ~Detached(g)
  <2>1. /\ settings' = settings
        /\ pass' = pass \/ (fence = cur /\ up # "claimed" /\ pass' = Requested(pass, cur, settings[cur]))
    <3>1. fence = g => g = cur
      BY DEF Life, RegsOK, Gens
    <3> QED BY <1>2, <3>1 DEF Moves, Calm
  <2>2. Steady /\ item' = item /\ disk' = disk
    BY <1>2 DEF FlowOf, Ends, Hands, Claims, Sends, Informs, Wakes, Proceeds, Asks, Rests, Stays,
       Continues, Enqueues, Happens
  <2>3. Loaded => g = cur
    <3>1. Continues(g) => queue # <<>> /\ Head(queue).gen = g
      BY DEF Continues
    <3>2. queue # <<>> => Len(queue) \in Nat \ {0} /\ Head(queue) = queue[1]
      BY FromTyped, Taking DEF QueueTyped
    <3>3. Loaded /\ Continues(g) => g = cur
      BY <3>1, <3>2 DEF Own
    <3>4. Rests(g) => g = cur \/ wake[g]
      BY DEF Rests, OtherSave, WakeWhileFiring, Missed, Life, RegsOK, Gens
    <3>5. Wakes(g) \/ Proceeds(g) \/ Asks(g) => g = cur \/ wake[g] \/ fire[g].at # "idle"
      BY DEF Wakes, Proceeds, Asks, Live
    <3>6. Ends(g) \/ Hands(g) \/ Claims(g) \/ Sends(g) \/ Informs(g) => Continues(g)
      BY DEF Ends, Hands, Claims, Sends, Informs
    <3> QED BY <1>2, <3>3, <3>4, <3>5, <3>6 DEF FlowOf, Lone
  <2> QED BY <2>1, <2>2, <2>3 DEF CalmStep
<1> QED BY <1>1, <1>2

LEMMA CalmKinds ==
    ASSUME Typed, Life, Lone, Own, Unfailed, Unsaved, Resting, [Next]_vars, Calm'
    PROVE  UNCHANGED vars \/ StepAlone \/ \E g \in Gens : CalmStep(g)
BY CalmFlows, FlowKinds DEF Calm
\* Who is armed, and whose operations are queued.
LEMMA LoneStep ==
    ASSUME Typed, Life, Matched, Lone, Own, Unfailed, Unsaved, Resting, [Next]_vars, Calm'
    PROVE  Lone'
<1>1. CASE UNCHANGED vars \/ BeginOp \/ BeginReplaceAll \/ WriteDone \/ WriteFails \/ Tick
  BY <1>1 DEF vars, BeginOp, BeginReplaceAll, WriteDone, WriteFails, Tick, Lone, Loaded
<1>2. CASE Unload
  <2>1. /\ fire' = fire /\ wake' = [wake EXCEPT ![cur] = FALSE] /\ cur' = cur /\ up = "loaded" /\ up' = "off"
        /\ fire[cur].at = "idle"
    BY <1>2 DEF Unload, Calm
  <2> QED BY <2>1, FromTyped DEF Lone, Loaded
<1>3. CASE ClaimFence
  BY <1>3 DEF ClaimFence, Lone, Loaded
<1>4. CASE Start
  <2>1. PICK a \in Copy, skip \in BOOLEAN : StartsAs(a, skip)
    BY <1>4, StartIs
  <2>2. fire' = fire /\ up = "claimed" /\ up' = "loaded" /\ cur' = cur /\ wake' = [wake EXCEPT ![cur] = a # Absent /\ a.on]
    BY <1>4, <2>1 DEF Start, StartsAs
  <2> QED BY <2>2, FromTyped DEF Lone, Loaded
<1>5. CASE Crash
  BY <1>5 DEF Crash, NoFire, NotArmed, Idle, Lone
<1>6. ASSUME NEW g \in Gens, CalmStep(g) PROVE Lone'
  <2>1. Steady /\ FlowOf(g)
    BY <1>6 DEF CalmStep
  <2>2. CASE Loaded
    <3>1. g = cur /\ cur' = cur /\ up' = up
      BY <1>6, <2>2 DEF CalmStep, Steady
    <3>2. CASE Detached(g)
      <4>1. fire' = fire /\ wake' = [wake EXCEPT ![g] = item # Absent /\ item.on]
        BY <2>2, <3>2, CalmDetached
      <4>2. \A h \in Gens \ {g} : wake'[h] = wake[h]
        BY <4>1, EndsFireElsewhere
      <4> QED BY <2>2, <3>1, <4>1, <4>2 DEF Lone, Loaded
    <3>3. CASE ~Detached(g)
      <4>1. Touches({g})
        BY <2>1, <3>3 DEF FlowOf, Ends, Hands, Claims, Sends, Informs, Wakes, Proceeds, Asks, Rests, Stays,
           Continues, Enqueues, Happens
      <4> QED BY <2>2, <3>1, <4>1 DEF Lone, Loaded, Touches
    <3> QED BY <3>2, <3>3
  <2>3. CASE ~Loaded
    <3>1. ~Loaded'
      BY <2>1, <2>3 DEF Steady, Loaded
    <3>2. \A h \in Gens : fire[h].at = "idle" /\ ~wake[h]
      BY <2>3 DEF Lone
    <3>3. CASE Detached(g)
      <4>1. fire' = fire /\ (wake' = wake \/ wake' = [wake EXCEPT ![g] = FALSE])
        BY <2>3, <3>3, CalmDetached
      <4> QED BY <3>2, <4>1, FromTyped DEF Lone
    <3>4. CASE Informs(g)
      BY <3>2, <3>4 DEF Informs, Edited, Deleted, Created, Lone
    <3>5. CASE Ends(g) \/ Hands(g) \/ Claims(g) \/ Sends(g)
      <4>1. queue # <<>> /\ OfFire(Head(queue)) /\ Head(queue) \in Entry
        BY <3>5 DEF Ends, Hands, Claims, Sends, Continues, OfFire, FireOps
      <4>2. Fits(Head(queue), fire[Head(queue).gen]) /\ Head(queue).gen \in Gens
        BY <4>1, HeadFits DEF Entry
      <4>3. fire[Head(queue).gen].at # "idle"
        BY <4>1, <4>2 DEF Fits, OfFire, FireOps
      <4> QED BY <3>2, <4>2, <4>3
    <3>6. CASE Wakes(g) \/ Proceeds(g) \/ Asks(g)
      BY <2>3, <3>2, <3>6 DEF Wakes, Proceeds, Asks, Live, Loaded
    <3>7. CASE Rests(g)
      BY <3>2, <3>7 DEF Rests, OtherSave, WakeWhileFiring, Missed, Lone
    <3> QED BY <2>1, <3>3, <3>4, <3>5, <3>6, <3>7 DEF FlowOf
  <2> QED BY <2>2, <2>3
<1> QED BY <1>1, <1>2, <1>3, <1>4, <1>5, <1>6, CalmKinds DEF StepAlone

LEMMA QueuePushes ==
    ASSUME Typed, NEW g \in Gens, Pushes(g), \A i \in 1 .. Len(queue) : queue[i].gen = g
    PROVE  \A i \in 1 .. Len(queue') : queue'[i].gen = g
<1>1. PICK q : Queued(q, q.op, g) /\ queue' = Append(queue, q)
  BY DEF Pushes
<1>2. q \in Entry /\ q.gen = g /\ queue \in Seq(Entry)
  BY <1>1, FromTyped DEF Queued, QueueTyped
<1> QED BY <1>1, <1>2, Appending

LEMMA QueuePops ==
    ASSUME Typed, NEW g \in Gens, Pops(g), \A i \in 1 .. Len(queue) : queue[i].gen = g
    PROVE  \A i \in 1 .. Len(queue') : queue'[i].gen = g
<1>1. queue # <<>> /\ queue \in Seq(Entry)
  BY FromTyped DEF Pops, QueueTyped
<1>2. /\ Tail(queue) \in Seq(Entry) /\ Len(queue) \in Nat
      /\ Len(Tail(queue)) = Len(queue) - 1
      /\ \A i \in 1 .. Len(Tail(queue)) : Tail(queue)[i] = queue[i + 1]
  BY <1>1, Taking
<1>3. \A i \in 1 .. Len(Tail(queue)) : Tail(queue)[i].gen = g
  BY <1>2
<1>4. CASE queue' = Tail(queue)
  BY <1>3, <1>4
<1>5. ASSUME NEW q, Queued(q, q.op, g), queue' = Append(Tail(queue), q)
      PROVE  \A i \in 1 .. Len(queue') : queue'[i].gen = g
  <2>1. q \in Entry /\ q.gen = g
    BY <1>5 DEF Queued
  <2>2. /\ Len(queue') = Len(Tail(queue)) + 1 /\ queue'[Len(Tail(queue)) + 1] = q
        /\ \A i \in 1 .. Len(Tail(queue)) : queue'[i] = Tail(queue)[i]
    BY <1>2, <1>5, <2>1, Appending
  <2> QED BY <1>2, <1>3, <2>1, <2>2
<1> QED BY <1>4, <1>5 DEF Pops

LEMMA OwnStep ==
    ASSUME Typed, Life, Lone, Own, Unfailed, Unsaved, Resting, [Next]_vars, Calm'
    PROVE  Own'
<1>1. CASE UNCHANGED vars
  BY <1>1 DEF vars, Own, Loaded
<1>2. CASE StepAlone
  <2>1. CASE queue' = <<>>
    BY <2>1 DEF Own
  <2>2. CASE Start
    BY <2>1, <2>2, StartIs
  <2>3. CASE ~Start
    <3>1. up' = "loaded" => up = "loaded" /\ cur' = cur
      BY <1>2, <2>3 DEF StepAlone, BeginOp, BeginReplaceAll, WriteDone, WriteFails, Unload, ClaimFence, Crash, Tick
    <3>2. CASE queue' = queue
      BY <3>1, <3>2 DEF Own, Loaded
    <3>3. ASSUME NEW b \in Entry, Changes(b), SameCall(b, Head(queue)) PROVE Own'
      <4>1. Len(queue') = Len(queue) /\ \A i \in 1 .. Len(queue') : queue'[i].gen = queue[i].gen
        <5>1. queue \in Seq(Entry) /\ queue # <<>> /\ Head(queue) = queue[1] /\ Len(queue) \in Nat \ {0}
        BY <3>3, FromTyped, Taking DEF Changes, QueueTyped
      <5>2. Len(queue') = Len(queue) /\ queue'[1] = b /\ \A i \in 2 .. Len(queue) : queue'[i] = queue[i]
        BY <3>3, <5>1, ChangingHead DEF Changes
      <5>3. ASSUME NEW i \in 1 .. Len(queue') PROVE queue'[i].gen = queue[i].gen
        BY <3>3, <5>1, <5>2, <5>3 DEF SameCall
      <5> QED BY <5>2, <5>3
      <4> QED BY <3>1, <4>1 DEF Own, Loaded
    <3> QED BY <1>2, <2>1, <3>2, <3>3, AloneQueue
  <2> QED BY <2>2, <2>3
<1>3. ASSUME NEW g \in Gens, CalmStep(g) PROVE Own'
  <2>1. FlowOf(g) /\ cur' = cur /\ up' = up /\ (Loaded => g = cur)
    BY <1>3 DEF CalmStep, Steady
  <2>2. queue' = queue \/ Pushes(g) \/ Pops(g)
    BY <2>1, DetachedIs DEF FlowOf, Ends, Hands, Claims, Sends, Informs, Wakes, Proceeds, Asks, Rests, Stays,
       Continues, Enqueues, Happens
  <2> QED BY <2>1, <2>2, QueuePushes, QueuePops DEF Own, Loaded
<1> QED BY <1>1, <1>2, <1>3, CalmKinds

\* The item changes only when an operation begins or the scheduler starts.
LEMMA CalmStays ==
    ASSUME Typed, Life, Lone, Own, Unfailed, Unsaved, Resting, [Next]_vars, Calm', ~BeginOp, ~Start, Loaded'
    PROVE  /\ Loaded /\ item' = item /\ Steady /\ kind' = kind
           /\ ~WriteDone => disk' = disk
           /\ ~BeginReplaceAll => settings' = settings
<1>1. CASE UNCHANGED vars
  BY <1>1 DEF vars, Loaded, Steady
<1>2. CASE StepAlone
  BY <1>2 DEF StepAlone, BeginReplaceAll, WriteDone, WriteFails, Unload, ClaimFence, Crash, Tick, Loaded, Steady
<1>3. ASSUME NEW g \in Gens, CalmStep(g) PROVE Loaded /\ item' = item /\ Steady /\ disk' = disk /\ settings' = settings
  BY <1>3 DEF CalmStep, Steady, Loaded
<1> QED BY <1>1, <1>2, <1>3, CalmKinds, KindStays

LEMMA CalmWrite ==
    ASSUME Typed, Life, Loaded, WriteDone
    PROVE  /\ pass.gen = cur /\ disk' = pass.snap /\ item' = item /\ settings' = settings /\ fire' = fire
           /\ local' = local /\ wake' = wake /\ Steady /\ (pass' = NoPass \/ pass'.snap = settings[cur])
           /\ \/ queue = <<>> /\ queue' = <<>>
              \/ /\ queue # <<>> /\ queue' # <<>> /\ Waits /\ Begun' /\ SameCall(Head(queue'), Head(queue))
                 /\ Head(queue').by = Head(queue).by /\ Head(queue').yes = Head(queue).yes
                 /\ Head(queue').res = Head(queue).res
                 /\ Head(queue').stage = (IF Head(queue).stage = "next" THEN "this" ELSE "ok")
                 /\ Len(queue') = Len(queue) /\ \A i \in 1 .. Len(queue) : SameCall(queue'[i], queue[i])
<1> DEFINE more == pass.again /\ fence = pass.gen
           st == AfterWrite(more)
           b == [Head(queue) EXCEPT !.stage = st]
<1>1. /\ Quiet /\ pass.gen # 0 /\ disk' = pass.snap /\ item' = item /\ settings' = settings /\ fire' = fire
      /\ local' = local /\ wake' = wake /\ Steady
      /\ pass' = IF more THEN [gen |-> pass.gen, snap |-> settings[pass.gen], again |-> FALSE] ELSE NoPass
      /\ queue' = IF ~Waiting(pass.gen) THEN queue ELSE HeadStage(st)
  BY DEF WriteDone, Steady
<1>2. pass.gen = cur /\ fence = cur
  BY <1>1 DEF Life, PassOK, RegsOK, Loaded
<1>3. pass' = NoPass \/ pass'.snap = settings[cur]
  BY <1>1, <1>2
<1>4. st \in Stages /\ st = IF Head(queue).stage = "next" /\ more THEN "this" ELSE "ok"
  BY DEF AfterWrite, Stages
<1>5. Waits /\ Head(queue).stage = "next" => more
  BY <1>2 DEF Life, HeadOK
<1> HIDE DEF st, more
<1>6. \/ queue = <<>> /\ queue' = <<>>
      \/ /\ Waits /\ b \in Entry /\ queue' = [queue EXCEPT ![1] = b] /\ b.stage = st
         /\ b.op = Head(queue).op /\ b.gen = Head(queue).gen /\ b.due = Head(queue).due
         /\ b.tok = Head(queue).tok /\ b.patch = Head(queue).patch /\ b.arg = Head(queue).arg
         /\ b.by = Head(queue).by /\ b.yes = Head(queue).yes /\ b.res = Head(queue).res
  BY <1>1, <1>4, WriteEnds
<1>7. CASE queue = <<>> /\ queue' = <<>>
  BY <1>1, <1>2, <1>3, <1>7
<1>8. CASE Waits /\ queue # <<>>
  <2> HIDE DEF b
  <2>1. queue' = [queue EXCEPT ![1] = b] /\ b \in Entry /\ SameCall(b, Head(queue)) /\ b.stage = st
        /\ b.by = Head(queue).by /\ b.yes = Head(queue).yes /\ b.res = Head(queue).res
    BY <1>6, <1>8 DEF SameCall
  <2>2. queue \in Seq(Entry) /\ Head(queue) = queue[1] /\ Len(queue) \in Nat \ {0}
    BY <1>8, FromTyped, Taking DEF QueueTyped
  <2>3. /\ queue' # <<>> /\ Len(queue') = Len(queue) /\ Head(queue') = b /\ queue'[1] = b
        /\ \A i \in 2 .. Len(queue) : queue'[i] = queue[i]
    BY <1>8, <2>1, <2>2, ChangingHead
  <2>4. ASSUME NEW i \in 1 .. Len(queue) PROVE SameCall(queue'[i], queue[i])
    BY <2>1, <2>2, <2>3, <2>4, SameCallItself
  <2>5. Head(queue).stage \in {"this", "next"} /\ st \in {"this", "ok"}
        /\ st = (IF Head(queue).stage = "next" THEN "this" ELSE "ok")
    BY <1>4, <1>5, <1>8 DEF Waits
  <2> QED BY <1>1, <1>2, <1>3, <1>8, <2>1, <2>3, <2>4, <2>5 DEF Begun
<1> QED BY <1>6, <1>7, <1>8 DEF Waits, Begun

LEMMA AnsweredStep ==
    ASSUME Typed, Life, Lone, Own, Unfailed, Unsaved, Resting, Answered, [Next]_vars, Calm'
    PROVE  Answered'
<1>1. "late" \notin mishaps'
  BY DEF Calm
<1>2. CASE BeginOp
  <2>1. PICK b : BeginsAs(Head(queue), b) /\ queue' # <<>> /\ Head(queue') = b
    BY <1>2, HeadBegins
  <2>2. b.stage # "failed" => b.res = item'
    BY <2>1 DEF BeginsAs
  <2> QED BY <2>1, <2>2 DEF Answered
<1>3. CASE BeginReplaceAll
  <2>1. PICK b : ReplacesAs(Head(queue), b) /\ queue' # <<>> /\ Head(queue') = b /\ Head(queue).op = "replaceAll"
    BY <1>3, HeadReplaces
  <2> QED BY <2>1 DEF ReplacesAs, Answered
<1>4. CASE ~Begun' \/ UNCHANGED vars
  BY <1>4 DEF vars, Answered, Begun, Loaded
<1>5. CASE HeadGoesOn /\ ~BeginOp
  <2>1. ~Start
    BY <1>5, StartIs DEF HeadGoesOn
  <2>2. Loaded' => Loaded /\ item' = item
    BY <1>5, <2>1, CalmStays
  <2> QED BY <1>5, <2>2 DEF HeadGoesOn, SameCall, Answered, Waits
<1> QED BY <1>1, <1>2, <1>3, <1>4, <1>5, HeadSteps

LEMMA UnfailedStep ==
    ASSUME Typed, Life, Lone, Own, Unfailed, Unsaved, Resting, [Next]_vars, Calm'
    PROVE  Unfailed' /\ Unsaved'
<1>1. "late" \notin mishaps'
  BY DEF Calm
<1>2. CASE BeginOp
  <2>1. PICK b : /\ queue # <<>> /\ Head(queue) \in Entry /\ Head(queue).by = 0 /\ ~Head(queue).yes
                 /\ BeginsAs(Head(queue), b) /\ queue' # <<>> /\ Head(queue') = b /\ Steady
    BY <1>2, HeadBegins
  <2>2. b.stage = "failed" => b.by = 0
    BY <2>1, SaveStageTyped DEF BeginsAs
  <2>3. Loaded' => Loaded /\ adapter = cur /\ cur' = cur /\ cur # 0
    BY <2>1 DEF Loaded, Steady, Life, RegsOK, Typed, Gens
  <2>4. CASE Throws(Head(queue)) /\ b.stage = "failed"
    <3>1. b.op = "update" /\ item' = Absent
      BY <2>1, <2>4, SaveStageTyped DEF BeginsAs, Throws
    <3> QED BY <2>1, <2>2, <2>4, <3>1 DEF Unfailed, Unsaved, Waits
  <2>5. CASE ~Throws(Head(queue))
    <3>1. Loaded' => b.by = cur' /\ b.stage # "failed"
      BY <2>1, <2>3, <2>5, SaveStageTyped DEF BeginsAs
    <3>2. b.stage \in {"this", "next"} /\ b.op = "claim" => b.yes
      <4>1. b.op = "claim" => (b.yes <=> ClaimGranted(Head(queue)))
        BY <2>1, <2>5 DEF BeginsAs, Returns
      <4>2. b.stage \in {"this", "next"} => Saving(Head(queue))
        BY <2>1, <2>5 DEF BeginsAs
      <4>3. b.op = Head(queue).op
        BY <2>1 DEF BeginsAs
      <4> QED BY <4>1, <4>2, <4>3 DEF Saving, Granting, Releasing, Removing
    <3> QED BY <2>1, <2>2, <3>1, <3>2 DEF Unfailed, Unsaved, Waits
  <2> QED BY <2>1, <2>4, <2>5 DEF BeginsAs
<1>3. CASE BeginReplaceAll
  <2>1. PICK b : /\ ReplacesAs(Head(queue), b) /\ queue' # <<>> /\ Head(queue') = b /\ Head(queue).op = "replaceAll"
                 /\ Head(queue).by = 0 /\ Steady
    BY <1>3, HeadReplaces
  <2>2. b.stage = "failed" => b.by = 0
    BY <2>1, SaveStageTyped DEF ReplacesAs
  <2>3. Loaded' => adapter = cur /\ cur' = cur /\ cur # 0
    BY <2>1 DEF Loaded, Steady, Life, RegsOK, Typed, Gens
  <2>4. Loaded' => b.by = cur' /\ b.stage # "failed" /\ b.op = "replaceAll"
    BY <2>1, <2>3, SaveStageTyped DEF ReplacesAs
  <2> QED BY <2>1, <2>2, <2>4 DEF Unfailed, Unsaved
<1>4. CASE ~Begun' \/ UNCHANGED vars
  BY <1>4 DEF vars, Unfailed, Unsaved, Begun, Loaded, Waits
<1>5. CASE HeadGoesOn /\ ~BeginOp
  <2>1. ~Start /\ ~WriteFails
    BY <1>5, StartIs DEF HeadGoesOn, Calm, WriteFails
  <2>2. Loaded' => Loaded /\ item' = item /\ cur' = cur
    BY <1>5, <2>1, CalmStays DEF Steady
  <2>3. Head(queue').stage # "failed"
    <3>1. CASE WriteDone
      <4> DEFINE st == AfterWrite(pass.again /\ fence = pass.gen)
      <4>1. Quiet /\ pass.gen # 0 /\ queue' = IF ~Waiting(pass.gen) THEN queue ELSE HeadStage(st)
        BY <3>1 DEF WriteDone
      <4>2. st \in Stages /\ st # "failed"
        BY DEF AfterWrite, Stages
      <4> HIDE DEF st
      <4> DEFINE b == [Head(queue) EXCEPT !.stage = st]
      <4>3. queue = <<>> \/ (b \in Entry /\ queue' = [queue EXCEPT ![1] = b] /\ b.stage = st)
        BY <4>1, <4>2, WriteEnds
      <4> HIDE DEF b
      <4> QED BY <1>5, <4>2, <4>3, FromTyped, ChangingHead DEF HeadGoesOn, QueueTyped
    <3>2. CASE Head(queue').stage = Head(queue).stage
      BY <1>5, <3>2 DEF HeadGoesOn, Waits
    <3> QED BY <1>5, <2>1, <3>1, <3>2 DEF HeadGoesOn
  <2> QED BY <1>5, <2>2, <2>3 DEF HeadGoesOn, SameCall, Unfailed, Unsaved, Waits
<1> QED BY <1>1, <1>2, <1>3, <1>4, <1>5, HeadSteps

LEMMA InStepStep ==
    ASSUME Typed, Life, Lone, Own, Unfailed, Unsaved, Resting, InStep, [Next]_vars, Calm'
    PROVE  InStep'
<1>1. CASE UNCHANGED vars \/ Tick
  BY <1>1 DEF vars, Tick, InStep, Loaded, Replacing, Waits, HeadIs, Begun
<1>2. CASE WriteFails \/ Unload \/ ClaimFence \/ Crash
  BY <1>2 DEF WriteFails, Unload, ClaimFence, Crash, Calm, InStep, Loaded
<1>3. CASE Start
  <2>1. PICK a \in Copy, skip \in BOOLEAN : StartsAs(a, skip)
    BY <1>3, StartIs
  <2>2. /\ queue' = <<>> /\ item' = disk /\ disk' = disk /\ cur' = cur /\ pass = NoPass /\ cur \in Gens
        /\ settings' = [settings EXCEPT ![cur] = disk] /\ pass' = pass
    BY <1>3, <2>1, StartIs DEF StartsAs, Calm
  <2>3. settings'[cur] = disk
    BY <2>2, FromTyped
  <2> QED BY <2>2, <2>3 DEF InStep, Replacing, HeadIs, Waits, Begun, NoPass
<1>4. CASE BeginOp
  <2>1. PICK b : /\ queue # <<>> /\ Head(queue).stage = "queued" /\ Head(queue).op # "replaceAll" /\ Steady
                 /\ BeginsAs(Head(queue), b) /\ queue' # <<>> /\ Head(queue') = b /\ b.stage # "queued"
    BY <1>4, HeadBegins
  <2>2. ~Begun /\ ~Replacing /\ ~Waits /\ Begun' /\ ~Replacing' /\ disk' = disk
    BY <1>4, <2>1 DEF Begun, Replacing, HeadIs, Waits, BeginsAs, BeginOp
  <2>3. SUFFICES ASSUME Loaded
                 PROVE  /\ settings'[cur] = item'
                        /\ pass'.gen # 0 /\ b.stage # "next" => pass'.snap = item'
                        /\ b.stage \notin {"this", "next"} => disk = item'
    BY <2>1, <2>2 DEF InStep, Waits, Loaded, Steady
  <2>4. settings[cur] = item /\ disk = item /\ (pass.gen # 0 => pass.snap = item)
    BY <2>2, <2>3 DEF InStep
  <2>5. CASE item' = item /\ settings' = settings /\ pass' = pass
    BY <2>4, <2>5
  <2>6. CASE /\ Saving(Head(queue)) /\ adapter # 0 /\ adapter \in Gens /\ settings' = [settings EXCEPT ![adapter] = item']
             /\ pass' = Requested(pass, adapter, item') /\ b.stage = SaveStage(pass, adapter)
    <3>1. item' \in Copy
      BY TypedStep DEF Typed
    <3>2. /\ adapter = cur
          /\ \/ b.stage = "next"
             \/ b.stage = "this" /\ pass' = [gen |-> cur, snap |-> item', again |-> FALSE]
      BY <2>6, <3>1, SavingPass DEF Life
    <3> QED BY <2>6, <3>2, FromTyped
  <2>7. ~Throws(Head(queue)) /\ ~Saving(Head(queue)) => item' = item
    BY <2>1 DEF BeginsAs, Returns
  <2>8. adapter # 0
    BY <2>3 DEF Life, RegsOK, Loaded, Typed, Gens
  <2> QED BY <2>1, <2>5, <2>6, <2>7, <2>8 DEF BeginsAs
<1>5. CASE BeginReplaceAll
  <2>1. PICK b : /\ queue # <<>> /\ Head(queue).stage = "queued" /\ Head(queue).op = "replaceAll" /\ Steady
                 /\ ReplacesAs(Head(queue), b) /\ queue' # <<>> /\ Head(queue') = b /\ b.stage # "queued"
                 /\ Head(queue) \in Entry
    BY <1>5, HeadReplaces
  <2>2. ~Begun /\ ~Replacing /\ ~Waits /\ Begun' /\ disk' = disk /\ item' = item
    BY <1>5, <2>1 DEF Begun, Replacing, HeadIs, Waits, BeginReplaceAll
  <2>3. SUFFICES ASSUME Loaded PROVE InStep'
    BY <2>1 DEF InStep, Loaded, Steady
  <2>4. settings[cur] = item /\ disk = item /\ (pass.gen # 0 => pass.snap = item)
    BY <2>2, <2>3 DEF InStep
  <2>5. adapter = cur /\ adapter # 0 /\ cur' = cur
    BY <2>1, <2>3 DEF Life, RegsOK, Loaded, Typed, Gens, Steady
  <2>6. /\ settings' = [settings EXCEPT ![cur] = b.arg] /\ pass' = Requested(pass, adapter, b.arg)
        /\ b.stage = SaveStage(pass, adapter) /\ b.by = cur /\ b.op = "replaceAll" /\ cur \in Gens /\ b.arg \in Copy
    BY <2>1, <2>5 DEF ReplacesAs, Entry
  <2>7. \/ pass.gen = cur /\ b.stage = "next" /\ pass'.snap = pass.snap
        \/ b.stage = "this" /\ pass' = [gen |-> cur, snap |-> b.arg, again |-> FALSE]
    BY <2>5, <2>6, SavingPass DEF Life
  <2>8. Replacing' /\ settings'[cur] = b.arg /\ Waits'
    BY <2>1, <2>2, <2>5, <2>6, <2>7, FromTyped DEF Replacing, HeadIs, Waits
  <2> QED BY <2>1, <2>2, <2>4, <2>5, <2>6, <2>7, <2>8 DEF InStep
<1>6. CASE WriteDone
  <2>1. SUFFICES ASSUME Loaded PROVE InStep'
    BY <1>6 DEF InStep, Loaded, WriteDone
  <2>2. /\ pass.gen = cur /\ cur # 0 /\ disk' = pass.snap /\ item' = item /\ settings' = settings /\ cur' = cur
        /\ pass'.gen # 0 => pass'.snap = settings[cur]
    BY <1>6, <2>1, CalmWrite DEF Steady, NoPass, WriteDone
  <2>3. CASE queue = <<>> /\ queue' = <<>>
    BY <2>1, <2>2, <2>3 DEF InStep, Replacing, HeadIs, Waits, Begun
  <2>4. CASE /\ Waits /\ Begun' /\ SameCall(Head(queue'), Head(queue)) /\ Head(queue').by = Head(queue).by
             /\ Head(queue').stage = (IF Head(queue).stage = "next" THEN "this" ELSE "ok")
    <3>1. (Replacing' <=> Replacing) /\ Head(queue').arg = Head(queue).arg /\ Head(queue').stage # "next"
      BY <2>4 DEF Replacing, HeadIs, SameCall, Waits
    <3>2. Waits' <=> Head(queue).stage = "next"
      BY <2>4 DEF Waits
    <3>3. settings'[cur'] = IF Replacing' THEN Head(queue').arg ELSE item'
      BY <2>1, <2>2, <3>1 DEF InStep
    <3>4. ~Waits' => disk' = settings'[cur']
      BY <2>1, <2>2, <3>2 DEF InStep
    <3>5. Replacing' /\ Head(queue').stage # "ok" => disk' = item'
      BY <2>1, <2>2, <2>4, <3>1 DEF InStep
    <3> QED BY <2>2, <3>1, <3>3, <3>4, <3>5 DEF InStep
  <2> QED BY <1>6, <2>1, <2>3, <2>4, CalmWrite
<1>7. ASSUME NEW g \in Gens, CalmStep(g) PROVE InStep'
  <2>1. /\ FlowOf(g) /\ Steady /\ item' = item /\ disk' = disk /\ settings' = settings
        /\ pass' = pass \/ (fence = cur /\ up # "claimed" /\ pass' = Requested(pass, cur, settings[cur]))
    BY <1>7 DEF CalmStep
  <2>2. SUFFICES ASSUME Loaded PROVE InStep'
    BY <2>1 DEF InStep, Loaded, Steady
  <2>3. g = cur /\ cur' = cur /\ ~Unborn(g)
    BY <1>7, <2>2 DEF CalmStep, Steady, Unborn, Loaded, Gens
  <2>4. CASE Waits /\ Waits' /\ queue # <<>> /\ queue' # <<>> /\ Head(queue') = Head(queue)
    <3>1. pass.gen # 0 /\ pass'.gen = pass.gen /\ pass'.snap = pass.snap
      BY <2>1, <2>4, WaitedPass
    <3>2. Replacing' <=> Replacing
      BY <2>4 DEF Replacing, HeadIs, Waits
    <3> QED BY <2>1, <2>2, <2>3, <2>4, <3>1, <3>2 DEF InStep
  <2>5. CASE ~Waits /\ ~Begun' /\ settings[cur] = item
    <3>1. disk = item /\ (pass.gen # 0 => pass.snap = item)
      BY <2>2, <2>5 DEF InStep
    <3>2. pass'.gen # 0 => pass'.snap = item
      BY <2>1, <2>3, <2>5, <3>1, FromTyped DEF Requested, Passes
    <3> QED BY <2>1, <2>2, <2>3, <2>5, <3>1, <3>2 DEF InStep, Replacing, HeadIs, Waits
  <2>6. CASE Detached(g)
    <3>1. ~Waits /\ ~Begun' /\ Replacing /\ item = Head(queue).arg
      BY <2>2, <2>6, CalmDetached
    <3>2. settings[cur] = item
      BY <2>2, <3>1 DEF InStep
    <3> QED BY <2>5, <3>1, <3>2
  <2>7. CASE Ends(g) \/ Hands(g) \/ Claims(g) \/ Sends(g) \/ Informs(g)
    <3>1. Continues(g) /\ Head(queue).op # "replaceAll"
      BY <2>7 DEF Ends, Hands, Claims, Sends, Informs, Edited, Deleted, Created, Answers, OfFire, FireOps
    <3>2. ~Waits /\ ~Begun' /\ ~Replacing
      BY <2>3, <3>1, PoppingQueue DEF Continues, Life, Replacing, HeadIs
    <3>3. settings[cur] = item
      BY <2>2, <3>2 DEF InStep
    <3> QED BY <2>5, <3>2, <3>3
  <2>8. CASE Wakes(g) \/ Proceeds(g) \/ Asks(g) \/ Rests(g)
    <3>1. Quiet /\ (queue' = queue \/ Pushes(g))
      BY <2>8 DEF Wakes, Proceeds, Asks, Rests, Stays, Enqueues, Happens
    <3>2. CASE ~Waits /\ ~Begun' /\ queue = <<>>
      <4>1. settings[cur] = item
        BY <2>2, <3>2 DEF InStep, Replacing, HeadIs, Begun
      <4> QED BY <2>5, <3>2, <4>1
    <3> QED BY <2>1, <2>3, <2>4, <3>1, <3>2, EventHead
  <2> QED BY <2>1, <2>6, <2>7, <2>8 DEF FlowOf
<1> QED BY <1>1, <1>2, <1>3, <1>4, <1>5, <1>6, <1>7, CalmKinds DEF StepAlone

\* A fire() that ends in calm leaves the item unclaimed and armed.
LEMMA CalmEnds ==
    ASSUME Typed, Life, Matched, Tokens, Answered, Unfailed, Claimant, Loaded, NEW g \in Gens, g = cur, Ends(g), Calm'
    PROVE  /\ ~Pending
           /\ item # Absent => item.tok = 0 /\ local'[cur] = item /\ (item.on => wake'[cur])
<1>1. /\ queue # <<>> /\ Head(queue) \in Entry /\ Head(queue).gen = g /\ Begun /\ OfFire(Head(queue))
      /\ ClaimRefused(g) \/ FireFails(g) \/ Skipped(g) \/ Abandoned(g) \/ Finalized(g) \/ FinalizeFails(g)
  BY DEF Ends, Continues
<1>2. ~Pending
  BY <1>1 DEF ClaimRefused, FireFails, Skipped, Abandoned, Finalized, FinalizeFails, Answers, Pending, HeadIs, Failed,
     Unfailed
<1>3. SUFFICES ASSUME item # Absent PROVE item.tok = 0 /\ local'[cur] = item /\ (item.on => wake'[cur])
  BY <1>2
<1>4. ~Failed /\ ~FireFails(g) /\ ~FinalizeFails(g)
  <2>1. ~Failed
    BY <1>1, <1>3 DEF Unfailed, Failed
  <2> QED BY <2>1 DEF FireFails, FinalizeFails
<1>5. Head(queue).res = item
  <2>1. Head(queue).op # "replaceAll"
    BY <1>1 DEF OfFire, FireOps
  <2> QED BY <1>1, <1>4, <2>1 DEF Answered, Failed
<1>6. Rearm(g, item)
  BY <1>1, <1>3, <1>4, <1>5 DEF ClaimRefused, Skipped, Abandoned, Finalized
<1>7. /\ local' = [local EXCEPT ![g] = item] /\ wake' = [wake EXCEPT ![g] = item # Absent /\ item.on]
  BY <1>6, ArmingUnlessMissed DEF Rearm, Calm
<1>8. local'[cur] = item
  BY <1>7, FromTyped
<1>9. item.on => wake'[cur]
  BY <1>3, <1>7, FromTyped
<1>10. item.tok = 0
  <2>1. Fits(Head(queue), fire[cur]) /\ cur \in Gens
    BY <1>1, HeadFits
  <2>2. CASE Head(queue).op \in {"abandon", "finalize"}
    BY <1>1, <1>2, <1>3, <2>2 DEF Claimant
  <2>3. CASE Head(queue).op \notin {"abandon", "finalize"}
    <3>1. fire[cur].at \in {"claim", "skip"}
      BY <1>1, <1>4, <2>1, <2>3 DEF ClaimRefused, Skipped, Abandoned, Finalized, Answers, Fits
    <3>2. fire[cur].tok = 0
      <4>1. fire[cur].tok \in Nat
        BY <2>1, FireFields
      <4> QED BY <2>1, <3>1, <4>1 DEF Tokens, ActivePoints
    <3> QED BY <1>2, <1>3, <3>2 DEF Claimant
  <2> QED BY <2>2, <2>3
<1> QED BY <1>8, <1>9, <1>10

\* In calm, every copy of the item agrees when an operation has been answered.
LEMMA CalmCopies ==
    ASSUME Typed, Life, InStep, Loaded, ~Waits, ~Replacing, NEW c, Lives(c)
    PROVE  c = item
<1>1. settings[cur] = item /\ disk = item /\ (pass.gen # 0 => pass.snap = item)
  BY DEF InStep
<1> QED BY <1>1 DEF Lives, KeptBack, InSettings, InPass, OnDisk

LEMMA AttendedStep ==
    ASSUME Typed, Orderly, Resting, Kept, [Next]_vars, Calm'
    PROVE  Attended'
<1>1. /\ Life /\ FailedOK /\ Matched /\ Tokens /\ Worded /\ Lone /\ Own /\ Unfailed /\ Unsaved /\ Answered /\ Claimant
      /\ Attended /\ InStep
  BY DEF Orderly, Kept
<1>2. Plain' /\ mishaps' \cap {"late", "fenced"} = {} /\ "missed" \notin mishaps' /\ "late" \notin mishaps'
  BY CalmIs DEF Calm
<1>3. SUFFICES ASSUME NEW c, Lives(c)', c # Absent, c.tok # 0, \A g \in Gens : fire'[g].at = "idle"
               PROVE  FALSE
  BY DEF Attended
<1>4. Lives(c) \/ c = item'
  <2>1. \A x : Lives(x)' => Lives(x) \/ x = item'
    BY <1>1, <1>2, LivesStep DEF MovedOn
  <2> QED BY <1>3, <2>1
<1>5. Lives(item)
  BY DEF Lives
<1>6. CASE BeginOp
  <2>1. fire' = fire /\ \A g \in Gens : fire[g].at = "idle"
    BY <1>3, <1>6 DEF BeginOp
  <2>2. \A x : Lives(x) => x = Absent \/ x.tok = 0
    BY <1>1, <2>1 DEF Attended
  <2>3. queue # <<>> /\ Head(queue) \in Entry /\ Head(queue) = queue[1] /\ 1 \in 1 .. Len(queue)
    <3>1. queue # <<>>
      BY <1>1, <1>6, HeadBegins
    <3>2. Len(queue) \in Nat \ {0} /\ Head(queue) \in Entry /\ Head(queue) = queue[1]
      BY <3>1, FromTyped, Taking DEF QueueTyped
    <3> QED BY <3>1, <3>2
  <2>4. Head(queue).op # "claim"
    <3>1. Head(queue).op = "claim" => fire[Head(queue).gen].at = "claim" /\ Head(queue).gen \in Gens
      BY <1>1, <2>3, HeadFits DEF OfFire, FireOps, Fits, Entry
    <3> QED BY <2>1, <3>1
  <2>5. item' = Absent \/ item'.tok = 0
    <3>1. Head(queue).op = "create" => Head(queue).arg.tok = 0
      BY <1>1, <2>3 DEF Worded
    <3>2. ~Granting(Head(queue))
      BY <2>4 DEF Granting
    <3> QED BY <1>1, <1>5, <1>6, <2>2, <3>1, <3>2, BeginOpItem
  <2> QED BY <1>3, <1>4, <2>2, <2>5
<1>7. CASE ~BeginOp
  <2>1. Lives(c)
    <3>1. item' = Absent \/ item' = item \/ (item' = disk /\ Lives(disk))
      BY <1>1, <1>2, <1>7, ItemKeeps
    <3> QED BY <1>3, <1>4, <1>5, <3>1
  <2>2. PICK h \in Gens : fire[h].at # "idle"
    BY <1>1, <1>3, <2>1 DEF Attended
  <2>3. h = cur /\ Loaded
    BY <1>1, <2>2 DEF Lone
  <2>4. fire' # fire
    BY <1>3, <2>2
  <2>5. ~Crash
    BY <2>2 DEF Crash, Calm
  <2>6. ~UNCHANGED vars /\ ~StepAlone
    BY <2>4, <2>5, AloneFire DEF vars
  <2>7. PICK g \in Gens : CalmStep(g)
    BY <1>1, <2>6, CalmKinds
  <2>8. FlowOf(g) /\ g = cur
    BY <2>3, <2>7 DEF CalmStep
  <2>9. Ends(g)
    BY <1>3, <2>4, <2>8 DEF FlowOf, Hands, Claims, Sends, Informs, Detached, Wakes, Proceeds, Asks, Rests, FireBecomes
  <2>10. ~Pending /\ (item # Absent => item.tok = 0)
    BY <1>1, <2>3, <2>8, <2>9, CalmEnds
  <2>11. ~Waits /\ ~Replacing
    BY <2>9 DEF Ends, Continues, OfFire, FireOps, Replacing, HeadIs
  <2>12. c = item
    BY <1>1, <2>1, <2>3, <2>11, CalmCopies
  <2> QED BY <1>3, <2>10, <2>12
<1> QED BY <1>6, <1>7

LEMMA BeginOpClaimant ==
    ASSUME Typed, Life, Matched, Worded, Own, Claimant, BeginOp
    PROVE  Claimant'
<1>1. PICK b : /\ queue # <<>> /\ Head(queue) \in Entry /\ Head(queue).stage = "queued" /\ Steady
               /\ BeginsAs(Head(queue), b) /\ queue' # <<>> /\ Head(queue') = b /\ b.stage # "queued"
  BY HeadBegins
<1>2. SUFFICES ASSUME Loaded, item' # Absent, item'.tok # 0 PROVE Claimant'
  BY <1>1 DEF Claimant, Loaded, Steady
<1>3. ~Pending /\ fire' = fire /\ cur' = cur /\ b.op = Head(queue).op /\ Begun'
  BY <1>1 DEF Pending, HeadIs, Begun, BeginOp, BeginsAs
<1>4. Head(queue) = queue[1] /\ 1 \in 1 .. Len(queue) /\ Head(queue).gen = cur
  <2>1. Len(queue) \in Nat \ {0} /\ Head(queue) = queue[1]
    BY <1>1, FromTyped, Taking DEF QueueTyped
  <2> QED BY <1>2, <2>1 DEF Own
<1>5. CASE Granting(Head(queue))
  <2>1. ~Throws(Head(queue)) /\ b.op = "claim" /\ b.yes
    BY <1>1, <1>5 DEF Granting, Throws, BeginsAs, Returns
  <2>2. Pending'
    BY <1>1, <1>3, <2>1 DEF Pending, HeadIs
  <2> QED BY <2>2 DEF Claimant
<1>6. CASE Releasing(Head(queue)) \/ Removing(Head(queue))
  <2>1. ~Throws(Head(queue))
    BY <1>6 DEF Releasing, Removing, Throws
  <2>2. Releasing(Head(queue)) => item' = Unclaimed(item) /\ item # Absent
    BY <1>1, <2>1 DEF BeginsAs, Returns
  <2>3. Removing(Head(queue)) => item' = Absent
    BY <1>1, <2>1 DEF BeginsAs, Returns
  <2>4. item \in Copy
    BY FromTyped
  <2>5. item # Absent => Unclaimed(item).tok = 0
    BY <2>4 DEF Unclaimed, Copy, Item
  <2> QED BY <1>2, <1>6, <2>2, <2>3, <2>5
<1>7. CASE Head(queue).op = "create"
  <2>1. Head(queue).arg.tok = 0
    BY <1>4, <1>7 DEF Worded
  <2>2. item' = Head(queue).arg
    BY <1>1, <1>7 DEF BeginsAs, Returns, Throws
  <2> QED BY <1>2, <2>1, <2>2
<1>8. ASSUME ~Granting(Head(queue)), ~Releasing(Head(queue)), ~Removing(Head(queue)), Head(queue).op # "create"
      PROVE  Claimant'
  <2>1. item # Absent /\ item'.tok = item.tok
    <3>1. CASE Throws(Head(queue))
      <4>1. item' = item
        BY <1>1, <3>1, SaveStageTyped DEF BeginsAs
      <4> QED BY <1>2, <4>1
    <3>2. CASE ~Throws(Head(queue)) /\ Head(queue).op = "update"
      <4>1. item' = UpdatedItem(Head(queue)) /\ item # Absent
        BY <1>1, <3>2 DEF BeginsAs, Returns
      <4> QED BY <1>1, <3>2, <4>1, UpdatedItemFields
    <3>3. CASE ~Throws(Head(queue)) /\ Head(queue).op # "update"
      <4>1. ~Saving(Head(queue))
        BY <1>8, <3>3 DEF Saving
      <4>2. item' = item
        BY <1>1, <3>3, <4>1 DEF BeginsAs, Returns
      <4> QED BY <1>2, <4>2
    <3> QED BY <3>1, <3>2, <3>3
  <2>2. fire[cur].tok = item.tok
    BY <1>2, <1>3, <2>1 DEF Claimant
  <2>3. Head(queue).op \notin {"abandon", "finalize"}
    <3>1. SUFFICES ASSUME Head(queue).op \in {"abandon", "finalize"} PROVE FALSE
      OBVIOUS
    <3>2. Fits(Head(queue), fire[cur])
      BY <1>1, <1>4, <3>1, HeadFits DEF OfFire, FireOps
    <3>3. Holds(Head(queue))
      BY <2>1, <2>2, <3>1, <3>2 DEF Fits, Holds
    <3> QED BY <1>8, <3>1, <3>3 DEF Releasing, Removing
  <2> QED BY <1>1, <1>3, <2>1, <2>2, <2>3 DEF Claimant
<1> QED BY <1>5, <1>6, <1>7, <1>8

LEMMA ClaimantStep ==
    ASSUME Typed, Orderly, Resting, Kept, [Next]_vars, Calm'
    PROVE  Claimant'
<1>1. /\ Life /\ Matched /\ Tokens /\ Worded /\ Lone /\ Own /\ Unfailed /\ Unsaved /\ Answered /\ Claimant /\ Attended
      /\ InStep
  BY DEF Orderly, Kept
<1>2. SUFFICES ASSUME Loaded', item' # Absent, item'.tok # 0, ~BeginOp PROVE Claimant'
  BY <1>1, BeginOpClaimant DEF Claimant
<1>3. CASE Start
  <2>1. item' = disk /\ Lives(disk) /\ ~Loaded
    BY <1>1, <1>3, StartIs DEF Lives, OnDisk, Replacing, HeadIs, Begun, Loaded
  <2>2. \A g \in Gens : fire[g].at = "idle"
    BY <1>1, <2>1 DEF Lone
  <2> QED BY <1>1, <1>2, <2>1, <2>2 DEF Attended
<1>4. CASE ~Start
  <2>1. Loaded /\ item' = item /\ cur' = cur /\ item # Absent /\ item.tok # 0
    BY <1>1, <1>2, <1>4, CalmStays DEF Steady
  <2>2. Pending \/ (fire[cur].tok = item.tok /\ ~(Begun /\ Head(queue).op \in {"abandon", "finalize"}))
    BY <1>1, <2>1 DEF Claimant
  <2>3. CASE UNCHANGED vars
    BY <1>1, <2>3 DEF vars, Claimant, Loaded, Pending, HeadIs, Begun
  <2>4. CASE StepAlone
    <3>1. fire' = fire
      BY <1>2, <2>4, AloneFire DEF Crash, Loaded
    <3>2. CASE BeginReplaceAll
      <4>1. PICK b : ReplacesAs(Head(queue), b) /\ queue' # <<>> /\ Head(queue') = b /\ Head(queue).op = "replaceAll"
                     /\ Head(queue).stage = "queued"
        BY <1>1, <3>2, HeadReplaces
      <4>2. b.op = "replaceAll" /\ ~Pending
        BY <4>1 DEF ReplacesAs, Pending, HeadIs, Begun
      <4> QED BY <2>1, <2>2, <3>1, <4>1, <4>2 DEF Claimant
    <3>3. CASE WriteDone
      <4>1. CASE queue = <<>> /\ queue' = <<>>
        BY <2>1, <2>2, <3>1, <4>1 DEF Claimant, Pending, HeadIs, Begun
      <4>2. CASE Waits /\ Begun' /\ SameCall(Head(queue'), Head(queue)) /\ Head(queue').yes = Head(queue).yes
        BY <2>1, <2>2, <3>1, <4>2 DEF Claimant, Pending, HeadIs, Waits, SameCall
      <4> QED BY <1>1, <2>1, <3>3, <4>1, <4>2, CalmWrite
    <3>4. CASE Tick
      BY <2>1, <2>2, <3>1, <3>4 DEF Tick, Claimant, Pending, HeadIs, Begun
    <3>5. CASE WriteFails \/ Unload \/ ClaimFence \/ Crash
      BY <1>2, <3>5 DEF WriteFails, Unload, ClaimFence, Crash, Calm, Loaded
    <3> QED BY <1>2, <1>4, <2>4, <3>2, <3>3, <3>4, <3>5 DEF StepAlone
  <2>5. ASSUME NEW g \in Gens, CalmStep(g) PROVE Claimant'
    <3>1. FlowOf(g) /\ g = cur /\ cur \in Gens /\ Steady /\ ~Unborn(g)
      BY <2>1, <2>5 DEF CalmStep, Unborn, Loaded, Gens
    <3>2. queue # <<>> => Head(queue) = queue[1] /\ 1 \in 1 .. Len(queue) /\ Head(queue).gen = cur /\ Head(queue) \in Entry
      <4>1. queue # <<>> => Len(queue) \in Nat \ {0} /\ Head(queue) = queue[1] /\ Head(queue) \in Entry
        BY FromTyped, Taking DEF QueueTyped
      <4> QED BY <1>1, <2>1, <4>1 DEF Own
    <3>3. Pending => fire[cur].at = "claim"
      <4>1. Pending => queue # <<>> /\ Head(queue).op = "claim"
        BY DEF Pending, HeadIs, Begun
      <4> QED BY <1>1, <3>2, <4>1, HeadFits DEF OfFire, FireOps, Fits
    <3>4. CASE Ends(g)
      BY <1>1, <1>2, <2>1, <3>1, <3>4, CalmEnds
    <3>5. CASE Detached(g)
      <4>1. fire' = fire /\ ~Begun' /\ ~Pending
        BY <1>1, <3>5, CalmDetached DEF Pending, HeadIs
      <4> QED BY <2>1, <2>2, <4>1 DEF Claimant
    <3>6. CASE Hands(g) \/ Claims(g) \/ Sends(g) \/ Informs(g)
      <4>1. ~Begun' /\ Continues(g)
        BY <1>1, <3>1, <3>6, PoppingQueue DEF Hands, Claims, Sends, Informs, Continues, Life
      <4>2. CASE Claims(g)
        <5>1. fire'[cur].tok = Head(queue).res.tok /\ Head(queue).res = item
          BY <1>1, <2>1, <3>1, <4>1, <4>2 DEF Claims, FireBecomes, Continues, Answered
        <5> QED BY <2>1, <4>1, <5>1 DEF Claimant
      <4>3. CASE Hands(g) \/ Sends(g) \/ Informs(g)
        <5>1. fire'[cur].tok = fire[cur].tok
          BY <3>1, <4>3 DEF Hands, Sends, Informs, FireBecomes
        <5>2. ~Pending
          BY <4>3 DEF Hands, Sends, Informs, Pending, HeadIs, OfFire, FireOps
        <5> QED BY <2>1, <2>2, <4>1, <5>1, <5>2 DEF Claimant
      <4> QED BY <3>6, <4>2, <4>3
    <3>7. CASE Wakes(g)
      <4>1. fire[cur].at = "idle" /\ fire[cur].tok \in Nat
        BY <3>1, <3>7, FireFields DEF Wakes
      <4>2. fire[cur].tok = 0
        BY <1>1, <3>1, <4>1 DEF Tokens, ActivePoints
      <4> QED BY <2>1, <2>2, <3>3, <4>1, <4>2
    <3>8. CASE Proceeds(g) \/ Asks(g) \/ Rests(g)
      <4>1. Quiet /\ (queue' = queue \/ Pushes(g))
        BY <3>8 DEF Proceeds, Asks, Rests, Stays, Enqueues, Happens
      <4>2. \/ Waits /\ Waits' /\ Head(queue') = Head(queue)
            \/ ~Begun' /\ queue = <<>>
        BY <1>1, <3>1, <4>1, EventHead
      <4>3. fire'[cur].tok = fire[cur].tok
        BY <3>1, <3>8 DEF Proceeds, Asks, Rests, FireBecomes
      <4>4. Pending' <=> Pending
        BY <4>2 DEF Pending, HeadIs, Waits, Begun
      <4> QED BY <2>1, <2>2, <4>2, <4>3, <4>4 DEF Claimant, Waits, Begun
    <3> QED BY <3>1, <3>4, <3>5, <3>6, <3>7, <3>8 DEF FlowOf
  <2> QED BY <1>1, <2>3, <2>4, <2>5, CalmKinds
<1> QED BY <1>3, <1>4

\* What a tool call asks for in calm, and how it arms the scheduler's copy.
EditAsked(q) ==
    /\ IsEdit(q) /\ \A i \in 1 .. Len(queue) : queue[i].op = "claim"
    /\ local[cur] = item /\ item # Absent => (Enabled(item, q.patch) => wake'[cur])
CreateAsked(q) == q.op = "create" /\ queue = <<>> /\ item = Absent /\ local'[cur] = q.arg /\ wake'[cur]
DetachAsked(q) == q.op = "replaceAll" /\ local' = local /\ wake' = wake

LEMMA CalmAsks ==
    ASSUME Typed, Life, Blank, NEW g \in Gens, g = cur, Asks(g), Calm'
    PROVE  \E q \in Entry : /\ queue' = Append(queue, q) /\ q.stage = "queued"
                            /\ EditAsked(q) \/ q.op = "delete" \/ CreateAsked(q) \/ DetachAsked(q)
<1>1. CASE Edit(g)
  <2>1. PICK patch \in {"off", "on", "prompt"}, a \in Item, skip \in BOOLEAN : EditsAs(g, patch, a, skip)
    BY <1>1, EditEdits
  <2> DEFINE q == [Op("update", g) EXCEPT !.patch = patch]
  <2>2. Queued(q, "update", g) /\ q.patch = patch /\ patch \in Patches
    <3>1. patch \in Patches /\ "update" \in Ops
      BY DEF Ops, Patches
    <3> QED BY <3>1, QueuedPatch
  <2>3. queue' = Append(queue, q) /\ wake' = [wake EXCEPT ![g] = a.on]
    BY <2>1 DEF EditsAs
  <2> HIDE DEF q
  <2>4. \A i \in 1 .. Len(queue) : queue[i].op = "claim"
    <3>1. ~Overtakes
      BY <2>1 DEF EditsAs, Calm
    <3>2. DOMAIN queue = 1 .. Len(queue)
      BY FromTyped DEF QueueTyped
    <3> QED BY <3>1, <3>2 DEF Overtakes
  <2>5. wake'[cur] = a.on
    BY <2>3, FromTyped
  <2>6. ASSUME local[cur] = item, Enabled(item, q.patch) PROVE a.on
    BY <2>1, <2>2, <2>6 DEF EditsAs, Enabled
  <2>7. q \in Entry /\ q.stage = "queued" /\ q.op = "update" /\ q.patch # "skip"
    BY <2>2 DEF Queued
  <2>8. EditAsked(q)
    BY <2>4, <2>5, <2>6, <2>7 DEF EditAsked, IsEdit
  <2> QED BY <2>3, <2>7, <2>8
<1>2. CASE Delete(g)
  <2> DEFINE q == [Op("delete", g) EXCEPT !.arg = local[g]]
  <2>1. Queued(q, "delete", g)
    <3>1. local[g] \in Copy /\ "delete" \in Ops
      BY FromTyped DEF Ops
    <3> QED BY <3>1, QueuedArg
  <2>2. queue' = Append(queue, q)
    BY <1>2 DEF Delete
  <2> HIDE DEF q
  <2> QED BY <2>1, <2>2 DEF Queued
<1>3. CASE Create(g)
  <2> DEFINE q == [Op("create", g) EXCEPT !.arg = NewItem]
  <2>1. Queued(q, "create", g) /\ q.arg = NewItem
    <3>1. NewItem \in Copy /\ "create" \in Ops
      BY NewItemTyped DEF Ops
    <3> QED BY <3>1, QueuedArg
  <2>2. /\ queue' = Append(queue, q) /\ off = "new"
        /\ local' = [local EXCEPT ![g] = NewItem] /\ wake' = [wake EXCEPT ![g] = TRUE]
    BY <1>3, CreateIs
  <2> HIDE DEF q
  <2>3. queue = <<>> /\ item = Absent
    BY <2>2 DEF Blank, Lives
  <2>4. local'[cur] = NewItem /\ wake'[cur]
    BY <2>2, FromTyped
  <2> QED BY <2>1, <2>2, <2>3, <2>4 DEF Queued, CreateAsked
<1>4. CASE Detach(g)
  <2> DEFINE q == [Op("replaceAll", g) EXCEPT !.arg = local[g]]
  <2>1. Queued(q, "replaceAll", g)
    <3>1. local[g] \in Copy /\ "replaceAll" \in Ops
      BY FromTyped DEF Ops
    <3> QED BY <3>1, QueuedArg
  <2>2. queue' = Append(queue, q) /\ local' = local /\ wake' = wake
    BY <1>4 DEF Detach
  <2> HIDE DEF q
  <2> QED BY <2>1, <2>2 DEF Queued, DetachAsked
<1> QED BY <1>1, <1>2, <1>3, <1>4 DEF Asks

\* An operation is answered: what was queued behind it moves up.
LEMMA EditsPop ==
    ASSUME Typed, EditsFirst, Loaded, queue # <<>>,
           queue' = Tail(queue) \/ \E q \in Entry : ~IsEdit(q) /\ queue' = Append(Tail(queue), q)
    PROVE  /\ \A i \in 1 .. Len(queue') : IsEdit(queue'[i]) => i = 1 /\ Pending /\ Len(queue) > 1
           /\ \A i \in 1 .. Len(queue') : i < Len(queue) => queue'[i] = queue[i + 1]
<1> DEFINE t == Tail(queue)
<1>1. /\ queue \in Seq(Entry) /\ Len(queue) \in Nat \ {0} /\ t \in Seq(Entry) /\ Len(t) = Len(queue) - 1
      /\ \A i \in 1 .. Len(queue) - 1 : t[i] = queue[i + 1]
  BY FromTyped, Taking DEF QueueTyped
<1> HIDE DEF t
<1>2. ASSUME NEW i \in 1 .. Len(t), IsEdit(t[i]) PROVE i = 1 /\ Pending /\ Len(queue) > 1
  <2>1. i + 1 \in 1 .. Len(queue) /\ t[i] = queue[i + 1] /\ i \in Nat
    BY <1>1, <1>2
  <2>2. i + 1 = 1 \/ (i + 1 = 2 /\ Pending)
    BY <1>2, <2>1 DEF EditsFirst
  <2> QED BY <1>1, <1>2, <2>1, <2>2
<1>3. CASE queue' = t
  BY <1>1, <1>2, <1>3
<1>4. ASSUME NEW q \in Entry, ~IsEdit(q), queue' = Append(t, q)
      PROVE  /\ \A i \in 1 .. Len(queue') : IsEdit(queue'[i]) => i = 1 /\ Pending /\ Len(queue) > 1
             /\ \A i \in 1 .. Len(queue') : i < Len(queue) => queue'[i] = queue[i + 1]
  <2>1. /\ Len(queue') = Len(t) + 1 /\ queue'[Len(t) + 1] = q /\ \A i \in 1 .. Len(t) : queue'[i] = t[i]
    BY <1>1, <1>4, Appending
  <2>2. ASSUME NEW i \in 1 .. Len(queue') PROVE i \in 1 .. Len(t) \/ i = Len(t) + 1
    BY <1>1, <2>1, <2>2
  <2> QED BY <1>1, <1>2, <1>4, <2>1, <2>2
<1> QED BY <1>3, <1>4 DEF t

\* In calm an operation is queued behind no other than a claim that is granted, if it is an edit.
LEMMA EditsPush ==
    ASSUME Typed, Life, Matched, Own, Unfailed, Loaded, Quiet, NEW q \in Entry, queue' = Append(queue, q),
           \A i \in 1 .. Len(queue) : queue[i].op = "claim"
    PROVE  queue = <<>> \/ (Len(queue) = 1 /\ Pending)
<1>1. CASE queue # <<>>
  <2>1. Len(queue) \in Nat \ {0} /\ Head(queue) = queue[1]
    BY <1>1, FromTyped, Taking DEF QueueTyped
  <2>2. Pending
    <3>1. Waits /\ Head(queue).op = "claim"
      BY <1>1, <2>1, HeadQuiet
    <3> QED BY <3>1 DEF Unfailed, Pending, HeadIs, Waits
  <2>3. \A i, j \in 1 .. Len(queue) : i = j
    BY DEF Matched, Single, OfFire, FireOps, Own
  <2>4. Len(queue) = 1
    <3>1. 1 \in 1 .. Len(queue) /\ Len(queue) \in 1 .. Len(queue)
      BY <2>1
    <3> QED BY <2>3, <3>1
  <2> QED BY <2>2, <2>4
<1> QED BY <1>1

LEMMA EditsFirstStep ==
    ASSUME Typed, Orderly, Blank, Resting, Kept, [Next]_vars, Calm'
    PROVE  EditsFirst'
<1>1. Life /\ Matched /\ Lone /\ Own /\ Unfailed /\ Unsaved /\ EditsFirst
  BY DEF Orderly, Kept
<1>2. SUFFICES ASSUME Loaded', ~Start PROVE EditsFirst'
  BY <1>1, StartIs DEF EditsFirst
<1>3. CASE BeginOp
  <2>1. PICK b : /\ queue # <<>> /\ Head(queue).stage = "queued" /\ Steady /\ BeginsAs(Head(queue), b)
    BY <1>1, <1>3, HeadBegins
  <2>2. b \in Entry /\ b.op = Head(queue).op /\ b.patch = Head(queue).patch /\ queue' = [queue EXCEPT ![1] = b]
    BY <2>1 DEF BeginsAs
  <2>3. /\ Len(queue) \in Nat \ {0} /\ Len(queue') = Len(queue) /\ \A i \in 2 .. Len(queue) : queue'[i] = queue[i]
    BY <2>1, <2>2, FromTyped, Taking, ChangingHead DEF QueueTyped
  <2>4. ~Pending /\ Loaded
    BY <1>2, <2>1 DEF Pending, HeadIs, Begun, Loaded, Steady
  <2>5. \A i \in 2 .. Len(queue') : ~IsEdit(queue'[i])
    BY <1>1, <2>3, <2>4 DEF EditsFirst
  <2> QED BY <2>3, <2>5 DEF EditsFirst
<1>4. CASE ~BeginOp
  <2>1. Loaded /\ Steady
    BY <1>1, <1>2, <1>4, CalmStays
  <2>2. CASE UNCHANGED vars \/ queue' = queue
    BY <1>1, <2>1, <2>2 DEF vars, EditsFirst, Pending, HeadIs, Begun
  <2>3. CASE BeginReplaceAll
    <3>1. PICK b : /\ queue # <<>> /\ Head(queue).stage = "queued" /\ ReplacesAs(Head(queue), b)
      BY <1>1, <2>3, HeadReplaces
    <3>2. b \in Entry /\ queue' = [queue EXCEPT ![1] = b]
      BY <3>1 DEF ReplacesAs
    <3>3. /\ Len(queue) \in Nat \ {0} /\ Len(queue') = Len(queue) /\ \A i \in 2 .. Len(queue) : queue'[i] = queue[i]
      BY <3>1, <3>2, FromTyped, Taking, ChangingHead DEF QueueTyped
    <3>4. ~Pending
      BY <3>1 DEF Pending, HeadIs, Begun
    <3>5. \A i \in 2 .. Len(queue') : ~IsEdit(queue'[i])
      BY <1>1, <2>1, <3>3, <3>4 DEF EditsFirst
    <3> QED BY <3>3, <3>5 DEF EditsFirst
  <2>4. CASE WriteDone
    <3>1. CASE queue = <<>> /\ queue' = <<>>
      BY <2>2, <3>1
    <3>2. CASE /\ Waits /\ Begun' /\ SameCall(Head(queue'), Head(queue)) /\ Head(queue').yes = Head(queue).yes
               /\ Len(queue') = Len(queue) /\ \A i \in 1 .. Len(queue) : SameCall(queue'[i], queue[i])
      <4>1. Pending' <=> Pending
        BY <3>2 DEF Pending, HeadIs, Waits, SameCall
      <4>2. \A i \in 1 .. Len(queue') : IsEdit(queue'[i]) => IsEdit(queue[i])
        BY <3>2 DEF IsEdit, SameCall
      <4> QED BY <1>1, <2>1, <3>2, <4>1, <4>2 DEF EditsFirst
    <3> QED BY <1>1, <2>1, <2>4, <3>1, <3>2, CalmWrite
  <2>5. CASE WriteFails \/ Unload \/ ClaimFence \/ Crash \/ Tick
    BY <1>2, <2>2, <2>5 DEF WriteFails, Unload, ClaimFence, Crash, Tick, Calm, Loaded
  <2>6. ASSUME NEW g \in Gens, CalmStep(g) PROVE EditsFirst'
    <3>1. FlowOf(g) /\ g = cur /\ cur \in Gens /\ ~Unborn(g)
      BY <2>1, <2>6 DEF CalmStep, Unborn, Loaded, Gens
    <3>2. CASE Rests(g)
      BY <2>2, <3>2 DEF Rests, Stays
    <3>3. CASE Detached(g) \/ Ends(g) \/ Hands(g) \/ Claims(g) \/ Sends(g) \/ Informs(g)
      <4>1. queue # <<>> /\ (queue' = Tail(queue) \/ \E q \in Entry : ~IsEdit(q) /\ queue' = Append(Tail(queue), q))
        BY <1>1, <3>3, CalmDetached DEF Ends, Hands, Claims, Sends, Informs, Continues, Queued, IsEdit
      <4>2. \A i \in 1 .. Len(queue') : IsEdit(queue'[i]) => i = 1
        BY <1>1, <2>1, <4>1, EditsPop
      <4> QED BY <4>2 DEF EditsFirst
    <3>4. CASE Wakes(g) \/ Proceeds(g) \/ Asks(g)
      <4>1. Quiet /\ Pushes(g)
        BY <3>4 DEF Wakes, Proceeds, Asks, Enqueues, Happens
      <4>2. \/ Waits /\ Waits' /\ Head(queue') = Head(queue)
            \/ queue = <<>>
        BY <1>1, <2>1, <3>1, <4>1, EventHead
      <4>3. Pending => Pending'
        BY <4>2 DEF Pending, HeadIs, Waits, Begun
      <4>4. PICK q \in Entry : /\ queue' = Append(queue, q)
                               /\ ~IsEdit(q) \/ \A i \in 1 .. Len(queue) : queue[i].op = "claim"
        <5>1. CASE Wakes(g) \/ Proceeds(g)
          BY <5>1 DEF Wakes, Proceeds, Queued, OfFire, FireOps, IsEdit
        <5>2. CASE Asks(g)
          BY <1>1, <3>1, <5>2, CalmAsks DEF EditAsked, CreateAsked, DetachAsked, IsEdit
        <5> QED BY <3>4, <5>1, <5>2
      <4>5. queue \in Seq(Entry) /\ Len(queue) \in Nat /\ Len(queue') = Len(queue) + 1
            /\ queue'[Len(queue) + 1] = q /\ \A i \in 1 .. Len(queue) : queue'[i] = queue[i]
        BY <4>4, FromTyped, Appending, QueueLength DEF QueueTyped
      <4>6. queue = <<>> => Len(queue) = 0
        BY <4>5, EmptySeq
      <4>7. IsEdit(q) => Len(queue) = 0 \/ (Len(queue) = 1 /\ Pending)
        BY <1>1, <2>1, <4>1, <4>4, <4>6, EditsPush
      <4>8. ASSUME NEW i \in 1 .. Len(queue'), IsEdit(queue'[i]) PROVE i = 1 \/ (i = 2 /\ Pending')
        <5>1. CASE i \in 1 .. Len(queue)
          BY <1>1, <2>1, <4>3, <4>5, <4>8, <5>1 DEF EditsFirst
        <5>2. CASE i = Len(queue) + 1
          BY <4>3, <4>5, <4>7, <4>8, <5>2
        <5> QED BY <4>5, <5>1, <5>2
      <4> QED BY <4>8 DEF EditsFirst
    <3> QED BY <3>1, <3>2, <3>3, <3>4 DEF FlowOf
  <2> QED BY <1>1, <1>2, <1>4, <2>2, <2>3, <2>4, <2>5, <2>6, CalmKinds DEF StepAlone
<1> QED BY <1>3, <1>4

\* No operation of a fire() is queued while none is in progress.
LEMMA StillQueue ==
    ASSUME Typed, Life, Matched, Own, Still
    PROVE  /\ \A i \in 1 .. Len(queue) : ~OfFire(queue[i]) /\ queue[i].op # "delete"
           /\ queue # <<>> => Len(queue) \in Nat \ {0} /\ Head(queue) = queue[1] /\ Head(queue) \in Entry
                              /\ ~OfFire(Head(queue)) /\ Head(queue).op # "delete"
<1>1. cur \in Gens
  BY DEF Still, Loaded, Typed
<1>2. \A i \in 1 .. Len(queue) : ~OfFire(queue[i]) /\ queue[i].op # "delete"
  BY <1>1, NoneQueued DEF Still, Without1, Own
<1>3. queue # <<>> => Len(queue) \in Nat \ {0} /\ Head(queue) = queue[1] /\ Head(queue) \in Entry
  BY FromTyped, Taking DEF QueueTyped
<1>4. queue # <<>> => 1 \in 1 .. Len(queue)
  BY <1>3
<1> QED BY <1>2, <1>3, <1>4

\* The scheduler is armed with the item, and what was queued behind the answered operation is no edit.
LEMMA ArmedPop ==
    ASSUME Typed, EditsFirst, Creating, Loaded, Steady, queue # <<>>, queue' = Tail(queue), ~Pending, item' = item,
           item # Absent => local'[cur] = item /\ (item.on => wake'[cur])
    PROVE  Watched'
<1>1. /\ \A i \in 1 .. Len(queue') : ~IsEdit(queue'[i])
      /\ \A i \in 1 .. Len(queue') : i < Len(queue) => queue'[i] = queue[i + 1]
  BY EditsPop
<1>2. /\ queue' \in Seq(Entry) /\ Len(queue') = Len(queue) - 1 /\ Len(queue) \in Nat \ {0}
      /\ queue' # <<>> => Head(queue') = queue'[1] /\ Len(queue') \in Nat \ {0}
  BY FromTyped, Taking DEF QueueTyped
<1>3. queue' # <<>> => ~IsEdit(Head(queue'))
  BY <1>1, <1>2
<1>4. queue' # <<>> => Head(queue').op # "create"
  <2>1. SUFFICES ASSUME queue' # <<>> PROVE Head(queue').op # "create"
    OBVIOUS
  <2>2. Head(queue') = queue[2] /\ 2 \in 1 .. Len(queue)
    BY <1>1, <1>2, <2>1
  <2> QED BY <2>2 DEF Creating
<1> QED BY <1>1, <1>3, <1>4 DEF Watched, Armed, Arming, Making, Steady

LEMMA BeginOpWatched ==
    ASSUME Typed, Life, Matched, Own, Watched, BeginOp
    PROVE  Watched'
<1>1. PICK b : /\ queue # <<>> /\ Head(queue) \in Entry /\ Head(queue).stage = "queued" /\ Steady
               /\ BeginsAs(Head(queue), b) /\ queue' # <<>> /\ Head(queue') = b /\ b.stage # "queued"
  BY HeadBegins
<1>2. /\ b \in Entry /\ b.op = Head(queue).op /\ b.patch = Head(queue).patch /\ b.arg = Head(queue).arg
      /\ queue' = [queue EXCEPT ![1] = b] /\ fire' = fire /\ local' = local /\ wake' = wake /\ cur' = cur
  BY <1>1 DEF BeginsAs, BeginOp, Steady
<1>3. /\ Head(queue) = queue[1] /\ Len(queue) \in Nat \ {0} /\ Len(queue') = Len(queue) /\ queue'[1] = b
      /\ \A i \in 2 .. Len(queue) : queue'[i] = queue[i]
  BY <1>1, <1>2, FromTyped, Taking, ChangingHead DEF QueueTyped
<1>4. SUFFICES ASSUME Still' PROVE Watched'
  BY DEF Watched, Armed, Arming, Making
<1>5. Still
  <2>1. ASSUME NEW i \in 1 .. Len(queue) PROVE queue[i].op # "delete"
    <3>1. queue'[i].op = queue[i].op
      BY <1>2, <1>3
    <3> QED BY <1>3, <1>4, <3>1 DEF Still
  <2> QED BY <1>1, <1>2, <1>4, <2>1 DEF Still, Loaded, Steady
<1>6. ~OfFire(Head(queue)) /\ Head(queue).op # "delete"
  BY <1>1, <1>5, StillQueue
<1>7. Head(queue).op \in {"update", "create"}
  BY <1>1, <1>6, HeadBegins DEF OfFire, FireOps, Entry, Ops
<1>8. CASE Head(queue).op = "update"
  <2>1. IsEdit(queue'[1]) /\ 1 \in 1 .. Len(queue') /\ IsEdit(Head(queue))
    BY <1>2, <1>3, <1>6, <1>8 DEF IsEdit, OfFire
  <2>2. item' # Absent => (item'.on => wake[cur])
    <3>1. SUFFICES ASSUME item' # Absent, item'.on PROVE wake[cur]
      OBVIOUS
    <3>2. ~Throws(Head(queue))
      BY <1>1, <3>1, SaveStageTyped DEF BeginsAs, Throws
    <3>3. item # Absent /\ item' = UpdatedItem(Head(queue))
      BY <1>1, <1>8, <3>2 DEF BeginsAs, Returns
    <3>4. Enabled(item, Head(queue).patch)
      <4>1. Head(queue).patch \in Patches
        BY <1>1 DEF Entry
      <4>2. /\ Head(queue).patch = "off" => ~item'.on
            /\ Head(queue).patch \in {"skip", "prompt", "none"} => item'.on = item.on
        BY <1>1, <3>3, UpdatedItemFields
      <4> QED BY <3>1, <4>1, <4>2 DEF Enabled, Patches
    <3> QED BY <1>1, <1>5, <2>1, <3>3, <3>4 DEF Watched, Arming
  <2> QED BY <1>1, <1>2, <1>8, <2>1, <2>2 DEF Watched, Armed, Arming, Making
<1>9. CASE Head(queue).op = "create"
  <2>1. local[cur] = Head(queue).arg /\ wake[cur]
    BY <1>1, <1>5, <1>9 DEF Watched, Making
  <2>2. item' = Head(queue).arg
    BY <1>1, <1>9 DEF BeginsAs, Returns, Throws
  <2> QED BY <1>1, <1>2, <1>9, <2>1, <2>2 DEF Watched, Armed, Arming, Making, IsEdit
<1> QED BY <1>7, <1>8, <1>9

\* The steps that leave the item, the scheduler's copy and what is queued as they are.
LEMMA WatchedSame ==
    ASSUME Watched, Loaded, Steady, item' = item, local' = local, wake' = wake, fire' = fire,
           \/ queue' = queue
           \/ /\ queue # <<>> /\ Begun' /\ SameCall(Head(queue'), Head(queue)) /\ (Begun \/ ~IsEdit(Head(queue)))
              /\ Len(queue') = Len(queue) /\ \A i \in 1 .. Len(queue) : SameCall(queue'[i], queue[i])
    PROVE  Watched'
<1>1. CASE queue' = queue
  BY <1>1 DEF Watched, Armed, Arming, Making, Still, Loaded, Steady
<1>2. CASE /\ queue # <<>> /\ Begun' /\ SameCall(Head(queue'), Head(queue)) /\ (Begun \/ ~IsEdit(Head(queue)))
           /\ Len(queue') = Len(queue) /\ \A i \in 1 .. Len(queue) : SameCall(queue'[i], queue[i])
  <2>1. Still' => Still
    BY <1>2 DEF Still, Loaded, Steady, SameCall
  <2>2. (\A i \in 1 .. Len(queue') : ~IsEdit(queue'[i])) => \A i \in 1 .. Len(queue) : ~IsEdit(queue[i])
    BY <1>2 DEF IsEdit, SameCall
  <2>3. IsEdit(Head(queue')) <=> IsEdit(Head(queue))
    BY <1>2 DEF IsEdit, SameCall
  <2>4. Head(queue').stage # "queued" /\ (IsEdit(Head(queue)) => Head(queue).stage # "queued")
    BY <1>2 DEF Begun
  <2>5. Armed'
    BY <2>1, <2>2 DEF Watched, Armed, Steady
  <2>6. Arming'
    BY <1>2, <2>1, <2>3, <2>4 DEF Watched, Arming, Steady
  <2>7. Making'
    BY <2>4 DEF Making
  <2> QED BY <2>5, <2>6, <2>7 DEF Watched
<1> QED BY <1>1, <1>2

\* A tool call arms the item for what it asks.
LEMMA AsksWatched ==
    ASSUME Typed, Life, Matched, Own, Blank, Watched, Loaded, NEW g \in Gens, g = cur, Asks(g), Calm'
    PROVE  Watched'
<1>1. /\ Steady /\ item' = item /\ fire' = fire
  BY DEF Asks, Enqueues, Happens
<1>2. PICK q \in Entry : /\ queue' = Append(queue, q) /\ q.stage = "queued"
                         /\ EditAsked(q) \/ q.op = "delete" \/ CreateAsked(q) \/ DetachAsked(q)
  BY CalmAsks
<1>3. /\ Len(queue) \in Nat /\ Len(queue') = Len(queue) + 1 /\ queue' # <<>>
      /\ queue'[Len(queue) + 1] = q /\ (\A i \in 1 .. Len(queue) : queue'[i] = queue[i])
      /\ Head(queue') = (IF queue = <<>> THEN q ELSE Head(queue))
  <2>1. queue \in Seq(Entry) /\ Len(queue) \in Nat
    BY FromTyped, QueueLength DEF QueueTyped
  <2>2. q \in Entry /\ queue' = Append(queue, q)
    BY <1>2
  <2>3. /\ Append(queue, q) # <<>> /\ Len(Append(queue, q)) = Len(queue) + 1
        /\ \A i \in 1 .. Len(queue) : Append(queue, q)[i] = queue[i]
        /\ Append(queue, q)[Len(queue) + 1] = q
        /\ Head(Append(queue, q)) = IF queue = <<>> THEN q ELSE Head(queue)
    BY ONLY <2>1, <2>2, Appending
  <2> QED BY <2>1, <2>2, <2>3
<1>4. Len(queue) + 1 \in 1 .. Len(queue') /\ \A i \in 1 .. Len(queue) : i \in 1 .. Len(queue')
  BY <1>3
<1>5. SUFFICES ASSUME Still' PROVE Watched'
  BY DEF Watched, Armed, Arming, Making
<1>6. Still /\ q.op # "delete"
  BY <1>1, <1>3, <1>4, <1>5 DEF Still, Loaded, Steady
<1>7. CASE EditAsked(q)
  <2>1. queue = <<>>
    <3>1. SUFFICES ASSUME queue # <<>> PROVE FALSE
      OBVIOUS
    <3>2. Len(queue) \in Nat \ {0} /\ Head(queue) = queue[1] /\ ~OfFire(Head(queue))
      BY <1>6, <3>1, StillQueue
    <3>3. 1 \in 1 .. Len(queue)
      BY <3>2
    <3> QED BY <1>7, <3>2, <3>3 DEF EditAsked, OfFire, FireOps
  <2>2. Head(queue') = q /\ Len(queue) = 0
    BY <1>3, <2>1, EmptySeq
  <2>3. item # Absent => local[cur] = item
    BY <1>6, <2>2 DEF Watched, Armed
  <2>4. IsEdit(q) /\ (item # Absent => (Enabled(item, q.patch) => wake'[cur]))
    BY <1>7, <2>3 DEF EditAsked
  <2>5. Armed'
    BY <1>3, <1>4, <2>4 DEF Armed
  <2>6. Arming'
    BY <1>1, <1>2, <2>2, <2>4 DEF Arming, Steady
  <2>7. Making'
    BY <2>2, <2>4 DEF Making, IsEdit
  <2> QED BY <2>5, <2>6, <2>7 DEF Watched
<1>8. CASE CreateAsked(q)
  BY <1>1, <1>3, <1>8 DEF CreateAsked, Watched, Armed, Arming, Making, Steady
<1>9. CASE DetachAsked(q)
  <2>1. ~IsEdit(q) /\ q.op # "create" /\ local' = local /\ wake' = wake
    BY <1>9 DEF DetachAsked, IsEdit
  <2>2. (\A i \in 1 .. Len(queue') : ~IsEdit(queue'[i])) => \A i \in 1 .. Len(queue) : ~IsEdit(queue[i])
    BY <1>3, <1>4
  <2>3. Armed'
    BY <1>1, <1>6, <2>1, <2>2 DEF Watched, Armed, Steady
  <2>4. Arming' /\ Making'
    BY <1>1, <1>3, <1>6, <2>1 DEF Watched, Arming, Making, Steady
  <2> QED BY <2>3, <2>4 DEF Watched
<1> QED BY <1>2, <1>6, <1>7, <1>8, <1>9

\* A tool call that is answered leaves the item armed.
LEMMA InformsWatched ==
    ASSUME Typed, Answered, Unfailed, EditsFirst, Creating, Said, Watched, Loaded,
           NEW g \in Gens, g = cur, Informs(g)
    PROVE  Watched'
<1>1. /\ Steady /\ item' = item /\ fire' = fire /\ queue # <<>> /\ queue' = Tail(queue) /\ Begun
      /\ Head(queue).stage \in {"ok", "failed"} /\ (Edited(g) \/ Deleted(g) \/ Created(g))
  BY DEF Informs, Continues
<1>2. Head(queue).op \in {"update", "delete", "create"} /\ ~Pending
  BY <1>1 DEF Edited, Deleted, Created, Answers, Pending, HeadIs
<1>3. SUFFICES ASSUME Still' PROVE Watched'
  BY DEF Watched, Armed, Arming, Making
<1>4. /\ Len(queue) \in Nat \ {0} /\ Head(queue) = queue[1] /\ Len(queue') = Len(queue) - 1
      /\ \A i \in 1 .. Len(queue) - 1 : queue'[i] = queue[i + 1]
  BY <1>1, FromTyped, Taking DEF QueueTyped
<1>5. Head(queue).op # "delete" => Still
  <2>1. ASSUME NEW i \in 1 .. Len(queue), i # 1 PROVE queue[i].op # "delete"
    <3>1. i - 1 \in 1 .. Len(queue') /\ queue'[i - 1] = queue[i]
      BY <1>4, <2>1
    <3> QED BY <1>3, <3>1 DEF Still
  <2> QED BY <1>1, <1>3, <1>4, <2>1 DEF Still, Loaded, Steady
<1>6. item # Absent => ~Failed /\ Head(queue).res = item
  BY <1>1, <1>2 DEF Unfailed, Answered, Failed
<1>7. item # Absent => local'[cur] = item /\ (item.on => wake'[cur])
  <2>1. SUFFICES ASSUME item # Absent PROVE local'[cur] = item /\ (item.on => wake'[cur])
    OBVIOUS
  <2>2. CASE Deleted(g)
    <3>1. Head(queue).op = "delete" /\ Head(queue).stage # "failed"
      BY <1>6, <2>1, <2>2 DEF Deleted, Answers, Failed
    <3> QED BY <1>1, <1>6, <2>1, <3>1 DEF Said
  <2>3. CASE Edited(g)
    <3>1. /\ IsEdit(Head(queue)) /\ Head(queue).op # "delete" /\ wake' = wake
          /\ local' = [local EXCEPT ![g] = item]
      BY <1>6, <2>1, <2>3 DEF Edited, Answers, IsEdit
    <3>2. local'[cur] = item
      BY <3>1, FromTyped
    <3>3. item.on => wake[cur]
      BY <1>1, <1>5, <2>1, <3>1 DEF Watched, Arming, Begun
    <3> QED BY <3>1, <3>2, <3>3
  <2>4. CASE Created(g)
    <3>1. Head(queue).op = "create" /\ wake' = wake /\ local' = [local EXCEPT ![g] = item]
      BY <1>6, <2>1, <2>4 DEF Created, Answers
    <3>2. local'[cur] = item
      BY <3>1, FromTyped
    <3>3. \A i \in 1 .. Len(queue) : ~IsEdit(queue[i])
      BY <1>2, <1>4, <3>1 DEF EditsFirst, IsEdit
    <3>4. item.on => wake[cur]
      BY <1>5, <2>1, <3>1, <3>3 DEF Watched, Armed
    <3> QED BY <3>1, <3>2, <3>4
  <2> QED BY <1>1, <2>2, <2>3, <2>4
<1> QED BY <1>1, <1>2, <1>7, ArmedPop

LEMMA WatchedStep ==
    ASSUME Typed, Orderly, Blank, Creating, Resting, Said, Kept, Watched, [Next]_vars, Calm'
    PROVE  Watched'
<1>1. /\ Life /\ Matched /\ Tokens /\ Lone /\ Own /\ Unfailed /\ Unsaved /\ Answered /\ Claimant /\ EditsFirst
  BY DEF Orderly, Kept
<1>2. CASE BeginOp
  BY <1>1, <1>2, BeginOpWatched
<1>3. CASE Start
  <2>1. PICK a \in Copy, skip \in BOOLEAN : StartsAs(a, skip)
    BY <1>1, <1>3, StartIs
  <2>2. queue' = <<>> /\ cur \in Gens /\ cur' = cur /\ item' = disk
    BY <1>1, <1>3, StartIs
  <2>3. a = disk
    BY <2>1 DEF StartsAs, Calm
  <2>4. local' = [local EXCEPT ![cur] = disk] /\ wake' = [wake EXCEPT ![cur] = disk # Absent /\ disk.on]
    BY <2>1, <2>3 DEF StartsAs
  <2>5. local'[cur] = disk
    BY <2>2, <2>4, FromTyped
  <2>6. disk # Absent => (disk.on => wake'[cur])
    BY <2>2, <2>4, FromTyped
  <2> QED BY <2>2, <2>5, <2>6 DEF Watched, Armed, Arming, Making
<1>4. CASE ~BeginOp /\ ~Start
  <2>1. SUFFICES ASSUME Still' PROVE Watched'
    BY DEF Watched, Armed, Arming, Making
  <2>2. Loaded /\ Steady /\ item' = item
    BY <1>1, <1>4, <2>1, CalmStays DEF Still
  <2>3. cur \in Gens
    BY <2>2 DEF Loaded, Typed
  <2>4. CASE UNCHANGED vars \/ Tick
    BY <2>2, <2>4, WatchedSame DEF vars, Tick
  <2>5. CASE WriteFails \/ Unload \/ ClaimFence \/ Crash
    BY <2>1, <2>5 DEF WriteFails, Unload, ClaimFence, Crash, Calm, Still, Loaded
  <2>6. CASE BeginReplaceAll
    <3>1. PICK b : /\ queue # <<>> /\ Head(queue).op = "replaceAll" /\ ReplacesAs(Head(queue), b)
                   /\ queue' # <<>> /\ Head(queue') = b /\ b.stage # "queued" /\ Changes(b)
      BY <1>1, <2>6, HeadReplaces
    <3>2. b \in Entry /\ SameCall(b, Head(queue)) /\ queue' = [queue EXCEPT ![1] = b]
      BY <3>1 DEF ReplacesAs, SameCall
    <3>3. /\ Head(queue) = queue[1] /\ Len(queue) \in Nat \ {0} /\ Len(queue') = Len(queue) /\ queue'[1] = b
          /\ \A i \in 2 .. Len(queue) : queue'[i] = queue[i]
      BY <3>1, <3>2, FromTyped, Taking, ChangingHead DEF QueueTyped
    <3>4. ASSUME NEW i \in 1 .. Len(queue) PROVE SameCall(queue'[i], queue[i])
      BY <3>2, <3>3, <3>4, SameCallItself
    <3>5. Begun' /\ ~IsEdit(Head(queue))
      BY <3>1 DEF Begun, IsEdit
    <3>6. local' = local /\ wake' = wake /\ fire' = fire
      BY <2>6 DEF BeginReplaceAll
    <3> QED BY <2>2, <3>1, <3>2, <3>3, <3>4, <3>5, <3>6, WatchedSame
  <2>7. CASE WriteDone
    <3>1. local' = local /\ wake' = wake /\ fire' = fire
      BY <2>7 DEF WriteDone
    <3>2. CASE queue = <<>> /\ queue' = <<>>
      BY <2>2, <3>1, <3>2, WatchedSame
    <3>3. CASE /\ queue # <<>> /\ Waits /\ Begun' /\ SameCall(Head(queue'), Head(queue))
               /\ Len(queue') = Len(queue) /\ \A i \in 1 .. Len(queue) : SameCall(queue'[i], queue[i])
      BY <2>2, <3>1, <3>3, WatchedSame DEF Waits
    <3> QED BY <1>1, <2>2, <2>7, <3>2, <3>3, CalmWrite
  <2>8. ASSUME NEW g \in Gens, CalmStep(g) PROVE Watched'
    <3>1. FlowOf(g) /\ g = cur /\ fire'[cur].at = "idle"
      BY <2>1, <2>2, <2>8 DEF CalmStep, Still, Steady
    <3>2. CASE Ends(g)
      <4>1. ~Pending /\ (item # Absent => local'[cur] = item /\ (item.on => wake'[cur]))
        BY <1>1, <2>2, <3>1, <3>2, CalmEnds
      <4>2. queue # <<>> /\ queue' = Tail(queue)
        BY <3>2 DEF Ends, Continues
      <4> QED BY <1>1, <2>2, <4>1, <4>2, ArmedPop
    <3>3. CASE Detached(g)
      <4>1. /\ local' = [local EXCEPT ![g] = item] /\ wake' = [wake EXCEPT ![g] = item # Absent /\ item.on]
            /\ queue # <<>> /\ queue' = Tail(queue) /\ HeadIs("replaceAll")
        BY <1>1, <2>2, <3>3, CalmDetached
      <4>2. local'[cur] = item
        BY <2>3, <3>1, <4>1, FromTyped
      <4>3. item # Absent => (item.on => wake'[cur])
        BY <2>3, <3>1, <4>1, FromTyped
      <4>4. ~Pending
        BY <4>1 DEF Pending, HeadIs
      <4> QED BY <1>1, <2>2, <4>1, <4>2, <4>3, <4>4, ArmedPop
    <3>4. CASE Hands(g) \/ Claims(g) \/ Sends(g) \/ Wakes(g) \/ Proceeds(g)
      BY <3>1, <3>4 DEF Hands, Claims, Sends, Wakes, Proceeds, FireBecomes
    <3>5. CASE Informs(g)
      BY <1>1, <2>2, <3>1, <3>5, InformsWatched
    <3>6. CASE Asks(g)
      BY <1>1, <2>2, <3>1, <3>6, AsksWatched
    <3>7. CASE Rests(g)
      <4>1. OtherSave(g)
        BY <3>1, <3>7, ArmingUnlessMissed DEF Rests, WakeWhileFiring, Missed, Rearm, ArmTimer, Calm
      <4> QED BY <2>2, <4>1, WatchedSame DEF OtherSave
    <3> QED BY <3>1, <3>2, <3>3, <3>4, <3>5, <3>6, <3>7 DEF FlowOf
  <2> QED BY <1>1, <1>4, <2>4, <2>5, <2>6, <2>7, <2>8, CalmKinds DEF StepAlone
<1> QED BY <1>2, <1>3, <1>4

\* All this holds for as long as nothing has gone wrong.
WholeInv == Calm => Whole

LEMMA InitWhole == ASSUME Init PROVE WholeInv
<1>1. /\ up = "off" /\ queue = <<>> /\ item = Absent /\ ~Begun
      /\ \A g \in Gens : fire[g].at = "idle" /\ ~wake[g]
  BY IdleFields DEF Init, Begun, NoFire, NotArmed
<1>2. \A c : Lives(c) => c = Absent \/ c.tok = 0
  BY DEF Init, Lives, KeptBack, InSettings, InPass, OnDisk, Owner, Replacing, HeadIs, Begun, NoPass
<1>3. ~Loaded
  BY <1>1 DEF Loaded
<1> QED BY <1>1, <1>2, <1>3 DEF WholeInv, Whole, Kept, Watched, Lone, Own, InStep, Answered, Unfailed, Unsaved, Claimant,
     Attended, EditsFirst, Armed, Arming, Making, Still

LEMMA WholeInvStep == ASSUME Typed, OrderlyInv, PlainInv, SaidInv, WholeInv, [Next]_vars PROVE WholeInv'
<1>1. SUFFICES ASSUME Calm' PROVE Whole'
  BY DEF WholeInv
<1>2. Calm /\ Plain
  BY <1>1, CalmIs
<1>3. Orderly /\ Blank /\ Creating /\ Resting /\ Said /\ Kept /\ Watched
  BY <1>2 DEF Calm, OrderlyInv, PlainInv, SaidInv, WholeInv, Whole
<1>4. /\ Life /\ Matched /\ Lone /\ Own /\ InStep /\ Answered /\ Unfailed /\ Unsaved
  BY <1>3 DEF Orderly, Kept
<1>5. Lone' /\ Own' /\ InStep' /\ Answered'
  BY <1>1, <1>3, <1>4, LoneStep, OwnStep, InStepStep, AnsweredStep
<1>6. Unfailed' /\ Unsaved'
  BY <1>1, <1>3, <1>4, UnfailedStep
<1>7. Claimant' /\ Attended' /\ EditsFirst' /\ Watched'
  BY <1>1, <1>3, ClaimantStep, AttendedStep, EditsFirstStep, WatchedStep
<1> QED BY <1>5, <1>6, <1>7 DEF Whole, Kept

LEMMA NotForgottenHolds == ASSUME Typed, OrderlyInv, WholeInv PROVE NotForgotten
<1>1. SUFFICES ASSUME AtRest, mishaps = {} PROVE WillRun
  BY DEF NotForgotten
<1>2. Calm /\ Tokens /\ Claimant /\ Armed
  BY <1>1 DEF Calm, OrderlyInv, Orderly, WholeInv, Whole, Kept, Watched
<1>3. Loaded /\ queue = <<>> /\ item # Absent /\ item.on /\ fire[cur].at = "idle" /\ cur \in Gens
  BY <1>1 DEF AtRest, Loaded, Typed
<1>4. Len(queue) = 0 /\ ~Begun
  BY <1>3, EmptySeq DEF Begun
<1>5. local[cur] = item /\ wake[cur]
  BY <1>2, <1>3, <1>4 DEF Armed, Still
<1>6. item.tok = 0
  <2>1. fire[cur].tok = 0
    <3>1. fire[cur].tok \in Nat
      BY <1>3, FireFields
    <3> QED BY <1>2, <1>3, <3>1 DEF Tokens, ActivePoints
  <2> QED BY <1>2, <1>3, <1>4, <2>1 DEF Claimant, Pending, HeadIs
<1> QED BY <1>3, <1>5, <1>6 DEF WillRun

\* As long as nothing has gone wrong around it, an enabled item is never forgotten: when the running scheduler is at
\* rest, its own copy is armed for the time the coordinator has, and no claim is left on the item that nobody works on
\* (NotForgotten), through every claim, gate, send, edit, reload and crash between two runs.
THEOREM StaysArmed == Spec => []NotForgotten
<1> DEFINE Inv == Typed /\ OrderlyInv /\ PlainInv /\ SaidInv /\ WholeInv
<1>1. Init => Inv
  BY InitTyped, InitOrderly, InitPlain, InitWhole DEF PlainInv, SaidInv, Said, Begun, Init
<1>2. Inv /\ [Next]_vars => Inv'
  <2> SUFFICES ASSUME Inv, [Next]_vars PROVE Inv'
    OBVIOUS
  <2>1. Typed' /\ OrderlyInv' /\ PlainInv' /\ WholeInv'
    BY TypedStep, OrderlyStep, PlainInvStep, WholeInvStep
  <2>2. SaidInv'
    <3>1. "late" \notin mishaps' => "late" \notin mishaps /\ Life
      <4>1. mishaps \subseteq mishaps'
        BY MishapsGrow
      <4> QED BY <4>1 DEF OrderlyInv, Orderly
    <3> QED BY <3>1, SaidStep DEF SaidInv
  <2> QED BY <2>1, <2>2
<1>3. Inv => NotForgotten
  BY NotForgottenHolds
<1> HIDE DEF Inv
<1> QED BY <1>1, <1>2, <1>3, PTL DEF Spec

=============================================================================

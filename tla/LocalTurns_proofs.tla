--------------------------- MODULE LocalTurns_proofs ---------------------------
(***************************************************************************)
(* Theorems about the turns of a local thread, for any number of messages, *)
(* stops, failures, rebuilds, compactions and retries, with their proofs:  *)
(* no message is forgotten, the running flag is true, retries repeat what  *)
(* was not answered, and only a stop takes a message back.                 *)
(*                                                                         *)
(* Most steps change one session.  What such a step owes the invariant is  *)
(* said once, of the session before and after (SoundChange, KeepingChange, *)
(* Delivers), and shown for each step from what it does to the queue.      *)
(***************************************************************************)
EXTENDS LocalTurns, Subsequences_proofs, FiniteSetTheorems

-----------------------------------------------------------------------------
(* What the operations on a session make of it.                            *)

\* A session that was created and has done nothing.
LEMMA NewSessionFields ==
    /\ NewSession \in SessionRecord
    /\ NewSession.query = "none" /\ ~NewSession.chan /\ NewSession.pipe = <<>> /\ NewSession.work = <<>>
    /\ ~NewSession.inflight /\ ~NewSession.intr /\ ~NewSession.stop /\ NewSession.comp = 0
    /\ NewSession.last = 0 /\ ~NewSession.backoff /\ NewSession.turn = 0 /\ NewSession.replay = 0
    /\ NewSession.held = {} /\ NewSession.ending = 0
BY BoundsAssumption DEF NewSession, SessionRecord

\* start() gives a session a Query and an empty channel.
LEMMA OpenedFields ==
    ASSUME NEW x \in SessionRecord, NEW resume \in BOOLEAN
    PROVE  LET y == Opened(x, resume) IN
           /\ y \in SessionRecord
           /\ y.query = "live" /\ y.chan /\ y.pipe = <<>> /\ y.work = <<>>
           /\ ~y.inflight /\ ~y.intr /\ ~y.stop
           /\ y.comp = x.comp /\ y.last = x.last /\ y.backoff = x.backoff /\ y.turn = x.turn
           /\ y.replay = x.replay /\ y.held = x.held /\ y.ending = x.ending
<1>1. <<>> \in Seq(Inputs)
  OBVIOUS
<1>2. Opened(x, resume) \in SessionRecord
  BY <1>1, ZenonT(60) DEF Opened, SessionRecord
<1> QED BY <1>2 DEF Opened, SessionRecord

\* close() leaves no Query, nothing queued and no turn.
LEMMA ClosedFields ==
    ASSUME NEW x \in SessionRecord
    PROVE  LET y == Closed(x) IN
           /\ y \in SessionRecord
           /\ y.query = "none" /\ ~y.chan /\ y.pipe = <<>> /\ y.work = <<>> /\ y.held = {}
           /\ ~y.inflight /\ ~y.stop /\ y.comp = 0
           /\ y.intr = x.intr /\ y.last = x.last /\ y.backoff = x.backoff /\ y.turn = x.turn
           /\ y.replay = x.replay
           /\ y.ending = IF x.query = "live" THEN x.ending + 1 ELSE x.ending
<1>1. <<>> \in Seq(Inputs)
  OBVIOUS
<1>2. ClosedInFlight(x) \in SessionRecord
  <2>1. x.ending \in Nat /\ x.ending + 1 \in Nat /\ 0 \in Messages \cup {0} /\ {} \in SUBSET Messages
    BY DEF SessionRecord
  <2>2. CASE x.query = "live"
    BY <1>1, <2>1, <2>2, ZenonT(60) DEF ClosedInFlight, SessionRecord
  <2>3. CASE x.query # "live"
    BY <1>1, <2>1, <2>3, ZenonT(60) DEF ClosedInFlight, SessionRecord
  <2> QED BY <2>2, <2>3
<1>3. Closed(x) \in SessionRecord
  BY <1>2, ZenonT(60) DEF Closed, SessionRecord
<1>4. Closed(x).ending = IF x.query = "live" THEN x.ending + 1 ELSE x.ending
  BY DEF Closed, ClosedInFlight, SessionRecord
<1> QED BY <1>3, <1>4, ZenonT(60) DEF Closed, ClosedInFlight, SessionRecord

\* A failed Query is kept, with what was queued.
LEMMA FailedFields ==
    ASSUME NEW x \in SessionRecord
    PROVE  LET y == Failed(x) IN
           /\ y \in SessionRecord
           /\ y.query = "dead" /\ y.comp = 0 /\ ~y.stop
           /\ y.chan = x.chan /\ y.pipe = x.pipe /\ y.work = x.work /\ y.held = x.held
           /\ y.inflight = x.inflight /\ y.intr = x.intr /\ y.last = x.last /\ y.backoff = x.backoff
           /\ y.turn = x.turn /\ y.replay = x.replay /\ y.ending = x.ending /\ y.fresh = x.fresh
           /\ y.auth = x.auth /\ y.rate = x.rate /\ y.stream = x.stream /\ y.known = x.known
BY DEF Failed, SessionRecord

\* The pump's finally leaves no Query, nothing queued and no stop.
LEMMA TornDownFields ==
    ASSUME NEW x \in SessionRecord
    PROVE  LET y == TornDown(x) IN
           /\ y \in SessionRecord
           /\ y.query = "none" /\ ~y.chan /\ y.pipe = <<>> /\ y.work = <<>> /\ y.held = {}
           /\ ~y.inflight /\ ~y.intr /\ ~y.stop
           /\ y.last = x.last /\ y.backoff = x.backoff /\ y.turn = x.turn /\ y.replay = x.replay
           /\ y.ending = x.ending
<1>1. <<>> \in Seq(Inputs)
  OBVIOUS
<1> QED BY <1>1, ZenonT(60) DEF TornDown, SessionRecord

\* A push appends to the channel and begins a turn.
LEMMA PushedFields ==
    ASSUME NEW x \in SessionRecord, NEW input \in Inputs
    PROVE  LET y == Pushed(x, input) IN
           /\ y \in SessionRecord
           /\ y.last = input /\ y.pipe = Append(x.pipe, input) /\ y.inflight
           /\ y.query = x.query /\ y.chan = x.chan /\ y.work = x.work /\ y.held = x.held
           /\ y.intr = x.intr /\ y.stop = x.stop /\ y.comp = x.comp /\ y.backoff = x.backoff
           /\ y.turn = x.turn /\ y.replay = x.replay /\ y.ending = x.ending
<1>1. ASSUME NEW q \in Seq(Inputs) PROVE Append(q, input) \in Seq(Inputs)
  OBVIOUS
<1>2. x.pipe \in Seq(Inputs)
  BY DEF SessionRecord
<1> QED BY <1>1, <1>2 DEF Pushed, SessionRecord

-----------------------------------------------------------------------------
(* What was pushed and not answered, in order, and the messages in it.      *)

\* What an agent has before it: read, then not yet read.
Queue(x) == x.work \o x.pipe

\* No message comes after m.
Newest(q, m) == \A i, j \in 1 .. Len(q) : i < j /\ q[i] = m => q[j] \notin Messages

\* The messages among some inputs are those in its set of elements.
LEMMA OfRange == \A q : Of(q) = ToSet(q) \cap Messages
BY DEF Of, Range, ToSet

\* An empty channel has no message.
LEMMA OfEmpty == Of(<<>>) = {}
BY OfRange, InEmpty

\* A push adds one message.
LEMMA OfAppend ==
    ASSUME NEW q \in Seq(Inputs), NEW input \in Inputs
    PROVE  /\ Append(q, input) \in Seq(Inputs) /\ Append(q, input) # <<>>
           /\ Of(Append(q, input)) = Of(q) \cup ({input} \cap Messages)
           /\ q # <<>> => Head(Append(q, input)) = Head(q)
           /\ q = <<>> => Head(Append(q, input)) = input
<1>1. Append(q, input) \in Seq(Inputs) /\ ToSet(Append(q, input)) = ToSet(q) \cup {input}
  BY InAppend
<1>2. /\ Append(q, input) # <<>>
      /\ q # <<>> => Head(Append(q, input)) = Head(q)
      /\ q = <<>> => Head(Append(q, input)) = input
  OBVIOUS
<1> QED BY <1>1, <1>2, OfRange

\* The messages of a queue are those read and those not read.
LEMMA OfQueue ==
    ASSUME NEW p \in Seq(Inputs), NEW q \in Seq(Inputs)
    PROVE  /\ p \o q \in Seq(Inputs) /\ Of(p \o q) = Of(p) \cup Of(q)
           /\ p \o <<>> = p /\ <<>> \o p = p
           /\ p \o q = <<>> <=> p = <<>> /\ q = <<>>
           /\ p # <<>> => Head(p \o q) = Head(p)
<1>1. p \o q \in Seq(Inputs) /\ ToSet(p \o q) = ToSet(p) \cup ToSet(q)
  BY InConcat
<1>2. /\ p \o <<>> = p /\ <<>> \o p = p
      /\ p \o q = <<>> <=> p = <<>> /\ q = <<>>
      /\ p # <<>> => Head(p \o q) = Head(p)
  OBVIOUS
<1> QED BY <1>1, <1>2, OfRange

\* A push comes last.
LEMMA QueueAppend ==
    ASSUME NEW p \in Seq(Inputs), NEW q \in Seq(Inputs), NEW input \in Inputs
    PROVE  p \o Append(q, input) = Append(p \o q, input)
OBVIOUS

\* What the agent reads stays in the queue.
LEMMA QueueRead ==
    ASSUME NEW p \in Seq(Inputs), NEW q \in Seq(Inputs), q # <<>>
    PROVE  /\ Append(p, Head(q)) \o Tail(q) = p \o q
           /\ Append(p, Head(q)) \in Seq(Inputs) /\ Tail(q) \in Seq(Inputs)
<1>1. Head(q) \in Inputs /\ Tail(q) \in Seq(Inputs)
  BY HeadTailProperties
<1>2. q = <<Head(q)>> \o Tail(q)
  OBVIOUS
<1>3. Append(p, Head(q)) \in Seq(Inputs)
  BY <1>1
<1>4. Append(p, Head(q)) \o Tail(q) = p \o q
  OBVIOUS
<1> QED BY <1>1, <1>3, <1>4

\* A result takes a beginning of the queue.
LEMMA QueueRest ==
    ASSUME NEW p \in Seq(Inputs), NEW q \in Seq(Inputs), NEW k \in 1 .. Len(p)
    PROVE  /\ SubSeq(p, 1, k) \in Seq(Inputs) /\ Rest(p, k) \in Seq(Inputs)
           /\ Of(p) = Of(SubSeq(p, 1, k)) \cup Of(Rest(p, k))
           /\ Len(Rest(p, k)) = Len(p) - k
           /\ \A i \in 1 .. Len(Rest(p, k)) : Rest(p, k)[i] = p[k + i]
           /\ \A i \in 1 .. k : SubSeq(p, 1, k)[i] = p[i]
           /\ Len(SubSeq(p, 1, k)) = k
<1>1. Len(p) \in Nat /\ k \in Int /\ k + 1 \in Int /\ \A i \in 1 .. Len(p) : p[i] \in Inputs
  BY LenProperties
<1>2. /\ SubSeq(p, 1, k) \in Seq(Inputs) /\ Len(SubSeq(p, 1, k)) = k
      /\ \A i \in 1 .. k : SubSeq(p, 1, k)[i] = p[i]
  <2>1. \A i \in 1 .. k : p[i] \in Inputs
    BY <1>1
  <2>2. /\ SubSeq(p, 1, k) \in Seq(Inputs)
        /\ Len(SubSeq(p, 1, k)) = IF 1 <= k THEN k - 1 + 1 ELSE 0
        /\ \A i \in 1 .. k - 1 + 1 : SubSeq(p, 1, k)[i] = p[1 + i - 1]
    BY <1>1, <2>1, SubSeqProperties
  <2> QED BY <1>1, <2>2
<1>3. /\ Rest(p, k) \in Seq(Inputs) /\ Len(Rest(p, k)) = Len(p) - k
      /\ \A i \in 1 .. Len(p) - k : Rest(p, k)[i] = p[k + i]
  <2>1. \A i \in k + 1 .. Len(p) : p[i] \in Inputs
    BY <1>1
  <2>2. /\ SubSeq(p, k + 1, Len(p)) \in Seq(Inputs)
        /\ Len(SubSeq(p, k + 1, Len(p))) = IF k + 1 <= Len(p) THEN Len(p) - (k + 1) + 1 ELSE 0
        /\ \A i \in 1 .. Len(p) - (k + 1) + 1 : SubSeq(p, k + 1, Len(p))[i] = p[k + 1 + i - 1]
    BY <1>1, <2>1, SubSeqProperties
  <2> QED BY <1>1, <2>2 DEF Rest
<1>4. \A i \in 1 .. Len(p) : i \in 1 .. k \/ (i - k \in 1 .. Len(p) - k /\ k + (i - k) = i)
  BY <1>1
<1>5. \A i \in 1 .. Len(p) - k : k + i \in 1 .. Len(p)
  BY <1>1
<1>6. ToSet(p) = ToSet(SubSeq(p, 1, k)) \cup ToSet(Rest(p, k))
  <2>1. /\ ToSet(p) = {p[i] : i \in 1 .. Len(p)}
        /\ ToSet(SubSeq(p, 1, k)) = {SubSeq(p, 1, k)[i] : i \in 1 .. k}
        /\ ToSet(Rest(p, k)) = {Rest(p, k)[i] : i \in 1 .. Len(p) - k}
    BY <1>2, <1>3, InSequence
  <2>2. ASSUME NEW i \in 1 .. Len(p) PROVE p[i] \in ToSet(SubSeq(p, 1, k)) \cup ToSet(Rest(p, k))
    <3>1. CASE i \in 1 .. k
      BY <1>2, <2>1, <3>1
    <3>2. CASE i - k \in 1 .. Len(p) - k /\ k + (i - k) = i
      <4>1. Rest(p, k)[i - k] = p[i]
        BY <1>3, <3>2
      <4> QED BY <2>1, <3>2, <4>1
    <3> QED BY <1>4, <3>1, <3>2
  <2>3. ASSUME NEW i \in 1 .. k PROVE SubSeq(p, 1, k)[i] \in ToSet(p)
    <3>1. i \in 1 .. Len(p)
      BY <1>1
    <3> QED BY <1>2, <2>1, <3>1
  <2>4. ASSUME NEW i \in 1 .. Len(p) - k PROVE Rest(p, k)[i] \in ToSet(p)
    BY <1>3, <1>5, <2>1
  <2> QED BY <2>1, <2>2, <2>3, <2>4
<1> QED BY <1>2, <1>3, <1>6, OfRange

\* When the newest message is answered, no other waits behind it.
LEMMA NewestRest ==
    ASSUME NEW p \in Seq(Inputs), NEW q \in Seq(Inputs), NEW k \in 1 .. Len(p), NEW m,
           Newest(p \o q, m)
    PROVE  /\ Newest(Rest(p, k) \o q, m)
           /\ m \in Of(SubSeq(p, 1, k)) => Of(Rest(p, k) \o q) = {}
<1> DEFINE r == Rest(p, k)
<1>1. /\ r \in Seq(Inputs) /\ Len(r) = Len(p) - k /\ Len(r) \in Nat /\ Len(p) \in Nat /\ Len(q) \in Nat
      /\ \A i \in 1 .. Len(r) : r[i] = p[k + i]
      /\ SubSeq(p, 1, k) \in Seq(Inputs) /\ Len(SubSeq(p, 1, k)) = k
      /\ \A i \in 1 .. k : SubSeq(p, 1, k)[i] = p[i]
  BY QueueRest, LenProperties
<1>2. /\ Len(p \o q) = Len(p) + Len(q)
      /\ \A i \in 1 .. Len(p) + Len(q) : (p \o q)[i] = IF i <= Len(p) THEN p[i] ELSE q[i - Len(p)]
  BY ConcatProperties
<1>3. /\ r \o q \in Seq(Inputs) /\ Len(r \o q) = Len(r) + Len(q)
      /\ \A i \in 1 .. Len(r) + Len(q) : (r \o q)[i] = IF i <= Len(r) THEN r[i] ELSE q[i - Len(r)]
  BY <1>1, ConcatProperties
<1> HIDE DEF r
<1>4. ASSUME NEW i \in 1 .. Len(r \o q)
      PROVE  k + i \in 1 .. Len(p \o q) /\ (r \o q)[i] = (p \o q)[k + i]
  <2>1. k + i \in 1 .. Len(p) + Len(q) /\ i \in 1 .. Len(r) + Len(q)
    BY <1>1, <1>2, <1>3
  <2>2. CASE i <= Len(r)
    <3>1. k + i <= Len(p) /\ i \in 1 .. Len(r)
      BY <1>1, <2>1, <2>2
    <3> QED BY <1>1, <1>2, <1>3, <2>1, <2>2, <3>1
  <2>3. CASE ~(i <= Len(r))
    <3>1. ~(k + i <= Len(p)) /\ i - Len(r) = k + i - Len(p)
      BY <1>1, <2>1, <2>3
    <3> QED BY <1>2, <1>3, <2>1, <2>3, <3>1
  <2> QED BY <2>2, <2>3
<1>5. Newest(r \o q, m)
  <2> SUFFICES ASSUME NEW i \in 1 .. Len(r \o q), NEW j \in 1 .. Len(r \o q), i < j, (r \o q)[i] = m
               PROVE  (r \o q)[j] \notin Messages
    BY DEF Newest
  <2>1. k + i < k + j
    BY <1>3
  <2> QED BY <1>4, <2>1 DEF Newest
<1>6. ASSUME m \in Of(SubSeq(p, 1, k)) PROVE Of(r \o q) = {}
  <2>1. PICK i \in 1 .. k : p[i] = m
    <3>1. m \in ToSet(SubSeq(p, 1, k))
      BY <1>6, OfRange
    <3>2. ToSet(SubSeq(p, 1, k)) = {SubSeq(p, 1, k)[i] : i \in 1 .. k}
      BY <1>1, InSequence
    <3> QED BY <1>1, <3>1, <3>2
  <2>2. i \in 1 .. Len(p \o q) /\ (p \o q)[i] = m
    <3>1. i \in 1 .. Len(p) + Len(q) /\ i <= Len(p)
      BY <1>1
    <3> QED BY <1>2, <2>1, <3>1
  <2>3. ASSUME NEW j \in 1 .. Len(r \o q) PROVE (r \o q)[j] \notin Messages
    <3>1. i < k + j
      BY <1>1, <1>3
    <3> QED BY <1>4, <2>2, <3>1 DEF Newest
  <2>4. ToSet(r \o q) = {(r \o q)[j] : j \in 1 .. Len(r \o q)}
    BY <1>3, InSequence
  <2> QED BY <2>3, <2>4, OfRange
<1> QED BY <1>5, <1>6 DEF r

\* An input that is new, or no message, is no message before the newest.
LEMMA NewestAppend ==
    ASSUME NEW q \in Seq(Inputs), NEW input \in Inputs, NEW m,
           (Newest(q, m) /\ input \notin Messages) \/ (m \in Messages /\ m \notin Of(q))
    PROVE  Newest(Append(q, input), m)
<1> DEFINE r == Append(q, input)
<1>1. /\ Len(r) = Len(q) + 1 /\ Len(q) \in Nat /\ r[Len(q) + 1] = input
      /\ \A i \in 1 .. Len(q) : r[i] = q[i]
  BY AppendProperties, LenProperties
<1> HIDE DEF r
<1> SUFFICES ASSUME NEW i \in 1 .. Len(r), NEW j \in 1 .. Len(r), i < j, r[i] = m
             PROVE  r[j] \notin Messages
  BY DEF Newest, r
<1>2. i \in 1 .. Len(q) /\ q[i] = m
  BY <1>1
<1>3. m \in ToSet(q)
  BY <1>2, InSequence
<1>4. Newest(q, m) /\ input \notin Messages
  BY <1>3, OfRange
<1> QED BY <1>1, <1>2, <1>4 DEF Newest

\* What is not in a queue has nothing behind it.
LEMMA NewestAbsent ==
    ASSUME NEW q \in Seq(Inputs), NEW m \in Messages, m \notin Of(q) PROVE Newest(q, m)
<1>1. \A i \in 1 .. Len(q) : q[i] \in ToSet(q)
  BY InSequence
<1> QED BY <1>1, OfRange DEF Newest

\* Nothing is behind a message of an empty queue.
LEMMA NewestEmpty == \A m : Newest(<<>>, m)
BY DEF Newest

-----------------------------------------------------------------------------
(* The invariant.                                                          *)

\* There are sessions enough, each created once, and a thread that was deleted shows nothing.
Counted ==
    /\ made + (IF rebuild THEN 1 ELSE 0) <= rebuilds + 1
    /\ current = 0 /\ ~gone => made = 0 /\ ~rebuild
    /\ current <= made
    /\ \A m \in Messages : send[m].at = "unsent" <=> m > sent
    /\ \A m \in Messages : m <= sent => send[m].ses \in 1 .. made
    /\ \A s \in Sessions : s > made => ses[s] = NewSession
    /\ gone => shown = {} /\ pending = {}
    /\ shown \subseteq 1 .. sent /\ pending \subseteq shown

\* A session without a Query has nothing to do and no channel, and no turn to repeat is
\* a /compact; the thread's own has an open channel as long as it has a Query, and waits
\* for a retry only with a failed one.
TidySession(x, mine, presses) ==
    /\ x.query = "none" => x.work = <<>> /\ x.pipe = <<>> /\ x.held = {} /\ ~x.inflight /\ ~x.chan
    /\ Compact \notin {x.last, x.turn, x.replay}
    /\ x.query # "live" => ~x.stop /\ x.replay = 0
    /\ x.stop => x.intr
    /\ x.intr => presses > 0 /\ (mine \/ x.query = "none")
    /\ mine => /\ x.ending = 0
               /\ x.chan <=> x.query # "none"
               /\ x.backoff => x.query = "dead"

\* Every session is tidy.
Tidy == \A s \in Sessions : TidySession(ses[s], s = current, stops)

\* What has been replaced has no Query, and the running flag is true.
OrderlySession(x, mine, o) ==
    /\ ~mine => x.query = "none"
    /\ "stuck" \notin o => /\ x.query = "dead" => x.backoff
                           /\ x.inflight => x.backoff \/ (x.query = "live" /\ Queue(x) # <<>>)
    /\ "crossed" \notin o /\ Queue(x) # <<>> => x.inflight

\* Unless a session came back, every session is orderly.
Orderly == "revived" \notin odd => \A s \in Sessions : OrderlySession(ses[s], s = current, odd)

\* A message is in one session only, and only once its send has ended.
MessagesOf(x) == Messages \cap (Of(Queue(x)) \cup x.held \cup {x.last, x.turn, x.replay})

\* What a session has of a message, its send() has given it; only that is answered.
Owned ==
    /\ \A s \in Sessions : \A m \in MessagesOf(ses[s]) : send[m].ses = s /\ send[m].at \in {"done", "failed"}
    /\ \A m \in answered : send[m].at \in {"done", "failed"}

\* Once a session's last message is answered, nothing is left of any; what is to be
\* sent again is neither answered nor in the queue.
FreshSession(x, a) ==
    /\ x.last \in a => Of(Queue(x)) \cup x.held = {}
    /\ x.last \in Messages => Newest(Queue(x), x.last)
    /\ x.last \in x.held => x.last \in Of(Queue(x)) \/ x.replay # 0 \/ Of(Queue(x)) = {}
    /\ x.replay \notin a /\ x.replay \notin Of(Queue(x))
    /\ x.turn \notin a
    /\ x.query = "live" /\ x.turn \in Messages =>
          x.turn \notin Of(Queue(x)) /\ x.turn \notin x.held /\ x.turn # x.last /\ x.turn # x.replay

\* Unless a retry repeated what nobody asked for, nothing answered is kept.
Unanswered == "again" \notin odd => \A s \in Sessions : FreshSession(ses[s], answered)

\* What the exceptions of NothingForgotten come to.
Exempt == odd \cap {"stuck", "revived", "swallowed", "silent"} # {} \/ (stops > 0 /\ "crossed" \in odd)

\* Messages in the transcript that nothing has settled.
Unsettled == shown \ (answered \cup told \cup dropped)

\* Messages that a session will still answer.
Kept(x) == Messages \cap (Of(Queue(x)) \cup x.held \cup {x.replay})

\* What is left in a resumed conversation waits for a turn that is no compaction.
Keeps(x, unsettled) ==
    /\ x.held \cap unsettled # {} =>
          x.replay # 0 \/ (x.inflight /\ Queue(x) # <<>> /\ Head(Queue(x)) # Compact)
    /\ x.replay # 0 => Queue(x) = <<>> \/ Head(Queue(x)) # Compact
    /\ x.last = 0 => (Of(Queue(x)) \cup x.held) \cap unsettled = {}
    /\ x.backoff /\ x.turn = 0 => (Of(x.work) \cup x.held) \cap unsettled = {}

\* A message that is shown and not settled is on its way, or the thread's session has it.
Remembered ==
    ~Exempt /\ ~gone =>
       /\ \A m \in Unsettled : send[m].at \notin Ended \/ (current # 0 /\ m \in Kept(ses[current]))
       /\ "crossed" \notin odd => Unsettled \subseteq pending
       /\ current # 0 => Keeps(ses[current], Unsettled)

\* A pending message is not answered.
NotAnswered == odd \cap {"swallowed", "unnamed"} = {} => pending \cap answered = {}

\* The inductive invariant.
Inv == /\ TypeOK /\ Counted /\ Tidy /\ Orderly /\ Owned /\ Unanswered /\ Remembered /\ NotAnswered

-----------------------------------------------------------------------------
(* Steps that change one session.                                          *)

\* No send begins or is undone.
Continues(a, b) ==
    \A m \in Messages : /\ b[m].ses = a[m].ses
                        /\ b[m].at = "unsent" <=> a[m].at = "unsent"
                        /\ a[m].at \in {"done", "failed"} => b[m].at \in {"done", "failed"}

\* And none ends.
Moves(a, b) ==
    \A m \in Messages : /\ b[m].ses = a[m].ses
                        /\ b[m].at = a[m].at \/ (a[m].at \notin Ended /\ b[m].at \notin Ended)

\* Session s becomes y, and the rest of the thread changes as a session may change it.
Changes(s, y) ==
    /\ ses' = [ses EXCEPT ![s] = y]
    /\ UNCHANGED <<sent, manager, stops, rebuilds>>
    /\ shown' \subseteq shown /\ pending' \subseteq pending /\ pending' \subseteq shown'
    /\ answered \subseteq answered' /\ told \subseteq told' /\ dropped \subseteq dropped'
    /\ odd \subseteq odd'

\* Every variable keeps its type.
TypedChange ==
    /\ send' \in [Messages -> [at: {"unsent", "probe", "sync", "usage", "compact", "ready", "done", "failed"},
                               ses: Sessions \cup {0}, resume: BOOLEAN]]
    /\ id' \in BOOLEAN /\ faults' \in 0 .. MaxFaults /\ compacts' \in 0 .. MaxCompacts
    /\ answered' \subseteq Messages /\ told' \subseteq Messages /\ dropped' \subseteq Messages
    /\ odd' \subseteq Oddities

\* The messages whose send ends, or has ended, in session s.
Arrived(s) == {m \in Messages : send[m].ses = s /\ send'[m].at \in {"done", "failed"}}

\* What a session owes the invariants.
SoundChange(s, y) ==
    /\ y \in SessionRecord
    /\ TidySession(y, s = current, stops)
    /\ "revived" \notin odd' => OrderlySession(y, s = current, odd')
    /\ "again" \notin odd' => FreshSession(y, answered')
    /\ MessagesOf(y) \subseteq MessagesOf(ses[s]) \cup Arrived(s)
    /\ answered' \ answered \subseteq MessagesOf(ses[s])

\* What it owes the messages of the thread.
KeepingChange(s, y) ==
    /\ odd' \cap {"swallowed", "unnamed"} = {} => pending' \cap answered' = {}
    /\ ~Exempt' /\ ~gone =>
          /\ "crossed" \notin odd' => Unsettled' \subseteq pending'
          /\ s = current => /\ Keeps(y, Unsettled')
                            /\ Unsettled' \cap Kept(ses[s]) \subseteq Kept(y)

\* A send that ends leaves its message in the thread's session, or settled.
Delivers(s, y) ==
    ~Exempt' /\ ~gone =>
        \A m \in Unsettled' : send[m].at \notin Ended /\ send'[m].at \in Ended => s = current /\ m \in Kept(y)

\* A step of one session that owes nothing to the invariant keeps it.
LEMMA SessionChange ==
    ASSUME Inv, NEW s \in Sessions, s <= made, NEW y, Changes(s, y), Continues(send, send'), TypedChange,
           SoundChange(s, y), KeepingChange(s, y), Delivers(s, y)
    PROVE  Inv'
<1>1. /\ ses' \in [Sessions -> SessionRecord] /\ ses'[s] = y
      /\ \A t \in Sessions : t # s => ses'[t] = ses[t]
  BY DEF Inv, TypeOK, Changes, SoundChange
<1>2. /\ current' = current /\ made' = made /\ gone' = gone /\ stops' = stops /\ sent' = sent
      /\ rebuild' = rebuild /\ rebuilds' = rebuilds
      /\ odd \subseteq odd' /\ answered \subseteq answered' /\ shown' \subseteq shown
      /\ pending' \subseteq pending /\ pending' \subseteq shown'
  BY DEF Changes, manager
<1>3. \A m \in Messages : /\ send'[m].ses = send[m].ses
                          /\ send'[m].at = "unsent" <=> send[m].at = "unsent"
                          /\ send[m].at \in {"done", "failed"} => send'[m].at \in {"done", "failed"}
  BY DEF Continues
<1>4. TypeOK'
  BY <1>1, <1>2 DEF Inv, TypeOK, TypedChange
<1>5. Counted'
  <2>1. \A t \in Sessions : t > made => ses'[t] = NewSession
    BY <1>1 DEF Inv, Counted, Sessions, TypeOK
  <2> QED BY <1>2, <1>3, <2>1 DEF Inv, Counted
<1>6. Tidy'
  BY <1>1, <1>2 DEF Inv, Tidy, SoundChange
<1>7. Orderly'
  <2> SUFFICES ASSUME "revived" \notin odd', NEW t \in Sessions
               PROVE  OrderlySession(ses'[t], t = current', odd')
    BY DEF Orderly
  <2>1. CASE t = s
    BY <1>1, <1>2, <2>1 DEF SoundChange
  <2>2. CASE t # s
    <3>1. OrderlySession(ses[t], t = current, odd)
      BY <1>2 DEF Inv, Orderly
    <3> QED BY <1>1, <1>2, <2>2, <3>1 DEF OrderlySession
  <2> QED BY <2>1, <2>2
<1>8. Owned'
  <2>1. ASSUME NEW t \in Sessions, NEW m \in MessagesOf(ses'[t])
        PROVE  m \in Messages /\ (m \in MessagesOf(ses[t]) \/ (t = s /\ m \in Arrived(s)))
    BY <1>1 DEF SoundChange, MessagesOf
  <2>2. ASSUME NEW m \in answered' PROVE send'[m].at \in {"done", "failed"}
    <3>1. m \in answered \/ m \in MessagesOf(ses[s])
      BY DEF SoundChange
    <3>2. m \in Messages
      BY DEF TypedChange
    <3> QED BY <1>3, <3>1, <3>2 DEF Inv, Owned
  <2>3. ASSUME NEW t \in Sessions, NEW m \in MessagesOf(ses'[t])
        PROVE  send'[m].ses = t /\ send'[m].at \in {"done", "failed"}
    BY <1>3, <2>1 DEF Inv, Owned, Arrived
  <2> QED BY <2>2, <2>3 DEF Owned
<1>9. Unanswered'
  <2> SUFFICES ASSUME "again" \notin odd', NEW t \in Sessions PROVE FreshSession(ses'[t], answered')
    BY DEF Unanswered
  <2>1. CASE t = s
    BY <1>1, <2>1 DEF SoundChange
  <2>2. CASE t # s
    <3>1. FreshSession(ses[t], answered)
      BY <1>2 DEF Inv, Unanswered
    <3>2. ASSUME NEW m \in MessagesOf(ses[t]), m \in answered' PROVE m \in answered
      BY <2>2, <3>2 DEF SoundChange, Inv, Owned
    <3>3. ASSUME NEW m \in {ses[t].last, ses[t].turn, ses[t].replay}, m \in answered' PROVE m \in answered
      <4>1. m \in Messages
        BY <3>3 DEF TypedChange
      <4> QED BY <3>2, <3>3, <4>1 DEF MessagesOf
    <3> QED BY <1>1, <2>2, <3>1, <3>3 DEF FreshSession
  <2> QED BY <2>1, <2>2
<1>10. Remembered'
  <2> SUFFICES ASSUME ~Exempt', ~gone' PROVE
               /\ \A m \in Unsettled' : send'[m].at \notin Ended \/ (current' # 0 /\ m \in Kept(ses'[current']))
               /\ "crossed" \notin odd' => Unsettled' \subseteq pending'
               /\ current' # 0 => Keeps(ses'[current'], Unsettled')
    BY DEF Remembered, Keeps, Kept, Queue, Unsettled
  <2>1. ~Exempt /\ ~gone /\ (current # 0 => current \in Sessions)
    BY <1>2 DEF Exempt, Inv, TypeOK
  <2>2. Unsettled' \subseteq Unsettled /\ Unsettled \subseteq Messages
    BY DEF Unsettled, Changes, Inv, TypeOK
  <2>3. "crossed" \notin odd' => Unsettled' \subseteq pending'
    BY <1>2 DEF KeepingChange
  <2>4. ASSUME NEW m \in Unsettled'
        PROVE  send'[m].at \notin Ended \/ (current' # 0 /\ m \in Kept(ses'[current']))
    <3>1. send[m].at \notin Ended \/ (current # 0 /\ m \in Kept(ses[current]))
      BY <2>1, <2>2 DEF Inv, Remembered
    <3>2. CASE send[m].at \notin Ended
      BY <1>1, <1>2, <2>1, <3>2 DEF Delivers, Inv, TypeOK, Sessions
    <3>3. CASE current # 0 /\ m \in Kept(ses[current])
      BY <1>1, <1>2, <2>1, <3>3 DEF KeepingChange
    <3> QED BY <3>1, <3>2, <3>3
  <2>5. ASSUME current # 0, current # s PROVE Keeps(ses'[current], Unsettled')
    <3>1. Keeps(ses[current], Unsettled)
      BY <2>1, <2>5 DEF Inv, Remembered
    <3> QED BY <1>1, <2>1, <2>2, <2>5, <3>1 DEF Keeps
  <2>6. ASSUME current = s PROVE Keeps(ses'[current], Unsettled')
    BY <1>1, <1>2, <2>6 DEF KeepingChange
  <2> QED BY <1>2, <2>3, <2>4, <2>5, <2>6
<1>11. NotAnswered'
  BY DEF KeepingChange, NotAnswered
<1> QED BY <1>4, <1>5, <1>6, <1>7, <1>8, <1>9, <1>10, <1>11 DEF Inv

\* So does one during which no send() ends.
LEMMA OneSession ==
    ASSUME Inv, NEW s \in Sessions, s <= made, NEW y,
           Changes(s, y), Moves(send, send'), TypedChange, SoundChange(s, y), KeepingChange(s, y)
    PROVE  Inv'
<1>1. Continues(send, send')
  BY DEF Moves, Continues, Ended
<1>2. Delivers(s, y)
  BY DEF Moves, Delivers, Unsettled, Changes, Inv, TypeOK
<1> QED BY <1>1, <1>2, SessionChange

-----------------------------------------------------------------------------
(* What the steps have in common.                                          *)

\* The types of a session's fields.
LEMMA FieldTypes ==
    ASSUME NEW x \in SessionRecord
    PROVE  /\ x.pipe \in Seq(Inputs) /\ x.work \in Seq(Inputs) /\ Queue(x) \in Seq(Inputs)
           /\ Of(Queue(x)) = Of(x.work) \cup Of(x.pipe)
           /\ x.held \subseteq Messages /\ x.ending \in Nat
           /\ x.last \in Inputs \cup {0} /\ x.turn \in Inputs \cup {0} /\ x.replay \in Inputs \cup {0}
           /\ x.comp \in Messages \cup {0}
           /\ x.query \in {"none", "live", "dead"}
BY OfQueue DEF SessionRecord, Queue

\* The numbers that are no messages.
LEMMA Numbers ==
    /\ 0 \notin Messages /\ Compact \notin Messages /\ Continue \notin Messages
    /\ Messages \subseteq Inputs /\ Compact \in Inputs /\ Continue \in Inputs
    /\ Compact # Continue /\ Compact # 0 /\ Continue # 0 /\ 0 \notin Inputs
BY BoundsAssumption DEF Messages, Compact, Continue, Inputs

\* What has done anything was created.
LEMMA Created ==
    ASSUME Inv, NEW s \in Sessions,
           ses[s].query # "none" \/ ses[s].backoff \/ ses[s].ending # 0 \/ ses[s].replay # 0
    PROVE  s <= made
<1> SUFFICES ASSUME ses[s] = NewSession PROVE FALSE
  BY DEF Inv, Counted, TypeOK, Sessions
<1> QED BY NewSessionFields

\* While anything happens, no retry is about to be sent.
LEMMA QuietReplay ==
    ASSUME Quiet, NEW s \in Sessions PROVE ses[s].replay = 0
BY DEF Quiet

\* Failures are counted within their bound.
LEMMA FaultCounted ==
    ASSUME TypeOK, Fault PROVE faults' \in 0 .. MaxFaults
<1>1. faults \in 0 .. MaxFaults /\ MaxFaults \in Nat /\ faults < MaxFaults /\ faults' = faults + 1
  BY BoundsAssumption DEF TypeOK, Fault
<1> QED BY <1>1

\* A compaction that is settled, and requests that fail, let their sends go on.
LEMMA SettledMoves ==
    ASSUME TypeOK, NEW s \in Sessions, NEW m
    PROVE  /\ Moves(send, send)
           /\ Compacted(send, m) \in [Messages -> [at: {"unsent", "probe", "sync", "usage", "compact", "ready", "done", "failed"},
                                                   ses: Sessions \cup {0}, resume: BOOLEAN]]
           /\ Moves(send, Compacted(send, m))
           /\ Unmeasured(send, s) \in [Messages -> [at: {"unsent", "probe", "sync", "usage", "compact", "ready", "done", "failed"},
                                                    ses: Sessions \cup {0}, resume: BOOLEAN]]
           /\ Moves(send, Unmeasured(send, s))
           /\ HungUp(send, s) \in [Messages -> [at: {"unsent", "probe", "sync", "usage", "compact", "ready", "done", "failed"},
                                                ses: Sessions \cup {0}, resume: BOOLEAN]]
           /\ Moves(send, HungUp(send, s))
<1> DEFINE R == [at: {"unsent", "probe", "sync", "usage", "compact", "ready", "done", "failed"},
                 ses: Sessions \cup {0}, resume: BOOLEAN]
<1>1. send \in [Messages -> R]
  BY DEF TypeOK
<1>2. ASSUME NEW a \in [Messages -> R], NEW n
      PROVE  Compacted(a, n) \in [Messages -> R] /\ Moves(a, Compacted(a, n))
  <2>1. ASSUME NEW c \in Messages
        PROVE  /\ Compacted(a, n)[c] \in R
               /\ Compacted(a, n)[c].ses = a[c].ses
               /\ Compacted(a, n)[c].at = a[c].at \/ (a[c].at = "compact" /\ Compacted(a, n)[c].at = "ready")
    <3>1. a[c] \in R
      OBVIOUS
    <3>2. Compacted(a, n)[c] = IF c = n /\ a[c].at = "compact" THEN [a[c] EXCEPT !.at = "ready"] ELSE a[c]
      BY DEF Compacted
    <3>3. [a[c] EXCEPT !.at = "ready"] \in R /\ [a[c] EXCEPT !.at = "ready"].ses = a[c].ses
          /\ [a[c] EXCEPT !.at = "ready"].at = "ready"
      BY <3>1
    <3> QED BY <3>1, <3>2, <3>3
  <2>2. Compacted(a, n) = [c \in Messages |-> Compacted(a, n)[c]]
    BY DEF Compacted
  <2> QED BY <2>1, <2>2 DEF Moves, Ended
<1>3. ASSUME NEW a \in [Messages -> R]
      PROVE  Unmeasured(a, s) \in [Messages -> R] /\ Moves(a, Unmeasured(a, s))
  <2>1. ASSUME NEW c \in Messages
        PROVE  /\ Unmeasured(a, s)[c] \in R
               /\ Unmeasured(a, s)[c].ses = a[c].ses
               /\ Unmeasured(a, s)[c].at = a[c].at \/ (a[c].at = "usage" /\ Unmeasured(a, s)[c].at = "ready")
    <3>1. a[c] \in R
      OBVIOUS
    <3>2. Unmeasured(a, s)[c] = IF a[c].at = "usage" /\ a[c].ses = s THEN [a[c] EXCEPT !.at = "ready"] ELSE a[c]
      BY DEF Unmeasured
    <3>3. [a[c] EXCEPT !.at = "ready"] \in R /\ [a[c] EXCEPT !.at = "ready"].ses = a[c].ses
          /\ [a[c] EXCEPT !.at = "ready"].at = "ready"
      BY <3>1
    <3> QED BY <3>1, <3>2, <3>3
  <2>2. Unmeasured(a, s) = [c \in Messages |-> Unmeasured(a, s)[c]]
    BY DEF Unmeasured
  <2> QED BY <2>1, <2>2 DEF Moves, Ended
<1>4. Moves(send, HungUp(send, s)) /\ HungUp(send, s) \in [Messages -> R]
  <2> DEFINE b == Unmeasured(send, s)
             c == Compacted(b, ses[s].comp)
  <2>1. b \in [Messages -> R] /\ Moves(send, b)
    BY <1>1, <1>3
  <2> HIDE DEF b
  <2>2. c \in [Messages -> R] /\ Moves(b, c)
    BY <2>1, <1>2
  <2> HIDE DEF c
  <2>3. Moves(send, c)
    BY <2>1, <2>2 DEF Moves
  <2> QED BY <2>2, <2>3 DEF b, c, HungUp
<1> QED BY <1>1, <1>2, <1>3, <1>4 DEF Moves

-----------------------------------------------------------------------------
(* The agent.                                                              *)

\* A session with another queue.
Requeued(x, p, q) == [x EXCEPT !.pipe = p, !.work = q]

\* Only the queue is another.
LEMMA RequeuedFields ==
    ASSUME NEW x \in SessionRecord, NEW p \in Seq(Inputs), NEW q \in Seq(Inputs)
    PROVE  LET y == Requeued(x, p, q) IN
           /\ y \in SessionRecord /\ y.pipe = p /\ y.work = q
           /\ y.query = x.query /\ y.chan = x.chan /\ y.held = x.held /\ y.inflight = x.inflight
           /\ y.intr = x.intr /\ y.stop = x.stop /\ y.comp = x.comp /\ y.last = x.last
           /\ y.backoff = x.backoff /\ y.turn = x.turn /\ y.replay = x.replay /\ y.ending = x.ending
<1>1. Requeued(x, p, q) \in SessionRecord
  BY DEF Requeued, SessionRecord
<1> QED BY <1>1 DEF Requeued, SessionRecord

\* The same queue, read further, and the same flags, but perhaps no stop on its way.
SameTurns(x, y) ==
    /\ y \in SessionRecord /\ Queue(y) = Queue(x) /\ y.query = x.query /\ y.held = x.held
    /\ y.inflight = x.inflight /\ y.replay = x.replay /\ y.intr = x.intr /\ y.ending = x.ending
    /\ y.chan = x.chan /\ y.backoff = x.backoff /\ y.last = x.last /\ y.turn = x.turn
    /\ y.stop => x.stop

\* A step that leaves all turns of a session alone keeps the invariant.
LEMMA SameTurnsInv ==
    ASSUME Inv, NEW s \in Sessions, NEW y, ses[s].query = "live", SameTurns(ses[s], y),
           ses' = [ses EXCEPT ![s] = y],
           UNCHANGED <<sent, send, shown, pending, id, current, made, rebuild, gone, stops, faults,
                       rebuilds, compacts, answered, told, dropped, odd>>
    PROVE  Inv'
<1> DEFINE x == ses[s]
<1>1. x \in SessionRecord /\ x.query = "live"
  BY DEF Inv, TypeOK
<1>2. s <= made
  BY <1>1, Created
<1>3. Changes(s, y) /\ Moves(send, send') /\ TypedChange
  BY SettledMoves DEF Changes, manager, TypedChange, Inv, TypeOK, Counted
<1>4. SoundChange(s, y)
  <2>1. TidySession(y, s = current, stops)
    BY <1>1 DEF SameTurns, Inv, Tidy, TidySession
  <2>2. "revived" \notin odd' => OrderlySession(y, s = current, odd')
    BY DEF SameTurns, Inv, Orderly, OrderlySession
  <2>3. "again" \notin odd' => FreshSession(y, answered')
    BY DEF SameTurns, Inv, Unanswered, FreshSession
  <2> QED BY <2>1, <2>2, <2>3 DEF SoundChange, SameTurns, MessagesOf
<1>5. KeepingChange(s, y)
  <2>1. Unsettled' = Unsettled /\ (Exempt' <=> Exempt)
    BY DEF Unsettled, Exempt
  <2>2. ASSUME s = current, ~Exempt, ~gone PROVE Keeps(y, Unsettled)
    <3>1. Keeps(x, Unsettled) /\ ~x.backoff
      BY <1>1, <2>2 DEF Inv, Remembered, Tidy, TidySession, Sessions
    <3> QED BY <3>1 DEF SameTurns, Keeps
  <2> QED BY <2>1, <2>2 DEF SameTurns, KeepingChange, Inv, NotAnswered, Remembered, Kept
<1> QED BY <1>2, <1>3, <1>4, <1>5, OneSession

\* Reads keeps the invariant: the queue is the same.
LEMMA ReadsInv ==
    ASSUME Inv, NEW s \in Sessions, Reads(s)
    PROVE  Inv'
<1> DEFINE x == ses[s]
           p == Tail(x.pipe)
           w == Append(x.work, Head(x.pipe))
           y == Requeued(x, p, w)
<1>1. x \in SessionRecord /\ x.query = "live" /\ x.pipe # <<>>
  BY DEF Inv, TypeOK, Reads, Live
<1>2. ses' = [ses EXCEPT ![s] = y]
  BY DEF Reads, Requeued
<1>3. w \o p = x.work \o x.pipe /\ w \in Seq(Inputs) /\ p \in Seq(Inputs)
  BY <1>1, FieldTypes, QueueRead
<1> HIDE DEF p, w
<1>4. /\ y \in SessionRecord /\ y.query = x.query /\ y.held = x.held /\ y.inflight = x.inflight
      /\ y.stop = x.stop /\ y.replay = x.replay /\ y.intr = x.intr /\ y.ending = x.ending
      /\ y.chan = x.chan /\ y.backoff = x.backoff /\ y.last = x.last /\ y.turn = x.turn
  BY <1>1, <1>3, RequeuedFields
<1>5. Queue(y) = Queue(x)
  BY <1>1, <1>3, RequeuedFields, ZenonT(60) DEF Queue
<1> HIDE DEF y
<1>6. SameTurns(x, y)
  BY <1>4, <1>5 DEF SameTurns
<1> QED BY <1>1, <1>2, <1>6, SameTurnsInv DEF Reads, thread, manager, counts, history

-----------------------------------------------------------------------------
(* A Query ends.                                                           *)

\* Nothing that is shown is left unsettled.
LEMMA AllSettled ==
    ASSUME Inv, NEW s, NEW y, odd \subseteq odd', pending' \subseteq pending, answered' = answered,
           y.replay = 0, ~Exempt' /\ ~gone => Unsettled' = {}
    PROVE  KeepingChange(s, y)
BY DEF KeepingChange, Inv, NotAnswered, Keeps

\* A stop takes back what is pending, and that is everything unsettled.
LEMMA StopSettles ==
    ASSUME Inv, NEW s \in Sessions, ses[s].intr, Heard(OnInterrupted), UNCHANGED <<answered, dropped, stops>>,
           odd \subseteq odd'
    PROVE  /\ shown' \subseteq shown /\ pending' \subseteq pending /\ pending' \subseteq shown'
           /\ told' = told /\ id' = id
           /\ ~Exempt' /\ ~gone => Unsettled' = {}
<1>1. CASE gone
  BY <1>1 DEF Heard, Inv, Counted
<1>2. CASE ~gone
  <2>1. shown' = shown \ pending /\ pending' = {} /\ id' = id /\ told' = told
    BY <1>2 DEF Heard, OnInterrupted
  <2>2. ASSUME ~Exempt' PROVE Unsettled \subseteq pending
    <3>1. stops > 0
      BY DEF Inv, Tidy, TidySession
    <3>2. ~Exempt /\ "crossed" \notin odd
      BY <2>2, <3>1 DEF Exempt
    <3> QED BY <1>2, <3>2 DEF Inv, Remembered
  <2> QED BY <2>1, <2>2 DEF Unsettled
<1> QED BY <1>1, <1>2

\* An error behind everything settles it.
LEMMA ErrorSettles ==
    ASSUME Inv, Heard(OnError), UNCHANGED <<answered, dropped>>
    PROVE  /\ shown' \subseteq shown /\ pending' \subseteq pending /\ pending' \subseteq shown'
           /\ told \subseteq told' /\ told' \subseteq Messages /\ id' = id
           /\ ~gone => Unsettled' = {}
BY DEF Heard, OnError, Unsettled, Inv, Counted, TypeOK

\* A session that is torn down is as good as one that was never opened.
LEMMA TornDownSound ==
    ASSUME Inv, NEW s \in Sessions, NEW z \in SessionRecord, ses[s].query = "live", Quiet,
           z.last = ses[s].last, z.turn = ses[s].turn, z.backoff = ses[s].backoff,
           z.ending = ses[s].ending, z.replay = ses[s].replay,
           odd \subseteq odd', answered' = answered
    PROVE  SoundChange(s, TornDown(z)) /\ TornDown(z).replay = 0
<1> DEFINE x == ses[s]
           y == TornDown(z)
<1>1. /\ y \in SessionRecord
      /\ y.query = "none" /\ ~y.chan /\ y.pipe = <<>> /\ y.work = <<>> /\ y.held = {}
      /\ ~y.inflight /\ ~y.intr /\ ~y.stop
      /\ y.last = x.last /\ y.backoff = x.backoff /\ y.turn = x.turn /\ y.replay = x.replay
      /\ y.ending = x.ending
  BY TornDownFields
<1>2. x \in SessionRecord /\ x.replay = 0
  BY QuietReplay DEF Inv, TypeOK
<1> HIDE DEF y
<1>3. Queue(y) = <<>> /\ Of(Queue(y)) = {}
  BY <1>1, OfQueue, OfEmpty DEF Queue
<1>4. TidySession(y, s = current, stops)
  BY <1>1, <1>2 DEF Inv, Tidy, TidySession
<1>5. OrderlySession(y, s = current, odd')
  BY <1>1, <1>3 DEF OrderlySession
<1>6. "again" \notin odd' => FreshSession(y, answered')
  BY <1>1, <1>2, <1>3, NewestEmpty, Numbers DEF Inv, Unanswered, FreshSession, TypeOK
<1>7. MessagesOf(y) \subseteq MessagesOf(x)
  BY <1>1, <1>3 DEF MessagesOf
<1> QED BY <1>1, <1>2, <1>4, <1>5, <1>6, <1>7 DEF SoundChange, y, x

\* StoppedByFailure keeps the invariant: everything pending is taken back.
LEMMA StoppedByFailureInv ==
    ASSUME Inv, NEW s \in Sessions, StoppedByFailure(s)
    PROVE  Inv'
<1> DEFINE x == ses[s]
           y == TornDown(Failed(x))
<1>1. x \in SessionRecord /\ x.query = "live" /\ x.intr /\ Quiet /\ Fault /\ send' = HungUp(send, s)
  BY DEF Inv, TypeOK, StoppedByFailure, Throws, Live
<1>2. ses' = [ses EXCEPT ![s] = y] /\ Heard(OnInterrupted)
      /\ UNCHANGED <<sent, manager, stops, rebuilds, compacts, answered, dropped, odd>>
  BY DEF StoppedByFailure
<1>3. SoundChange(s, y) /\ y.replay = 0
  BY <1>1, <1>2, FailedFields, TornDownSound
<1> HIDE DEF y
<1>4. /\ shown' \subseteq shown /\ pending' \subseteq pending /\ pending' \subseteq shown'
      /\ told' = told /\ id' = id
      /\ ~Exempt' /\ ~gone => Unsettled' = {}
  BY <1>1, <1>2, StopSettles
<1>5. Changes(s, y) /\ Moves(send, send') /\ TypedChange
  <2>1. faults' \in 0 .. MaxFaults
    BY <1>1, FaultCounted DEF Inv
  <2> QED BY <1>1, <1>2, <1>4, <2>1, SettledMoves DEF Changes, TypedChange, Inv, TypeOK
<1>6. KeepingChange(s, y)
  BY <1>2, <1>3, <1>4, AllSettled
<1> QED BY <1>1, <1>3, <1>5, <1>6, OneSession, Created

\* Breaks keeps the invariant: an error settles what is shown, or it is silent.
LEMMA BreaksInv ==
    ASSUME Inv, NEW s \in Sessions, Breaks(s)
    PROVE  Inv'
<1> DEFINE x == ses[s]
           y == TornDown(Failed(x))
<1>1. x \in SessionRecord /\ x.query = "live" /\ Quiet /\ Fault /\ send' = HungUp(send, s)
  BY DEF Inv, TypeOK, Breaks, Throws, Live
<1>2. ses' = [ses EXCEPT ![s] = y]
      /\ UNCHANGED <<sent, manager, stops, rebuilds, compacts, answered, dropped>>
  BY DEF Breaks
<1>3. \/ UNCHANGED <<shown, pending, id, told>> /\ odd' = odd \cup {"silent"}
      \/ Heard(OnError) /\ odd' = odd
  BY DEF Breaks
<1>4. SoundChange(s, y) /\ y.replay = 0
  BY <1>1, <1>2, <1>3, FailedFields, TornDownSound
<1> HIDE DEF y
<1>5. /\ shown' \subseteq shown /\ pending' \subseteq pending /\ pending' \subseteq shown'
      /\ told \subseteq told' /\ told' \subseteq Messages /\ id' = id
      /\ ~Exempt' /\ ~gone => Unsettled' = {}
  <2>1. CASE UNCHANGED <<shown, pending, id, told>> /\ odd' = odd \cup {"silent"}
    BY <2>1 DEF Exempt, Inv, Counted, TypeOK
  <2>2. CASE Heard(OnError) /\ odd' = odd
    BY <1>2, <2>2, ErrorSettles
  <2> QED BY <1>3, <2>1, <2>2
<1>6. Changes(s, y) /\ Moves(send, send') /\ TypedChange
  <2>1. odd' \subseteq Oddities /\ odd \subseteq odd'
    BY <1>3 DEF Inv, TypeOK, Oddities
  <2>2. faults' \in 0 .. MaxFaults
    BY <1>1, FaultCounted DEF Inv
  <2> QED BY <1>1, <1>2, <1>5, <2>1, <2>2, SettledMoves DEF Changes, TypedChange, Inv, TypeOK
<1>7. KeepingChange(s, y)
  BY <1>2, <1>3, <1>4, <1>5, AllSettled
<1> QED BY <1>1, <1>4, <1>6, <1>7, OneSession, Created

\* Exits keeps the invariant: the agent had nothing left.
LEMMA ExitsInv ==
    ASSUME Inv, NEW s \in Sessions, Exits(s)
    PROVE  Inv'
<1> DEFINE x == ses[s]
           y == TornDown(x)
<1>1. x \in SessionRecord /\ x.query = "live" /\ ~x.chan /\ Quiet /\ send' = Unmeasured(send, s)
  BY DEF Inv, TypeOK, Exits, Live
<1>2. ses' = [ses EXCEPT ![s] = y]
      /\ UNCHANGED <<sent, shown, pending, id, current, made, rebuild, gone, stops, faults,
                     rebuilds, compacts, answered, told, dropped, odd>>
  BY DEF Exits, thread, manager, counts, history
<1>3. SoundChange(s, y) /\ y.replay = 0
  BY <1>1, <1>2, TornDownSound
<1> HIDE DEF y
<1>4. s # current
  BY <1>1 DEF Inv, Tidy, TidySession
<1>5. Changes(s, y) /\ Moves(send, send') /\ TypedChange
  BY <1>1, <1>2, SettledMoves DEF Changes, TypedChange, manager, Inv, TypeOK, Counted
<1>6. KeepingChange(s, y)
  BY <1>2, <1>4 DEF KeepingChange, Inv, NotAnswered, Remembered, Exempt, Unsettled
<1> QED BY <1>1, <1>3, <1>5, <1>6, OneSession, Created

-----------------------------------------------------------------------------
(* A turn ends without an answer.                                          *)

\* The work up to k is gone, and with it the turn.
Cut(x, k, c, quiet) ==
    [x EXCEPT !.work = Rest(x.work, k), !.inflight = FALSE, !.stop = FALSE, !.comp = c, !.silent = quiet]

\* A session whose queue begins later, and that otherwise waits for the same.
CutShort(x, y, k) ==
    /\ y \in SessionRecord /\ y.work = Rest(x.work, k) /\ ~y.inflight /\ ~y.stop
    /\ y.pipe = x.pipe /\ y.query = x.query /\ y.chan = x.chan /\ y.held = x.held /\ y.intr = x.intr
    /\ y.last = x.last /\ y.backoff = x.backoff /\ y.turn = x.turn /\ y.replay = x.replay
    /\ y.ending = x.ending

\* Only the queue, the turn and its compaction are others.
LEMMA CutFields ==
    ASSUME NEW x \in SessionRecord, NEW k \in 1 .. Len(x.work), NEW c \in Messages \cup {0},
           NEW quiet \in BOOLEAN
    PROVE  CutShort(x, Cut(x, k, c, quiet), k)
<1>1. x.work \in Seq(Inputs)
  BY FieldTypes
<1>2. Rest(x.work, k) \in Seq(Inputs)
  BY <1>1, QueueRest
<1>3. Cut(x, k, c, quiet) \in SessionRecord
  BY <1>2, ZenonT(60) DEF Cut, SessionRecord
<1> QED BY <1>3 DEF Cut, CutShort, SessionRecord

\* What a result leaves of the queue.
LEMMA CutQueue ==
    ASSUME NEW x \in SessionRecord, NEW k \in 1 .. Len(x.work), NEW y \in SessionRecord,
           y.work = Rest(x.work, k), y.pipe = x.pipe
    PROVE  /\ Queue(y) \in Seq(Inputs) /\ Of(Queue(y)) \subseteq Of(Queue(x))
           /\ Of(Queue(x)) = Of(SubSeq(x.work, 1, k)) \cup Of(Queue(y))
           /\ Of(x.work) = Of(SubSeq(x.work, 1, k)) \cup Of(y.work)
           /\ Of(SubSeq(x.work, 1, k)) \subseteq Messages
           /\ \A m : Newest(Queue(x), m) =>
                 /\ Newest(Queue(y), m)
                 /\ m \in Of(SubSeq(x.work, 1, k)) => Of(Queue(y)) = {}
           /\ ~(x.pipe # <<>> \/ k < Len(x.work)) => Queue(y) = <<>>
           /\ k < Len(x.work) => Queue(y) # <<>>
           /\ k = Len(x.work) => y.work = <<>>
           /\ Queue(x) # <<>> /\ Head(Queue(x)) = x.work[1] /\ x.work # <<>>
<1>1. x.work \in Seq(Inputs) /\ x.pipe \in Seq(Inputs) /\ y.work \in Seq(Inputs) /\ Len(x.work) \in Nat
  BY FieldTypes, LenProperties
<1>2. /\ Of(x.work) = Of(SubSeq(x.work, 1, k)) \cup Of(y.work)
      /\ Len(y.work) = Len(x.work) - k
  <2> DEFINE p == x.work
  <2>1. p \in Seq(Inputs) /\ k \in 1 .. Len(p) /\ y.work = Rest(p, k)
    BY <1>1
  <2> HIDE DEF p
  <2>2. Of(p) = Of(SubSeq(p, 1, k)) \cup Of(Rest(p, k)) /\ Len(Rest(p, k)) = Len(p) - k
    BY <2>1, QueueRest
  <2> QED BY <2>1, <2>2 DEF p
<1>3. /\ Of(Queue(x)) = Of(x.work) \cup Of(x.pipe) /\ Of(Queue(y)) = Of(y.work) \cup Of(x.pipe)
      /\ Queue(y) \in Seq(Inputs)
  BY FieldTypes
<1>4. \A m : Newest(Queue(x), m) => /\ Newest(Queue(y), m)
                                    /\ m \in Of(SubSeq(x.work, 1, k)) => Of(Queue(y)) = {}
  BY <1>1, NewestRest DEF Queue
<1>5. x.work # <<>> /\ Head(x.work) = x.work[1]
  BY <1>1
<1>6. Queue(x) # <<>> /\ Head(Queue(x)) = x.work[1]
  BY <1>1, <1>5, OfQueue DEF Queue
<1>7. (k < Len(x.work) => y.work # <<>>) /\ (~(k < Len(x.work)) => y.work = <<>>)
  <2>1. y.work = <<>> <=> Len(y.work) = 0
    BY <1>1
  <2> QED BY <1>1, <1>2, <2>1
<1>8. (~(x.pipe # <<>> \/ k < Len(x.work)) => Queue(y) = <<>>) /\ (k < Len(x.work) => Queue(y) # <<>>)
  BY <1>1, <1>7, OfQueue DEF Queue
<1>9. k = Len(x.work) => y.work = <<>>
  BY <1>1, <1>7
<1> QED BY <1>2, <1>3, <1>4, <1>5, <1>6, <1>8, <1>9 DEF Of

\* /compact is a turn of its own.
LEMMA OneTurn ==
    ASSUME NEW x \in SessionRecord, NEW k \in 1 .. Len(x.work), Turn(x.work, k)
    PROVE  /\ Compact \in Range(SubSeq(x.work, 1, k)) => k = 1 /\ x.work[1] = Compact
           /\ x.work[k] = Compact => k = 1
           /\ k < Len(x.work) => k = 1
           /\ k = 1 => Of(SubSeq(x.work, 1, k)) = {x.work[1]} \cap Messages
           /\ Head(x.work) = x.work[1]
<1> DEFINE p == x.work
<1>1. p \in Seq(Inputs) /\ Len(p) \in Nat /\ k \in 1 .. Len(p) /\ Turn(p, k)
  BY FieldTypes, LenProperties
<1> HIDE DEF p
<1>2. /\ SubSeq(p, 1, k) \in Seq(Inputs) /\ Len(SubSeq(p, 1, k)) = k
      /\ \A i \in 1 .. k : SubSeq(p, 1, k)[i] = p[i]
  BY <1>1, QueueRest
<1>3. /\ Range(SubSeq(p, 1, k)) = {p[i] : i \in 1 .. k}
      /\ Range(p) = {p[i] : i \in 1 .. Len(p)}
  <2>1. DOMAIN SubSeq(p, 1, k) = 1 .. k /\ DOMAIN p = 1 .. Len(p)
    BY <1>1, <1>2
  <2>2. Range(SubSeq(p, 1, k)) = {SubSeq(p, 1, k)[i] : i \in 1 .. k} /\ Range(p) = {p[i] : i \in 1 .. Len(p)}
    BY <2>1 DEF Range
  <2> QED BY <1>2, <2>2
<1>4. k = 1 \/ (k = Len(p) /\ Compact \notin Range(p))
  BY <1>1 DEF Turn
<1>5. Compact \in Range(SubSeq(p, 1, k)) => k = 1 /\ p[1] = Compact
  BY <1>1, <1>3, <1>4
<1>6. k = 1 => Of(SubSeq(p, 1, k)) = {p[1]} \cap Messages
  BY <1>3 DEF Of
<1>7. Head(p) = p[1]
  BY <1>1
<1> QED BY <1>1, <1>3, <1>4, <1>5, <1>6, <1>7 DEF p

\* A turn that was cut short leaves its session as it should be.
LEMMA CutSound ==
    ASSUME Inv, NEW s \in Sessions, Live(s), NEW k \in 1 .. Len(ses[s].work), NEW y,
           CutShort(ses[s], y, k), odd \cup Crossed(ses[s], k) \subseteq odd', answered' = answered
    PROVE  SoundChange(s, y) /\ y.replay = 0
<1> DEFINE x == ses[s]
<1>1. x \in SessionRecord /\ x.query = "live" /\ x.replay = 0
  BY QuietReplay DEF Inv, TypeOK, Live
<1>2. /\ Of(Queue(y)) \subseteq Of(Queue(x))
      /\ Of(Queue(x)) = Of(SubSeq(x.work, 1, k)) \cup Of(Queue(y))
      /\ \A m : Newest(Queue(x), m) =>
            /\ Newest(Queue(y), m)
            /\ m \in Of(SubSeq(x.work, 1, k)) => Of(Queue(y)) = {}
      /\ ~(x.pipe # <<>> \/ k < Len(x.work)) => Queue(y) = <<>>
  BY <1>1, CutQueue DEF CutShort
<1>3. TidySession(y, s = current, stops)
  BY <1>1 DEF CutShort, Inv, Tidy, TidySession
<1>4. ASSUME "revived" \notin odd' PROVE OrderlySession(y, s = current, odd')
  <2>1. "crossed" \notin odd' => Queue(y) = <<>>
    BY <1>2 DEF Crossed
  <2>2. OrderlySession(x, s = current, odd)
    BY <1>4 DEF Inv, Orderly
  <2> QED BY <1>1, <2>1, <2>2 DEF CutShort, OrderlySession
<1>5. ASSUME "again" \notin odd' PROVE FreshSession(y, answered')
  <2>1. FreshSession(x, answered)
    BY <1>5 DEF Inv, Unanswered
  <2>2. /\ y.last = x.last /\ y.held = x.held /\ y.turn = x.turn /\ y.replay = 0 /\ 0 \notin Of(Queue(y))
        /\ x.last \in Inputs \cup {0}
    BY <1>1, Numbers, FieldTypes DEF CutShort, Of
  <2>3. y.last \in answered' => Of(Queue(y)) \cup y.held = {}
    BY <1>2, <2>1, <2>2 DEF FreshSession
  <2>4. y.last \in Messages => Newest(Queue(y), y.last)
    BY <1>2, <2>1, <2>2 DEF FreshSession
  <2>5. y.last \in y.held => y.last \in Of(Queue(y)) \/ Of(Queue(y)) = {}
    <3>1. y.last \in y.held => y.last \in Messages
      BY <1>1, <2>2, FieldTypes
    <3> QED BY <1>1, <1>2, <2>1, <2>2, <3>1 DEF FreshSession
  <2>6. 0 \notin answered'
    BY <1>1, <2>1 DEF FreshSession
  <2> QED BY <1>1, <1>2, <2>1, <2>2, <2>3, <2>4, <2>5, <2>6 DEF FreshSession
<1>6. MessagesOf(y) \subseteq MessagesOf(x)
  BY <1>2 DEF CutShort, MessagesOf
<1> QED BY <1>1, <1>3, <1>4, <1>5, <1>6 DEF CutShort, SoundChange

\* A result that is no success keeps the invariant.
LEMMA FailsInv ==
    ASSUME Inv, NEW s \in Sessions, Live(s), NEW k \in 1 .. Len(ses[s].work), Fails(s, k),
           Turn(ses[s].work, k) \/ ses[s].intr,
           UNCHANGED <<sent, manager, stops, rebuilds, compacts, answered, dropped>>,
           faults' \in 0 .. MaxFaults
    PROVE  Inv'
<1> DEFINE x == ses[s]
           Y(c, quiet) == Cut(x, k, c, quiet)
<1>1. /\ x \in SessionRecord /\ x.query = "live" /\ x.replay = 0
      /\ odd' = odd \cup Crossed(x, k) \cup (IF x.intr THEN Abandoned(x) ELSE Swallowed(x, k))
      /\ odd' \subseteq Oddities
  BY QuietReplay DEF Inv, TypeOK, Live, Fails, Oddities, Crossed, Abandoned, Swallowed
<1>2. \A c \in Messages \cup {0}, quiet \in BOOLEAN : CutShort(x, Y(c, quiet), k)
  BY <1>1, CutFields
<1>3. /\ x.comp \in Messages \cup {0} /\ x.silent \in BOOLEAN
  BY <1>1 DEF SessionRecord
<1>4. ASSUME NEW y, CutShort(x, y, k), ses' = [ses EXCEPT ![s] = y], Moves(send, send'),
             send' \in [Messages -> [at: {"unsent", "probe", "sync", "usage", "compact", "ready", "done", "failed"},
                                     ses: Sessions \cup {0}, resume: BOOLEAN]],
             shown' \subseteq shown, pending' \subseteq pending, pending' \subseteq shown',
             told \subseteq told', told' \subseteq Messages, id' = id, KeepingChange(s, y)
      PROVE  Inv'
  <2>1. SoundChange(s, y)
    BY <1>1, <1>4, CutSound
  <2>2. Changes(s, y) /\ TypedChange
    BY <1>1, <1>4 DEF Changes, TypedChange, Inv, TypeOK
  <2> QED BY <1>1, <1>4, <2>1, <2>2, OneSession, Created
<1>5. CASE x.intr
  <2> DEFINE y == Y(x.comp, x.silent)
  <2>1. ses' = [ses EXCEPT ![s] = y] /\ Heard(OnInterrupted) /\ send' = send
    <3>1. [x EXCEPT !.work = Rest(x.work, k), !.inflight = FALSE, !.stop = FALSE] = Cut(x, k, x.comp, x.silent)
      BY <1>1 DEF Cut, SessionRecord
    <3> QED BY <1>5, <3>1 DEF Fails
  <2>2. CutShort(x, y, k)
    BY <1>2, <1>3
  <2> HIDE DEF y
  <2>3. /\ shown' \subseteq shown /\ pending' \subseteq pending /\ pending' \subseteq shown'
        /\ told' = told /\ id' = id
        /\ ~Exempt' /\ ~gone => Unsettled' = {}
    BY <1>1, <1>5, <2>1, StopSettles
  <2>4. KeepingChange(s, y)
    BY <1>1, <2>2, <2>3, AllSettled DEF CutShort
  <2> QED BY <1>4, <2>1, <2>2, <2>3, <2>4, SettledMoves DEF Inv, TypeOK
<1>6. CASE ~x.intr /\ x.comp # 0
  <2> DEFINE y == Y(0, x.silent)
  <2>1. /\ ses' = [ses EXCEPT ![s] = y] /\ send' = Compacted(send, x.comp)
        /\ UNCHANGED <<shown, pending, id, told>>
    <3>1. [[x EXCEPT !.work = Rest(x.work, k), !.inflight = FALSE, !.stop = FALSE] EXCEPT !.comp = 0]
             = Cut(x, k, 0, x.silent)
      BY <1>1 DEF Cut, SessionRecord
    <3> QED BY <1>6, <3>1 DEF Fails
  <2>2. CutShort(x, y, k)
    BY <1>2, <1>3
  <2> HIDE DEF y
  <2>3. KeepingChange(s, y)
    <3>1. Unsettled' = Unsettled
      BY <2>1 DEF Unsettled
    <3>2. odd \subseteq odd'
      BY <1>1
    <3>3. ASSUME s = current, ~Exempt', ~gone
          PROVE  Keeps(y, Unsettled') /\ Unsettled' \cap Kept(x) \subseteq Kept(y)
      <4>1. Keeps(x, Unsettled) /\ ~x.backoff
        BY <1>1, <3>2, <3>3 DEF Inv, Remembered, Exempt, Tidy, TidySession, Sessions
      <4>2. k = 1 /\ x.work[1] = Compact
        <5>1. Compact \in Range(SubSeq(x.work, 1, k))
          BY <1>1, <1>6, <3>3 DEF Swallowed, Exempt
        <5> QED BY <1>1, <1>6, <5>1, OneTurn
      <4>3. Of(SubSeq(x.work, 1, k)) = {}
        <5>1. Of(SubSeq(x.work, 1, k)) = {x.work[1]} \cap Messages
          BY <1>1, <1>6, <4>2, OneTurn
        <5> QED BY ONLY <4>2, <5>1, Numbers
      <4>4. Head(Queue(x)) = Compact /\ Of(Queue(y)) = Of(Queue(x))
        <5>1. y \in SessionRecord /\ y.work = Rest(x.work, k) /\ y.pipe = x.pipe
          BY <2>2 DEF CutShort
        <5>2. Of(Queue(x)) = Of(SubSeq(x.work, 1, k)) \cup Of(Queue(y)) /\ Head(Queue(x)) = x.work[1]
          BY <1>1, <5>1, CutQueue
        <5> QED BY <4>2, <4>3, <5>2
      <4> QED BY <1>1, <2>2, <3>1, <4>1, <4>4 DEF CutShort, Keeps, Kept
    <3> QED BY <2>1, <3>1, <3>2, <3>3, <1>1 DEF KeepingChange, Inv, NotAnswered, Remembered, Exempt
  <2>4. pending \subseteq shown /\ told \subseteq Messages
    BY DEF Inv, Counted, TypeOK
  <2> QED BY <1>4, <2>1, <2>2, <2>3, <2>4, SettledMoves DEF Inv
<1>7. CASE ~x.intr /\ x.comp = 0
  <2> DEFINE y == Y(x.comp, TRUE)
  <2>1. ses' = [ses EXCEPT ![s] = y] /\ Heard(OnError) /\ send' = send
    <3>1. [[x EXCEPT !.work = Rest(x.work, k), !.inflight = FALSE, !.stop = FALSE] EXCEPT !.silent = TRUE]
             = Cut(x, k, x.comp, TRUE)
      BY <1>1 DEF Cut, SessionRecord
    <3> QED BY <1>7, <3>1 DEF Fails
  <2>2. CutShort(x, y, k)
    BY <1>2, <1>3
  <2> HIDE DEF y
  <2>3. /\ shown' \subseteq shown /\ pending' \subseteq pending /\ pending' \subseteq shown'
        /\ told \subseteq told' /\ told' \subseteq Messages /\ id' = id
        /\ ~gone => Unsettled' = {}
    BY <2>1, ErrorSettles
  <2>4. KeepingChange(s, y)
    BY <1>1, <2>2, <2>3, AllSettled DEF CutShort
  <2> QED BY <1>4, <2>1, <2>2, <2>3, <2>4, SettledMoves DEF Inv, TypeOK
<1> QED BY <1>5, <1>6, <1>7

\* TurnFails keeps the invariant.
LEMMA TurnFailsInv ==
    ASSUME Inv, NEW s \in Sessions, TurnFails(s)
    PROVE  Inv'
<1>1. ses[s] \in SessionRecord
  BY DEF Inv, TypeOK
<1>2. ses[s].work \in Seq(Inputs)
  BY <1>1, FieldTypes
<1>3. PICK k \in 1 .. Len(ses[s].work) : Turn(ses[s].work, k) /\ Fails(s, k)
  BY <1>2 DEF TurnFails
<1>4. faults' \in 0 .. MaxFaults
  BY FaultCounted DEF Inv, TurnFails
<1> QED BY <1>3, <1>4, FailsInv DEF TurnFails

\* Stops keeps the invariant.
LEMMA StopsInv ==
    ASSUME Inv, NEW s \in Sessions, Stops(s)
    PROVE  Inv'
<1> DEFINE x == ses[s]
<1>1. x \in SessionRecord /\ x.query = "live" /\ x.intr /\ faults \in 0 .. MaxFaults
  BY DEF Inv, TypeOK, Stops, Live, Tidy, TidySession
<1>2. CASE x.work = <<>>
  <2> DEFINE y == [x EXCEPT !.stop = FALSE]
  <2>1. SameTurns(x, y)
    <3>1. y \in SessionRecord
      BY <1>1 DEF SessionRecord
    <3> QED BY <1>1, <3>1 DEF SameTurns, SessionRecord, Queue
  <2>2. ses' = [ses EXCEPT ![s] = y]
    BY <1>2 DEF Stops
  <2> HIDE DEF y
  <2> QED BY <1>1, <1>2, <2>1, <2>2, SameTurnsInv DEF Stops, thread, manager, counts
<1>3. CASE x.work # <<>>
  <2>1. x.work \in Seq(Inputs)
    BY <1>1, FieldTypes
  <2>2. Len(x.work) \in 1 .. Len(x.work)
    BY <1>3, <2>1
  <2>3. Fails(s, Len(x.work)) /\ Live(s) /\ UNCHANGED <<sent, manager, counts, answered, dropped>>
    BY <1>3 DEF Stops
  <2>4. UNCHANGED <<sent, manager, stops, rebuilds, compacts, answered, dropped>> /\ faults' \in 0 .. MaxFaults
    BY <1>1, <2>3 DEF counts
  <2> QED BY <1>1, <2>2, <2>3, <2>4, FailsInv
<1> QED BY <1>2, <1>3

-----------------------------------------------------------------------------
(* A turn ends well.                                                       *)

\* A session after a successful result.
Answered(x, k) ==
    [x EXCEPT !.work = Rest(x.work, k), !.inflight = k < Len(x.work), !.comp = 0, !.rate = 0, !.stream = 0,
              !.fallback = FALSE, !.known = TRUE, !.fresh = FALSE, !.held = @ \ Resumed(x, k)]

\* What a successful result leaves.
LEMMA AnsweredFields ==
    ASSUME NEW x \in SessionRecord, NEW k \in 1 .. Len(x.work)
    PROVE  LET y == Answered(x, k) IN
           /\ y \in SessionRecord /\ y.work = Rest(x.work, k) /\ y.inflight = (k < Len(x.work))
           /\ y.held = x.held \ Resumed(x, k)
           /\ y.pipe = x.pipe /\ y.query = x.query /\ y.chan = x.chan /\ y.intr = x.intr /\ y.stop = x.stop
           /\ y.last = x.last /\ y.backoff = x.backoff /\ y.turn = x.turn /\ y.replay = x.replay
           /\ y.ending = x.ending
<1>1. x.work \in Seq(Inputs)
  BY FieldTypes
<1>2. Rest(x.work, k) \in Seq(Inputs)
  BY <1>1, QueueRest
<1>3. 0 \in Messages \cup {0} /\ 0 \in 0 .. RateRetries /\ 0 \in 0 .. StreamRetries
  BY BoundsAssumption
<1>4. x.held \ Resumed(x, k) \in SUBSET Messages
  BY DEF SessionRecord
<1>5. Answered(x, k) \in SessionRecord
  <2> DEFINE w == Rest(x.work, k)
             busy == k < Len(x.work)
             h == x.held \ Resumed(x, k)
  <2>1. w \in Seq(Inputs) /\ busy \in BOOLEAN /\ h \in SUBSET Messages
    BY <1>2, <1>4
  <2> DEFINE a == [x EXCEPT !.work = w, !.inflight = busy, !.held = h]
             b == [a EXCEPT !.comp = 0, !.rate = 0, !.stream = 0]
  <2>2. Answered(x, k) = [b EXCEPT !.fallback = FALSE, !.known = TRUE, !.fresh = FALSE]
    BY DEF Answered, SessionRecord
  <2> HIDE DEF w, busy, h
  <2>3. a \in SessionRecord
    BY <2>1 DEF SessionRecord
  <2> HIDE DEF a
  <2>4. b \in SessionRecord
    BY ONLY <1>3, <2>3 DEF SessionRecord
  <2> HIDE DEF b
  <2> QED BY ONLY <2>2, <2>4, ZenonT(60) DEF SessionRecord
<1> QED BY <1>5 DEF Answered, SessionRecord

\* Answers keeps the invariant: what is answered was kept, and the rest is kept still.
LEMMA AnswersInv ==
    ASSUME Inv, NEW s \in Sessions, Answers(s)
    PROVE  Inv'
<1> DEFINE x == ses[s]
<1>1. /\ x \in SessionRecord /\ x.query = "live" /\ x.replay = 0 /\ x.work \in Seq(Inputs)
      /\ UNCHANGED <<sent, current, made, rebuild, gone, stops, faults, rebuilds, compacts, dropped>>
  BY QuietReplay, FieldTypes DEF Inv, TypeOK, Live, Answers, manager, counts
<1>2. PICK k \in 1 .. Len(x.work) :
          /\ Turn(x.work, k)
          /\ ses' = [ses EXCEPT ![s] = Answered(x, k)]
          /\ send' = Compacted(send, x.comp)
          /\ answered' = answered \cup Of(SubSeq(x.work, 1, k)) \cup (Resumed(x, k) \ Of(x.pipe \o Rest(x.work, k)))
          /\ Heard(IF x.comp # 0 THEN UNCHANGED <<shown, pending, id, told>>
                   ELSE IF k < Len(x.work) THEN OnDoneOne(Head(x.work))
                   ELSE OnDone)
          /\ odd' = odd \cup (IF k = Len(x.work) THEN Crossed(x, k) ELSE {})
                        \cup Swallowed(x, k) \cup Unnamed(x, k)
  <2>1. DOMAIN x.work = 1 .. Len(x.work)
    BY <1>1
  <2> QED BY <2>1 DEF Answers, Answered
<1> DEFINE y == Answered(x, k)
           first == Of(SubSeq(x.work, 1, k))
           more == Resumed(x, k) \ Of(Queue(y))
<1>3. /\ y \in SessionRecord /\ y.work = Rest(x.work, k) /\ y.inflight = (k < Len(x.work))
      /\ y.held = x.held \ Resumed(x, k)
      /\ y.pipe = x.pipe /\ y.query = x.query /\ y.chan = x.chan /\ y.intr = x.intr /\ y.stop = x.stop
      /\ y.last = x.last /\ y.backoff = x.backoff /\ y.turn = x.turn /\ y.replay = 0
      /\ y.ending = x.ending
  BY <1>1, AnsweredFields
<1> HIDE DEF y
<1>4. /\ Of(Queue(y)) \subseteq Of(Queue(x))
      /\ Of(Queue(x)) = first \cup Of(Queue(y))
      /\ first \subseteq Messages
      /\ \A m : Newest(Queue(x), m) =>
            /\ Newest(Queue(y), m)
            /\ m \in first => Of(Queue(y)) = {}
      /\ ~(x.pipe # <<>> \/ k < Len(x.work)) => Queue(y) = <<>>
      /\ k < Len(x.work) => Queue(y) # <<>>
      /\ Queue(x) # <<>> /\ Head(Queue(x)) = x.work[1]
  BY <1>1, <1>3, CutQueue
<1>5. answered' = answered \cup first \cup more
  <2>1. x.pipe \in Seq(Inputs) /\ y.work \in Seq(Inputs) /\ Of(Queue(y)) = Of(y.work) \cup Of(y.pipe)
    BY <1>1, <1>3, FieldTypes
  <2>2. Of(x.pipe \o y.work) = Of(Queue(y))
    BY <1>3, <2>1, OfQueue
  <2> QED BY <1>2, <1>3, <2>2
<1> DEFINE own == x.work[k] = Compact
<1>6. /\ own => k = 1 /\ first = {} /\ more = {} /\ y.held = x.held /\ Head(Queue(x)) = Compact
      /\ ~own => y.held = {} /\ more = x.held \ Of(Queue(y))
      /\ Compact \in Range(SubSeq(x.work, 1, k)) => own
      /\ k < Len(x.work) => k = 1 /\ first \subseteq {Head(x.work)}
      /\ more \subseteq x.held
  <2>1. /\ Compact \in Range(SubSeq(x.work, 1, k)) => k = 1 /\ x.work[1] = Compact
        /\ x.work[k] = Compact => k = 1
        /\ k < Len(x.work) => k = 1
        /\ k = 1 => first = {x.work[1]} \cap Messages
        /\ Head(x.work) = x.work[1]
    BY <1>1, <1>2, OneTurn
  <2> QED BY <1>3, <1>4, <2>1, Numbers DEF Resumed
<1> HIDE DEF own, first, more
<1>7. /\ shown' = shown /\ told' = told /\ id' \in BOOLEAN
      /\ \/ pending' = pending /\ (x.comp # 0 \/ gone)
         \/ pending' = pending \ {Head(x.work)} /\ k < Len(x.work) /\ ~gone /\ x.comp = 0
         \/ pending' = {} /\ k = Len(x.work) /\ ~gone /\ x.comp = 0
  <2>1. Len(x.work) \in Nat /\ (k < Len(x.work) \/ k = Len(x.work)) /\ id \in BOOLEAN
    BY <1>1 DEF Inv, TypeOK
  <2> QED BY <1>2, <2>1 DEF Heard, OnDone, OnDoneOne
<1>8. /\ odd \subseteq odd' /\ odd' \subseteq Oddities
      /\ k = Len(x.work) => Crossed(x, k) \subseteq odd'
      /\ Swallowed(x, k) \subseteq odd' /\ Unnamed(x, k) \subseteq odd'
  BY <1>2 DEF Inv, TypeOK, Oddities, Crossed, Swallowed, Unnamed
<1>9. first \subseteq Messages /\ more \subseteq Messages /\ x.held \subseteq Messages
  BY <1>1, <1>4, <1>6, FieldTypes
<1>10. Changes(s, y) /\ Moves(send, send') /\ TypedChange
  <2>1. pending \subseteq shown /\ pending' \subseteq pending
    BY <1>7 DEF Inv, Counted
  <2> QED BY <1>1, <1>2, <1>5, <1>7, <1>8, <1>9, <2>1, SettledMoves DEF y, Changes, manager, TypedChange, Inv, TypeOK
<1>11. SoundChange(s, y)
  <2>1. TidySession(y, s = current, stops)
    BY <1>1, <1>3 DEF Inv, Tidy, TidySession
  <2>2. ASSUME "revived" \notin odd' PROVE OrderlySession(y, s = current, odd')
    <3>1. OrderlySession(x, s = current, odd)
      BY <1>8, <2>2 DEF Inv, Orderly
    <3>2. k < Len(x.work) \/ k = Len(x.work)
      BY <1>1
    <3>3. "crossed" \notin odd' /\ Queue(y) # <<>> => y.inflight
      BY <1>3, <1>4, <1>8, <3>2 DEF Crossed
    <3> QED BY <1>1, <1>3, <1>4, <3>1, <3>3 DEF OrderlySession
  <2>3. ASSUME "again" \notin odd' PROVE FreshSession(y, answered')
    <3>1. FreshSession(x, answered)
      BY <1>8, <2>3 DEF Inv, Unanswered
    <3>2. y.last \in answered' => Of(Queue(y)) \cup y.held = {}
      <4>1. CASE x.last \in answered
        BY <1>3, <1>4, <3>1, <4>1 DEF FreshSession
      <4>2. CASE x.last \in first
        BY <1>4, <1>6, <1>9, <3>1, <4>2 DEF FreshSession
      <4>3. CASE x.last \in more /\ x.last \notin first
        <5>1. ~own /\ x.last \in x.held /\ x.last \notin Of(Queue(y)) /\ y.held = {}
          BY <1>6, <4>3 DEF more
        <5>2. Of(Queue(x)) = {}
          BY <1>1, <1>4, <3>1, <4>3, <5>1 DEF FreshSession
        <5> QED BY <1>4, <5>1, <5>2
      <4> QED BY <1>3, <1>5, <4>1, <4>2, <4>3
    <3>3. y.last \in Messages => Newest(Queue(y), y.last)
      BY <1>3, <1>4, <3>1 DEF FreshSession
    <3>4. y.last \in y.held => y.last \in Of(Queue(y)) \/ Of(Queue(y)) = {}
      BY <1>1, <1>3, <1>4, <1>6, <3>1 DEF FreshSession
    <3>5. y.replay \notin answered' /\ y.replay \notin Of(Queue(y))
      BY <1>3, <1>5, <1>9, Numbers DEF Inv, TypeOK, Of
    <3>6. y.turn \notin answered'
      BY <1>1, <1>3, <1>4, <1>5, <1>6, <1>9, <3>1 DEF FreshSession
    <3>7. y.turn \in Messages => /\ y.turn \notin Of(Queue(y)) /\ y.turn \notin y.held
                                 /\ y.turn # y.last /\ y.turn # y.replay
      BY <1>1, <1>3, <1>4, <3>1 DEF FreshSession
    <3> QED BY <3>2, <3>3, <3>4, <3>5, <3>6, <3>7 DEF FreshSession
  <2>4. MessagesOf(y) \subseteq MessagesOf(x)
    BY <1>1, <1>3, <1>4 DEF MessagesOf
  <2>5. answered' \ answered \subseteq MessagesOf(x)
    BY <1>4, <1>5, <1>6, <1>9 DEF MessagesOf
  <2> QED BY <1>3, <2>1, <2>2, <2>3, <2>4, <2>5 DEF SoundChange
<1>12. KeepingChange(s, y)
  <2>1. ASSUME odd' \cap {"swallowed", "unnamed"} = {} PROVE pending' \cap answered' = {}
    <3>1. pending \cap answered = {}
      BY <1>8, <2>1 DEF Inv, NotAnswered
    <3>2. CASE gone
      BY <1>7, <3>2 DEF Inv, Counted
    <3>3. CASE pending' = pending /\ x.comp # 0
      <4>1. own
        BY <1>6, <1>8, <2>1, <3>3 DEF Swallowed
      <4> QED BY <1>5, <1>6, <3>1, <3>3, <4>1
    <3>4. CASE pending' = pending \ {Head(x.work)} /\ k < Len(x.work)
      <4>1. x.held = {}
        BY <1>8, <2>1, <3>4 DEF Unnamed
      <4> QED BY <1>5, <1>6, <3>1, <3>4, <4>1
    <3>5. CASE pending' = {}
      BY <3>5
    <3> QED BY <1>7, <3>2, <3>3, <3>4, <3>5
  <2> SUFFICES ASSUME ~Exempt', ~gone
               PROVE  /\ "crossed" \notin odd' => Unsettled' \subseteq pending'
                      /\ s = current => /\ Keeps(y, Unsettled')
                                        /\ Unsettled' \cap Kept(x) \subseteq Kept(y)
    BY <2>1 DEF KeepingChange
  <2>2. ~Exempt /\ s = current /\ current # 0
    <3>1. ~Exempt /\ "revived" \notin odd
      BY <1>1, <1>8 DEF Exempt
    <3> QED BY <1>1, <3>1 DEF Inv, Orderly, OrderlySession, Sessions
  <2>3. /\ Keeps(x, Unsettled) /\ ~x.backoff
        /\ \A m \in Unsettled : send[m].at \notin Ended \/ m \in Kept(x)
    BY <1>1, <2>2 DEF Inv, Remembered, Tidy, TidySession
  <2>4. Unsettled' = Unsettled \ answered' /\ Unsettled \subseteq Messages
    BY <1>1, <1>5, <1>7 DEF Unsettled, Inv, TypeOK
  <2>5. y.held \cap Unsettled' = {} /\ (own => x.held \cap Unsettled = {})
    BY <1>1, <1>6, <2>3, <2>4 DEF Keeps
  <2>6. Keeps(y, Unsettled')
    BY <1>3, <1>4, <2>3, <2>4, <2>5 DEF Keeps
  <2>7. Unsettled' \cap Kept(x) \subseteq Kept(y)
    BY <1>1, <1>3, <1>4, <1>5, <1>6, <2>4 DEF Kept
  <2>8. ASSUME "crossed" \notin odd' PROVE Unsettled' \subseteq pending'
    <3>1. Unsettled \subseteq pending
      BY <1>8, <2>2, <2>8 DEF Inv, Remembered
    <3>2. CASE pending' = pending
      BY <2>4, <3>1, <3>2
    <3>3. CASE pending' = pending \ {Head(x.work)} /\ k < Len(x.work)
      <4>1. k = 1 /\ first = {Head(x.work)} \cap Messages
        BY <1>1, <1>2, <1>6, <3>3, OneTurn DEF first
      <4> QED BY <1>5, <2>4, <3>1, <3>3, <4>1
    <3>4. CASE pending' = {} /\ k = Len(x.work) /\ x.comp = 0
      <4>1. x.pipe = <<>> /\ Queue(y) = <<>> /\ \A m \in Messages : send[m].at \in Ended
        BY <1>1, <1>4, <1>8, <2>8, <3>4 DEF Crossed
      <4>2. ASSUME NEW m \in Unsettled' PROVE FALSE
        <5>1. m \in Kept(x) /\ m \in Unsettled
          BY <2>3, <2>4, <4>1
        <5>2. m \in Kept(y)
          BY <2>7, <5>1
        <5> QED BY <1>3, <2>5, <4>1, <5>2, OfEmpty, Numbers DEF Kept
      <4> QED BY <4>2
    <3> QED BY <1>7, <3>2, <3>3, <3>4
  <2> QED BY <2>6, <2>7, <2>8
<1> QED BY <1>1, <1>10, <1>11, <1>12, OneSession, Created

-----------------------------------------------------------------------------
(* A failure that is retried.                                              *)

\* The session restarted, with a turn to send again.
Retried(x, next, resume) == [Restarted(x, resume) EXCEPT !.replay = next]

\* What a restart leaves.
LEMMA RetriedFields ==
    ASSUME NEW x \in SessionRecord, NEW next \in Inputs \cup {0}, NEW resume \in BOOLEAN
    PROVE  LET y == Retried(x, next, resume) IN
           /\ y \in SessionRecord
           /\ y.query = "live" /\ y.chan /\ y.pipe = <<>> /\ y.work = <<>>
           /\ ~y.inflight /\ ~y.intr /\ ~y.stop
           /\ y.last = x.last /\ y.backoff = x.backoff /\ y.turn = x.turn /\ y.replay = next
           /\ resume => y.held = x.held \cup Of(x.work)
           /\ ~resume => y.held = {}
           /\ x.query # "live" => y.ending = x.ending
<1> DEFINE c == Closed(x)
           o == Opened(c, resume)
           h == IF resume THEN x.held \cup Of(x.work) ELSE {}
<1>1. c \in SessionRecord /\ c.last = x.last /\ c.backoff = x.backoff /\ c.turn = x.turn
  BY ClosedFields
<1>7. x.query # "live" => c.ending = x.ending
  BY ClosedFields
<1> HIDE DEF c
<1>2. /\ o \in SessionRecord
      /\ o.query = "live" /\ o.chan /\ o.pipe = <<>> /\ o.work = <<>>
      /\ ~o.inflight /\ ~o.intr /\ ~o.stop
      /\ o.last = c.last /\ o.backoff = c.backoff /\ o.turn = c.turn /\ o.ending = c.ending
  BY <1>1, OpenedFields
<1>3. Retried(x, next, resume) = [[o EXCEPT !.held = h] EXCEPT !.replay = next]
  BY DEF Retried, Restarted, o, c
<1> HIDE DEF o
<1>4. h \in SUBSET Messages
  BY DEF SessionRecord, Of
<1> HIDE DEF h
<1>5. [[o EXCEPT !.held = h] EXCEPT !.replay = next] \in SessionRecord
  BY <1>2, <1>4 DEF SessionRecord
<1>6. LET y == [[o EXCEPT !.held = h] EXCEPT !.replay = next] IN
      /\ y.query = o.query /\ y.chan = o.chan /\ y.pipe = o.pipe /\ y.work = o.work
      /\ y.inflight = o.inflight /\ y.intr = o.intr /\ y.stop = o.stop
      /\ y.last = o.last /\ y.backoff = o.backoff /\ y.turn = o.turn /\ y.replay = next
      /\ y.held = h /\ y.ending = o.ending
  BY <1>2 DEF SessionRecord
<1> QED BY <1>1, <1>2, <1>3, <1>5, <1>6, <1>7 DEF h

\* A failure of something that was asked and not answered leaves the last turn unanswered.
LEMMA LastUnanswered ==
    ASSUME NEW x \in SessionRecord, NEW a, FreshSession(x, a), Again(x) = {}
    PROVE  x.last \notin a
<1>1. Of(Queue(x)) \cup x.held # {}
  BY FieldTypes DEF Again
<1> QED BY <1>1 DEF FreshSession

\* A restart that sends a turn again keeps the invariant: what it leaves behind is dropped.
LEMMA RetryInv ==
    ASSUME Inv, NEW s \in Sessions, Quiet, ses[s].query # "none",
           NEW x \in SessionRecord, NEW next \in Inputs \cup {0}, NEW resume \in BOOLEAN,
           x.pipe = ses[s].pipe, x.work = ses[s].work, x.held = ses[s].held,
           x.last = ses[s].last, x.ending = ses[s].ending,
           s = current => x.query # "live" /\ ~x.backoff,
           x.turn = 0 \/ (x.turn = ses[s].turn /\ ses[s].query = "live"),
           \/ next = x.last /\ next # 0 /\ Again(x) \subseteq odd'
           \/ next = Continue
           \/ next = ses[s].turn /\ x.turn = 0 /\ ses[s].backoff,
           RetryWith(s, x, next, resume),
           UNCHANGED <<sent, thread, manager, stops, rebuilds, compacts, answered, told>>,
           faults' \in 0 .. MaxFaults, Moves(send, send'),
           send' \in [Messages -> [at: {"unsent", "probe", "sync", "usage", "compact", "ready", "done", "failed"},
                                   ses: Sessions \cup {0}, resume: BOOLEAN]],
           odd \subseteq odd', odd' \subseteq Oddities
    PROVE  Inv'
<1> DEFINE was == ses[s]
           y == Retried(x, next, resume)
<1>1. was \in SessionRecord /\ was.replay = 0 /\ (current # 0 => current \in Sessions)
  BY QuietReplay DEF Inv, TypeOK
<1>2. /\ y \in SessionRecord
      /\ y.query = "live" /\ y.chan /\ y.pipe = <<>> /\ y.work = <<>>
      /\ ~y.inflight /\ ~y.intr /\ ~y.stop
      /\ y.last = was.last /\ y.backoff = x.backoff /\ y.turn = x.turn /\ y.replay = next
      /\ y.held = IF resume THEN was.held \cup Of(was.work) ELSE {}
      /\ x.query # "live" => y.ending = was.ending
  <2>1. /\ y \in SessionRecord
        /\ y.query = "live" /\ y.chan /\ y.pipe = <<>> /\ y.work = <<>>
        /\ ~y.inflight /\ ~y.intr /\ ~y.stop
        /\ y.last = x.last /\ y.backoff = x.backoff /\ y.turn = x.turn /\ y.replay = next
        /\ resume => y.held = x.held \cup Of(x.work)
        /\ ~resume => y.held = {}
        /\ x.query # "live" => y.ending = x.ending
    <3>1. x \in SessionRecord /\ next \in Inputs \cup {0} /\ resume \in BOOLEAN
      OBVIOUS
    <3>2. y = Retried(x, next, resume)
      OBVIOUS
    <3> HIDE DEF y
    <3> QED BY ONLY RetriedFields, <3>1, <3>2
  <2> QED BY <2>1
<1>3. ses' = [ses EXCEPT ![s] = y] /\ dropped' = dropped \cup Lost(x, next, resume)
  BY DEF RetryWith, Retried
<1> HIDE DEF y
<1>4. Queue(y) = <<>> /\ Of(Queue(y)) = {}
  BY <1>2, OfQueue, OfEmpty DEF Queue
<1>5. /\ Of(Queue(was)) = Of(was.work) \cup Of(was.pipe) /\ was.held \subseteq Messages
      /\ was.last \in Inputs \cup {0} /\ y.held \subseteq Messages
  BY <1>1, <1>2, FieldTypes
<1>6. UNCHANGED <<sent, shown, pending, id, current, made, rebuild, gone, stops, rebuilds, compacts, answered, told>>
  BY DEF thread, manager
<1>7. Lost(x, next, resume) = (Of(was.pipe) \cup (IF resume THEN {} ELSE was.held \cup Of(was.work))) \ {next}
  BY DEF Lost
<1>8. Changes(s, y) /\ TypedChange
  <2>1. Lost(x, next, resume) \subseteq Messages
    BY <1>5, <1>7 DEF Of
  <2> QED BY <1>3, <1>6, <2>1 DEF Changes, manager, TypedChange, Inv, TypeOK, Counted
<1>9. SoundChange(s, y)
  <2>1. TidySession(y, s = current, stops)
    BY <1>1, <1>2, Numbers DEF Inv, Tidy, TidySession
  <2>2. "revived" \notin odd' => OrderlySession(y, s = current, odd')
    BY <1>2, <1>4 DEF Inv, Orderly, OrderlySession
  <2>3. ASSUME "again" \notin odd' PROVE FreshSession(y, answered')
    <3>1. FreshSession(was, answered) /\ answered' = answered
      BY <1>6, <2>3 DEF Inv, Unanswered
    <3>2. y.last \in answered => y.held = {}
      BY <1>2, <1>5, <3>1 DEF FreshSession
    <3>3. next \notin answered
      <4>1. CASE next = x.last /\ Again(x) \subseteq odd'
        <5>1. FreshSession(was, answered) /\ Again(was) = {}
          BY <2>3, <3>1, <4>1 DEF Again
        <5> QED BY <1>1, <4>1, <5>1, LastUnanswered
      <4>2. CASE next = Continue
        BY <4>2, Numbers DEF Inv, TypeOK
      <4>3. CASE next = was.turn
        BY <3>1, <4>3 DEF FreshSession
      <4> QED BY <4>1, <4>2, <4>3
    <3>4. y.turn \notin answered
      BY <1>2, <3>1, Numbers DEF FreshSession, Inv, TypeOK
    <3>5. ASSUME y.turn \in Messages
          PROVE  y.turn \notin y.held /\ y.turn # y.last /\ y.turn # y.replay
      <4>1. x.turn = was.turn /\ was.query = "live" /\ x.turn \in Messages /\ x.turn # 0
        BY <1>2, <3>5, Numbers
      <4>2. was.turn \notin Of(Queue(was)) /\ was.turn \notin was.held /\ was.turn # was.last
        BY <3>1, <4>1 DEF FreshSession
      <4>3. next = was.last \/ next = Continue
        BY <4>1
      <4> QED BY <1>2, <1>5, <3>5, <4>1, <4>2, <4>3, Numbers
    <3> QED BY <1>2, <1>4, <3>1, <3>2, <3>3, <3>4, <3>5, NewestEmpty DEF FreshSession
  <2>4. MessagesOf(y) \subseteq MessagesOf(was)
    <3>1. next \in Messages => next \in {was.last, was.turn}
      BY Numbers
    <3>2. y.turn \in Messages => y.turn = was.turn
      BY <1>2, Numbers
    <3> QED BY <1>2, <1>4, <1>5, <3>1, <3>2 DEF MessagesOf
  <2> QED BY <1>2, <1>6, <2>1, <2>2, <2>3, <2>4 DEF SoundChange
<1>10. KeepingChange(s, y)
  <2>1. Unsettled' = Unsettled \ Lost(x, next, resume)
    BY <1>3, <1>6 DEF Unsettled
  <2>2. odd' \cap {"swallowed", "unnamed"} = {} => pending' \cap answered' = {}
    BY <1>6 DEF Inv, NotAnswered
  <2> SUFFICES ASSUME ~Exempt', ~gone
               PROVE  /\ "crossed" \notin odd' => Unsettled' \subseteq pending'
                      /\ s = current => /\ Keeps(y, Unsettled')
                                        /\ Unsettled' \cap Kept(was) \subseteq Kept(y)
    BY <2>2 DEF KeepingChange
  <2>3. ~Exempt
    BY <1>6 DEF Exempt
  <2>4. "crossed" \notin odd' => Unsettled' \subseteq pending'
    BY <1>6, <2>1, <2>3 DEF Inv, Remembered
  <2>5. ASSUME s = current PROVE Keeps(y, Unsettled') /\ Unsettled' \cap Kept(was) \subseteq Kept(y)
    <3>1. Keeps(was, Unsettled)
      BY <1>1, <2>3, <2>5 DEF Inv, Remembered, Sessions
    <3>2. next = 0 => y.held \cap Unsettled' = {}
      <4> SUFFICES ASSUME next = 0 PROVE y.held \cap Unsettled' = {}
        OBVIOUS
      <4>1. was.backoff /\ was.turn = 0
        BY Numbers
      <4> QED BY <1>2, <2>1, <3>1, <4>1 DEF Keeps
    <3>3. y.last = 0 => (Of(Queue(y)) \cup y.held) \cap Unsettled' = {}
      BY <1>2, <1>4, <1>5, <2>1, <3>1 DEF Keeps
    <3>4. Keeps(y, Unsettled')
      BY <1>2, <1>4, <2>5, <3>2, <3>3 DEF Keeps
    <3>5. Unsettled' \cap Kept(was) \subseteq Kept(y)
      BY <1>1, <1>2, <1>5, <1>7, <2>1, Numbers DEF Kept
    <3> QED BY <3>4, <3>5
  <2> QED BY <2>4, <2>5
<1>11. s <= made
  BY Created
<1> QED BY <1>8, <1>9, <1>10, <1>11, OneSession

\* What a retry counts.
Counting(x, a, n, f) == [x EXCEPT !.auth = a, !.stream = n, !.fallback = f]

\* A failed session with a counter raised.
LEMMA CountingFields ==
    ASSUME NEW x \in SessionRecord, NEW a \in 0 .. AuthRetries, NEW n \in 0 .. StreamRetries,
           NEW f \in BOOLEAN
    PROVE  LET y == Counting(x, a, n, f) IN
           /\ y \in SessionRecord
           /\ y.query = x.query /\ y.pipe = x.pipe /\ y.work = x.work /\ y.held = x.held
           /\ y.last = x.last /\ y.backoff = x.backoff /\ y.turn = x.turn /\ y.ending = x.ending
           /\ y.known = x.known
<1>1. Counting(x, a, n, f) \in SessionRecord
  BY DEF Counting, SessionRecord
<1> QED BY <1>1 DEF Counting, SessionRecord

\* Every failure that is retried at once.
LEMMA ThrownInv ==
    ASSUME Inv, NEW s \in Sessions, Throws(s), NEW a \in 0 .. AuthRetries, NEW n \in 0 .. StreamRetries,
           NEW f \in BOOLEAN, NEW x, x = Counting(Failed(ses[s]), a, n, f),
           NEW next, NEW resume \in BOOLEAN, RetryWith(s, x, next, resume),
           (next = x.last /\ next # 0 /\ Again(x) \subseteq odd') \/ next = Continue,
           UNCHANGED <<sent, thread, manager, stops, rebuilds, compacts, answered, told>>,
           odd \subseteq odd', odd' \subseteq Oddities
    PROVE  Inv'
<1> DEFINE was == ses[s]
           z == Failed(was)
<1>1. was \in SessionRecord /\ was.query = "live" /\ Quiet /\ send' = HungUp(send, s)
  BY DEF Inv, TypeOK, Throws, Live
<1>2. /\ z \in SessionRecord /\ z.query = "dead" /\ z.pipe = was.pipe /\ z.work = was.work
      /\ z.held = was.held /\ z.last = was.last /\ z.backoff = was.backoff /\ z.turn = was.turn
      /\ z.ending = was.ending
  BY <1>1, FailedFields
<1> HIDE DEF z
<1>3. /\ x \in SessionRecord
      /\ x.query = z.query /\ x.pipe = z.pipe /\ x.work = z.work /\ x.held = z.held
      /\ x.last = z.last /\ x.backoff = z.backoff /\ x.turn = z.turn /\ x.ending = z.ending
  <2>1. x = Counting(z, a, n, f)
    BY DEF z
  <2> QED BY ONLY <1>2, <2>1, CountingFields, a \in 0 .. AuthRetries, n \in 0 .. StreamRetries, f \in BOOLEAN
<1>4. next \in Inputs \cup {0}
  BY <1>1, <1>2, <1>3, FieldTypes, Numbers
<1>5. s = current => x.query # "live" /\ ~x.backoff
  BY <1>1, <1>2, <1>3 DEF Inv, Tidy, TidySession
<1>6. faults' \in 0 .. MaxFaults
  BY FaultCounted DEF Inv, Throws
<1>7. /\ Moves(send, send')
      /\ send' \in [Messages -> [at: {"unsent", "probe", "sync", "usage", "compact", "ready", "done", "failed"},
                                 ses: Sessions \cup {0}, resume: BOOLEAN]]
  BY <1>1, SettledMoves DEF Inv
<1> QED BY <1>1, <1>2, <1>3, <1>4, <1>5, <1>6, <1>7, RetryInv, SMTT(30)

\* AuthRetried keeps the invariant.
LEMMA AuthRetriedInv ==
    ASSUME Inv, NEW s \in Sessions, AuthRetried(s)
    PROVE  Inv'
<1> DEFINE was == ses[s]
           x == [Failed(was) EXCEPT !.auth = @ + 1]
<1>1. was \in SessionRecord /\ was.auth < AuthRetries /\ was.auth \in 0 .. AuthRetries
  BY DEF Inv, TypeOK, AuthRetried, SessionRecord
<1>2. /\ Failed(was) \in SessionRecord /\ Failed(was).auth = was.auth /\ Failed(was).last = was.last
      /\ Failed(was).known = was.known
  BY <1>1, FailedFields
<1>3. x = Counting(Failed(was), was.auth + 1, was.stream, was.fallback)
  BY <1>1 DEF Counting, Failed, SessionRecord
<1>4. was.auth + 1 \in 0 .. AuthRetries /\ was.stream \in 0 .. StreamRetries /\ was.fallback \in BOOLEAN
  BY <1>1, BoundsAssumption, SMTT(30) DEF SessionRecord
<1>5. x.last = was.last /\ x.known \in BOOLEAN
  BY <1>1, <1>2, FailedFields DEF SessionRecord
<1>6. RetryWith(s, x, x.last, x.known) /\ odd' = odd \cup Again(x) /\ Throws(s) /\ was.last # 0
      /\ UNCHANGED <<sent, thread, manager, stops, rebuilds, compacts, answered, told>>
  BY DEF AuthRetried, Refused
<1>7. odd \subseteq odd' /\ odd' \subseteq Oddities /\ Again(x) \subseteq odd'
  BY <1>6 DEF Inv, TypeOK, Oddities, Again
<1> HIDE DEF x
<1> QED BY <1>3, <1>4, <1>5, <1>6, <1>7, ThrownInv, ZenonT(60)

\* ResumeRetried keeps the invariant.
LEMMA ResumeRetriedInv ==
    ASSUME Inv, NEW s \in Sessions, ResumeRetried(s)
    PROVE  Inv'
<1> DEFINE was == ses[s]
           x == [Failed(was) EXCEPT !.fallback = TRUE]
<1>1. was \in SessionRecord
  BY DEF Inv, TypeOK
<1>2. Failed(was) \in SessionRecord /\ Failed(was).last = was.last
  BY <1>1, FailedFields
<1>3. x = Counting(Failed(was), was.auth, was.stream, TRUE)
  BY <1>1 DEF Counting, Failed, SessionRecord
<1>4. was.auth \in 0 .. AuthRetries /\ was.stream \in 0 .. StreamRetries
  BY <1>1 DEF SessionRecord
<1>5. RetryWith(s, x, x.last, FALSE) /\ odd' = odd \cup Again(x) /\ Throws(s) /\ x.last # 0
      /\ UNCHANGED <<sent, thread, manager, stops, rebuilds, compacts, answered, told>>
  BY DEF ResumeRetried
<1>6. odd \subseteq odd' /\ odd' \subseteq Oddities /\ Again(x) \subseteq odd'
  BY <1>5 DEF Inv, TypeOK, Oddities, Again
<1> HIDE DEF x
<1> QED BY <1>3, <1>4, <1>5, <1>6, ThrownInv

\* StreamClosed keeps the invariant.
LEMMA StreamClosedInv ==
    ASSUME Inv, NEW s \in Sessions, StreamClosed(s)
    PROVE  Inv'
<1> DEFINE was == ses[s]
           x == [Failed(was) EXCEPT !.stream = @ + 1]
<1>1. was \in SessionRecord /\ was.stream < StreamRetries /\ was.stream \in 0 .. StreamRetries
  BY DEF Inv, TypeOK, StreamClosed, SessionRecord
<1>2. Failed(was) \in SessionRecord /\ Failed(was).stream = was.stream /\ Failed(was).known = was.known
  BY <1>1, FailedFields
<1>3. x = Counting(Failed(was), was.auth, was.stream + 1, was.fallback)
  BY <1>1 DEF Counting, Failed, SessionRecord
<1>4. was.stream + 1 \in 0 .. StreamRetries /\ was.auth \in 0 .. AuthRetries /\ was.fallback \in BOOLEAN
  BY <1>1, BoundsAssumption, SMTT(30) DEF SessionRecord
<1>5. x.known \in BOOLEAN
  BY <1>1, <1>2 DEF SessionRecord
<1>6. RetryWith(s, x, Continue, x.known) /\ odd' = odd /\ Throws(s)
      /\ UNCHANGED <<sent, thread, manager, stops, rebuilds, compacts, answered, told>>
  BY DEF StreamClosed
<1>7. odd \subseteq odd' /\ odd' \subseteq Oddities
  BY <1>6 DEF Inv, TypeOK
<1> HIDE DEF x
<1> QED BY <1>3, <1>4, <1>5, <1>6, <1>7, ThrownInv

-----------------------------------------------------------------------------
(* A rate limit, and the end of the wait.                                  *)

\* A session that waits, or no longer waits, after a rate limit.
Waiting(x, r, b, t, i) == [x EXCEPT !.rate = r, !.backoff = b, !.turn = t, !.intr = i]

\* RateLimited keeps the invariant: the failed Query keeps what it had.
LEMMA RateLimitedInv ==
    ASSUME Inv, NEW s \in Sessions, RateLimited(s)
    PROVE  Inv'
<1> DEFINE was == ses[s]
           x == Failed(was)
           r == was.rate + 1
           y == Waiting(x, r, TRUE, was.last, FALSE)
<1>1. /\ was \in SessionRecord /\ was.query = "live" /\ was.replay = 0 /\ Quiet /\ ~was.intr
      /\ was.rate < RateRetries /\ was.rate \in 0 .. RateRetries /\ send' = HungUp(send, s)
      /\ (current # 0 => current \in Sessions)
  BY QuietReplay DEF Inv, TypeOK, RateLimited, Refused, Throws, Live, SessionRecord
<1>2. /\ x \in SessionRecord /\ x.query = "dead" /\ ~x.stop /\ x.chan = was.chan
      /\ x.pipe = was.pipe /\ x.work = was.work /\ x.held = was.held
      /\ x.inflight = was.inflight /\ x.intr = was.intr /\ x.last = was.last /\ x.backoff = was.backoff
      /\ x.replay = was.replay /\ x.ending = was.ending /\ x.rate = was.rate
  BY <1>1, FailedFields
<1>3. r \in 0 .. RateRetries /\ was.last \in Inputs \cup {0}
  BY <1>1, BoundsAssumption, FieldTypes
<1>4. /\ ses' = [ses EXCEPT ![s] = y] /\ odd' = odd \cup Again(x)
      /\ UNCHANGED <<sent, thread, manager, stops, rebuilds, compacts, answered, told, dropped>>
  <2>1. [x EXCEPT !.rate = @ + 1, !.backoff = TRUE, !.turn = x.last] = y
    BY <1>1, <1>2, ZenonT(60) DEF Waiting, SessionRecord
  <2> QED BY <2>1 DEF RateLimited
<1> HIDE DEF x, r
<1>5. /\ y \in SessionRecord /\ y.backoff /\ y.turn = x.last /\ ~y.intr
      /\ y.query = x.query /\ y.chan = x.chan /\ y.pipe = x.pipe /\ y.work = x.work /\ y.held = x.held
      /\ y.inflight = x.inflight /\ y.stop = x.stop /\ y.last = x.last /\ y.replay = x.replay
      /\ y.ending = x.ending
  <2>1. y \in SessionRecord
    BY <1>2, <1>3 DEF Waiting, SessionRecord
  <2> QED BY <1>2, <2>1 DEF Waiting, SessionRecord
<1> HIDE DEF y
<1>6. Queue(y) = Queue(was)
  BY <1>2, <1>5 DEF Queue
<1>7. UNCHANGED <<sent, shown, pending, id, current, made, rebuild, gone, stops, rebuilds, compacts, answered, told, dropped>>
  BY <1>4 DEF thread, manager
<1>8. odd \subseteq odd' /\ odd' \subseteq Oddities /\ Again(was) \subseteq odd'
  BY <1>2, <1>4 DEF Inv, TypeOK, Oddities, Again
<1>9. Changes(s, y) /\ Moves(send, send') /\ TypedChange
  <2>1. faults' \in 0 .. MaxFaults
    BY FaultCounted DEF Inv, RateLimited, Refused, Throws
  <2> QED BY <1>1, <1>4, <1>7, <1>8, <2>1, SettledMoves DEF Changes, manager, TypedChange, Inv, TypeOK, Counted
<1>10. SoundChange(s, y)
  <2>1. TidySession(y, s = current, stops)
    BY <1>1, <1>2, <1>5 DEF Inv, Tidy, TidySession
  <2>2. "revived" \notin odd' => OrderlySession(y, s = current, odd')
    BY <1>1, <1>2, <1>5, <1>6, <1>8 DEF Inv, Orderly, OrderlySession
  <2>3. ASSUME "again" \notin odd' PROVE FreshSession(y, answered')
    <3>1. FreshSession(was, answered)
      BY <1>8, <2>3 DEF Inv, Unanswered
    <3>2. was.last \notin answered
      BY <1>1, <1>8, <2>3, <3>1, LastUnanswered DEF Again
    <3> QED BY <1>2, <1>5, <1>6, <1>7, <3>1, <3>2 DEF FreshSession
  <2>4. MessagesOf(y) \subseteq MessagesOf(was)
    BY <1>2, <1>5, <1>6 DEF MessagesOf
  <2> QED BY <1>5, <1>7, <2>1, <2>2, <2>3, <2>4 DEF SoundChange
<1>11. KeepingChange(s, y)
  <2>1. Unsettled' = Unsettled /\ (~Exempt' => ~Exempt)
    BY <1>7, <1>8 DEF Unsettled, Exempt
  <2>2. ASSUME s = current, ~Exempt, ~gone PROVE Keeps(y, Unsettled)
    <3>1. Keeps(was, Unsettled)
      BY <1>1, <2>2 DEF Inv, Remembered, Sessions
    <3>2. Of(Queue(was)) = Of(was.work) \cup Of(was.pipe)
      BY <1>1, FieldTypes
    <3> QED BY <1>1, <1>2, <1>5, <1>6, <3>1, <3>2 DEF Keeps
  <2> QED BY <1>1, <1>2, <1>5, <1>6, <1>7, <1>8, <2>1, <2>2 DEF KeepingChange, Inv, NotAnswered, Remembered, Kept
<1>12. s <= made
  BY <1>1, Created
<1> QED BY <1>9, <1>10, <1>11, <1>12, OneSession

\* BackoffEnds keeps the invariant, whichever way it goes.
LEMMA BackoffEndsInv ==
    ASSUME Inv, NEW s \in Sessions, BackoffEnds(s)
    PROVE  Inv'
<1> DEFINE was == ses[s]
           Y(i) == Waiting(was, was.rate, FALSE, 0, i)
           x == Y(was.intr)
<1>1. /\ was \in SessionRecord /\ was.replay = 0 /\ Quiet /\ was.backoff /\ s <= made
      /\ was.rate \in 0 .. RateRetries /\ was.intr \in BOOLEAN /\ was.turn \in Inputs \cup {0}
      /\ 0 \in Inputs \cup {0}
  BY QuietReplay, Created, FieldTypes DEF Inv, TypeOK, BackoffEnds, SessionRecord
<1>2. /\ UNCHANGED <<sent, current, made, rebuild, gone, stops, faults, rebuilds, compacts, answered>>
      /\ faults \in 0 .. MaxFaults
  BY DEF BackoffEnds, manager, counts, Inv, TypeOK
<1>3. x = [was EXCEPT !.backoff = FALSE, !.turn = 0]
  BY <1>1 DEF Waiting, SessionRecord
<1>4. \A i \in BOOLEAN :
        /\ Y(i) \in SessionRecord /\ ~Y(i).backoff /\ Y(i).turn = 0 /\ Y(i).intr = i
        /\ Y(i).query = was.query /\ Y(i).chan = was.chan /\ Y(i).pipe = was.pipe /\ Y(i).work = was.work
        /\ Y(i).held = was.held /\ Y(i).inflight = was.inflight /\ Y(i).stop = was.stop
        /\ Y(i).last = was.last /\ Y(i).replay = was.replay /\ Y(i).ending = was.ending
        /\ Y(i).known = was.known
  <2> SUFFICES ASSUME NEW i \in BOOLEAN
               PROVE  LET y == Waiting(was, was.rate, FALSE, 0, i) IN
                      /\ y \in SessionRecord /\ ~y.backoff /\ y.turn = 0 /\ y.intr = i
                      /\ y.query = was.query /\ y.chan = was.chan /\ y.pipe = was.pipe /\ y.work = was.work
                      /\ y.held = was.held /\ y.inflight = was.inflight /\ y.stop = was.stop
                      /\ y.last = was.last /\ y.replay = was.replay /\ y.ending = was.ending
                      /\ y.known = was.known
    OBVIOUS
  <2>1. Waiting(was, was.rate, FALSE, 0, i) \in SessionRecord
    <3>1. was \in SessionRecord /\ was.rate \in 0 .. RateRetries /\ 0 \in Inputs \cup {0} /\ i \in BOOLEAN
      BY <1>1
    <3> HIDE DEF was
    <3> QED BY ONLY <3>1 DEF Waiting, SessionRecord
  <2> QED BY <1>1, <2>1 DEF Waiting, SessionRecord
<1>5. \A i \in BOOLEAN : Queue(Y(i)) = Queue(was)
  BY <1>4 DEF Queue
<1>6. [x EXCEPT !.intr = FALSE] = Y(FALSE)
  BY <1>1 DEF Waiting, SessionRecord
<1>7. x.intr = was.intr /\ x.chan = was.chan /\ x.known \in BOOLEAN
  BY <1>1, <1>4, ZenonT(60) DEF SessionRecord
<1>8. \/ /\ was.intr /\ ses' = [ses EXCEPT ![s] = Y(FALSE)] /\ Heard(OnInterrupted)
         /\ odd' = odd \cup {"stuck"} /\ UNCHANGED <<send, dropped>>
      \/ /\ ~was.intr /\ ~was.chan /\ ses' = [ses EXCEPT ![s] = x]
         /\ UNCHANGED <<send, shown, pending, id, told, dropped, odd>>
      \/ /\ ~was.intr /\ was.chan /\ RetryWith(s, x, was.turn, x.known)
         /\ send' = HungUp(send, s) /\ UNCHANGED <<thread, told, odd>>
  BY <1>3, <1>6, <1>7 DEF BackoffEnds, thread
<1> HIDE DEF x
<1>9. ASSUME NEW i \in BOOLEAN, i => was.intr, was.stop => i, odd \subseteq odd',
             "stuck" \in odd' \/ s # current
      PROVE  SoundChange(s, Y(i))
  <2>1. TidySession(Y(i), s = current, stops)
    <3>1. TidySession(was, s = current, stops) /\ Compact # 0
      BY Numbers DEF Inv, Tidy
    <3> QED BY <1>4, <1>9, <3>1 DEF TidySession
  <2>2. ASSUME "revived" \notin odd' PROVE OrderlySession(Y(i), s = current, odd')
    <3>1. OrderlySession(was, s = current, odd) /\ TidySession(was, s = current, stops)
      BY <1>9, <2>2 DEF Inv, Orderly, Tidy
    <3> QED BY <1>4, <1>5, <1>9, <3>1 DEF OrderlySession, TidySession
  <2>3. "again" \notin odd' => FreshSession(Y(i), answered')
    <3>1. "again" \notin odd' => FreshSession(was, answered)
      BY <1>9 DEF Inv, Unanswered
    <3> QED BY <1>2, <1>4, <1>5, <3>1, Numbers DEF FreshSession, Inv, TypeOK
  <2>4. MessagesOf(Y(i)) \subseteq MessagesOf(was)
    BY <1>4, <1>5, Numbers, ZenonT(60) DEF MessagesOf
  <2> QED BY <1>2, <1>4, <2>1, <2>2, <2>3, <2>4 DEF SoundChange
<1>10. TidySession(was, s = current, stops)
  BY DEF Inv, Tidy
<1>11. CASE was.intr /\ ses' = [ses EXCEPT ![s] = Y(FALSE)] /\ Heard(OnInterrupted)
            /\ odd' = odd \cup {"stuck"} /\ UNCHANGED <<send, dropped>>
  <2> DEFINE y == Y(FALSE)
  <2>1. ~was.stop
    BY <1>1, <1>10, <1>11 DEF TidySession
  <2>2. SoundChange(s, y)
    BY <1>9, <1>11, <2>1
  <2>3. y.replay = 0
    BY <1>1, <1>4
  <2> HIDE DEF y, Y
  <2>4. /\ shown' \subseteq shown /\ pending' \subseteq pending /\ pending' \subseteq shown'
        /\ told' = told /\ id' = id /\ odd \subseteq odd' /\ odd' \subseteq Oddities
    BY <1>2, <1>11, StopSettles DEF Inv, TypeOK, Oddities
  <2>5. Changes(s, y) /\ Moves(send, send') /\ TypedChange
    BY <1>2, <1>11, <2>4, SettledMoves DEF y, Changes, manager, TypedChange, Inv, TypeOK
  <2>6. Exempt'
    BY <1>11 DEF Exempt
  <2>7. KeepingChange(s, y)
    BY <1>2, <2>3, <2>4, <2>6, AllSettled
  <2> QED BY <1>1, <2>2, <2>5, <2>7, OneSession
<1>12. CASE ~was.intr /\ ~was.chan /\ ses' = [ses EXCEPT ![s] = x]
            /\ UNCHANGED <<send, shown, pending, id, told, dropped, odd>>
  <2> DEFINE y == Y(FALSE)
  <2>1. s # current
    BY <1>1, <1>10, <1>12 DEF TidySession
  <2>2. SoundChange(s, y)
    BY <1>9, <1>10, <1>12, <2>1 DEF TidySession
  <2>3. ses' = [ses EXCEPT ![s] = y]
    <3>1. was.intr = FALSE
      BY <1>1, <1>12
    <3> QED BY <1>12, <3>1 DEF x
  <2> HIDE DEF y, Y
  <2>4. Changes(s, y) /\ Moves(send, send') /\ TypedChange
    BY <1>2, <1>12, <2>3, SettledMoves DEF Changes, manager, TypedChange, Inv, TypeOK, Counted
  <2>5. KeepingChange(s, y)
    BY <1>2, <1>12, <2>1 DEF KeepingChange, Inv, NotAnswered, Remembered, Exempt, Unsettled
  <2> QED BY <1>1, <2>2, <2>4, <2>5, OneSession
<1>13. CASE ~was.intr /\ was.chan /\ RetryWith(s, x, was.turn, x.known)
            /\ send' = HungUp(send, s) /\ UNCHANGED <<thread, told, odd>>
  <2>1. /\ x \in SessionRecord /\ ~x.backoff /\ x.turn = 0
        /\ x.query = was.query /\ x.pipe = was.pipe /\ x.work = was.work
        /\ x.held = was.held /\ x.last = was.last /\ x.ending = was.ending
    BY <1>1, <1>4 DEF x
  <2> HIDE DEF Y
  <2>2. was.query # "none" /\ (s = current => x.query # "live")
    BY <1>1, <1>10, <1>13, <2>1 DEF TidySession
  <2>3. /\ Moves(send, send')
        /\ send' \in [Messages -> [at: {"unsent", "probe", "sync", "usage", "compact", "ready", "done", "failed"},
                                   ses: Sessions \cup {0}, resume: BOOLEAN]]
    BY <1>13, SettledMoves DEF Inv
  <2>4. odd \subseteq odd' /\ odd' \subseteq Oddities
    BY <1>13 DEF Inv, TypeOK
  <2>5. UNCHANGED <<sent, thread, manager, stops, rebuilds, compacts, answered, told>> /\ faults' \in 0 .. MaxFaults
    BY <1>2, <1>13 DEF manager
  <2> QED BY <1>1, <1>7, <1>13, <2>1, <2>2, <2>3, <2>4, <2>5, RetryInv
<1> QED BY <1>8, <1>11, <1>12, <1>13

-----------------------------------------------------------------------------
(* A retried turn is sent, and a closed Query ends.                        *)

\* A session that is about to send its turn again.
Unreplayed(x) == [x EXCEPT !.replay = 0]

\* Replay keeps the invariant.
LEMMA ReplayInv ==
    ASSUME Inv, NEW s \in Sessions, Replay(s)
    PROVE  Inv'
<1> DEFINE was == ses[s]
           r == was.replay
           x == Unreplayed(was)
           y == Pushed(x, r)
<1>1. /\ was \in SessionRecord /\ r # 0 /\ (current # 0 => current \in Sessions)
      /\ UNCHANGED <<sent, send, shown, pending, id, current, made, rebuild, gone, stops, faults, rebuilds,
                     compacts, answered, told, dropped, odd>>
  BY DEF Inv, TypeOK, Replay, thread, manager, counts, history
<1>2. /\ r \in Inputs /\ was.pipe \in Seq(Inputs) /\ was.work \in Seq(Inputs) /\ Queue(was) \in Seq(Inputs)
      /\ was.held \subseteq Messages /\ s <= made
  BY <1>1, FieldTypes, Created
<1>3. /\ x \in SessionRecord /\ x.replay = 0
      /\ x.query = was.query /\ x.chan = was.chan /\ x.pipe = was.pipe /\ x.work = was.work /\ x.held = was.held
      /\ x.intr = was.intr /\ x.stop = was.stop /\ x.backoff = was.backoff /\ x.turn = was.turn
      /\ x.ending = was.ending
  <2>1. x \in SessionRecord
    BY <1>1 DEF Unreplayed, SessionRecord
  <2> QED BY <1>1, <2>1 DEF Unreplayed, SessionRecord
<1>4. ses' = [ses EXCEPT ![s] = y]
  BY DEF Replay, Unreplayed
<1> HIDE DEF x, r
<1>5. /\ y \in SessionRecord
      /\ y.last = r /\ y.pipe = Append(x.pipe, r) /\ y.inflight
      /\ y.query = x.query /\ y.chan = x.chan /\ y.work = x.work /\ y.held = x.held
      /\ y.intr = x.intr /\ y.stop = x.stop /\ y.backoff = x.backoff
      /\ y.turn = x.turn /\ y.replay = 0 /\ y.ending = x.ending
  BY <1>2, <1>3, PushedFields
<1> HIDE DEF y
<1>6. Queue(y) = Append(Queue(was), r)
  <2>1. Queue(y) = was.work \o Append(was.pipe, r)
    BY <1>3, <1>5 DEF Queue
  <2>2. was.work \o Append(was.pipe, r) = Append(was.work \o was.pipe, r)
    BY <1>2, QueueAppend
  <2> QED BY <2>1, <2>2 DEF Queue
<1>7. /\ Queue(y) # <<>> /\ Of(Queue(y)) = Of(Queue(was)) \cup ({r} \cap Messages)
      /\ Queue(was) # <<>> => Head(Queue(y)) = Head(Queue(was))
      /\ Queue(was) = <<>> => Head(Queue(y)) = r
  BY <1>2, <1>6, OfAppend
<1>8. TidySession(was, s = current, stops) /\ was.query = "live"
  BY <1>1 DEF Inv, Tidy, TidySession, r
<1>9. Changes(s, y) /\ Moves(send, send') /\ TypedChange
  BY <1>1, <1>4, SettledMoves DEF Changes, manager, TypedChange, Inv, TypeOK, Counted
<1>10. SoundChange(s, y)
  <2>1. TidySession(y, s = current, stops)
    BY <1>3, <1>5, <1>8, Numbers DEF TidySession, r
  <2>2. "revived" \notin odd' => OrderlySession(y, s = current, odd')
    BY <1>1, <1>3, <1>5, <1>7, <1>8 DEF Inv, Orderly, OrderlySession
  <2>3. ASSUME "again" \notin odd' PROVE FreshSession(y, answered')
    <3>1. FreshSession(was, answered) /\ answered' = answered
      BY <1>1, <2>3 DEF Inv, Unanswered
    <3>2. r \notin answered /\ r \notin Of(Queue(was))
      BY <3>1 DEF FreshSession, r
    <3>3. r \in Messages => Newest(Queue(y), r)
      BY <1>2, <1>6, <3>2, NewestAppend
    <3>4. y.turn \in Messages => /\ y.turn \notin Of(Queue(y)) /\ y.turn \notin y.held /\ y.turn # r /\ y.turn # 0
      BY <1>3, <1>5, <1>7, <1>8, <3>1, Numbers DEF FreshSession, r
    <3>5. 0 \notin answered /\ 0 \notin Of(Queue(y)) /\ y.turn \notin answered
      BY <1>3, <1>5, <3>1, Numbers DEF FreshSession, Inv, TypeOK, Of
    <3>6. r \in y.held => r \in Of(Queue(y))
      BY <1>2, <1>3, <1>5, <1>7
    <3> QED BY <1>5, <3>1, <3>2, <3>3, <3>4, <3>5, <3>6 DEF FreshSession
  <2>4. MessagesOf(y) \subseteq MessagesOf(was)
    <3>1. y.last = was.replay /\ y.turn = was.turn /\ y.held = was.held /\ y.replay = 0
      BY <1>3, <1>5 DEF r
    <3>2. Of(Queue(y)) \subseteq Of(Queue(was)) \cup {was.replay}
      BY <1>7 DEF r
    <3> QED BY <3>1, <3>2, Numbers DEF MessagesOf
  <2> QED BY <1>1, <1>5, <2>1, <2>2, <2>3, <2>4 DEF SoundChange
<1>11. KeepingChange(s, y)
  <2>1. Unsettled' = Unsettled /\ (Exempt' <=> Exempt)
    BY <1>1 DEF Unsettled, Exempt
  <2>2. ASSUME s = current, ~Exempt, ~gone PROVE Keeps(y, Unsettled)
    <3>1. Keeps(was, Unsettled) /\ ~was.backoff
      BY <1>1, <1>8, <2>2 DEF Inv, Remembered, TidySession, Sessions
    <3>2. r # Compact
      BY <1>8 DEF TidySession, r
    <3>3. Head(Queue(y)) # Compact
      BY <1>1, <1>7, <3>1, <3>2 DEF Keeps, r
    <3> QED BY <1>1, <1>3, <1>5, <1>7, <3>1, <3>3 DEF Keeps
  <2>3. Kept(was) \subseteq Kept(y)
    BY <1>3, <1>5, <1>7 DEF Kept, r
  <2> QED BY <1>1, <2>1, <2>2, <2>3 DEF KeepingChange, Inv, NotAnswered, Remembered
<1> QED BY <1>2, <1>9, <1>10, <1>11, OneSession

\* Finalise keeps the invariant: only a session that was closed has a pump to end.
LEMMA FinaliseInv ==
    ASSUME Inv, NEW s \in Sessions, Finalise(s)
    PROVE  Inv'
<1> DEFINE x == ses[s]
           e == x.ending - 1
           y == [x EXCEPT !.ending = e, !.intr = FALSE, !.inflight = FALSE, !.chan = FALSE]
<1>1. /\ x \in SessionRecord /\ x.ending > 0 /\ x.ending \in Nat /\ s <= made
      /\ UNCHANGED <<sent, send, shown, pending, id, current, made, rebuild, gone, stops, faults, rebuilds,
                     compacts, answered, told, dropped, odd>>
  <2>1. x \in SessionRecord /\ x.ending > 0
    BY DEF Inv, TypeOK, Finalise
  <2>2. x.ending \in Nat /\ x.ending # 0
    BY <2>1, FieldTypes
  <2> QED BY <2>1, <2>2, Created DEF Finalise, thread, manager, counts, history
<1>2. e \in Nat /\ s # current
  BY <1>1 DEF Inv, Tidy, TidySession
<1>3. ses' = [ses EXCEPT ![s] = y]
  <2>1. ses' = [ses EXCEPT ![s] = [ses[s] EXCEPT !.ending = ses[s].ending - 1, !.intr = FALSE,
                                                 !.inflight = FALSE, !.chan = FALSE]]
    BY DEF Finalise
  <2> QED BY <2>1
<1> HIDE DEF e
<1>4. /\ y \in SessionRecord /\ ~y.intr /\ ~y.inflight /\ ~y.chan
      /\ y.query = x.query /\ y.pipe = x.pipe /\ y.work = x.work /\ y.held = x.held /\ y.stop = x.stop
      /\ y.last = x.last /\ y.backoff = x.backoff /\ y.turn = x.turn /\ y.replay = x.replay
  <2>1. y \in SessionRecord
    BY <1>1, <1>2 DEF SessionRecord
  <2> QED BY <1>1, <2>1 DEF SessionRecord
<1> HIDE DEF y
<1>5. Queue(y) = Queue(x)
  BY <1>4 DEF Queue
<1>6. Changes(s, y) /\ Moves(send, send') /\ TypedChange
  BY <1>1, <1>3, SettledMoves DEF Changes, manager, TypedChange, Inv, TypeOK, Counted
<1>7. TidySession(x, s = current, stops)
  BY DEF Inv, Tidy
<1>8. SoundChange(s, y)
  <2>1. TidySession(y, s = current, stops)
    BY <1>2, <1>4, <1>7 DEF TidySession
  <2>2. ASSUME "revived" \notin odd' PROVE OrderlySession(y, s = current, odd')
    <3>1. x.query = "none" /\ x.work = <<>> /\ x.pipe = <<>>
      BY <1>1, <1>2, <1>7, <2>2 DEF Inv, Orderly, OrderlySession, TidySession
    <3>2. Queue(x) = <<>>
      BY <3>1, OfQueue DEF Queue
    <3> QED BY <1>2, <1>4, <1>5, <3>1, <3>2 DEF OrderlySession
  <2>3. "again" \notin odd' => FreshSession(y, answered')
    BY <1>1, <1>4, <1>5 DEF Inv, Unanswered, FreshSession
  <2>4. MessagesOf(y) \subseteq MessagesOf(x)
    BY <1>4, <1>5 DEF MessagesOf
  <2> QED BY <1>1, <1>4, <2>1, <2>2, <2>3, <2>4 DEF SoundChange
<1>9. KeepingChange(s, y)
  BY <1>1, <1>2 DEF KeepingChange, Inv, NotAnswered, Remembered, Exempt, Unsettled
<1> QED BY <1>1, <1>6, <1>8, <1>9, OneSession

-----------------------------------------------------------------------------
(* A sendMessage() on its way.                                             *)

\* A send goes on, and nothing else happens.
LEMMA GoesOnInv ==
    ASSUME Inv, NEW m \in Messages, NEW place \in {"usage", "ready"}, send[m].at \notin Ended,
           send' = [send EXCEPT ![m].at = place],
           UNCHANGED <<sent, shown, pending, id, current, made, rebuild, gone, ses, stops, faults, rebuilds,
                       compacts, answered, told, dropped, odd>>
    PROVE  Inv'
<1> DEFINE s == send[m].ses
           x == ses[s]
<1>1. m <= sent /\ s \in 1 .. made
  BY DEF Inv, Counted, Ended, Messages, TypeOK
<1>2. s \in Sessions /\ s <= made
  BY <1>1 DEF Inv, TypeOK, Sessions
<1>3. x \in SessionRecord /\ ses' = [ses EXCEPT ![s] = x]
  BY <1>2 DEF Inv, TypeOK
<1>4. /\ Moves(send, send')
      /\ send' \in [Messages -> [at: {"unsent", "probe", "sync", "usage", "compact", "ready", "done", "failed"},
                                 ses: Sessions \cup {0}, resume: BOOLEAN]]
  BY DEF Moves, Ended, Inv, TypeOK
<1> HIDE DEF s
<1>5. Changes(s, x) /\ TypedChange
  BY <1>3, <1>4 DEF Changes, manager, TypedChange, Inv, TypeOK, Counted
<1>6. SoundChange(s, x)
  BY <1>2, <1>3 DEF SoundChange, Inv, Tidy, Orderly, Unanswered
<1>7. KeepingChange(s, x)
  BY <1>2 DEF KeepingChange, Inv, NotAnswered, Remembered, Exempt, Unsettled, Sessions
<1> QED BY <1>2, <1>4, <1>5, <1>6, <1>7, OneSession

\* Synced keeps the invariant.
LEMMA SyncedInv ==
    ASSUME Inv, NEW m \in Messages, Synced(m)
    PROVE  Inv'
<1>1. PICK place \in {"usage", "ready"} : send' = [send EXCEPT ![m].at = place]
  BY DEF Synced
<1>2. send[m].at \notin Ended
  BY DEF Synced, Ended
<1> QED BY <1>1, <1>2, GoesOnInv DEF Synced, thread, manager, counts, history

\* Before the message: /compact, which is no message.
Compacting(x, m) == [x EXCEPT !.comp = m, !.inflight = TRUE, !.pipe = Append(x.pipe, Compact)]

\* A compaction is one more turn in the channel.
LEMMA CompactingFields ==
    ASSUME NEW x \in SessionRecord, NEW m \in Messages
    PROVE  LET y == Compacting(x, m) IN
           /\ y \in SessionRecord /\ y.inflight /\ y.pipe = Append(x.pipe, Compact) /\ y.work = x.work
           /\ y.query = x.query /\ y.chan = x.chan /\ y.held = x.held /\ y.intr = x.intr /\ y.stop = x.stop
           /\ y.last = x.last /\ y.backoff = x.backoff /\ y.turn = x.turn /\ y.replay = x.replay
           /\ y.ending = x.ending
<1> DEFINE p == Append(x.pipe, Compact)
<1>1. p \in Seq(Inputs) /\ m \in Messages \cup {0}
  BY FieldTypes, Numbers, OfAppend
<1>2. Compacting(x, m) = [x EXCEPT !.comp = m, !.inflight = TRUE, !.pipe = p]
  BY DEF Compacting
<1> HIDE DEF p
<1>3. Compacting(x, m) \in SessionRecord
  BY <1>1, <1>2, ZenonT(60) DEF SessionRecord
<1>4. Compacting(x, m).pipe = p
  BY <1>2 DEF SessionRecord
<1> QED BY <1>2, <1>3, <1>4 DEF SessionRecord, p

\* A compaction that begins keeps the invariant.
LEMMA CompactingInv ==
    ASSUME Inv, NEW m \in Messages, Quiet, send[m].at = "usage", NEW s, s = send[m].ses,
           ses[s].query = "live", ses' = [ses EXCEPT ![s] = Compacting(ses[s], m)],
           send' = [send EXCEPT ![m].at = "compact"], compacts' \in 0 .. MaxCompacts,
           odd \subseteq odd', odd' \subseteq Oddities,
           UNCHANGED <<sent, shown, pending, id, current, made, rebuild, gone, stops, faults, rebuilds,
                       answered, told, dropped>>
    PROVE  Inv'
<1> DEFINE x == ses[s]
           y == Compacting(x, m)
<1>1. s \in Sessions /\ s <= made
  <2>1. m <= sent
    BY DEF Inv, Counted, TypeOK, Messages
  <2> QED BY <2>1 DEF Inv, Counted, TypeOK, Sessions
<1>2. x \in SessionRecord /\ x.query = "live" /\ x.replay = 0 /\ (current # 0 => current \in Sessions)
  BY <1>1, QuietReplay DEF Inv, TypeOK
<1>3. /\ x.pipe \in Seq(Inputs) /\ x.work \in Seq(Inputs) /\ Queue(x) \in Seq(Inputs) /\ Compact \in Inputs
  BY <1>2, FieldTypes, Numbers
<1>4. /\ y \in SessionRecord /\ y.inflight /\ y.pipe = Append(x.pipe, Compact) /\ y.work = x.work
      /\ y.query = x.query /\ y.chan = x.chan /\ y.held = x.held /\ y.intr = x.intr /\ y.stop = x.stop
      /\ y.last = x.last /\ y.backoff = x.backoff /\ y.turn = x.turn /\ y.replay = x.replay
      /\ y.ending = x.ending
  BY <1>2, CompactingFields
<1> HIDE DEF y
<1>5. Queue(y) = Append(Queue(x), Compact)
  <2>1. Queue(y) = x.work \o Append(x.pipe, Compact)
    BY <1>4 DEF Queue
  <2> QED BY <1>3, <2>1, QueueAppend DEF Queue
<1>6. /\ Queue(y) # <<>> /\ Of(Queue(y)) = Of(Queue(x))
      /\ Queue(x) # <<>> => Head(Queue(y)) = Head(Queue(x))
  <2> DEFINE q == Queue(x)
  <2>1. q \in Seq(Inputs) /\ Queue(y) = Append(q, Compact)
    BY <1>3, <1>5
  <2> HIDE DEF q
  <2>2. /\ Queue(y) # <<>> /\ Of(Queue(y)) = Of(q) \cup ({Compact} \cap Messages)
        /\ q # <<>> => Head(Queue(y)) = Head(q)
    BY <1>3, <2>1, OfAppend
  <2> QED BY <2>2, Numbers DEF q
<1>7. Changes(s, y) /\ Moves(send, send') /\ TypedChange
  <2>1. /\ Moves(send, send')
        /\ send' \in [Messages -> [at: {"unsent", "probe", "sync", "usage", "compact", "ready", "done", "failed"},
                                   ses: Sessions \cup {0}, resume: BOOLEAN]]
    BY DEF Moves, Ended, Inv, TypeOK
  <2> QED BY <2>1 DEF y, Changes, manager, TypedChange, Inv, TypeOK, Counted
<1>8. SoundChange(s, y)
  <2>1. TidySession(y, s = current, stops)
    BY <1>1, <1>2, <1>4 DEF Inv, Tidy, TidySession
  <2>2. "revived" \notin odd' => OrderlySession(y, s = current, odd')
    BY <1>1, <1>2, <1>4, <1>6 DEF Inv, Orderly, OrderlySession
  <2>3. ASSUME "again" \notin odd' PROVE FreshSession(y, answered')
    <3>1. FreshSession(x, answered)
      BY <1>1, <2>3 DEF Inv, Unanswered
    <3>2. x.last \in Messages => Newest(Queue(y), x.last)
      BY <1>3, <1>5, <3>1, NewestAppend, Numbers DEF FreshSession
    <3> QED BY <1>4, <1>6, <3>1, <3>2 DEF FreshSession
  <2>4. MessagesOf(y) \subseteq MessagesOf(x)
    BY <1>4, <1>6 DEF MessagesOf
  <2> QED BY <1>4, <2>1, <2>2, <2>3, <2>4 DEF SoundChange
<1>9. KeepingChange(s, y)
  <2>1. Unsettled' = Unsettled /\ (~Exempt' => ~Exempt)
    BY DEF Unsettled, Exempt
  <2>2. ASSUME s = current, ~Exempt, ~gone PROVE Keeps(y, Unsettled)
    <3>1. Keeps(x, Unsettled) /\ ~x.backoff
      BY <1>1, <1>2, <2>2 DEF Inv, Remembered, Tidy, TidySession, Sessions
    <3> QED BY <1>2, <1>4, <1>6, <3>1 DEF Keeps
  <2>3. Kept(x) \subseteq Kept(y)
    BY <1>4, <1>6 DEF Kept
  <2> QED BY <2>1, <2>2, <2>3 DEF KeepingChange, Inv, NotAnswered, Remembered
<1> QED BY <1>1, <1>7, <1>8, <1>9, OneSession

\* A session that cannot be sent to: the caller gets the error.
Refusing(x, c, a, l) == [x EXCEPT !.comp = c, !.auth = a, !.last = l]

\* A send() that ends in an error keeps the invariant.
LEMMA RefusedInv ==
    ASSUME Inv, NEW m \in Messages, send[m].at \notin Ended, NEW s, s = send[m].ses,
           ses[s].query # "none", ~ses[s].chan,
           NEW c \in Messages \cup {0}, NEW a \in 0 .. AuthRetries, NEW l \in {m, ses[s].last},
           ses' = [ses EXCEPT ![s] = Refusing(ses[s], c, a, l)],
           send' = [send EXCEPT ![m].at = "failed"], told' = told \cup {m}, compacts' \in 0 .. MaxCompacts,
           odd \subseteq odd', odd' \subseteq Oddities,
           UNCHANGED <<sent, shown, pending, id, current, made, rebuild, gone, stops, faults, rebuilds,
                       answered, dropped>>
    PROVE  Inv'
<1> DEFINE x == ses[s]
           y == Refusing(x, c, a, l)
<1>1. s \in Sessions /\ s <= made
  <2>1. m <= sent
    BY DEF Inv, Counted, TypeOK, Messages, Ended
  <2> QED BY <2>1 DEF Inv, Counted, TypeOK, Sessions
<1>2. x \in SessionRecord /\ TidySession(x, s = current, stops)
  BY <1>1 DEF Inv, TypeOK, Tidy
<1>3. l \in Inputs \cup {0} /\ x.held \subseteq Messages /\ Queue(x) \in Seq(Inputs)
  BY <1>2, FieldTypes, Numbers
<1>4. /\ y \in SessionRecord /\ y.last = l
      /\ y.inflight = x.inflight /\ y.pipe = x.pipe /\ y.work = x.work
      /\ y.query = x.query /\ y.chan = x.chan /\ y.held = x.held /\ y.intr = x.intr /\ y.stop = x.stop
      /\ y.backoff = x.backoff /\ y.turn = x.turn /\ y.replay = x.replay
      /\ y.ending = x.ending
  <2>1. y \in SessionRecord
    BY <1>2, <1>3, ZenonT(60) DEF Refusing, SessionRecord
  <2> QED BY <1>2, <2>1, SMTT(30) DEF Refusing, SessionRecord
<1> HIDE DEF y
<1>5. Queue(y) = Queue(x)
  BY <1>4 DEF Queue
<1>6. s # current /\ "revived" \in odd /\ "revived" \in odd'
  BY <1>1, <1>2 DEF TidySession, Inv, Orderly, OrderlySession
<1>7. Changes(s, y) /\ Continues(send, send') /\ TypedChange
  <2>1. /\ Continues(send, send')
        /\ send' \in [Messages -> [at: {"unsent", "probe", "sync", "usage", "compact", "ready", "done", "failed"},
                                   ses: Sessions \cup {0}, resume: BOOLEAN]]
    BY DEF Continues, Ended, Inv, TypeOK
  <2> QED BY <2>1 DEF y, Changes, manager, TypedChange, Inv, TypeOK, Counted
<1>8. SoundChange(s, y)
  <2>1. TidySession(y, s = current, stops)
    BY <1>2, <1>4, <1>6, Numbers, SMTT(30) DEF TidySession
  <2>2. m \notin MessagesOf(x) /\ m \notin answered
    BY <1>1 DEF Inv, Owned, Ended
  <2>3. ASSUME "again" \notin odd' PROVE FreshSession(y, answered')
    <3>1. FreshSession(x, answered)
      BY <1>1, <2>3 DEF Inv, Unanswered
    <3>2. m \notin Of(Queue(x)) /\ m \notin x.held /\ m # x.turn
      BY <2>2 DEF MessagesOf
    <3>3. Newest(Queue(x), m)
      BY <1>3, <3>2, NewestAbsent
    <3> QED BY <1>4, <1>5, <2>2, <3>1, <3>2, <3>3 DEF FreshSession
  <2>4. m \in Arrived(s)
    BY DEF Arrived, Inv, TypeOK
  <2>5. MessagesOf(y) \subseteq MessagesOf(x) \cup Arrived(s)
    BY <1>4, <1>5, <2>4, ZenonT(60) DEF MessagesOf
  <2> QED BY <1>4, <1>6, <2>1, <2>3, <2>5 DEF SoundChange
<1>9. KeepingChange(s, y) /\ Delivers(s, y)
  <2>1. Exempt'
    BY <1>6 DEF Exempt
  <2> QED BY <2>1 DEF KeepingChange, Delivers, Inv, NotAnswered
<1> QED BY <1>1, <1>7, <1>8, <1>9, SessionChange

\* Usage keeps the invariant.
LEMMA UsageInv ==
    ASSUME Inv, NEW m \in Messages, Usage(m)
    PROVE  Inv'
<1> DEFINE s == send[m].ses
           x == ses[s]
<1>1. /\ Quiet /\ send[m].at = "usage" /\ send[m].at \notin Ended
      /\ UNCHANGED <<sent, shown, pending, id, current, made, rebuild, gone, stops, faults, rebuilds,
                     answered, dropped>>
  BY DEF Usage, thread, manager, Ended
<1>2. s \in Sessions
  <2>1. m <= sent
    BY <1>1 DEF Inv, Counted, TypeOK, Messages
  <2> QED BY <2>1 DEF Inv, Counted, TypeOK, Sessions
<1>3. x \in SessionRecord
  BY <1>2 DEF Inv, TypeOK
<1>4. CASE send' = [send EXCEPT ![m].at = "ready"] /\ UNCHANGED <<ses, compacts, told, odd>>
  BY <1>1, <1>4, GoesOnInv
<1>5. CASE /\ x.query = "live" /\ compacts < MaxCompacts /\ compacts' = compacts + 1
           /\ IF x.chan
              THEN /\ ses' = [ses EXCEPT ![s].comp = m, ![s].inflight = TRUE, ![s].pipe = Append(@, Compact)]
                   /\ send' = [send EXCEPT ![m].at = "compact"]
                   /\ UNCHANGED told
              ELSE /\ ses' = [ses EXCEPT ![s].comp = m]
                   /\ send' = [send EXCEPT ![m].at = "failed"]
                   /\ told' = told \cup {m}
           /\ odd' = odd \cup (IF x.comp # 0 THEN {"overwritten"} ELSE {})
  <2>1. compacts' \in 0 .. MaxCompacts
    <3>1. compacts \in 0 .. MaxCompacts /\ MaxCompacts \in Nat
      BY BoundsAssumption DEF Inv, TypeOK
    <3> QED BY <1>5, <3>1, SMTT(30)
  <2>2. odd \subseteq odd' /\ odd' \subseteq Oddities
    BY <1>5 DEF Inv, TypeOK, Oddities
  <2>3. CASE x.chan
    <3>1. ses' = [ses EXCEPT ![s].comp = m, ![s].inflight = TRUE, ![s].pipe = Append(@, Compact)]
      BY <1>5, <2>3
    <3>2. ses' = [ses EXCEPT ![s] = Compacting(x, m)]
      BY <1>2, <1>3, <3>1 DEF Compacting, Inv, TypeOK
    <3> QED BY <1>1, <1>5, <2>1, <2>2, <2>3, <3>2, CompactingInv
  <2>4. CASE ~x.chan
    <3>1. x.auth \in 0 .. AuthRetries /\ x.last \in {m, x.last} /\ m \in Messages \cup {0}
      BY <1>3 DEF SessionRecord
    <3>2. [x EXCEPT !.comp = m] = Refusing(x, m, x.auth, x.last)
      BY <1>3 DEF Refusing, SessionRecord
    <3>3. ses' = [ses EXCEPT ![s] = Refusing(x, m, x.auth, x.last)]
      BY <1>5, <2>4, <3>2
    <3> QED BY <1>1, <1>5, <2>1, <2>2, <2>4, <3>1, <3>3, RefusedInv
  <2> QED BY <2>3, <2>4
<1> QED BY <1>4, <1>5 DEF Usage

\* The message reaches the agent.
LEMMA PushedInv ==
    ASSUME Inv, NEW m \in Messages, send[m].at \notin Ended, NEW s, s = send[m].ses, NEW y \in SessionRecord,
           y.last = m, y.pipe = Append(ses[s].pipe, m), y.work = ses[s].work, y.held = ses[s].held, y.inflight,
           y.backoff = ses[s].backoff, y.turn = ses[s].turn, y.replay = ses[s].replay,
           y.ending = ses[s].ending,
           \/ /\ ses[s].query # "none" /\ ses[s].chan
              /\ y.query = ses[s].query /\ y.chan /\ y.intr = ses[s].intr /\ y.stop = ses[s].stop
           \/ /\ ses[s].query = "none" /\ (s # current => "revived" \in odd')
              /\ y.query = "live" /\ y.chan /\ ~y.intr /\ ~y.stop,
           ses' = [ses EXCEPT ![s] = y],
           send' = [send EXCEPT ![m].at = "done"], odd \subseteq odd', odd' \subseteq Oddities,
           UNCHANGED <<sent, shown, pending, id, current, made, rebuild, gone, stops, faults, rebuilds, compacts,
                       answered, told, dropped>>
    PROVE  Inv'
<1> DEFINE x == ses[s]
<1>1. s \in Sessions /\ s <= made
  <2>1. m <= sent
    BY DEF Inv, Counted, TypeOK, Messages, Ended
  <2> QED BY <2>1 DEF Inv, Counted, TypeOK, Sessions
<1>2. /\ x \in SessionRecord /\ TidySession(x, s = current, stops)
      /\ (current # 0 => current \in Sessions) /\ x.query \in {"none", "live", "dead"}
  BY <1>1, FieldTypes DEF Inv, TypeOK, Tidy
<1>3. /\ x.pipe \in Seq(Inputs) /\ x.work \in Seq(Inputs) /\ Queue(x) \in Seq(Inputs)
      /\ x.held \subseteq Messages /\ m \in Inputs
      /\ Of(Queue(x)) = Of(x.work) \cup Of(x.pipe)
  BY <1>2, FieldTypes, Numbers
<1>4. Queue(y) = Append(Queue(x), m)
  <2>1. Queue(y) = x.work \o Append(x.pipe, m)
    BY DEF Queue
  <2>2. x.work \o Append(x.pipe, m) = Append(x.work \o x.pipe, m)
    <3> DEFINE p == x.work
               q == x.pipe
    <3>1. p \in Seq(Inputs) /\ q \in Seq(Inputs) /\ m \in Inputs
      BY <1>3
    <3> HIDE DEF p, q, x
    <3>2. p \o Append(q, m) = Append(p \o q, m)
      BY ONLY <3>1, QueueAppend
    <3> QED BY ONLY <3>2 DEF p, q
  <2> QED BY <2>1, <2>2 DEF Queue
<1>5. /\ Queue(y) # <<>> /\ Of(Queue(y)) = Of(Queue(x)) \cup {m}
      /\ Queue(x) # <<>> => Head(Queue(y)) = Head(Queue(x))
      /\ Queue(x) = <<>> => Head(Queue(y)) = m
  <2> DEFINE q == Queue(x)
  <2>1. q \in Seq(Inputs) /\ Queue(y) = Append(q, m)
    BY <1>3, <1>4
  <2> HIDE DEF q
  <2>2. /\ Queue(y) # <<>> /\ Of(Queue(y)) = Of(q) \cup ({m} \cap Messages)
        /\ q # <<>> => Head(Queue(y)) = Head(q)
        /\ q = <<>> => Head(Queue(y)) = m
    <3>1. m \in Inputs
      BY <1>3
    <3> QED BY ONLY <2>1, <3>1, OfAppend
  <2> QED BY <2>2 DEF q
<1>6. x.query = "none" => Queue(x) = <<>> /\ Of(Queue(x)) = {} /\ x.held = {} /\ x.replay = 0
  <2> SUFFICES ASSUME x.query = "none" PROVE Queue(x) = <<>> /\ Of(Queue(x)) = {} /\ x.held = {} /\ x.replay = 0
    OBVIOUS
  <2>1. x.work = <<>> /\ x.pipe = <<>> /\ x.held = {} /\ x.replay = 0
    BY <1>2 DEF TidySession
  <2>2. x.work \o x.pipe = <<>>
    BY <1>3, <2>1, OfQueue
  <2> QED BY <2>1, <2>2, OfEmpty DEF Queue
<1>7. Changes(s, y) /\ Continues(send, send') /\ TypedChange
  <2>1. /\ Continues(send, send')
        /\ send' \in [Messages -> [at: {"unsent", "probe", "sync", "usage", "compact", "ready", "done", "failed"},
                                   ses: Sessions \cup {0}, resume: BOOLEAN]]
    BY DEF Continues, Ended, Inv, TypeOK
  <2> QED BY <2>1 DEF Changes, manager, TypedChange, Inv, TypeOK, Counted
<1>8. m \notin MessagesOf(x) /\ m \notin answered
  BY <1>1 DEF Inv, Owned, Ended
<1>9. /\ m \notin Of(Queue(x)) /\ m \notin x.held /\ m # x.turn /\ m # x.replay
  BY <1>8 DEF MessagesOf
<1>10. "revived" \notin odd' => s = current /\ OrderlySession(x, TRUE, odd)
  BY <1>1 DEF Inv, Orderly, OrderlySession
<1>11. SoundChange(s, y)
  <2>1. TidySession(y, s = current, stops)
    <3>1. Compact \notin {m, x.turn, x.replay}
      BY <1>2, Numbers DEF TidySession
    <3> QED BY <1>2, <3>1 DEF TidySession
  <2>2. ASSUME "revived" \notin odd' PROVE OrderlySession(y, s = current, odd')
    <3>1. s = current /\ OrderlySession(x, TRUE, odd)
      BY <1>10, <2>2
    <3> QED BY <1>2, <1>5, <3>1 DEF OrderlySession
  <2>3. ASSUME "again" \notin odd' PROVE FreshSession(y, answered')
    <3>1. FreshSession(x, answered)
      BY <1>1, <2>3 DEF Inv, Unanswered
    <3>2. Newest(Queue(y), m)
      BY <1>3, <1>4, <1>9, NewestAppend, ZenonT(90)
    <3>3. y.query = "live" /\ y.turn \in Messages =>
                                 /\ y.turn \notin Of(Queue(y)) /\ y.turn \notin y.held
                                 /\ y.turn # m /\ y.turn # y.replay
      <4>1. CASE x.query = "none"
        BY <1>5, <1>6, <1>9, <4>1, Numbers, SMTT(30)
      <4>2. CASE x.query # "none" /\ y.query = "live"
        BY <1>5, <1>9, <3>1, <4>2 DEF FreshSession
      <4> QED BY <4>1, <4>2
    <3> QED BY <1>5, <1>8, <1>9, <3>1, <3>2, <3>3 DEF FreshSession
  <2>4. m \in Arrived(s)
    BY DEF Arrived, Inv, TypeOK
  <2>5. MessagesOf(y) \subseteq MessagesOf(x) \cup Arrived(s)
    BY <1>5, <2>4 DEF MessagesOf
  <2> QED BY <2>1, <2>2, <2>3, <2>5 DEF SoundChange
<1>12. Unsettled' = Unsettled /\ (~Exempt' => ~Exempt)
  BY DEF Unsettled, Exempt
<1>13. KeepingChange(s, y)
  <2>1. ASSUME s = current, ~Exempt, ~gone PROVE Keeps(y, Unsettled) /\ Kept(x) \subseteq Kept(y)
    <3>1. Keeps(x, Unsettled)
      BY <1>1, <2>1 DEF Inv, Remembered, Sessions
    <3>2. Head(Queue(y)) # Compact \/ (Queue(x) # <<>> /\ Head(Queue(y)) = Head(Queue(x)))
      BY <1>5, Numbers
    <3>3. Kept(x) \subseteq Kept(y)
      BY <1>5 DEF Kept
    <3>4. m # 0
      BY Numbers
    <3> QED BY <1>5, <3>1, <3>2, <3>3, <3>4 DEF Keeps
  <2> QED BY <1>12, <2>1 DEF KeepingChange, Inv, NotAnswered, Remembered
<1>14. Delivers(s, y)
  <2> SUFFICES ASSUME ~Exempt', ~gone, NEW n \in Unsettled', send[n].at \notin Ended, send'[n].at \in Ended
               PROVE  s = current /\ n \in Kept(y)
    BY DEF Delivers
  <2>1. s = current
    BY <1>10 DEF Exempt
  <2>2. n = m
    BY DEF Unsettled, Inv, TypeOK
  <2> QED BY <1>5, <2>1, <2>2 DEF Kept
<1> QED BY <1>1, <1>7, <1>11, <1>13, <1>14, SessionChange

\* Push keeps the invariant, also when it brings a session back.
LEMMA PushInv ==
    ASSUME Inv, NEW m \in Messages, Push(m)
    PROVE  Inv'
<1> DEFINE s == send[m].ses
           was == ses[s]
           x == [was EXCEPT !.auth = 0]
<1>1. /\ send[m].at = "ready" /\ send[m].at \notin Ended
      /\ UNCHANGED <<sent, shown, pending, id, current, made, rebuild, gone, stops, faults, rebuilds, compacts,
                     answered, dropped>>
      /\ send[m].resume \in BOOLEAN /\ compacts \in 0 .. MaxCompacts
  BY DEF Push, thread, manager, counts, Ended, Inv, TypeOK
<1>2. s \in Sessions
  <2>1. m <= sent
    BY <1>1 DEF Inv, Counted, TypeOK, Messages
  <2> QED BY <2>1 DEF Inv, Counted, TypeOK, Sessions
<1>3. was \in SessionRecord /\ TidySession(was, s = current, stops) /\ m \in Inputs
  BY <1>2, Numbers DEF Inv, TypeOK, Tidy
<1>4. /\ x \in SessionRecord
      /\ x.query = was.query /\ x.chan = was.chan /\ x.pipe = was.pipe /\ x.work = was.work
      /\ x.held = was.held /\ x.intr = was.intr /\ x.stop = was.stop /\ x.backoff = was.backoff
      /\ x.turn = was.turn /\ x.replay = was.replay /\ x.ending = was.ending
  <2>1. x \in SessionRecord
    <3>1. 0 \in 0 .. AuthRetries
      BY BoundsAssumption
    <3> QED BY <1>3, <3>1 DEF SessionRecord
  <2> QED BY <1>3, <2>1 DEF SessionRecord
<1>5. \/ /\ was.query = "none"
         /\ ses' = [ses EXCEPT ![s] = Pushed(Opened(x, send[m].resume), m)]
         /\ send' = [send EXCEPT ![m].at = "done"]
         /\ odd' = odd \cup (IF s # current THEN {"revived"} ELSE {})
         /\ UNCHANGED told
      \/ /\ was.query # "none" /\ was.chan
         /\ ses' = [ses EXCEPT ![s] = Pushed(x, m)]
         /\ send' = [send EXCEPT ![m].at = "done"]
         /\ UNCHANGED <<odd, told>>
      \/ /\ was.query # "none" /\ ~was.chan
         /\ ses' = [ses EXCEPT ![s] = [x EXCEPT !.last = m]]
         /\ send' = [send EXCEPT ![m].at = "failed"]
         /\ told' = told \cup {m}
         /\ UNCHANGED odd
  BY <1>4 DEF Push
<1>6. odd \subseteq odd' /\ odd' \subseteq Oddities
  BY <1>5 DEF Inv, TypeOK, Oddities
<1>7. CASE /\ was.query = "none"
           /\ ses' = [ses EXCEPT ![s] = Pushed(Opened(x, send[m].resume), m)]
           /\ send' = [send EXCEPT ![m].at = "done"]
           /\ odd' = odd \cup (IF s # current THEN {"revived"} ELSE {})
           /\ UNCHANGED told
  <2> DEFINE o == Opened(x, send[m].resume)
             y == Pushed(o, m)
  <2>1. /\ o \in SessionRecord
        /\ o.query = "live" /\ o.chan /\ o.pipe = <<>> /\ o.work = <<>> /\ ~o.intr /\ ~o.stop
        /\ o.backoff = x.backoff /\ o.turn = x.turn
        /\ o.replay = x.replay /\ o.held = x.held /\ o.ending = x.ending
    <3> DEFINE r == send[m].resume
    <3>1. r \in BOOLEAN /\ x \in SessionRecord
      BY <1>1, <1>4
    <3> HIDE DEF r, x
    <3>2. /\ Opened(x, r) \in SessionRecord
          /\ Opened(x, r).query = "live" /\ Opened(x, r).chan /\ Opened(x, r).pipe = <<>>
          /\ Opened(x, r).work = <<>> /\ ~Opened(x, r).intr /\ ~Opened(x, r).stop
          /\ Opened(x, r).backoff = x.backoff /\ Opened(x, r).turn = x.turn
          /\ Opened(x, r).replay = x.replay /\ Opened(x, r).held = x.held /\ Opened(x, r).ending = x.ending
      BY ONLY <3>1, OpenedFields
    <3> QED BY <3>2 DEF r
  <2>2. ses' = [ses EXCEPT ![s] = y]
    BY <1>7
  <2> HIDE DEF o, x
  <2>3. /\ y \in SessionRecord
        /\ y.last = m /\ y.pipe = Append(o.pipe, m) /\ y.inflight
        /\ y.query = o.query /\ y.chan = o.chan /\ y.work = o.work /\ y.held = o.held
        /\ y.intr = o.intr /\ y.stop = o.stop /\ y.backoff = o.backoff
        /\ y.turn = o.turn /\ y.replay = o.replay /\ y.ending = o.ending
    <3>1. o \in SessionRecord /\ m \in Inputs
      BY <1>3, <2>1
    <3> QED BY ONLY <3>1, PushedFields
  <2> HIDE DEF y
  <2>4. was.pipe = <<>> /\ was.work = <<>>
    BY <1>3, <1>7 DEF TidySession
  <2>5. s # current => "revived" \in odd'
    BY <1>7
  <2>6. /\ y.last = m /\ y.pipe = Append(was.pipe, m) /\ y.work = was.work /\ y.held = was.held /\ y.inflight
        /\ y.backoff = was.backoff /\ y.turn = was.turn /\ y.replay = was.replay /\ y.ending = was.ending
        /\ y.query = "live" /\ y.chan /\ ~y.intr /\ ~y.stop
    BY <1>4, <2>1, <2>3, <2>4
  <2>7. UNCHANGED <<sent, shown, pending, id, current, made, rebuild, gone, stops, faults, rebuilds, compacts,
                     answered, told, dropped>>
    BY <1>1, <1>7
  <2>8. \/ /\ was.query # "none" /\ was.chan
           /\ y.query = was.query /\ y.chan /\ y.intr = was.intr /\ y.stop = was.stop
        \/ /\ was.query = "none" /\ (s # current => "revived" \in odd')
           /\ y.query = "live" /\ y.chan /\ ~y.intr /\ ~y.stop
    BY <1>7, <2>5, <2>6
  <2>9. y \in SessionRecord /\ send' = [send EXCEPT ![m].at = "done"]
    BY <1>7, <2>3
  <2> QED BY <1>1, <1>6, <2>2, <2>6, <2>7, <2>8, <2>9, PushedInv
<1>8. CASE /\ was.query # "none" /\ was.chan
           /\ ses' = [ses EXCEPT ![s] = Pushed(x, m)]
           /\ send' = [send EXCEPT ![m].at = "done"]
           /\ UNCHANGED <<odd, told>>
  <2> DEFINE y == Pushed(x, m)
  <2>1. ses' = [ses EXCEPT ![s] = y]
    BY <1>8
  <2> HIDE DEF x
  <2>2. /\ y \in SessionRecord
        /\ y.last = m /\ y.pipe = Append(x.pipe, m) /\ y.inflight
        /\ y.query = x.query /\ y.chan = x.chan /\ y.work = x.work /\ y.held = x.held
        /\ y.intr = x.intr /\ y.stop = x.stop /\ y.backoff = x.backoff
        /\ y.turn = x.turn /\ y.replay = x.replay /\ y.ending = x.ending
    BY <1>3, <1>4, PushedFields
  <2> HIDE DEF y
  <2>3. /\ y.last = m /\ y.pipe = Append(was.pipe, m) /\ y.work = was.work /\ y.held = was.held /\ y.inflight
        /\ y.backoff = was.backoff /\ y.turn = was.turn /\ y.replay = was.replay /\ y.ending = was.ending
        /\ y.query = was.query /\ y.chan /\ y.intr = was.intr /\ y.stop = was.stop
    BY <1>4, <1>8, <2>2
  <2>4. UNCHANGED <<sent, shown, pending, id, current, made, rebuild, gone, stops, faults, rebuilds, compacts,
                     answered, told, dropped>>
    BY <1>1, <1>8
  <2>5. \/ /\ was.query # "none" /\ was.chan
           /\ y.query = was.query /\ y.chan /\ y.intr = was.intr /\ y.stop = was.stop
        \/ /\ was.query = "none" /\ (s # current => "revived" \in odd')
           /\ y.query = "live" /\ y.chan /\ ~y.intr /\ ~y.stop
    BY <1>8, <2>3
  <2>6. y \in SessionRecord /\ send' = [send EXCEPT ![m].at = "done"]
    BY <1>8, <2>2
  <2> QED BY <1>1, <1>6, <2>1, <2>3, <2>4, <2>5, <2>6, PushedInv
<1>9. CASE /\ was.query # "none" /\ ~was.chan
           /\ ses' = [ses EXCEPT ![s] = [x EXCEPT !.last = m]]
           /\ send' = [send EXCEPT ![m].at = "failed"]
           /\ told' = told \cup {m}
           /\ UNCHANGED odd
  <2>1. 0 \in 0 .. AuthRetries /\ was.comp \in Messages \cup {0} /\ m \in {m, was.last}
    <3>1. was \in SessionRecord
      BY <1>3
    <3> HIDE DEF was
    <3>2. was.comp \in Messages \cup {0}
      BY ONLY <3>1 DEF SessionRecord
    <3> QED BY ONLY <3>2, BoundsAssumption
  <2>2. [x EXCEPT !.last = m] = Refusing(was, was.comp, 0, m)
    BY <1>3 DEF Refusing, SessionRecord
  <2>3. ses' = [ses EXCEPT ![s] = Refusing(was, was.comp, 0, m)]
    BY <1>9, <2>2
  <2> QED BY <1>1, <1>6, <1>9, <2>1, <2>3, RefusedInv, ZenonT(60)
<1> QED BY <1>5, <1>7, <1>8, <1>9

-----------------------------------------------------------------------------
(* A sendMessage() begins, or has asked about the MCP servers.             *)

\* The message of a sendMessage() that begins, or has probed.
Calls(m) ==
    \/ /\ sent' = sent + 1 /\ m = sent + 1 /\ sent < MaxSends /\ ~gone
       /\ shown' = shown \cup {m} /\ pending' = pending \cup {m}
    \/ send[m].at = "probe" /\ UNCHANGED <<sent, shown, pending>>

\* Its message is new to every session, and shown and pending.
LEMMA Called ==
    ASSUME Inv, NEW m \in Messages, Calls(m)
    PROVE  /\ sent' \in 0 .. MaxSends /\ m <= sent' /\ sent <= sent'
           /\ \A k \in Messages : k # m => (k > sent' <=> k > sent) /\ (k <= sent' => k <= sent)
           /\ send[m].at \notin {"done", "failed"}
           /\ shown' \subseteq 1 .. sent' /\ shown' \subseteq Messages /\ pending' \subseteq shown'
           /\ shown' \subseteq shown \cup {m} /\ pending' \subseteq pending \cup {m}
           /\ m \in shown' \ shown => m \in pending'
           /\ pending \subseteq pending'
           /\ gone => shown' = {} /\ pending' = {}
           /\ m \notin answered
           /\ \A s \in Sessions : m \notin MessagesOf(ses[s])
<1>1. sent \in 0 .. MaxSends /\ MaxSends \in Nat /\ m \in 1 .. MaxSends
  BY BoundsAssumption DEF Inv, TypeOK, Messages
<1>2. shown \subseteq 1 .. sent /\ pending \subseteq shown /\ (send[m].at = "unsent" <=> m > sent)
  BY DEF Inv, Counted
<1>3. send[m].at \notin {"done", "failed"}
  BY <1>1, <1>2 DEF Calls
<1>4. m \notin answered /\ \A s \in Sessions : m \notin MessagesOf(ses[s])
  BY <1>3 DEF Inv, Owned
<1>5. CASE /\ sent' = sent + 1 /\ m = sent + 1 /\ sent < MaxSends /\ ~gone
           /\ shown' = shown \cup {m} /\ pending' = pending \cup {m}
  <2>1. sent' \in 0 .. MaxSends /\ m <= sent' /\ sent <= sent' /\ m \in 1 .. sent'
    BY <1>1, <1>5
  <2>2. \A k \in Messages : k # m => (k > sent' <=> k > sent) /\ (k <= sent' => k <= sent)
    BY <1>1, <1>5 DEF Messages
  <2>3. shown' \subseteq 1 .. sent' /\ shown' \subseteq Messages
    <3>1. 1 .. sent \subseteq 1 .. sent' /\ 1 .. sent' \subseteq Messages
      BY <1>1, <1>5 DEF Messages
    <3> QED BY <1>2, <1>5, <2>1, <3>1
  <2> QED BY <1>2, <1>3, <1>4, <1>5, <2>1, <2>2, <2>3
<1>6. CASE send[m].at = "probe" /\ UNCHANGED <<sent, shown, pending>>
  <2>1. m <= sent
    BY <1>1, <1>2, <1>6
  <2>2. shown \subseteq Messages /\ (gone => shown = {} /\ pending = {})
    BY DEF Inv, TypeOK, Counted
  <2> QED BY <1>1, <1>2, <1>3, <1>4, <1>6, <2>1, <2>2
<1> QED BY <1>5, <1>6 DEF Calls

\* A bound that is raised is kept.
LEMMA Raised == \A a, b, c, d \in Nat : a + d <= b + 1 /\ b <= c => a + d <= c + 1
OBVIOUS

\* It waits with a session that stays.
LEMMA StaysInv ==
    ASSUME Inv, NEW m \in Messages, Calls(m), NEW place \in {"probe", "sync"}, NEW t \in Sessions, t <= made,
           send' = [send EXCEPT ![m] = At(place, t)],
           rebuilds' \in 0 .. MaxRebuilds, rebuilds <= rebuilds',
           UNCHANGED <<id, current, made, rebuild, gone, ses, stops, faults, compacts,
                       answered, told, dropped, odd>>
    PROVE  Inv'
<1> DEFINE R == [at: {"unsent", "probe", "sync", "usage", "compact", "ready", "done", "failed"},
                 ses: Sessions \cup {0}, resume: BOOLEAN]
<1>1. /\ sent' \in 0 .. MaxSends /\ m <= sent'
      /\ \A k \in Messages : k # m => (k > sent' <=> k > sent) /\ (k <= sent' => k <= sent)
      /\ shown' \subseteq 1 .. sent' /\ shown' \subseteq Messages /\ pending' \subseteq shown'
      /\ shown' \subseteq shown \cup {m} /\ pending' \subseteq pending \cup {m}
      /\ m \in shown' \ shown => m \in pending'
      /\ pending \subseteq pending'
      /\ gone => shown' = {} /\ pending' = {}
      /\ m \notin answered
      /\ \A s \in Sessions : m \notin MessagesOf(ses[s])
  BY Called
<1>2. At(place, t) \in R /\ At(place, t).at = place /\ At(place, t).ses = t
  BY DEF At, Inv, TypeOK
<1>3. send' \in [Messages -> R] /\ send'[m] = At(place, t) /\ \A k \in Messages : k # m => send'[k] = send[k]
  BY <1>2 DEF Inv, TypeOK
<1>4. TypeOK'
  BY <1>1, <1>3 DEF Inv, TypeOK
<1>5. Counted'
  <2>1. \A k \in Messages : send'[k].at = "unsent" <=> k > sent'
    <3>1. ~(m > sent')
      BY <1>1 DEF Messages
    <3> QED BY <1>1, <1>2, <1>3, <3>1 DEF Inv, Counted
  <2>2. t \in 1 .. made
    BY DEF Sessions
  <2>3. \A k \in Messages : k <= sent' => send'[k].ses \in 1 .. made'
    BY <1>1, <1>2, <1>3, <2>2 DEF Inv, Counted
  <2>4. made' + (IF rebuild' THEN 1 ELSE 0) <= rebuilds' + 1
    <3> DEFINE asked == IF rebuild THEN 1 ELSE 0
    <3>1. made \in Nat /\ rebuilds \in Nat /\ rebuilds' \in Nat /\ asked \in Nat
      BY BoundsAssumption DEF Inv, TypeOK
    <3>2. made + asked <= rebuilds + 1
      BY DEF Inv, Counted
    <3>3. made + asked <= rebuilds' + 1
      <4> HIDE DEF asked
      <4> QED BY <3>1, <3>2, Raised
    <3> QED BY <3>3
  <2>5. /\ current' = 0 /\ ~gone' => made' = 0 /\ ~rebuild'
        /\ current' <= made'
        /\ \A s \in Sessions : s > made' => ses'[s] = NewSession
    BY DEF Inv, Counted
  <2>6. (gone' => shown' = {} /\ pending' = {}) /\ shown' \subseteq 1 .. sent' /\ pending' \subseteq shown'
    BY <1>1
  <2> QED BY <2>1, <2>3, <2>4, <2>5, <2>6 DEF Counted
<1>6. Tidy' /\ Orderly' /\ Unanswered'
  BY DEF Inv, Tidy, Orderly, Unanswered
<1>7. Owned'
  <2>1. \A s \in Sessions : \A k \in MessagesOf(ses[s]) : send'[k].ses = s /\ send'[k].at \in {"done", "failed"}
    BY <1>1, <1>3 DEF Inv, Owned, MessagesOf
  <2>2. \A k \in answered : send'[k].at \in {"done", "failed"}
    BY <1>1, <1>3 DEF Inv, Owned, TypeOK
  <2> QED BY <2>1, <2>2 DEF Owned
<1>8. Remembered'
  <2> SUFFICES ASSUME ~Exempt', ~gone PROVE
               /\ \A k \in Unsettled' : send'[k].at \notin Ended \/ (current # 0 /\ k \in Kept(ses[current]))
               /\ "crossed" \notin odd => Unsettled' \subseteq pending'
               /\ current # 0 => Keeps(ses[current], Unsettled')
    BY DEF Remembered, Keeps, Kept, Queue, Unsettled, Exempt
  <2>1. ~Exempt /\ (current # 0 => current \in Sessions)
    BY DEF Exempt, Inv, TypeOK
  <2>2. /\ \A k \in Unsettled : send[k].at \notin Ended \/ (current # 0 /\ k \in Kept(ses[current]))
        /\ "crossed" \notin odd => Unsettled \subseteq pending
        /\ current # 0 => Keeps(ses[current], Unsettled)
    BY <2>1 DEF Inv, Remembered
  <2>3. Unsettled' \subseteq Unsettled \cup {m} /\ Unsettled \subseteq Messages
    BY <1>1 DEF Unsettled, Inv, TypeOK
  <2>4. \A k \in Unsettled' : send'[k].at \notin Ended \/ (current # 0 /\ k \in Kept(ses[current]))
    BY <1>2, <1>3, <2>2, <2>3 DEF Ended
  <2>5. "crossed" \notin odd => Unsettled' \subseteq pending'
    BY <1>1, <2>2, <2>3 DEF Unsettled
  <2>6. current # 0 => Keeps(ses[current], Unsettled')
    <3> SUFFICES ASSUME current # 0 PROVE Keeps(ses[current], Unsettled')
      OBVIOUS
    <3> DEFINE x == ses[current]
    <3>1. x \in SessionRecord /\ m \notin MessagesOf(x)
      BY <1>1, <2>1 DEF Inv, TypeOK
    <3>2. Of(Queue(x)) = Of(x.work) \cup Of(x.pipe)
      BY <3>1, FieldTypes
    <3>3. m \notin x.held /\ m \notin Of(Queue(x)) /\ m \notin Of(x.work)
      BY <3>1, <3>2 DEF MessagesOf
    <3> QED BY <2>2, <2>3, <3>3 DEF Keeps
  <2> QED BY <2>4, <2>5, <2>6
<1>9. NotAnswered'
  BY <1>1 DEF Inv, NotAnswered
<1> QED BY <1>4, <1>5, <1>6, <1>7, <1>8, <1>9 DEF Inv

\* The number of sessions.
LEMMA SessionsFinite == IsFiniteSet(Sessions) /\ Cardinality(Sessions) = MaxRebuilds + 2
BY BoundsAssumption, FS_Interval DEF Sessions

\* The session is replaced by one that has done nothing.
LEMMA ReplaceInv ==
    ASSUME Inv, Quiet, NEW m \in Messages, Calls(m), NEW asked, Replaces(current, asked),
           Proceed(m, current, asked), rebuilds' \in 0 .. MaxRebuilds, made <= rebuilds',
           UNCHANGED <<id, gone, stops, faults, compacts, answered, told, odd>>
    PROVE  Inv'
<1> DEFINE R == [at: {"unsent", "probe", "sync", "usage", "compact", "ready", "done", "failed"},
                 ses: Sessions \cup {0}, resume: BOOLEAN]
           s == current
           n == made + 1
           x == ses[s]
           new == Opened(NewSession, id)
           base == IF s = 0 THEN send ELSE HungUp(send, s)
<1>1. /\ sent' \in 0 .. MaxSends /\ m <= sent'
      /\ \A k \in Messages : k # m => (k > sent' <=> k > sent) /\ (k <= sent' => k <= sent)
      /\ shown' \subseteq 1 .. sent' /\ shown' \subseteq Messages /\ pending' \subseteq shown'
      /\ shown' \subseteq shown \cup {m} /\ pending' \subseteq pending \cup {m}
      /\ m \in shown' \ shown => m \in pending'
      /\ pending \subseteq pending'
      /\ gone => shown' = {} /\ pending' = {}
      /\ m \notin answered
      /\ \A t \in Sessions : m \notin MessagesOf(ses[t])
  BY Called
<1>2. /\ made \in Nat /\ rebuilds' \in Nat /\ MaxRebuilds \in Nat /\ made <= MaxRebuilds
      /\ n \in Sessions /\ n > made /\ n # 0 /\ n \in 1 .. n
      /\ s \in Sessions \cup {0} /\ s <= made /\ s # n
  <2>1. made \in Nat /\ rebuilds' \in 0 .. MaxRebuilds /\ MaxRebuilds \in Nat /\ s \in Sessions \cup {0} /\ s <= made
    BY BoundsAssumption DEF Inv, TypeOK, Counted
  <2>2. s \in Int
    BY <2>1 DEF Sessions
  <2> QED BY <2>1, <2>2 DEF Sessions
<1>3. /\ made' = n /\ current' = n /\ rebuild' = FALSE
      /\ ses' = [t \in Sessions |-> IF t = n THEN new ELSE IF t = s THEN Closed(ses[t]) ELSE ses[t]]
      /\ send' = [base EXCEPT ![m] = At("usage", n)]
      /\ dropped' = IF s = 0 \/ ses[s].inflight THEN dropped
                    ELSE dropped \cup Of(ses[s].pipe) \cup Of(ses[s].work)
  BY DEF Proceed
<1>4. /\ new \in SessionRecord
      /\ new.query = "live" /\ new.chan /\ new.pipe = <<>> /\ new.work = <<>> /\ ~new.inflight /\ ~new.intr
      /\ ~new.stop /\ new.last = 0 /\ ~new.backoff /\ new.turn = 0 /\ new.replay = 0 /\ new.held = {}
      /\ new.ending = 0
  <2>1. id \in BOOLEAN
    BY DEF Inv, TypeOK
  <2>2. NewSession \in SessionRecord
    BY NewSessionFields
  <2>3. /\ new \in SessionRecord
        /\ new.query = "live" /\ new.chan /\ new.pipe = <<>> /\ new.work = <<>>
        /\ ~new.inflight /\ ~new.intr /\ ~new.stop
        /\ new.last = NewSession.last /\ new.backoff = NewSession.backoff /\ new.turn = NewSession.turn
        /\ new.replay = NewSession.replay /\ new.held = NewSession.held /\ new.ending = NewSession.ending
    BY ONLY <2>1, <2>2, OpenedFields
  <2> QED BY <2>3, NewSessionFields
<1> HIDE DEF new
<1>5. s # 0 => LET y == Closed(x) IN
               /\ x \in SessionRecord /\ s \in Sessions
               /\ y \in SessionRecord
               /\ y.query = "none" /\ ~y.chan /\ y.pipe = <<>> /\ y.work = <<>> /\ y.held = {}
               /\ ~y.inflight /\ ~y.stop
               /\ y.intr = x.intr /\ y.last = x.last /\ y.backoff = x.backoff /\ y.turn = x.turn
               /\ y.replay = x.replay
  BY <1>2, ClosedFields DEF Inv, TypeOK
<1>6. /\ ses' \in [Sessions -> SessionRecord] /\ ses'[n] = new
      /\ s # 0 => ses'[s] = Closed(x)
      /\ \A t \in Sessions : t # n /\ t # s => ses'[t] = ses[t]
  <2>1. \A t \in Sessions : ses'[t] = IF t = n THEN new ELSE IF t = s THEN Closed(ses[t]) ELSE ses[t]
    BY <1>3
  <2>2. \A t \in Sessions : ses[t] \in SessionRecord
    BY DEF Inv, TypeOK
  <2>3. \A t \in Sessions : ses'[t] \in SessionRecord
    BY <1>4, <2>1, <2>2, ClosedFields
  <2>4. ses' = [t \in Sessions |-> ses'[t]]
    BY <1>3
  <2> QED BY <1>2, <2>1, <2>3, <2>4
<1>7. /\ base \in [Messages -> R]
      /\ \A k \in Messages : /\ base[k].ses = send[k].ses
                             /\ base[k].at = "unsent" <=> send[k].at = "unsent"
                             /\ send[k].at \notin Ended => base[k].at \notin Ended
                             /\ send[k].at \in {"done", "failed"} => base[k].at = send[k].at
  <2>1. Moves(send, base) /\ base \in [Messages -> R]
    BY <1>2, SettledMoves DEF Inv, TypeOK
  <2> QED BY <2>1 DEF Moves, Ended
<1> HIDE DEF base
<1>8. /\ At("usage", n) \in R /\ At("usage", n).at = "usage" /\ At("usage", n).ses = n
      /\ send' \in [Messages -> R] /\ send'[m] = At("usage", n)
      /\ \A k \in Messages : k # m => send'[k] = base[k]
  <2>1. At("usage", n) \in R /\ At("usage", n).at = "usage" /\ At("usage", n).ses = n
    BY <1>2 DEF At, Inv, TypeOK
  <2> QED BY <1>3, <1>7, <2>1
<1>9. TypeOK'
  <2>1. made' \in 0 .. Cardinality(Sessions)
    BY <1>2, <1>3, SessionsFinite
  <2>2. dropped' \subseteq Messages
    BY <1>3 DEF Of, Inv, TypeOK
  <2> QED BY <1>1, <1>2, <1>3, <1>6, <1>8, <2>1, <2>2 DEF Inv, TypeOK
<1>10. Counted'
  <2>1. \A k \in Messages : send'[k].at = "unsent" <=> k > sent'
    <3>1. ~(m > sent')
      BY <1>1 DEF Messages
    <3> QED BY <1>1, <1>7, <1>8, <3>1 DEF Inv, Counted
  <2>2. \A k \in Messages : k <= sent' => send'[k].ses \in 1 .. made'
    <3>1. 1 .. made \subseteq 1 .. n
      BY <1>2
    <3> QED BY <1>1, <1>2, <1>3, <1>7, <1>8, <3>1 DEF Inv, Counted
  <2>3. made' + (IF rebuild' THEN 1 ELSE 0) <= rebuilds' + 1
    BY <1>2, <1>3
  <2>4. \A t \in Sessions : t > made' => ses'[t] = NewSession
    <3>1. \A t \in Sessions : t > n => t # n /\ t # s /\ t > made
      BY <1>2 DEF Sessions
    <3> QED BY <1>3, <1>6, <3>1 DEF Inv, Counted
  <2>5. current' <= made' /\ current' # 0
    BY <1>2, <1>3
  <2> QED BY <1>1, <2>1, <2>2, <2>3, <2>4, <2>5 DEF Counted
<1>11. \A t \in Sessions : t # n /\ t # s => t # current /\ t # current'
  BY <1>3
<1>12. Tidy'
  <2> SUFFICES ASSUME NEW t \in Sessions PROVE TidySession(ses'[t], t = n, stops)
    BY <1>3 DEF Tidy
  <2>1. CASE t = n
    BY <1>4, <1>6, <2>1, Numbers DEF TidySession
  <2>2. CASE t = s
    <3>1. TidySession(x, TRUE, stops) /\ x.replay = 0
      BY <2>2, QuietReplay DEF Inv, Tidy
    <3>2. s # 0
      BY <2>2 DEF Sessions
    <3> QED BY <1>2, <1>5, <1>6, <2>2, <3>1, <3>2 DEF TidySession
  <2>3. CASE t # n /\ t # s
    <3>1. TidySession(ses[t], FALSE, stops)
      BY <2>3 DEF Inv, Tidy
    <3> QED BY <1>6, <2>3, <3>1 DEF TidySession
  <2> QED BY <2>1, <2>2, <2>3
<1>13. Queue(new) = <<>> /\ (s # 0 => Queue(Closed(x)) = <<>>) /\ Of(<<>>) = {}
  BY <1>4, <1>5, OfQueue, OfEmpty DEF Queue
<1>14. Orderly'
  <2> SUFFICES ASSUME "revived" \notin odd, NEW t \in Sessions PROVE OrderlySession(ses'[t], t = n, odd)
    BY <1>3 DEF Orderly
  <2>1. CASE t = n
    BY <1>4, <1>6, <1>13, <2>1 DEF OrderlySession
  <2>2. CASE t = s
    <3>1. s # 0
      BY <2>2 DEF Sessions
    <3> QED BY <1>2, <1>5, <1>6, <1>13, <2>2, <3>1 DEF OrderlySession
  <2>3. CASE t # n /\ t # s
    <3>1. OrderlySession(ses[t], FALSE, odd)
      BY <2>3 DEF Inv, Orderly
    <3> QED BY <1>6, <2>3, <3>1 DEF OrderlySession
  <2> QED BY <2>1, <2>2, <2>3
<1>15. Owned'
  <2>1. MessagesOf(new) = {}
    BY <1>4, <1>13, Numbers DEF MessagesOf
  <2>2. s # 0 => MessagesOf(Closed(x)) \subseteq MessagesOf(x)
    BY <1>5, <1>13 DEF MessagesOf
  <2>3. \A t \in Sessions : MessagesOf(ses'[t]) \subseteq MessagesOf(ses[t])
    <3>1. 0 \notin Sessions
      BY DEF Sessions
    <3> QED BY <1>6, <2>1, <2>2, <3>1
  <2>4. \A t \in Sessions : \A k \in MessagesOf(ses'[t]) : send'[k].ses = t /\ send'[k].at \in {"done", "failed"}
    <3> SUFFICES ASSUME NEW t \in Sessions, NEW k \in MessagesOf(ses[t])
                 PROVE  send'[k].ses = t /\ send'[k].at \in {"done", "failed"}
      BY <2>3
    <3>1. k \in Messages /\ k # m /\ send[k].ses = t /\ send[k].at \in {"done", "failed"}
      BY <1>1 DEF Inv, Owned, MessagesOf
    <3> QED BY <1>7, <1>8, <3>1
  <2>5. \A k \in answered : send'[k].at \in {"done", "failed"}
    <3> SUFFICES ASSUME NEW k \in answered PROVE send'[k].at \in {"done", "failed"}
      OBVIOUS
    <3>1. k \in Messages /\ k # m /\ send[k].at \in {"done", "failed"}
      BY <1>1 DEF Inv, Owned, TypeOK
    <3> QED BY <1>7, <1>8, <3>1
  <2> QED BY <2>4, <2>5 DEF Owned
<1>16. Unanswered'
  <2> SUFFICES ASSUME "again" \notin odd, NEW t \in Sessions PROVE FreshSession(ses'[t], answered)
    BY DEF Unanswered
  <2>1. 0 \notin answered
    BY Numbers DEF Inv, TypeOK
  <2>2. CASE t = n
    BY <1>4, <1>6, <1>13, <2>1, <2>2, NewestEmpty, Numbers DEF FreshSession
  <2>3. CASE t = s
    <3>1. FreshSession(x, answered) /\ s # 0
      BY <2>3 DEF Inv, Unanswered, Sessions
    <3> QED BY <1>5, <1>6, <1>13, <2>3, <3>1, NewestEmpty DEF FreshSession
  <2>4. CASE t # n /\ t # s
    BY <1>6, <2>4 DEF Inv, Unanswered
  <2> QED BY <2>2, <2>3, <2>4
<1>17. Remembered'
  <2> SUFFICES ASSUME ~Exempt', ~gone PROVE
               /\ \A k \in Unsettled' : send'[k].at \notin Ended
               /\ "crossed" \notin odd => Unsettled' \subseteq pending'
               /\ Keeps(new, Unsettled')
    BY <1>3, <1>6 DEF Remembered, Exempt
  <2>1. ~Exempt
    BY DEF Exempt
  <2>2. /\ \A k \in Unsettled : send[k].at \notin Ended \/ (s # 0 /\ k \in Kept(x))
        /\ "crossed" \notin odd => Unsettled \subseteq pending
        /\ s # 0 => Keeps(x, Unsettled)
    BY <2>1 DEF Inv, Remembered
  <2>3. Unsettled' \subseteq Unsettled \cup {m} /\ Unsettled \subseteq Messages /\ dropped \subseteq dropped'
    BY <1>1, <1>3 DEF Unsettled, Inv, TypeOK
  <2>4. ASSUME s # 0, NEW k \in Unsettled \cap Kept(x) PROVE k \in dropped'
    <3>1. ~x.inflight /\ x.replay = 0 /\ x \in SessionRecord
      BY <1>5, <2>4, QuietReplay DEF Replaces
    <3>2. Of(Queue(x)) = Of(x.work) \cup Of(x.pipe) /\ dropped' = dropped \cup Of(x.pipe) \cup Of(x.work)
      BY <1>3, <2>4, <3>1, FieldTypes
    <3>3. k \notin x.held
      BY <2>2, <2>4, <3>1 DEF Keeps
    <3> QED BY <2>4, <3>1, <3>2, <3>3, Numbers DEF Kept
  <2>5. \A k \in Unsettled' : send'[k].at \notin Ended
    <3> SUFFICES ASSUME NEW k \in Unsettled' PROVE send'[k].at \notin Ended
      OBVIOUS
    <3>1. CASE k = m
      BY <1>8, <3>1 DEF Ended
    <3>2. CASE k # m
      <4>1. k \in Unsettled /\ k \notin dropped'
        BY <2>3, <3>2 DEF Unsettled
      <4> QED BY <1>7, <1>8, <2>2, <2>3, <2>4, <3>2, <4>1
    <3> QED BY <3>1, <3>2
  <2>6. "crossed" \notin odd => Unsettled' \subseteq pending'
    BY <1>1, <2>2, <2>3 DEF Unsettled
  <2>7. Keeps(new, Unsettled')
    BY <1>4, <1>13 DEF Keeps
  <2> QED BY <2>5, <2>6, <2>7
<1>18. NotAnswered'
  BY <1>1 DEF Inv, NotAnswered
<1> QED BY <1>9, <1>10, <1>12, <1>14, <1>15, <1>16, <1>17, <1>18 DEF Inv

\* SendMessage keeps the invariant.
LEMMA SendMessageInv ==
    ASSUME Inv, SendMessage
    PROVE  Inv'
<1> DEFINE m == sent + 1
<1>1. /\ Quiet /\ sent' = m /\ sent < MaxSends /\ ~gone
      /\ shown' = shown \cup {m} /\ pending' = pending \cup {m}
      /\ UNCHANGED <<id, gone, stops, faults, rebuilds, compacts, answered, told, odd>>
  BY DEF SendMessage, counts
<1>2. m \in Messages /\ Calls(m)
  <2>1. sent \in Nat /\ MaxSends \in Nat
    BY BoundsAssumption DEF Inv, TypeOK
  <2> QED BY <1>1, <2>1 DEF Messages, Calls
<1>3. /\ rebuilds \in 0 .. MaxRebuilds /\ rebuilds' = rebuilds /\ rebuilds <= rebuilds' /\ made \in Nat
      /\ current # 0 => current \in Sessions /\ current <= made
  BY <1>1, BoundsAssumption DEF Inv, TypeOK, Counted
<1>4. CASE current # 0 /\ ~rebuild /\ ~ses[current].inflight
  <2>1. send' = [send EXCEPT ![m] = At("probe", current)] /\ UNCHANGED <<current, made, rebuild, ses, dropped>>
    BY <1>1, <1>4 DEF SendMessage
  <2> HIDE DEF m
  <2> QED BY <1>1, <1>2, <1>3, <1>4, <2>1, StaysInv
<1>5. CASE ~(current # 0 /\ ~rebuild /\ ~ses[current].inflight)
  <2>1. Proceed(m, current, rebuild)
    BY <1>1, <1>5 DEF SendMessage
  <2>2. CASE Replaces(current, rebuild)
    <3>1. made <= rebuilds'
      <4>1. current = 0 => made = 0
        BY <1>1 DEF Inv, Counted
      <4>2. current # 0 => made + 1 <= rebuilds + 1
        BY <2>2 DEF Replaces, Inv, Counted
      <4> QED BY <1>3, <4>1, <4>2
    <3> HIDE DEF m
    <3> QED BY <1>1, <1>2, <1>3, <2>1, <2>2, <3>1, ReplaceInv
  <2>3. CASE ~Replaces(current, rebuild)
    <3>1. send' = [send EXCEPT ![m] = At("sync", current)] /\ UNCHANGED <<current, made, rebuild, ses, dropped>>
      BY <2>1, <2>3 DEF Proceed
    <3>2. current # 0
      BY <2>3 DEF Replaces
    <3> HIDE DEF m
    <3> QED BY <1>1, <1>2, <1>3, <3>1, <3>2, StaysInv
  <2> QED BY <2>2, <2>3
<1> QED BY <1>4, <1>5

\* Probed keeps the invariant: a session is replaced for a reason that was counted.
LEMMA ProbedInv ==
    ASSUME Inv, NEW m \in Messages, Probed(m)
    PROVE  Inv'
<1> DEFINE t == send[m].ses
<1>1. /\ Quiet /\ send[m].at = "probe" /\ Calls(m)
      /\ UNCHANGED <<sent, shown, pending, id, gone, stops, faults, compacts, answered, told, odd>>
  BY DEF Probed, thread, Calls
<1>2. /\ rebuilds \in 0 .. MaxRebuilds /\ MaxRebuilds \in Nat /\ made \in Nat
      /\ current # 0 => current \in Sessions /\ current <= made
  BY BoundsAssumption DEF Inv, TypeOK, Counted
<1>3. t \in Sessions /\ t <= made
  <2>1. m <= sent
    BY <1>1 DEF Inv, Counted, TypeOK, Messages
  <2>2. t \in 1 .. made
    BY <2>1 DEF Inv, Counted
  <2>3. t \in Sessions \cup {0}
    BY DEF Inv, TypeOK
  <2> QED BY <1>2, <2>2, <2>3
<1>4. CASE rebuilds < MaxRebuilds /\ rebuilds' = rebuilds + 1 /\ Proceed(m, current, current = t)
  <2> DEFINE asked == current = t
  <2>1. rebuilds' \in 0 .. MaxRebuilds /\ rebuilds <= rebuilds'
    BY <1>2, <1>4
  <2>2. CASE Replaces(current, asked)
    <3>1. made <= rebuilds'
      <4>1. made + (IF rebuild THEN 1 ELSE 0) <= rebuilds + 1
        BY DEF Inv, Counted
      <4> QED BY <1>2, <1>4, <4>1
    <3>2. Proceed(m, current, asked)
      BY <1>4
    <3> HIDE DEF asked
    <3> QED BY <1>1, <2>1, <2>2, <3>1, <3>2, ReplaceInv
  <2>3. CASE ~Replaces(current, asked)
    <3>1. send' = [send EXCEPT ![m] = At("sync", current)] /\ UNCHANGED <<current, made, rebuild, ses, dropped>>
      BY <1>4, <2>3 DEF Proceed
    <3>2. current # 0
      BY <2>3 DEF Replaces
    <3> QED BY <1>1, <1>2, <2>1, <3>1, <3>2, StaysInv
  <2> QED BY <2>2, <2>3
<1>5. CASE Proceed(m, t, FALSE) /\ UNCHANGED rebuilds
  <2>1. ~Replaces(t, FALSE)
    BY <1>3 DEF Replaces, Sessions
  <2>2. send' = [send EXCEPT ![m] = At("sync", t)] /\ UNCHANGED <<current, made, rebuild, ses, dropped>>
    BY <1>5, <2>1 DEF Proceed
  <2>3. rebuilds' \in 0 .. MaxRebuilds /\ rebuilds <= rebuilds'
    BY <1>2, <1>5
  <2> HIDE DEF t
  <2> QED BY <1>1, <1>3, <2>2, <2>3, StaysInv
<1> QED BY <1>4, <1>5 DEF Probed

-----------------------------------------------------------------------------
(* What else happens to the thread.                                        *)

\* RequestSessionRestart keeps the invariant.
LEMMA RequestSessionRestartInv ==
    ASSUME Inv, RequestSessionRestart
    PROVE  Inv'
<1>1. /\ current # 0 /\ ~rebuild /\ rebuild' = TRUE /\ rebuilds' = rebuilds + 1 /\ rebuilds < MaxRebuilds
      /\ UNCHANGED <<sent, send, shown, pending, id, current, made, gone, ses, stops, faults, compacts,
                     answered, told, dropped, odd>>
  BY DEF RequestSessionRestart, thread, history
<1>2. rebuilds \in 0 .. MaxRebuilds /\ MaxRebuilds \in Nat /\ made \in Nat
  BY BoundsAssumption DEF Inv, TypeOK
<1>3. TypeOK'
  <2>1. rebuilds' \in 0 .. MaxRebuilds
    BY <1>1, <1>2
  <2> QED BY <1>1, <2>1 DEF Inv, TypeOK
<1>4. Counted'
  <2>1. made' + (IF rebuild' THEN 1 ELSE 0) <= rebuilds' + 1
    <3>1. made + (IF rebuild THEN 1 ELSE 0) <= rebuilds + 1
      BY DEF Inv, Counted
    <3> QED BY <1>1, <1>2, <3>1
  <2> QED BY <1>1, <2>1 DEF Inv, Counted
<1>5. Tidy' /\ Orderly' /\ Owned' /\ Unanswered' /\ Remembered' /\ NotAnswered'
  BY <1>1 DEF Inv, Tidy, Orderly, Owned, Unanswered, Remembered, Exempt, Unsettled, NotAnswered
<1> QED BY <1>3, <1>4, <1>5 DEF Inv

\* A session that was interrupted.
Told(x) == [x EXCEPT !.intr = TRUE, !.stop = x.query = "live"]

\* Only the flags of the stop are others.
LEMMA ToldFields ==
    ASSUME NEW x \in SessionRecord
    PROVE  LET y == Told(x) IN
           /\ y \in SessionRecord /\ y.intr /\ (y.stop <=> x.query = "live")
           /\ y.query = x.query /\ y.chan = x.chan /\ y.pipe = x.pipe /\ y.work = x.work
           /\ y.inflight = x.inflight /\ y.last = x.last /\ y.backoff = x.backoff /\ y.turn = x.turn
           /\ y.replay = x.replay /\ y.held = x.held /\ y.ending = x.ending
<1>1. Told(x) \in SessionRecord
  <2> DEFINE b == x.query = "live"
  <2>1. b \in BOOLEAN
    OBVIOUS
  <2> HIDE DEF b
  <2>2. [x EXCEPT !.intr = TRUE, !.stop = b] \in SessionRecord
    BY <2>1 DEF SessionRecord
  <2> QED BY <2>2 DEF Told, b
<1> QED BY <1>1, ZenonT(60) DEF Told, SessionRecord

\* Interrupt keeps the invariant: its press is counted.
LEMMA InterruptInv ==
    ASSUME Inv, Interrupt
    PROVE  Inv'
<1> DEFINE x == ses[current]
           y == Told(x)
<1>1. /\ Quiet /\ current # 0 /\ stops' = stops + 1 /\ stops < MaxStops
      /\ ses' = [ses EXCEPT ![current] = y]
      /\ UNCHANGED <<sent, send, shown, pending, id, current, made, rebuild, gone, faults, rebuilds, compacts,
                     answered, told, dropped, odd>>
  BY DEF Interrupt, thread, manager, Told, Inv, TypeOK
<1>2. current \in Sessions /\ current <= made /\ x \in SessionRecord /\ stops \in 0 .. MaxStops /\ MaxStops \in Nat
  BY <1>1, BoundsAssumption DEF Inv, TypeOK, Counted
<1>3. /\ y \in SessionRecord /\ y.intr /\ (y.stop <=> x.query = "live")
      /\ y.query = x.query /\ y.chan = x.chan /\ y.pipe = x.pipe /\ y.work = x.work
      /\ y.inflight = x.inflight /\ y.last = x.last /\ y.backoff = x.backoff /\ y.turn = x.turn
      /\ y.replay = x.replay /\ y.held = x.held /\ y.ending = x.ending
  BY ONLY <1>2, ToldFields
<1> HIDE DEF y
<1>4. /\ ses' \in [Sessions -> SessionRecord] /\ ses'[current] = y
      /\ \A t \in Sessions : t # current => ses'[t] = ses[t]
  BY <1>1, <1>2, <1>3 DEF Inv, TypeOK
<1>5. Queue(y) = Queue(x) /\ Kept(y) = Kept(x) /\ MessagesOf(y) = MessagesOf(x)
  BY <1>3 DEF Queue, Kept, MessagesOf
<1>6. stops' \in 0 .. MaxStops /\ stops' > 0 /\ (stops > 0 => stops' > 0)
  BY <1>1, <1>2
<1>7. TypeOK'
  BY <1>1, <1>4, <1>6 DEF Inv, TypeOK
<1>8. Counted'
  <2>1. \A t \in Sessions : t > made => t # current
    BY <1>2 DEF Inv, TypeOK, Sessions
  <2>2. \A t \in Sessions : t > made' => ses'[t] = NewSession
    BY <1>1, <1>4, <2>1 DEF Inv, Counted
  <2> QED BY <1>1, <2>2 DEF Inv, Counted
<1>9. Tidy'
  <2> SUFFICES ASSUME NEW t \in Sessions PROVE TidySession(ses'[t], t = current, stops')
    BY <1>1 DEF Tidy
  <2>1. TidySession(ses[t], t = current, stops)
    BY DEF Inv, Tidy
  <2>2. CASE t = current
    BY <1>3, <1>4, <1>6, <2>1, <2>2 DEF TidySession
  <2>3. CASE t # current
    BY <1>4, <1>6, <2>1, <2>3 DEF TidySession
  <2> QED BY <2>2, <2>3
<1>10. Orderly'
  <2> SUFFICES ASSUME "revived" \notin odd, NEW t \in Sessions PROVE OrderlySession(ses'[t], t = current, odd)
    BY <1>1 DEF Orderly
  <2>1. OrderlySession(ses[t], t = current, odd)
    BY DEF Inv, Orderly
  <2> QED BY <1>3, <1>4, <1>5, <2>1 DEF OrderlySession
<1>11. Owned'
  <2>1. \A t \in Sessions : MessagesOf(ses'[t]) = MessagesOf(ses[t])
    BY <1>4, <1>5
  <2> QED BY <1>1, <2>1 DEF Inv, Owned
<1>12. Unanswered'
  <2> SUFFICES ASSUME "again" \notin odd, NEW t \in Sessions PROVE FreshSession(ses'[t], answered)
    BY <1>1 DEF Unanswered
  <2>1. FreshSession(ses[t], answered)
    BY DEF Inv, Unanswered
  <2> QED BY <1>3, <1>4, <1>5, <2>1 DEF FreshSession
<1>13. Remembered'
  <2> SUFFICES ASSUME ~Exempt', ~gone PROVE
               /\ \A m \in Unsettled : send[m].at \notin Ended \/ m \in Kept(y)
               /\ "crossed" \notin odd => Unsettled \subseteq pending
               /\ Keeps(y, Unsettled)
    BY <1>1, <1>4 DEF Remembered, Unsettled
  <2>1. ~Exempt
    BY <1>1, <1>6 DEF Exempt
  <2>2. /\ \A m \in Unsettled : send[m].at \notin Ended \/ m \in Kept(x)
        /\ "crossed" \notin odd => Unsettled \subseteq pending
        /\ Keeps(x, Unsettled)
    BY <1>1, <2>1 DEF Inv, Remembered
  <2> QED BY <1>3, <1>5, <2>2 DEF Keeps
<1>14. NotAnswered'
  BY <1>1 DEF Inv, NotAnswered
<1> QED BY <1>7, <1>8, <1>9, <1>10, <1>11, <1>12, <1>13, <1>14 DEF Inv

\* DeleteThread keeps the invariant: nothing is shown and nothing has a Query.
LEMMA DeleteThreadInv ==
    ASSUME Inv, DeleteThread
    PROVE  Inv'
<1> DEFINE x == ses[current]
           y == Closed(x)
<1>1. /\ Quiet /\ ~gone /\ gone' = TRUE /\ current # 0 /\ current' = 0
      /\ ses' = [ses EXCEPT ![current] = y] /\ send' = HungUp(send, current)
      /\ shown' = {} /\ pending' = {}
      /\ UNCHANGED <<sent, id, made, rebuild, stops, faults, rebuilds, compacts, answered, told, dropped, odd>>
  BY DEF DeleteThread, counts, history
<1>2. current \in Sessions /\ current <= made /\ x \in SessionRecord /\ x.replay = 0
  BY <1>1, QuietReplay DEF Inv, TypeOK, Counted
<1>3. /\ y \in SessionRecord
      /\ y.query = "none" /\ ~y.chan /\ y.pipe = <<>> /\ y.work = <<>> /\ y.held = {}
      /\ ~y.inflight /\ ~y.stop
      /\ y.intr = x.intr /\ y.last = x.last /\ y.backoff = x.backoff /\ y.turn = x.turn
      /\ y.replay = x.replay
  BY <1>2, ClosedFields
<1> HIDE DEF y
<1>4. /\ ses' \in [Sessions -> SessionRecord] /\ ses'[current] = y
      /\ \A t \in Sessions : t # current => ses'[t] = ses[t]
  BY <1>1, <1>2, <1>3 DEF Inv, TypeOK
<1>5. Queue(y) = <<>> /\ Of(Queue(y)) = {}
  BY <1>3, OfEmpty DEF Queue
<1>6. /\ send' \in [Messages -> [at: {"unsent", "probe", "sync", "usage", "compact", "ready", "done", "failed"},
                                 ses: Sessions \cup {0}, resume: BOOLEAN]]
      /\ \A k \in Messages : /\ send'[k].ses = send[k].ses
                             /\ send'[k].at = "unsent" <=> send[k].at = "unsent"
                             /\ send[k].at \in {"done", "failed"} => send'[k].at = send[k].at
  <2>1. Moves(send, send') /\ send' \in [Messages -> [at: {"unsent", "probe", "sync", "usage", "compact", "ready", "done", "failed"},
                                 ses: Sessions \cup {0}, resume: BOOLEAN]]
    BY <1>1, <1>2, SettledMoves DEF Inv, TypeOK
  <2> QED BY <2>1 DEF Moves, Ended
<1>7. TypeOK'
  BY <1>1, <1>4, <1>6 DEF Inv, TypeOK
<1>8. Counted'
  <2>1. \A t \in Sessions : t > made => t # current
    BY <1>2 DEF Inv, TypeOK, Sessions
  <2>2. \A t \in Sessions : t > made' => ses'[t] = NewSession
    BY <1>1, <1>4, <2>1 DEF Inv, Counted
  <2>3. current' <= made'
    BY <1>1 DEF Inv, TypeOK
  <2> QED BY <1>1, <1>6, <2>2, <2>3 DEF Inv, Counted
<1>9. Tidy'
  <2> SUFFICES ASSUME NEW t \in Sessions PROVE TidySession(ses'[t], t = current', stops')
    BY DEF Tidy
  <2>0. stops' = stops /\ (t = current') = FALSE
    BY <1>1 DEF Sessions
  <2>1. TidySession(ses[t], t = current, stops)
    BY DEF Inv, Tidy
  <2>2. CASE t = current
    BY <1>2, <1>3, <1>4, <2>0, <2>1, <2>2 DEF TidySession
  <2>3. CASE t # current
    BY <1>4, <2>0, <2>1, <2>3 DEF TidySession
  <2> QED BY <2>2, <2>3
<1>10. Orderly'
  <2> SUFFICES ASSUME "revived" \notin odd', NEW t \in Sessions PROVE OrderlySession(ses'[t], t = current', odd')
    BY DEF Orderly
  <2>0. odd' = odd /\ "revived" \notin odd /\ (t = current') = FALSE
    BY <1>1 DEF Sessions
  <2>1. OrderlySession(ses[t], t = current, odd)
    BY <2>0 DEF Inv, Orderly
  <2>2. CASE t = current
    BY <1>3, <1>4, <1>5, <2>0, <2>2 DEF OrderlySession
  <2>3. CASE t # current
    BY <1>4, <2>0, <2>1, <2>3 DEF OrderlySession
  <2> QED BY <2>2, <2>3
<1>11. Owned'
  <2>1. \A t \in Sessions : MessagesOf(ses'[t]) \subseteq MessagesOf(ses[t])
    BY <1>3, <1>4, <1>5 DEF MessagesOf
  <2>2. \A t \in Sessions : \A k \in MessagesOf(ses'[t]) : send'[k].ses = t /\ send'[k].at \in {"done", "failed"}
    BY <1>6, <2>1 DEF Inv, Owned, MessagesOf
  <2>3. \A k \in answered : send'[k].at \in {"done", "failed"}
    BY <1>6 DEF Inv, Owned, TypeOK
  <2> QED BY <1>1, <2>2, <2>3 DEF Owned
<1>12. Unanswered'
  <2> SUFFICES ASSUME "again" \notin odd, NEW t \in Sessions PROVE FreshSession(ses'[t], answered)
    BY <1>1 DEF Unanswered
  <2>1. FreshSession(ses[t], answered)
    BY DEF Inv, Unanswered
  <2>2. CASE t = current
    BY <1>3, <1>4, <1>5, <2>1, <2>2, NewestEmpty DEF FreshSession
  <2>3. CASE t # current
    BY <1>4, <2>1, <2>3
  <2> QED BY <2>2, <2>3
<1>13. Remembered' /\ NotAnswered'
  BY <1>1 DEF Remembered, NotAnswered
<1> QED BY <1>7, <1>8, <1>9, <1>10, <1>11, <1>12, <1>13 DEF Inv

-----------------------------------------------------------------------------
(* Every step keeps the invariant.                                         *)

\* A thread without sessions satisfies the invariant.
LEMMA InvInit ==
    ASSUME Init PROVE Inv
<1>1. NewSession \in SessionRecord /\ NewSession.query = "none" /\ ~NewSession.chan
      /\ NewSession.pipe = <<>> /\ NewSession.work = <<>> /\ ~NewSession.inflight
      /\ ~NewSession.intr /\ ~NewSession.stop /\ NewSession.last = 0 /\ ~NewSession.backoff
      /\ NewSession.turn = 0 /\ NewSession.replay = 0 /\ NewSession.held = {} /\ NewSession.ending = 0
  BY NewSessionFields
<1>2. ses \in [Sessions -> SessionRecord] /\ \A s \in Sessions : ses[s] = NewSession
  BY <1>1 DEF Init
<1>3. Queue(NewSession) = <<>> /\ Of(<<>>) = {} /\ MessagesOf(NewSession) = {}
  <2>1. Queue(NewSession) = <<>> /\ Of(<<>>) = {}
    BY <1>1, OfEmpty DEF Queue
  <2> QED BY <1>1, <2>1, Numbers DEF MessagesOf
<1>4. TypeOK
  <2>1. 0 \in 0 .. Cardinality(Sessions) /\ 0 \in 0 .. MaxSends /\ 0 \in 0 .. MaxStops /\ 0 \in 0 .. MaxFaults
        /\ 0 \in 0 .. MaxRebuilds /\ 0 \in 0 .. MaxCompacts
    BY BoundsAssumption, SessionsFinite
  <2> QED BY <1>2, <2>1 DEF Init, TypeOK
<1>5. Counted
  <2>1. \A m \in Messages : m > 0 /\ ~(m <= 0)
    BY DEF Messages
  <2> QED BY <1>2, <2>1 DEF Init, Counted
<1>6. Tidy
  BY <1>1, <1>2, Numbers DEF Tidy, TidySession
<1>7. Orderly
  BY <1>1, <1>2, <1>3 DEF Orderly, OrderlySession
<1>8. Owned
  BY <1>2, <1>3 DEF Init, Owned
<1>9. Unanswered
  <2>1. answered = {}
    BY DEF Init
  <2>2. FreshSession(NewSession, {})
    BY <1>1, <1>3, Numbers DEF FreshSession
  <2> QED BY <1>2, <2>1, <2>2 DEF Unanswered
<1>10. Remembered
  BY DEF Init, Remembered, Unsettled
<1>11. NotAnswered
  BY DEF Init, NotAnswered
<1> QED BY <1>4, <1>5, <1>6, <1>7, <1>8, <1>9, <1>10, <1>11 DEF Inv

\* Every step keeps it.
LEMMA InvStep ==
    ASSUME Inv, [Next]_vars PROVE Inv'
<1>1. CASE SendMessage
  BY <1>1, SendMessageInv
<1>2. CASE Interrupt
  BY <1>2, InterruptInv
<1>3. CASE RequestSessionRestart
  BY <1>3, RequestSessionRestartInv
<1>4. CASE DeleteThread
  BY <1>4, DeleteThreadInv
<1>5. CASE Sending
  BY <1>5, ProbedInv, SyncedInv, UsageInv, PushInv DEF Sending
<1>6. ASSUME NEW s \in Sessions, Working(s) PROVE Inv'
  BY <1>6, ReadsInv, AnswersInv, StopsInv DEF Working
<1>7. ASSUME NEW s \in Sessions, Failing(s) PROVE Inv'
  BY <1>7, TurnFailsInv, StoppedByFailureInv, AuthRetriedInv, ResumeRetriedInv, RateLimitedInv,
     StreamClosedInv, BreaksInv DEF Failing
<1>8. ASSUME NEW s \in Sessions, Settling(s) PROVE Inv'
  BY <1>8, BackoffEndsInv, ReplayInv, FinaliseInv, ExitsInv DEF Settling
<1>9. CASE UNCHANGED vars
  <2>1. UNCHANGED <<sent, send, shown, pending, id, current, made, rebuild, gone, ses, stops, faults, rebuilds,
                    compacts, answered, told, dropped, odd>>
    BY <1>9 DEF vars
  <2>2. TypeOK' /\ Counted' /\ Tidy' /\ Orderly' /\ Owned' /\ Unanswered' /\ Remembered' /\ NotAnswered'
    BY <2>1 DEF Inv, TypeOK, Counted, Tidy, Orderly, Owned, Unanswered, Remembered, Exempt, Unsettled, NotAnswered
  <2> QED BY <2>2 DEF Inv
<1> QED BY <1>1, <1>2, <1>3, <1>4, <1>5, <1>6, <1>7, <1>8, <1>9 DEF Next

\* The invariant holds of every behaviour.
THEOREM InvHolds == Spec => []Inv
<1>1. Init => Inv
  BY InvInit
<1>2. Inv /\ [Next]_vars => Inv'
  BY InvStep
<1> QED BY <1>1, <1>2, PTL DEF Spec

-----------------------------------------------------------------------------
(* What the runs check of a thread, for every number of messages, stops,   *)
(* failures, rebuilds, compactions and retries.                            *)

\* At rest every message in the transcript is answered, followed by an error, or left behind by a
\* retry, but for the exceptions NothingForgotten names (sendMessage, ThreadSession).
THEOREM NoMessageForgotten == Spec => []NothingForgotten
<1>1. Inv => NothingForgotten
  <2> SUFFICES ASSUME Inv, AtRest, ~Exempt, NEW m \in Unsettled PROVE FALSE
    BY DEF NothingForgotten, Unsettled, Exempt
  <2>1. ~gone /\ Quiet /\ m \in Messages /\ send[m].at \in Ended
    BY DEF AtRest, Unsettled, Inv, TypeOK
  <2>2. /\ current # 0 /\ m \in Kept(ses[current]) /\ Keeps(ses[current], Unsettled)
        /\ current \in Sessions
    BY <2>1 DEF Inv, Remembered, TypeOK
  <2> DEFINE x == ses[current]
  <2>3. x \in SessionRecord /\ x.replay = 0 /\ ~x.backoff /\ (x.query = "live" => x.pipe = <<>> /\ x.work = <<>>)
    BY <2>1, <2>2, QuietReplay DEF AtRest, Inv, TypeOK
  <2>4. "revived" \notin odd /\ "stuck" \notin odd
    BY DEF Exempt
  <2>5. OrderlySession(x, TRUE, odd) /\ TidySession(x, TRUE, stops)
    BY <2>2, <2>4 DEF Inv, Orderly, Tidy
  <2>6. x.pipe = <<>> /\ x.work = <<>>
    <3>1. x.query # "dead"
      BY <2>3, <2>4, <2>5 DEF OrderlySession
    <3>2. x.query \in {"none", "live", "dead"}
      BY <2>3, FieldTypes
    <3> QED BY <2>3, <2>5, <3>1, <3>2 DEF TidySession
  <2>7. Queue(x) = <<>> /\ Of(Queue(x)) = {}
    BY <2>6, OfEmpty DEF Queue
  <2>8. x.held \cap Unsettled = {}
    BY <2>2, <2>3, <2>7 DEF Keeps
  <2> QED BY <2>1, <2>2, <2>3, <2>7, <2>8, Numbers DEF Kept
<1> QED BY <1>1, InvHolds, PTL

\* isRunning() is true only while something will settle it, and true while an agent has work.
THEOREM RunningTold == Spec => []RunningIsReal
<1>1. Inv => RunningIsReal
  <2> SUFFICES ASSUME Inv, NEW s \in Sessions, Quiet
               PROVE  LET busy == ses[s].pipe # <<>> \/ ses[s].work # <<>> IN
                      /\ odd \cap {"stuck", "revived"} = {} /\ ses[s].inflight =>
                             ses[s].backoff \/ (ses[s].query = "live" /\ busy)
                      /\ odd \cap {"crossed", "revived"} = {} /\ busy => ses[s].inflight
    BY DEF RunningIsReal
  <2> DEFINE x == ses[s]
  <2>1. x.pipe \in Seq(Inputs) /\ x.work \in Seq(Inputs)
    BY FieldTypes DEF Inv, TypeOK
  <2>2. Queue(x) # <<>> <=> x.pipe # <<>> \/ x.work # <<>>
    BY <2>1 DEF Queue
  <2>3. "revived" \notin odd => OrderlySession(x, s = current, odd)
    BY DEF Inv, Orderly
  <2> QED BY <2>2, <2>3 DEF OrderlySession
<1> QED BY <1>1, InvHolds, PTL

\* A retry repeats the turn that failed, never one that a result has answered.
THEOREM RetriesUnanswered == Spec => []ReplayedIsUnanswered
<1>1. Inv => ReplayedIsUnanswered
  BY DEF Inv, Unanswered, FreshSession, ReplayedIsUnanswered
<1> QED BY <1>1, InvHolds, PTL

\* A message that leaves the transcript: the user has pressed stop, and no result has answered it.
Popped ==
    \A m \in shown \ shown' :
        gone' \/ (stops > 0 /\ (m \notin answered \/ odd \cap {"swallowed", "unnamed"} # {}))

\* A session that was interrupted takes the pending messages, and no other, out of the transcript.
LEMMA InterruptedPops ==
    ASSUME Inv, NEW s \in Sessions, ses[s].intr, Heard(OnInterrupted)
    PROVE  Popped
<1>1. stops > 0
  BY DEF Inv, Tidy, TidySession
<1>2. shown \ shown' \subseteq pending
  BY DEF Heard, OnInterrupted
<1> QED BY <1>1, <1>2 DEF Popped, Inv, NotAnswered

\* A result that is no success takes messages back only after a stop.
LEMMA FailsPops ==
    ASSUME Inv, NEW s \in Sessions, NEW k, Fails(s, k)
    PROVE  Popped
<1>1. CASE ses[s].intr
  BY <1>1, InterruptedPops DEF Fails
<1>2. CASE ~ses[s].intr
  BY <1>2 DEF Fails, Heard, OnError, Popped
<1> QED BY <1>1, <1>2

\* Messages leave the transcript only after a stop, or with the thread, and never when answered.
THEOREM StopPops == Spec => OnlyStopPops
<1>1. ASSUME Inv, Next PROVE Popped
  <2> USE <1>1
  <2>1. CASE shown' = shown
    BY <2>1 DEF Popped
  <2>2. CASE SendMessage
    BY <2>2 DEF SendMessage, Popped
  <2>3. CASE Interrupt \/ RequestSessionRestart
    BY <2>1, <2>3 DEF Interrupt, RequestSessionRestart, thread
  <2>4. CASE DeleteThread
    BY <2>4 DEF DeleteThread, Popped
  <2>5. CASE Sending
    BY <2>1, <2>5 DEF Sending, Probed, Synced, Usage, Push, thread
  <2>6. ASSUME NEW s \in Sessions, Working(s) PROVE Popped
    <3>1. CASE Reads(s)
      BY <2>1, <3>1 DEF Reads, thread
    <3>2. CASE Answers(s)
      BY <2>1, <3>2 DEF Answers, Heard, OnDone, OnDoneOne
    <3>3. CASE Stops(s)
      BY <2>1, <3>3, FailsPops DEF Stops, thread
    <3> QED BY <2>6, <3>1, <3>2, <3>3 DEF Working
  <2>7. ASSUME NEW s \in Sessions, Failing(s) PROVE Popped
    <3>1. CASE TurnFails(s)
      BY <3>1, FailsPops DEF TurnFails
    <3>2. CASE StoppedByFailure(s)
      BY <3>2, InterruptedPops DEF StoppedByFailure
    <3>3. CASE AuthRetried(s) \/ ResumeRetried(s) \/ RateLimited(s) \/ StreamClosed(s)
      BY <2>1, <3>3 DEF AuthRetried, ResumeRetried, RateLimited, StreamClosed, thread
    <3>4. CASE Breaks(s)
      BY <2>1, <3>4 DEF Breaks, Heard, OnError
    <3> QED BY <2>7, <3>1, <3>2, <3>3, <3>4 DEF Failing
  <2>8. ASSUME NEW s \in Sessions, Settling(s) PROVE Popped
    <3>1. CASE BackoffEnds(s)
      BY <2>1, <3>1, InterruptedPops DEF BackoffEnds, thread
    <3>2. CASE Replay(s) \/ Finalise(s) \/ Exits(s)
      BY <2>1, <3>2 DEF Replay, Finalise, Exits, thread
    <3> QED BY <2>8, <3>1, <3>2 DEF Settling
  <2> QED BY <2>2, <2>3, <2>4, <2>5, <2>6, <2>7, <2>8 DEF Next
<1>2. Inv /\ [Next]_vars => [Popped]_vars
  BY <1>1
<1>3. [][Popped]_vars => OnlyStopPops
  BY PTL DEF OnlyStopPops, Popped
<1>4. Spec => [][Popped]_vars
  BY <1>2, InvHolds, PTL DEF Spec
<1> QED BY <1>3, <1>4
=============================================================================

------------------------- MODULE RemoteStream_proofs -------------------------
(***************************************************************************)
(* Theorems about a thread's event stream, for any number of events,       *)
(* daemon processes, dropped connections and restarts of the plugin, with  *)
(* their proofs: no message is applied twice, no event is skipped, and the *)
(* half-streamed text repeats nothing.                                     *)
(***************************************************************************)
EXTENDS RemoteStream, Subsequences_proofs

-----------------------------------------------------------------------------
(* The invariant.                                                          *)

\* The surviving history is numbered upwards, a later event is never of an earlier
\* process, and the log lacks only tokens and a beginning of it.
HistoryInv ==
    /\ epoch \in Nat /\ last \in 0 .. MaxSeq /\ low \in Nat /\ flushed \in Nat
    /\ sidecar \in 0 .. last /\ acked \in Nat
    /\ timeline \subseteq Entry /\ log \subseteq timeline /\ checkpoint \subseteq timeline
    /\ \A e \in timeline : e.seq <= last /\ e.by <= epoch
    /\ \A e, f \in timeline : e.seq = f.seq => e = f
    /\ \A e, f \in timeline : e.seq < f.seq => e.by <= f.by
    /\ \A e \in timeline : e.role # "token" => e \in log \/ e.seq <= low

\* The checkpoint's unfinished text is of this process, nothing has finished it, and it
\* is evicted like any other event.
TokensInv ==
    \A k \in Tokens(checkpoint) :
        /\ k.by = epoch /\ \A m \in Finishers(timeline) : m.seq < k.seq
        /\ k \in log \/ k.seq <= low

\* The chain ends with this process, without a gap, and its numbers tell apart what
\* its processes recorded.
ChainInv ==
    /\ chain \in Seq(Epoch) /\ Len(chain) >= 1
    /\ \A i \in 1 .. Len(chain) :
          /\ chain[i].epoch = epoch - (Len(chain) - i)
          /\ chain[i].startSeq <= sidecar
          /\ \A e \in timeline : e.seq > chain[i].startSeq <=> e.by >= chain[i].epoch

\* What a client remembers of a subscription, and of the stream.
Subscription == [cursor : Nat, epoch : Nat, ackTarget : Nat, ackSent : Nat]
Remote == [lastSeq : Nat, epoch : Nat]

\* A session follows the thread as long as it has a subscription, in one epoch with it,
\* and what is persisted of its cursor is never ahead of the subscription's.
SessionInv ==
    /\ phase \in {"none", "opening", "following"} /\ (sub # None <=> phase = "following")
    /\ sub \in Subscription \cup {None} /\ remote \in Remote /\ remote.epoch <= epoch
    /\ openFrom \in Nat \cup {Closed} /\ (sub = None => openFrom = Closed)
    /\ sub # None => /\ sub.epoch = remote.epoch
                     /\ remote.lastSeq <= sub.cursor /\ openFrom <= sub.cursor

\* A message the plugin has, with its cursor at s: the daemon still has it, or has
\* had a successor since; above s there are only newer processes' events.
Older(t, s) == t.by < epoch /\ \A x \in timeline : x.seq > s => x.by > t.by

\* An entry t of a transcript whose cursor is r.
Kept(t, r) ==
    /\ t.role = "message" /\ t.by <= r.epoch
    /\ t \in timeline \/ t.by < epoch
    /\ t.seq <= r.lastSeq \/ Older(t, r.lastSeq)

\* No entry comes twice, nor after one that is newer: a later seq, or a later process.
Ascending(tr) ==
    \A i, j \in 1 .. Len(tr) : i < j => tr[i].seq < tr[j].seq \/ tr[i].by < tr[j].by

\* A transcript whose cursor is r.
Story(r, tr) ==
    /\ tr \in Seq(Entry) /\ Ascending(tr)
    /\ \A i \in 1 .. Len(tr) : Kept(tr[i], r)

\* Everything of r's process and before it, up to r's cursor, has been applied.
Whole(s, p, done) ==
    /\ \A e \in timeline : e.role # "token" /\ e.seq <= s /\ e.by <= p => e \in done
    /\ p = epoch => s <= last

\* What was saved, or is being saved, is a transcript with its cursor.
SavedInv(s) == s.remote \in Remote /\ s.remote.epoch <= epoch /\ Story(s.remote, s.transcript)

\* The transcript, the one on disk, and the one on its way there.
StoryInv ==
    /\ Story(remote, transcript)
    /\ SavedInv(saved)
    /\ snapshot # None => SavedInv(snapshot)

\* Unless a cursor was not sent back that may have to be, nothing was left out below it.
WholeInv ==
    ~unrewound =>
        /\ Whole(remote.lastSeq, remote.epoch, applied)
        /\ sub # None => Whole(sub.cursor, sub.epoch, applied)
        /\ Whole(saved.remote.lastSeq, saved.remote.epoch, saved.applied)
        /\ snapshot # None => Whole(snapshot.remote.lastSeq, snapshot.remote.epoch, snapshot.applied)

-----------------------------------------------------------------------------
(* What is on the wire.                                                    *)

\* The frames a daemon sends.
AttachedFrames == [kind : {"attached"}, epoch : Nat, rewinds : SUBSET Nat]
OpenedFrames == [kind : {"opened"}, epoch : Nat]
ResyncFrames == [kind : {"resync"}, seq : Nat, checkpoint : SUBSET Entry]
Frames == AttachedFrames \cup OpenedFrames \cup [kind : {"event"}, entry : Entry] \cup ResyncFrames

\* Where the persisted cursor will be after a checkpoint is taken over.
Until(f) == IF Tokens(f.checkpoint) = {} THEN f.seq ELSE f.seq - 1

\* The answer to an attach, not taken in yet.
IsAt(i, kind) == i \in 1 .. Len(wire) /\ wire[i].kind = kind
AttachedFirst == IsAt(1, "attached")

\* The answer to an attach comes first, and says what the daemon would say now.
AttachedInv ==
    \A i \in 1 .. Len(wire) : wire[i].kind = "attached" =>
        /\ i = 1 /\ wire[i].epoch = epoch
        /\ sub # None =>
              /\ wire[i].rewinds = RewindFor(sub.epoch, sub.cursor)
              /\ ~unrewound => ~Forgotten(sub.epoch, sub.cursor)

\* The answer to session.open comes last, for the client waits for it before it attaches.
OpenedInv ==
    \A i \in 1 .. Len(wire) : wire[i].kind = "opened" =>
        i = Len(wire) /\ phase = "opening" /\ wire[i].epoch = epoch

\* A resync comes before any event; nothing the client has of this process is beyond its
\* checkpoint, nor anything of an earlier process.
ResyncInv ==
    \A i \in 1 .. Len(wire) : wire[i].kind = "resync" =>
        LET f == wire[i] IN
        /\ i = 1 \/ (i = 2 /\ AttachedFirst)
        /\ f.seq <= last /\ Until(f) >= 0 /\ f.checkpoint \subseteq timeline
        /\ \A x \in f.checkpoint : x.seq <= f.seq
        /\ \A m \in Messages(f.checkpoint) : m.seq <= Until(f)
        /\ \A x \in timeline : x.seq > Until(f) => x.by = epoch
        /\ \A n \in 1 .. Len(transcript) : transcript[n].by = epoch => transcript[n].seq <= Until(f)
        /\ \A k \in Tokens(checkpoint) : k.seq <= f.seq => k \in f.checkpoint

\* Events are of the history, and in order.
EventsInv ==
    /\ \A i \in 1 .. Len(wire) : wire[i].kind = "event" => wire[i].entry \in timeline
    /\ \A i, j \in 1 .. Len(wire) : i < j /\ wire[i].kind = "event" /\ wire[j].kind = "event" =>
          wire[i].entry.seq < wire[j].entry.seq

\* Without a connection nothing is on the wire, and without a served attach nothing is sent.
LinkInv ==
    /\ wire \in Seq(Frames)
    /\ ~link => wire = <<>> /\ ~live /\ asking = None
    /\ live => sub # None /\ asking = None
    /\ sub # None /\ ~live => wire = <<>>
    /\ asking # None => sub # None /\ asking = AttachFrom(sub)
    /\ live /\ ~AttachedFirst => remote.epoch = epoch

\* What the subscription's cursor will have passed, once the answer to its attach is
\* taken in.
Passed(e) ==
    \/ \E i \in 1 .. Len(wire) : wire[i].kind = "resync" /\ e.seq <= wire[i].seq
    \/ /\ \A i \in 1 .. Len(wire) : wire[i].kind # "resync"
       /\ \/ AttachedFirst /\ \E r \in wire[1].rewinds : e.seq <= r
          \/ (AttachedFirst => wire[1].rewinds = {}) /\ e.seq <= sub.cursor

\* Everything else is on the wire, but for text that is finished.
DeliveryInv ==
    live => \A e \in timeline : e.role # "token" \/ e \in checkpoint =>
        Passed(e) \/ \E i \in 1 .. Len(wire) : wire[i] = EventFrame(e)

\* The half-streamed text is in order and not ahead of the cursor, and until the plugin
\* has been restarted it lacks no live token the cursor has passed.
StreamInv ==
    /\ leaves \in Nat /\ stream \in Seq(Entry)
    /\ \A i, j \in 1 .. Len(stream) : i < j => stream[i].seq < stream[j].seq
    /\ sub = None => stream = <<>> /\ (leaves = 0 => remote.lastSeq = 0)
    /\ sub # None => \A i \in 1 .. Len(stream) : stream[i].seq <= sub.cursor
    /\ leaves = 0 /\ ~unrewound /\ sub # None /\ sub.epoch = epoch =>
          \A k \in Tokens(checkpoint) : k.seq <= sub.cursor =>
             \E i \in 1 .. Len(stream) : stream[i] = k

\* The daemon's part of the invariant, the wire's, and all of it.
JournalInv == HistoryInv /\ TokensInv /\ ChainInv
WireInv == LinkInv /\ AttachedInv /\ OpenedInv /\ ResyncInv /\ EventsInv /\ DeliveryInv

Inv == JournalInv /\ SessionInv /\ StoryInv /\ WholeInv /\ WireInv

-----------------------------------------------------------------------------
(* A set of entries in its order.                                          *)

\* The entries with a number the journal may give, each once, by their numbers.
LEMMA Ordered ==
    ASSUME NEW es \in SUBSET Entry
    PROVE  /\ InOrder(es) \in Seq(es)
           /\ \A i, j \in 1 .. Len(InOrder(es)) : i < j => InOrder(es)[i].seq < InOrder(es)[j].seq
           /\ (\A e, f \in es : e.seq = f.seq => e = f) =>
                 \A e \in es : e.seq <= MaxSeq =>
                    \E i \in 1 .. Len(InOrder(es)) : InOrder(es)[i] = e
<1> DEFINE s == [n \in 1 .. MaxSeq |-> Numbered(es, n)]
           t == InOrder(es)
           S == {Numbered(es, n) : n \in 1 .. MaxSeq}
<1>1. MaxSeq \in Nat
  BY RemoteStreamAssumption
<1>2. s \in Seq(S) /\ Len(s) = MaxSeq
  <2>1. s \in [1 .. MaxSeq -> S]
    OBVIOUS
  <2> QED BY <1>1, <2>1, FunctionIsSequence
<1>3. \A n \in 1 .. MaxSeq : s[n] = Numbered(es, n)
  OBVIOUS
<1>4. t = Picked(s, Seqs(es))
  BY DEF InOrder
<1> HIDE DEF s, t, S
<1>5. PICK f : PickedSoFar(f, t, s, Seqs(es), MaxSeq)
  BY <1>2, <1>4, PickedInOrder
<1>6. \A n \in Seqs(es) : Numbered(es, n) \in es /\ Numbered(es, n).seq = n
  BY DEF Numbered, Seqs
<1>7. Len(t) \in Nat /\ DOMAIN t = 1 .. Len(t)
  BY <1>5, LenProperties DEF PickedSoFar
<1>8. \A i \in 1 .. Len(t) : f[i] \in Seqs(es) \cap 1 .. MaxSeq /\ t[i] = s[f[i]]
  BY <1>5 DEF PickedSoFar
<1>9. \A i \in 1 .. Len(t) : t[i] \in es /\ t[i].seq = f[i]
  BY <1>3, <1>6, <1>8
<1>10. t \in Seq(es)
  <2>1. t \in Seq(ToSet(s)) /\ t = [i \in 1 .. Len(t) |-> t[i]]
    BY <1>5, LenProperties DEF PickedSoFar
  <2>2. t \in [1 .. Len(t) -> es]
    BY <1>9, <2>1
  <2> QED BY <1>7, <2>2, FunctionIsSequence
<1>11. \A i, j \in 1 .. Len(t) : i < j => t[i].seq < t[j].seq
  BY <1>5, <1>9 DEF PickedSoFar
<1>12. ASSUME \A e, g \in es : e.seq = g.seq => e = g, NEW e \in es, e.seq <= MaxSeq
       PROVE  \E i \in 1 .. Len(t) : t[i] = e
  <2>1. e.seq \in Seqs(es) \cap 1 .. MaxSeq
    BY <1>12 DEF Seqs, Entry
  <2>2. PICK i \in 1 .. Len(t) : f[i] = e.seq
    BY <1>5, <2>1 DEF PickedSoFar
  <2>3. t[i] \in es /\ t[i].seq = e.seq
    BY <1>9, <2>2
  <2> QED BY <1>12, <2>3
<1> QED BY <1>10, <1>11, <1>12 DEF t

\* What a live subscriber or a replay is sent.
LEMMA OrderedFrames ==
    ASSUME NEW es \in SUBSET Entry, \A e, f \in es : e.seq = f.seq => e = f
    PROVE  LET fs == EventFrames(es) IN
           /\ fs \in Seq([kind : {"event"}, entry : es]) /\ fs \in Seq(Frames)
           /\ \A i \in 1 .. Len(fs) : fs[i].kind = "event" /\ fs[i].entry \in es
           /\ \A i, j \in 1 .. Len(fs) : i < j => fs[i].entry.seq < fs[j].entry.seq
           /\ \A e \in es : e.seq <= MaxSeq => \E i \in 1 .. Len(fs) : fs[i] = EventFrame(e)
<1> DEFINE s == InOrder(es)
           fs == EventFrames(es)
<1>1. s \in Seq(es) /\ Len(s) \in Nat /\ \A i \in 1 .. Len(s) : s[i] \in es
  BY Ordered, LenProperties
<1>2. fs = [i \in 1 .. Len(s) |-> EventFrame(s[i])]
  BY DEF EventFrames
<1>3. /\ \A i, j \in 1 .. Len(s) : i < j => s[i].seq < s[j].seq
      /\ \A e \in es : e.seq <= MaxSeq => \E i \in 1 .. Len(s) : s[i] = e
  BY Ordered
<1> HIDE DEF s, fs
<1>4. fs \in [1 .. Len(s) -> [kind : {"event"}, entry : es]]
  BY <1>1, <1>2 DEF EventFrame
<1>5. fs \in Seq([kind : {"event"}, entry : es]) /\ Len(fs) = Len(s)
  BY <1>1, <1>4, FunctionIsSequence
<1>6. [kind : {"event"}, entry : es] \subseteq Frames
  BY DEF Frames
<1>7. fs \in Seq(Frames)
  BY <1>5, <1>6, SeqMonotonic
<1>8. \A i \in 1 .. Len(fs) : fs[i] = EventFrame(s[i]) /\ fs[i].kind = "event" /\ fs[i].entry = s[i]
  BY <1>2, <1>5 DEF EventFrame
<1> QED BY <1>1, <1>3, <1>5, <1>7, <1>8 DEF fs

-----------------------------------------------------------------------------
(* The chain.                                                              *)

LEMMA Bounds ==
    ASSUME NEW a \in Int, NEW b \in Int
    PROVE  /\ MaxOf(a, b) \in {a, b} /\ a <= MaxOf(a, b) /\ b <= MaxOf(a, b)
           /\ MinOf(a, b) \in {a, b} /\ MinOf(a, b) <= a /\ MinOf(a, b) <= b
BY DEF MaxOf, MinOf

\* A process joins the chain at its end; what goes is a beginning of it.
LEMMA Joined ==
    ASSUME NEW c \in Seq(Epoch), NEW p \in Nat, NEW s \in Nat, Len(c) >= 1
    PROVE  LET d == RecordEpoch(c, p, s, MaxChain)
               gone == Len(c) + 1 - Len(d) IN
           /\ d \in Seq(Epoch) /\ Len(d) >= 1 /\ gone \in Nat
           /\ d[Len(d)] = [epoch |-> p, startSeq |-> s]
           /\ \A i \in 1 .. Len(d) : i < Len(d) => i + gone \in 1 .. Len(c) /\ d[i] = c[i + gone]
<1> DEFINE l == [epoch |-> p, startSeq |-> s]
           longer == c \o <<l>>
           excess == MaxOf(0, Len(longer) - MaxChain)
           d == RecordEpoch(c, p, s, MaxChain)
<1>1. MaxChain \in Nat /\ MaxChain >= 2 /\ Len(c) \in Nat /\ l \in Epoch
  BY RemoteStreamAssumption, LenProperties DEF Epoch
<1>2. /\ longer \in Seq(Epoch) /\ Len(longer) = Len(c) + 1 /\ longer[Len(c) + 1] = l
      /\ \A i \in 1 .. Len(c) : longer[i] = c[i]
  <2> HIDE DEF l
  <2>1. <<l>> \in Seq(Epoch) /\ Len(<<l>>) = 1 /\ <<l>>[1] = l
    BY <1>1
  <2> QED BY <1>1, <2>1, ConcatProperties
<1>3. excess \in 0 .. Len(c)
  BY <1>1, <1>2 DEF MaxOf
<1>4. d = SubSeq(longer, excess + 1, Len(longer))
  BY DEF RecordEpoch
<1> HIDE DEF longer, excess, d, l
<1>5. /\ d \in Seq(Epoch) /\ Len(d) = Len(c) + 1 - excess
      /\ \A i \in 1 .. Len(d) : d[i] = longer[excess + i]
  <2>1. \A i \in excess + 1 .. Len(longer) : longer[i] \in Epoch
    BY <1>1, <1>2, <1>3
  <2> QED BY <1>1, <1>2, <1>3, <1>4, <2>1, SubSeqProperties
<1>6. Len(c) + 1 - Len(d) = excess /\ Len(d) >= 1
  BY <1>1, <1>3, <1>5
<1>7. d[Len(d)] = l
  BY <1>1, <1>2, <1>3, <1>5
<1>8. ASSUME NEW i \in 1 .. Len(d), i < Len(d)
      PROVE  i + excess \in 1 .. Len(c) /\ d[i] = c[i + excess]
  <2>1. i + excess \in 1 .. Len(c) /\ excess + i = i + excess
    BY <1>1, <1>3, <1>5, <1>8
  <2> QED BY <1>2, <1>5, <2>1
<1> QED BY <1>1, <1>3, <1>5, <1>6, <1>7, <1>8 DEF d, l

LEMMA LinkTypes ==
    ASSUME ChainInv
    PROVE  /\ Len(chain) \in Nat
           /\ \A i \in 1 .. Len(chain) : chain[i].epoch \in Nat /\ chain[i].startSeq \in Nat
<1>1. Len(chain) \in Nat /\ \A i \in 1 .. Len(chain) : chain[i] \in Epoch
  BY LenProperties DEF ChainInv
<1> QED BY <1>1 DEF Epoch

\* A client that is sent back keeps what its own process and those before it recorded.
LEMMA RewindSeparates ==
    ASSUME HistoryInv, ChainInv, NEW p \in Nat, NEW s \in Nat, NEW r \in RewindFor(p, s)
    PROVE  /\ r \in Nat /\ r < s /\ p < epoch /\ r <= last
           /\ \A e \in timeline : e.seq > r <=> e.by > p
           /\ \A q \in RewindFor(p, s) : q = r
<1>1. Len(chain) \in Nat /\ \A i \in 1 .. Len(chain) : chain[i].epoch \in Nat /\ chain[i].startSeq \in Nat
  BY LinkTypes
<1>2. PICK j \in 1 .. Len(chain) - 1 :
        chain[j].epoch = p /\ p # epoch /\ s > chain[j + 1].startSeq /\ r = chain[j + 1].startSeq
  BY DEF RewindFor, RewindPoints
<1>3. j \in 1 .. Len(chain) /\ j + 1 \in 1 .. Len(chain)
  BY <1>1, <1>2
<1>4. chain[j].epoch = epoch - (Len(chain) - j) /\ chain[j + 1].epoch = epoch - (Len(chain) - (j + 1))
      /\ chain[j + 1].startSeq <= sidecar
  BY <1>3 DEF ChainInv
<1>5. epoch \in Nat /\ sidecar <= last /\ sidecar \in Int /\ last \in Int
  BY RemoteStreamAssumption DEF HistoryInv
<1>6. chain[j + 1].epoch = p + 1 /\ p < epoch
  <2>1. p = epoch - (Len(chain) - j) /\ p # epoch /\ Len(chain) \in Nat /\ j \in Nat /\ j <= Len(chain)
    BY <1>1, <1>2, <1>3, <1>4
  <2> QED BY <1>4, <1>5, <2>1
<1>7. r \in Nat /\ r < s /\ r <= last
  BY <1>1, <1>2, <1>3, <1>4, <1>5
<1>8. ASSUME NEW e \in timeline PROVE e.seq > r <=> e.by > p
  <2>1. e.by \in Nat
    BY DEF HistoryInv, Entry
  <2>2. e.seq > r <=> e.by >= p + 1
    BY <1>2, <1>3, <1>6 DEF ChainInv
  <2> QED BY <2>1, <2>2
<1>9. ASSUME NEW q \in RewindFor(p, s) PROVE q = r
  <2>1. PICK k \in 1 .. Len(chain) - 1 : chain[k].epoch = p /\ q = chain[k + 1].startSeq
    BY DEF RewindFor, RewindPoints
  <2>2. k \in 1 .. Len(chain)
    BY <1>1, <2>1
  <2>3. chain[k].epoch = epoch - (Len(chain) - k)
    BY <2>2 DEF ChainInv
  <2>4. k = j
    BY <1>1, <1>2, <1>4, <1>5, <2>1, <2>2, <2>3
  <2> QED BY <1>2, <2>1, <2>4
<1> QED BY <1>6, <1>7, <1>8, <1>9

\* One that is not, and whose process the chain still has, has nothing below its
\* cursor that came after that process.
LEMMA NoRewindNeeded ==
    ASSUME HistoryInv, ChainInv, NEW p \in Nat, NEW s \in Nat, p <= epoch,
           RewindFor(p, s) = {}, ~Forgotten(p, s)
    PROVE  /\ \A e \in timeline : e.seq <= s => e.by <= p
           /\ p < epoch => s <= last
<1>1. Len(chain) \in Nat /\ \A i \in 1 .. Len(chain) : chain[i].epoch \in Nat /\ chain[i].startSeq \in Nat
  BY LinkTypes
<1>2. /\ epoch \in Nat /\ sidecar <= last /\ sidecar \in Int /\ last \in Int /\ 0 <= last
      /\ \A e \in timeline : e.seq \in Nat /\ e.seq > 0 /\ e.by \in Nat /\ e.by <= epoch
  BY RemoteStreamAssumption DEF HistoryInv, Entry
<1>3. CASE p = epoch
  BY <1>2, <1>3
<1>4. CASE s = 0
  BY <1>2, <1>4
<1>5. CASE p # epoch /\ s # 0
  <2>1. PICK j \in 1 .. Len(chain) : chain[j].epoch = p
    BY <1>5 DEF Forgotten
  <2>2. chain[j].epoch = epoch - (Len(chain) - j)
    BY DEF ChainInv
  <2>3. j \in 1 .. Len(chain) - 1 /\ j + 1 \in 1 .. Len(chain)
    <3>1. p = epoch - (Len(chain) - j) /\ p # epoch /\ Len(chain) \in Nat /\ j \in Nat /\ j <= Len(chain)
      BY <1>1, <1>5, <2>1, <2>2
    <3> QED BY <1>2, <3>1
  <2>4. chain[j + 1].epoch = epoch - (Len(chain) - (j + 1)) /\ chain[j + 1].startSeq <= sidecar
    BY <2>3 DEF ChainInv
  <2>5. chain[j + 1].epoch = p + 1
    BY <1>1, <1>2, <2>1, <2>2, <2>3, <2>4
  <2>6. ~(s > chain[j + 1].startSeq)
    BY <1>5, <2>1, <2>3 DEF RewindFor, RewindPoints
  <2>7. s <= chain[j + 1].startSeq
    BY <1>1, <2>3, <2>6
  <2>8. ASSUME NEW e \in timeline, e.seq <= s PROVE e.by <= p
    <3>1. ~(e.seq > chain[j + 1].startSeq)
      BY <1>1, <1>2, <2>3, <2>7, <2>8
    <3>2. ~(e.by >= p + 1)
      BY <2>3, <2>5, <3>1 DEF ChainInv
    <3> QED BY <1>2, <3>2
  <2> QED BY <1>1, <1>2, <2>3, <2>4, <2>7, <2>8
<1> QED BY <1>3, <1>4, <1>5

-----------------------------------------------------------------------------
(* What the daemon does to the history.                                    *)

\* While one process runs, the history only grows at its end.
Grows ==
    /\ epoch' = epoch /\ chain' = chain /\ last <= last' /\ timeline \subseteq timeline'
    /\ \A e \in timeline' \ timeline : e.seq > last /\ e.by = epoch
    /\ \A e \in checkpoint' : e \in checkpoint \/ e \notin timeline

\* What process p records after number s.
Recorded(s, roles, p) ==
    {Stamp(s + i, [role |-> roles[i], req |-> NoRequest], p) : i \in 1 .. Len(roles)}

LEMMA NewEntries ==
    ASSUME NEW from \in Nat, NEW roles \in Seq(Roles), NEW p \in Nat
    PROVE  LET new == Recorded(from, roles, p) IN
           /\ new \subseteq Entry
           /\ \A e \in new : e.seq > from /\ e.seq <= from + Len(roles) /\ e.by = p
           /\ \A e, f \in new : e.seq = f.seq => e = f
<1>1. Len(roles) \in Nat /\ \A i \in 1 .. Len(roles) : roles[i] \in Roles
  BY LenProperties
<1> QED BY <1>1 DEF Recorded, Stamp, Entry

LEMMA RecordGrows ==
    ASSUME JournalInv, NEW roles \in Seq(Roles), Record(roles), UNCHANGED <<epoch, chain, acked>>
    PROVE  JournalInv' /\ Grows
<1> DEFINE new == Recorded(last, roles, epoch)
           all == log \cup new
<1> USE DEF JournalInv
<1>1. /\ epoch \in Nat /\ last \in Nat /\ low \in Nat /\ sidecar \in Nat /\ sidecar <= last
      /\ acked \in Nat /\ flushed \in Nat
      /\ MaxSeq \in Nat /\ Len(roles) \in Nat
  BY RemoteStreamAssumption, LenProperties DEF HistoryInv
<1>2. /\ last' = last + Len(roles) /\ last' <= MaxSeq
      /\ timeline' = timeline \cup new /\ checkpoint' = Live(checkpoint \cup new)
      /\ \/ log' = all /\ low' = low
         \/ \E w \in Seqs(log) :
               /\ log' = After(DropFinishedAckedTokens(all, acked), w)
               /\ low' = MaxOf(low, w)
      /\ \/ flushed' = last' /\ sidecar' = last'
         \/ flushed' = flushed /\ sidecar' = sidecar
  BY DEF Record, Recorded
<1>3. /\ new \subseteq Entry
      /\ \A e \in new : e.seq > last /\ e.seq <= last' /\ e.by = epoch
      /\ \A e, f \in new : e.seq = f.seq => e = f
  <2>1. /\ new \subseteq Entry
        /\ \A e \in new : e.seq > last /\ e.seq <= last + Len(roles) /\ e.by = epoch
        /\ \A e, f \in new : e.seq = f.seq => e = f
    BY <1>1, NewEntries
  <2> QED BY <1>2, <2>1
<1> HIDE DEF new
<1>4. /\ epoch' = epoch /\ chain' = chain /\ acked' = acked
  OBVIOUS
<1>5. \A e \in timeline : e \in Entry /\ e.seq \in Nat /\ e.by \in Nat /\ e.seq <= last /\ e.by <= epoch
  BY DEF HistoryInv, Entry
<1>6. \A e \in new : e \in Entry /\ e.seq \in Nat /\ e.by \in Nat
  BY <1>3 DEF Entry
<1>7. /\ log' \subseteq all /\ low' \in Nat /\ low <= low'
      /\ \A e \in all : e.role # "token" \/ (\A m \in Finishers(all) : m.seq < e.seq) =>
            e \in log' \/ e.seq <= low'
  <2>1. CASE log' = all /\ low' = low
    BY <1>1, <2>1
  <2>2. ASSUME NEW w \in Seqs(log), log' = After(DropFinishedAckedTokens(all, acked), w),
               low' = MaxOf(low, w)
        PROVE  /\ log' \subseteq all /\ low' \in Nat /\ low <= low'
               /\ \A e \in all : e.role # "token" \/ (\A m \in Finishers(all) : m.seq < e.seq) =>
                     e \in log' \/ e.seq <= low'
    <3>1. w \in Nat
      BY DEF Seqs, HistoryInv, Entry
    <3>2. w <= low' /\ low <= low' /\ low' \in Nat
      BY <1>1, <2>2, <3>1, Bounds
    <3>3. log' \subseteq all
      BY <2>2 DEF After, DropFinishedAckedTokens
    <3>4. ASSUME NEW e \in all, e.role # "token" \/ (\A m \in Finishers(all) : m.seq < e.seq),
                 e \notin log'
          PROVE  e.seq <= low'
      <4>1. ~(e.seq > w)
        <5>1. \A m \in Finishers(all) : m.seq \in Nat
          BY <1>5, <1>6 DEF HistoryInv, Finishers
        <5>2. e \notin FinishedAckedTokens(all, acked)
          <6>1. e.seq \in Nat
            BY <1>5, <1>6 DEF HistoryInv
          <6>2. CASE e.role # "token"
            BY <6>2 DEF FinishedAckedTokens
          <6>3. CASE \A m \in Finishers(all) : m.seq < e.seq
            <7>1. ASSUME NEW m \in Finishers(all) PROVE ~(e.seq < m.seq)
              <8>1. m.seq \in Nat /\ m.seq < e.seq
                BY <5>1, <6>3
              <8> QED BY <6>1, <8>1
            <7> QED BY <7>1 DEF FinishedAckedTokens
          <6> QED BY <3>4, <6>2, <6>3
        <5> QED BY <2>2, <3>4, <5>2 DEF After, DropFinishedAckedTokens
      <4>2. e.seq \in Nat
        BY <1>5, <1>6 DEF HistoryInv
      <4> QED BY <3>1, <3>2, <4>1, <4>2
    <3> QED BY <3>2, <3>3, <3>4
  <2> QED BY <1>2, <2>1, <2>2
<1>8. Live(checkpoint \cup new) \subseteq checkpoint \cup new
  BY DEF Live
<1>9. Grows
  <2>1. \A e \in new : e \notin timeline
    BY <1>1, <1>3, <1>5, <1>6
  <2>2. \A e \in checkpoint' : e \in checkpoint \/ e \in new
    BY <1>2, <1>8
  <2>3. \A e \in timeline' \ timeline : e.seq > last /\ e.by = epoch
    BY <1>2, <1>3
  <2>4. last <= last' /\ timeline \subseteq timeline'
    BY <1>1, <1>2
  <2> QED BY <1>4, <2>1, <2>2, <2>3, <2>4 DEF Grows
<1>10. HistoryInv'
  <2>1. last' \in 0 .. MaxSeq /\ sidecar' \in 0 .. last' /\ flushed' \in Nat /\ last <= last'
    BY <1>1, <1>2
  <2>2. timeline' \subseteq Entry /\ log' \subseteq timeline' /\ checkpoint' \subseteq timeline'
    BY <1>2, <1>3, <1>5, <1>7, <1>8 DEF HistoryInv
  <2>3. \A e \in timeline' : e.seq <= last' /\ e.by <= epoch
    BY <1>1, <1>2, <1>3, <1>5, <2>1
  <2>4. \A e, f \in timeline' : e.seq = f.seq => e = f
    <3>1. \A e, f \in timeline : e.seq = f.seq => e = f
      BY DEF HistoryInv
    <3>2. \A e \in timeline, f \in new : e.seq < f.seq
      BY <1>1, <1>3, <1>5, <1>6
    <3> QED BY <1>2, <1>3, <1>5, <1>6, <3>1, <3>2
  <2>5. \A e, f \in timeline' : e.seq < f.seq => e.by <= f.by
    <3>1. \A e, f \in timeline : e.seq < f.seq => e.by <= f.by
      BY DEF HistoryInv
    <3>2. \A e \in timeline' : \A f \in new : e.by <= f.by
      BY <1>1, <1>2, <1>3, <1>5
    <3>3. \A e \in new, f \in timeline : ~(e.seq < f.seq)
      BY <1>1, <1>3, <1>5, <1>6
    <3> QED BY <1>2, <3>1, <3>2, <3>3
  <2>6. \A e \in timeline' : e.role # "token" => e \in log' \/ e.seq <= low'
    <3>1. \A e \in timeline : e.role # "token" => e \in log \/ e.seq <= low
      BY DEF HistoryInv
    <3> QED BY <1>1, <1>2, <1>5, <1>7, <3>1
  <2> QED BY <1>1, <1>4, <1>7, <2>1, <2>2, <2>3, <2>4, <2>5, <2>6 DEF HistoryInv
<1>11. TokensInv'
  <2> SUFFICES ASSUME NEW k \in Tokens(checkpoint')
               PROVE  /\ k.by = epoch /\ \A m \in Finishers(timeline') : m.seq < k.seq
                      /\ k \in log' \/ k.seq <= low'
    BY <1>4 DEF TokensInv
  <2>1. k \in checkpoint \cup new /\ k.role = "token" /\ ~Superseded(k, checkpoint \cup new)
    BY <1>2 DEF Tokens, Live
  <2>2. checkpoint \subseteq timeline /\ log \subseteq timeline
    BY DEF HistoryInv
  <2>3. \A m \in Finishers(timeline') : m \in timeline' /\ m.role \in {"message", "turn_end"}
    BY DEF Finishers
  <2>4. ASSUME \A m \in Finishers(timeline') : m.seq < k.seq, k \in all
        PROVE  k \in log' \/ k.seq <= low'
    <3>1. Finishers(all) \subseteq Finishers(timeline')
      BY <1>2, <2>2 DEF Finishers
    <3> QED BY <1>7, <2>4, <3>1
  <2>5. CASE k \in new
    <3>1. \A m \in timeline : m.seq < k.seq
      BY <1>1, <1>3, <1>5, <1>6, <2>5
    <3>2. ASSUME NEW m \in new, m.role \in {"message", "turn_end"} PROVE m.seq < k.seq
      <4>1. ~(m.seq > k.seq)
        BY <2>1, <3>2 DEF Superseded
      <4>2. m.seq # k.seq
        BY <1>3, <2>1, <2>5, <3>2
      <4> QED BY <1>6, <2>5, <4>1, <4>2
    <3>3. \A m \in Finishers(timeline') : m.seq < k.seq
      BY <1>2, <2>3, <3>1, <3>2
    <3> QED BY <1>3, <2>4, <2>5, <3>3
  <2>6. CASE k \in checkpoint
    <3>1. k \in Tokens(checkpoint) /\ k \in timeline
      BY <2>1, <2>2, <2>6 DEF Tokens
    <3>2. /\ k.by = epoch /\ \A m \in timeline : m.role \in {"message", "turn_end"} => m.seq < k.seq
          /\ k \in log \/ k.seq <= low
      BY <3>1 DEF TokensInv, Finishers
    <3>3. ASSUME NEW m \in new, m.role \in {"message", "turn_end"} PROVE FALSE
      <4>1. ~(m.seq > k.seq)
        BY <2>1, <3>3 DEF Superseded
      <4> QED BY <1>1, <1>3, <1>5, <1>6, <3>1, <4>1
    <3>4. \A m \in Finishers(timeline') : m.seq < k.seq
      BY <1>2, <2>3, <3>2, <3>3
    <3>5. k.seq <= low => k.seq <= low'
      BY <1>1, <1>5, <1>7, <3>1
    <3> QED BY <2>4, <3>2, <3>4, <3>5
  <2> QED BY <2>1, <2>5, <2>6
<1>12. ChainInv'
  <2>1. sidecar <= sidecar' /\ sidecar' \in Nat
    BY <1>1, <1>2
  <2> SUFFICES ASSUME NEW i \in 1 .. Len(chain)
               PROVE  /\ chain[i].epoch = epoch - (Len(chain) - i) /\ chain[i].startSeq <= sidecar'
                      /\ \A e \in timeline' : e.seq > chain[i].startSeq <=> e.by >= chain[i].epoch
    BY <1>4 DEF ChainInv
  <2>2. /\ chain[i].epoch = epoch - (Len(chain) - i) /\ chain[i].startSeq <= sidecar
        /\ \A e \in timeline : e.seq > chain[i].startSeq <=> e.by >= chain[i].epoch
    BY DEF ChainInv
  <2>3. chain[i].epoch \in Nat /\ chain[i].startSeq \in Nat /\ Len(chain) \in Nat
    BY LinkTypes
  <2>4. chain[i].epoch <= epoch
    BY <1>1, <2>2, <2>3
  <2>5. \A e \in new : e.seq > chain[i].startSeq /\ e.by >= chain[i].epoch
    BY <1>1, <1>3, <1>6, <2>2, <2>3, <2>4
  <2> QED BY <1>1, <1>2, <2>1, <2>2, <2>3, <2>5
<1> QED BY <1>9, <1>10, <1>11, <1>12

LEMMA CompactGrows ==
    ASSUME JournalInv, NEW w \in 0 .. MaxSeq, Compact(w)
    PROVE  JournalInv' /\ Grows
<1> USE DEF JournalInv
<1>1. /\ epoch' = epoch /\ last' = last /\ acked' = acked /\ checkpoint' = checkpoint
      /\ chain' = chain /\ timeline' = timeline
      /\ log' = DropFinishedAckedTokens(After(log, w), acked)
      /\ low' = MaxOf(low, w) /\ flushed' = last /\ sidecar' = last
  BY DEF Compact
<1>2. /\ last \in Nat /\ low \in Nat /\ sidecar \in Nat /\ sidecar <= last /\ w \in Nat /\ MaxSeq \in Nat
  BY RemoteStreamAssumption DEF HistoryInv
<1>3. low' \in Nat /\ low <= low' /\ w <= low'
  BY <1>1, <1>2, Bounds
<1>4. log' \subseteq log
  BY <1>1 DEF DropFinishedAckedTokens, After
<1>5. ASSUME NEW e \in timeline, e.role # "token" PROVE e \in log' \/ e.seq <= low'
  <2>1. e.seq \in Nat /\ (e \in log \/ e.seq <= low)
    BY <1>5 DEF HistoryInv, Entry
  <2>2. e \in log /\ e.seq > w => e \in log'
    BY <1>1, <1>5 DEF DropFinishedAckedTokens, FinishedAckedTokens, After
  <2> QED BY <1>2, <1>3, <2>1, <2>2
<1>6. HistoryInv'
  BY <1>1, <1>2, <1>3, <1>4, <1>5 DEF HistoryInv
<1>7. TokensInv'
  <2> SUFFICES ASSUME NEW k \in Tokens(checkpoint), k \notin log' PROVE k.seq <= low'
    BY <1>1 DEF TokensInv
  <2>1. /\ k \in log \/ k.seq <= low
        /\ \A m \in Finishers(timeline) : m.seq < k.seq
        /\ k \in timeline /\ k.seq \in Nat
    BY DEF TokensInv, Tokens, HistoryInv, Entry
  <2>2. \A m \in Finishers(After(log, w)) : m.seq < k.seq /\ m.seq \in Nat
    BY <2>1 DEF Finishers, After, HistoryInv, Entry
  <2>3. k \notin FinishedAckedTokens(After(log, w), acked)
    BY <2>1, <2>2 DEF FinishedAckedTokens
  <2>4. k \in log => ~(k.seq > w)
    BY <1>1, <2>3 DEF DropFinishedAckedTokens, After
  <2> QED BY <1>2, <1>3, <2>1, <2>4
<1>8. ChainInv'
  <2>1. \A i \in 1 .. Len(chain) : chain[i].startSeq <= last
    BY <1>2, LinkTypes DEF ChainInv
  <2> QED BY <1>1, <2>1 DEF ChainInv
<1> QED BY <1>1, <1>2, <1>6, <1>7, <1>8 DEF Grows

\* A crash takes back a part of the history, and what the next process adds is its own.
Restarts ==
    /\ epoch' = epoch + 1
    /\ \A e \in timeline' : e \in timeline \/ e.by = epoch + 1

LEMMA RestartHistory ==
    ASSUME JournalInv, NEW c \in 0 .. MaxSeq, Restart(c)
    PROVE  JournalInv' /\ Restarts
<1> DEFINE kept == log \ After(log, c)
           from == MaxOf(c, sidecar)
           ends == IF TurnInFlight(Live(kept)) THEN <<"turn_end", "idle">> ELSE <<>>
           new == Recorded(from, ends, epoch + 1)
<1> USE DEF JournalInv
<1>1. /\ epoch \in Nat /\ last \in Nat /\ low \in Nat /\ sidecar \in Nat /\ sidecar <= last
      /\ flushed \in Nat /\ MaxSeq \in Nat /\ c \in Nat /\ acked \in Nat
  BY RemoteStreamAssumption DEF HistoryInv
<1>2. /\ c \in flushed .. last
      /\ log' = kept \cup new
      /\ last' = from + Len(ends) /\ last' <= MaxSeq
      /\ checkpoint' = Live(log')
      /\ timeline' = (timeline \ After(timeline, c)) \cup new
      /\ flushed' = IF ends = <<>> THEN c ELSE last'
      /\ sidecar' = last'
      /\ chain' = RecordEpoch(chain, epoch + 1, from, MaxChain)
      /\ epoch' = epoch + 1 /\ low' = low /\ acked' = acked
  BY DEF Restart, Recorded
<1>3. from \in Nat /\ c <= from /\ sidecar <= from
  BY <1>1, Bounds
<1>4. /\ ends \in Seq(Roles) /\ Len(ends) \in Nat
      /\ ends = <<>> \/ (Len(ends) = 2 /\ ends[1] = "turn_end" /\ ends[2] = "idle")
  BY DEF Roles
<1>5. ends = <<>> => ~TurnInFlight(Live(kept))
  BY <1>4
<1> HIDE DEF ends, from
<1>6. /\ new \subseteq Entry
      /\ \A e \in new : e.seq > from /\ e.seq <= from + Len(ends) /\ e.by = epoch + 1
      /\ \A e, f \in new : e.seq = f.seq => e = f
  BY <1>1, <1>3, <1>4, NewEntries
<1>7. /\ \A e \in new : e.role # "token" /\ e.role # "message"
      /\ ends # <<>> => \E e \in new : e.role = "turn_end"
      /\ ends = <<>> => new = {}
  <2>1. CASE ends = <<>>
    BY <2>1 DEF Recorded
  <2>2. CASE ends # <<>>
    <3>1. 1 .. Len(ends) = {1, 2}
      <4>1. Len(ends) = 2 /\ 1 .. 2 = {1, 2}
        BY <1>4, <2>2
      <4> QED BY <4>1
    <3>2. new = {Stamp(from + i, [role |-> ends[i], req |-> NoRequest], epoch + 1) : i \in {1, 2}}
      BY <3>1 DEF Recorded
    <3>3. /\ \A e \in new : e.role \in {"turn_end", "idle"}
          /\ Stamp(from + 1, [role |-> ends[1], req |-> NoRequest], epoch + 1) \in new
      BY <1>4, <2>2, <3>2 DEF Stamp
    <3>4. Stamp(from + 1, [role |-> ends[1], req |-> NoRequest], epoch + 1).role = "turn_end"
      BY <1>4, <2>2 DEF Stamp
    <3> QED BY <2>2, <3>3, <3>4
  <2> QED BY <2>1, <2>2
<1> HIDE DEF new
<1>8. \A e \in timeline : e \in Entry /\ e.seq \in Nat /\ e.by \in Nat /\ e.seq <= last /\ e.by <= epoch
  BY DEF HistoryInv, Entry
<1>9. \A e \in new : e \in Entry /\ e.seq \in Nat /\ e.by \in Nat
  BY <1>6 DEF Entry
<1>10. \A e \in timeline' : (e \in timeline /\ e.seq <= c) \/ e \in new
  BY <1>1, <1>2, <1>8 DEF After
<1>11. Restarts
  BY <1>2, <1>6, <1>10 DEF Restarts
<1>12. HistoryInv'
  <2>1. last' \in 0 .. MaxSeq /\ sidecar' \in 0 .. last' /\ flushed' \in Nat /\ from <= last'
    BY <1>1, <1>2, <1>3, <1>4
  <2>2. log' \subseteq timeline'
    <3>1. kept \subseteq timeline \ After(timeline, c)
      BY <1>1 DEF HistoryInv, After
    <3> QED BY <1>2, <3>1
  <2>3. timeline' \subseteq Entry /\ checkpoint' \subseteq timeline'
    BY <1>2, <1>6, <1>8, <2>2 DEF Live
  <2>4. \A e \in timeline' : e.seq <= last' /\ e.by <= epoch'
    BY <1>1, <1>2, <1>3, <1>6, <1>8, <1>9, <1>10, <2>1
  <2>5. \A e, f \in timeline' : e.seq = f.seq => e = f
    <3>1. \A e, f \in timeline : e.seq = f.seq => e = f
      BY DEF HistoryInv
    <3> QED BY <1>1, <1>3, <1>6, <1>8, <1>9, <1>10, <3>1
  <2>6. \A e, f \in timeline' : e.seq < f.seq => e.by <= f.by
    <3>1. \A e, f \in timeline : e.seq < f.seq => e.by <= f.by
      BY DEF HistoryInv
    <3>2. \A e \in timeline, f \in new : e.by <= f.by
      BY <1>1, <1>6, <1>8
    <3>3. \A e, f \in new : e.by <= f.by
      BY <1>1, <1>6, <1>9
    <3>4. \A e \in new, f \in timeline : f.seq <= c => ~(e.seq < f.seq)
      BY <1>1, <1>3, <1>6, <1>8, <1>9
    <3> QED BY <1>10, <3>1, <3>2, <3>3, <3>4
  <2>7. \A e \in timeline' : e.role # "token" => e \in log' \/ e.seq <= low'
    <3>1. \A e \in timeline : e.role # "token" => e \in log \/ e.seq <= low
      BY DEF HistoryInv
    <3>2. \A e \in log : e.seq <= c => e \in kept
      BY <1>1, <1>8 DEF After, HistoryInv
    <3> QED BY <1>2, <1>10, <3>1, <3>2
  <2>8. epoch' \in Nat /\ low' \in Nat /\ acked' \in Nat
    BY <1>1, <1>2
  <2> QED BY <2>1, <2>2, <2>3, <2>4, <2>5, <2>6, <2>7, <2>8 DEF HistoryInv
<1>13. TokensInv'
  <2> SUFFICES ASSUME NEW k \in Tokens(checkpoint') PROVE FALSE
    BY DEF TokensInv
  <2>1. k \in log' /\ k.role = "token" /\ ~Superseded(k, log') /\ k \in Live(log')
    BY <1>2 DEF Tokens, Live
  <2>2. CASE ends = <<>>
    <3>1. k \in Live(kept)
      BY <1>2, <1>7, <2>1, <2>2
    <3> QED BY <1>5, <2>1, <2>2, <3>1 DEF TurnInFlight
  <2>3. CASE ends # <<>>
    <3>1. PICK e \in new : e.role = "turn_end"
      BY <1>7, <2>3
    <3>2. k \in timeline /\ k.seq <= c
      BY <1>2, <1>7, <1>8, <2>1 DEF After, HistoryInv
    <3>3. e.seq > k.seq /\ e \in log'
      BY <1>1, <1>2, <1>3, <1>6, <1>8, <1>9, <3>1, <3>2
    <3> QED BY <2>1, <3>1, <3>3 DEF Superseded
  <2> QED BY <2>2, <2>3
<1>14. ChainInv'
  <2> DEFINE gone == Len(chain) + 1 - Len(chain')
  <2>1. /\ chain' \in Seq(Epoch) /\ Len(chain') >= 1 /\ gone \in Nat
        /\ chain'[Len(chain')] = [epoch |-> epoch + 1, startSeq |-> from]
        /\ \A i \in 1 .. Len(chain') : i < Len(chain') =>
              i + gone \in 1 .. Len(chain) /\ chain'[i] = chain[i + gone]
    <3>1. chain \in Seq(Epoch) /\ Len(chain) >= 1 /\ epoch + 1 \in Nat
      BY <1>1 DEF ChainInv
    <3> QED BY <1>2, <1>3, <3>1, Joined
  <2>2. Len(chain) \in Nat /\ Len(chain') \in Nat
    BY <2>1, LinkTypes, LenProperties
  <2> SUFFICES ASSUME NEW i \in 1 .. Len(chain')
               PROVE  /\ chain'[i].epoch = epoch' - (Len(chain') - i)
                      /\ chain'[i].startSeq <= sidecar'
                      /\ \A e \in timeline' : e.seq > chain'[i].startSeq <=> e.by >= chain'[i].epoch
    BY <2>1 DEF ChainInv
  <2>3. CASE i = Len(chain')
    <3>1. chain'[i].epoch = epoch + 1 /\ chain'[i].startSeq = from
      BY <2>1, <2>3
    <3>2. \A e \in timeline' : e.seq > from <=> e.by >= epoch + 1
      BY <1>1, <1>3, <1>6, <1>8, <1>9, <1>10
    <3> QED BY <1>1, <1>2, <1>3, <1>4, <2>2, <2>3, <3>1, <3>2
  <2>4. CASE i < Len(chain')
    <3> DEFINE j == i + gone
    <3>1. j \in 1 .. Len(chain) /\ chain'[i] = chain[j]
      BY <2>1, <2>4
    <3>2. /\ chain[j].epoch = epoch - (Len(chain) - j) /\ chain[j].startSeq <= sidecar
          /\ \A e \in timeline : e.seq > chain[j].startSeq <=> e.by >= chain[j].epoch
      BY <3>1 DEF ChainInv
    <3>3. chain[j].epoch \in Nat /\ chain[j].startSeq \in Nat
      BY <3>1, LinkTypes
    <3>4. chain[j].epoch = epoch' - (Len(chain') - i) /\ chain[j].epoch <= epoch
      <4>1. Len(chain) - j = Len(chain') - i - 1 /\ j <= Len(chain)
        BY <2>2, <3>1
      <4> HIDE DEF j
      <4>2. i <= Len(chain') - 1 /\ i \in Nat /\ j \in Nat
        BY <2>2, <2>4, <3>1
      <4>3. chain[j].epoch = epoch - (Len(chain') - i - 1)
        BY <3>2, <4>1
      <4> QED BY <1>1, <1>2, <2>2, <3>3, <4>2, <4>3
    <3>5. chain[j].startSeq <= sidecar' /\ chain[j].startSeq <= from
      <4>1. from <= sidecar' /\ sidecar' \in Nat
        BY <1>2, <1>3, <1>4
      <4>2. sidecar <= from /\ from \in Nat /\ sidecar \in Nat
        BY <1>1, <1>3
      <4>3. chain[j].startSeq \in Nat /\ chain[j].startSeq <= sidecar
        BY <3>2, <3>3
      <4> HIDE DEF j
      <4> QED BY <4>1, <4>2, <4>3
    <3>6. \A e \in new : e.seq > chain[j].startSeq /\ e.by >= chain[j].epoch
      BY <1>1, <1>3, <1>6, <1>9, <3>3, <3>4, <3>5
    <3> QED BY <1>10, <3>1, <3>2, <3>4, <3>5, <3>6
  <2> QED BY <2>2, <2>3, <2>4
<1> QED BY <1>11, <1>12, <1>13, <1>14

-----------------------------------------------------------------------------
(* What the plugin holds stays right whatever the daemon records, and      *)
(* whatever a crash takes back.                                            *)

LEMMA NotNone ==
    /\ None \notin Subscription
    /\ \A a, b : [afterSeq |-> a, epoch |-> b] # None
<1>1. DOMAIN None = {"none"}
  BY DEF None
<1>2. \A s \in Subscription : "cursor" \in DOMAIN s
  BY DEF Subscription
<1>3. \A a, b : "afterSeq" \in DOMAIN [afterSeq |-> a, epoch |-> b]
  OBVIOUS
<1>4. "cursor" \notin {"none"} /\ "afterSeq" \notin {"none"}
  OBVIOUS
<1> QED BY <1>1, <1>2, <1>3, <1>4

LEMMA Past ==
    ASSUME HistoryInv
    PROVE  /\ epoch \in Nat /\ last \in Nat /\ low \in Nat /\ last <= MaxSeq
           /\ \A e \in timeline : /\ e \in Entry /\ e.seq \in Nat /\ e.seq > 0 /\ e.by \in Nat
                                  /\ e.seq <= last /\ e.by <= epoch
BY RemoteStreamAssumption DEF HistoryInv, Entry

LEMMA KeptStays ==
    ASSUME HistoryInv, HistoryInv', Grows \/ Restarts,
           NEW t \in Entry, NEW r \in Remote, r.epoch <= epoch, Kept(t, r)
    PROVE  Kept(t, r)'
<1>1. t.by \in Nat /\ r.epoch \in Nat /\ r.lastSeq \in Nat /\ t.seq \in Nat
  BY DEF Entry, Remote
<1>2. /\ epoch \in Nat /\ epoch' \in Nat /\ epoch <= epoch' /\ last \in Nat
      /\ \A e \in timeline' : e \in timeline \/ (e.by = epoch /\ Grows) \/ e.by = epoch + 1
      /\ \A e \in timeline' : e.by \in Nat /\ e.seq \in Nat
      /\ Restarts => epoch' = epoch + 1
  BY Past DEF Grows, Restarts, HistoryInv, Entry
<1>3. Older(t, r.lastSeq) => Older(t, r.lastSeq)'
  BY <1>1, <1>2 DEF Older
<1>4. CASE Grows
  <2>1. epoch' = epoch /\ (t \in timeline => t \in timeline')
    BY <1>4 DEF Grows
  <2> QED BY <1>1, <1>3, <2>1 DEF Kept
<1>5. CASE Restarts
  <2>1. t.by < epoch' /\ epoch' = epoch + 1
    BY <1>1, <1>2, <1>5 DEF Kept
  <2>2. t.seq <= r.lastSeq \/ Older(t, r.lastSeq)'
    BY <1>3 DEF Kept
  <2> QED BY <1>1, <2>1, <2>2 DEF Kept
<1> QED BY <1>4, <1>5

LEMMA StoryStays ==
    ASSUME HistoryInv, HistoryInv', Grows \/ Restarts,
           NEW r \in Remote, NEW tr, r.epoch <= epoch, Story(r, tr)
    PROVE  Story(r, tr)'
<1>1. tr \in Seq(Entry) /\ Ascending(tr) /\ \A i \in 1 .. Len(tr) : Kept(tr[i], r)
  BY DEF Story
<1>2. \A i \in 1 .. Len(tr) : tr[i] \in Entry
  BY <1>1
<1>3. \A i \in 1 .. Len(tr) : Kept(tr[i], r)'
  BY <1>1, <1>2, KeptStays
<1> QED BY <1>1, <1>3 DEF Story

LEMMA WholeStays ==
    ASSUME HistoryInv, HistoryInv', Grows \/ Restarts,
           NEW s \in Nat, NEW p \in Nat, NEW done, p <= epoch, Whole(s, p, done)
    PROVE  Whole(s, p, done)'
<1>1. epoch \in Nat /\ last \in Nat /\ last' \in Nat
  BY Past, RemoteStreamAssumption DEF HistoryInv
<1>2. \A e \in timeline' : e.seq \in Nat /\ e.by \in Nat
  BY DEF HistoryInv, Entry
<1>3. p = epoch => s <= last
  BY DEF Whole
<1>4. ASSUME NEW e \in timeline', e.seq <= s, e.by <= p PROVE e \in timeline
  <2>1. CASE Grows
    BY <1>1, <1>2, <1>3, <1>4, <2>1 DEF Grows
  <2>2. CASE Restarts
    BY <1>1, <1>2, <1>4, <2>2 DEF Restarts
  <2> QED BY <2>1, <2>2
<1>5. p = epoch' => s <= last'
  BY <1>1, <1>3 DEF Grows, Restarts
<1> QED BY <1>4, <1>5 DEF Whole

LEMMA SessionTypes ==
    ASSUME SessionInv
    PROVE  /\ remote \in Remote /\ remote.lastSeq \in Nat /\ remote.epoch \in Nat
           /\ remote.epoch <= epoch
           /\ sub # None => /\ sub \in Subscription /\ sub.cursor \in Nat /\ sub.epoch \in Nat
                            /\ sub.epoch = remote.epoch /\ remote.lastSeq <= sub.cursor
                            /\ sub.ackTarget \in Nat /\ sub.ackSent \in Nat
BY DEF SessionInv, Remote, Subscription

LEMMA SavedTypes ==
    ASSUME NEW s, SavedInv(s)
    PROVE  /\ s.remote \in Remote /\ s.remote.lastSeq \in Nat /\ s.remote.epoch \in Nat
           /\ s.remote.epoch <= epoch /\ Story(s.remote, s.transcript)
BY DEF SavedInv, Remote

LEMMA SessionStays ==
    ASSUME HistoryInv, SessionInv, StoryInv, WholeInv, HistoryInv', Grows \/ Restarts,
           UNCHANGED <<phase, sub, remote, openFrom, transcript, applied, unrewound, disk>>
    PROVE  SessionInv' /\ StoryInv' /\ WholeInv'
<1>1. epoch <= epoch' /\ epoch \in Nat /\ epoch' \in Nat
  BY Past DEF HistoryInv, Grows, Restarts
<1>2. UNCHANGED <<saved, snapshot>>
  BY DEF disk
<1>3. SessionInv'
  <2>1. remote.epoch <= epoch'
    BY <1>1, SessionTypes
  <2> QED BY <2>1 DEF SessionInv
<1>4. ASSUME NEW s, SavedInv(s) PROVE SavedInv(s)'
  <2>1. Story(s.remote, s.transcript)'
    BY <1>4, SavedTypes, StoryStays
  <2> QED BY <1>1, <1>4, <2>1, SavedTypes DEF SavedInv
<1>5. StoryInv'
  <2>1. Story(remote, transcript)'
    <3>1. Story(remote, transcript)
      BY DEF StoryInv
    <3>2. ASSUME NEW r, NEW tr, r = remote, tr = transcript PROVE Story(r, tr)'
      BY <3>1, <3>2, SessionTypes, StoryStays
    <3> QED BY <3>2
  <2>2. SavedInv(saved)'
    <3>1. SavedInv(saved)
      BY DEF StoryInv
    <3>2. ASSUME NEW s, s = saved PROVE SavedInv(s)'
      BY <1>4, <3>1, <3>2
    <3> QED BY <1>2, <3>2
  <2>3. snapshot' # None => SavedInv(snapshot)'
    <3>1. snapshot # None => SavedInv(snapshot)
      BY DEF StoryInv
    <3>2. ASSUME NEW s, s = snapshot, snapshot # None PROVE SavedInv(s)'
      BY <1>4, <3>1, <3>2
    <3> QED BY <1>2, <3>2
  <2> QED BY <1>2, <2>1, <2>2, <2>3 DEF StoryInv
<1>6. WholeInv'
  <2> SUFFICES ASSUME ~unrewound PROVE WholeInv'
    BY DEF WholeInv
  <2>1. ASSUME NEW s \in Nat, NEW p \in Nat, NEW done, p <= epoch, Whole(s, p, done)
        PROVE  Whole(s, p, done)'
    BY <2>1, WholeStays
  <2>2. Whole(remote.lastSeq, remote.epoch, applied)'
    <3>1. ASSUME NEW s, NEW p, NEW done, s = remote.lastSeq, p = remote.epoch, done = applied
          PROVE  Whole(s, p, done)'
      BY <2>1, <3>1, SessionTypes DEF WholeInv
    <3> QED BY <3>1
  <2>3. sub # None => Whole(sub.cursor, sub.epoch, applied)'
    <3>1. ASSUME NEW s, NEW p, NEW done, s = sub.cursor, p = sub.epoch, done = applied, sub # None
          PROVE  Whole(s, p, done)'
      BY <2>1, <3>1, SessionTypes DEF WholeInv
    <3> QED BY <3>1
  <2>4. Whole(saved.remote.lastSeq, saved.remote.epoch, saved.applied)'
    <3>1. ASSUME NEW s, NEW p, NEW done, s = saved.remote.lastSeq, p = saved.remote.epoch,
                 done = saved.applied
          PROVE  Whole(s, p, done)'
      BY <2>1, <3>1, SavedTypes DEF WholeInv, StoryInv
    <3> QED BY <1>2, <3>1
  <2>5. snapshot # None => Whole(snapshot.remote.lastSeq, snapshot.remote.epoch, snapshot.applied)'
    <3>1. ASSUME NEW s, NEW p, NEW done, s = snapshot.remote.lastSeq, p = snapshot.remote.epoch,
                 done = snapshot.applied, snapshot # None
          PROVE  Whole(s, p, done)'
      BY <2>1, <3>1, SavedTypes DEF WholeInv, StoryInv
    <3> QED BY <1>2, <3>1
  <2> QED BY <1>2, <2>2, <2>3, <2>4, <2>5 DEF WholeInv
<1> QED BY <1>3, <1>5, <1>6

-----------------------------------------------------------------------------
(* The wire while the daemon records.                                      *)

LEMMA WireTypes ==
    ASSUME LinkInv
    PROVE  /\ wire \in Seq(Frames) /\ Len(wire) \in Nat
           /\ \A i \in 1 .. Len(wire) : wire[i] \in Frames
BY LenProperties DEF LinkInv

LEMMA FrameOfKind ==
    ASSUME NEW f \in Frames
    PROVE  /\ f.kind \in {"attached", "opened", "event", "resync"}
           /\ f.kind = "attached" => f.epoch \in Nat /\ f.rewinds \subseteq Nat
           /\ f.kind = "opened" => f.epoch \in Nat
           /\ f.kind = "event" => f.entry \in Entry /\ f = EventFrame(f.entry)
           /\ f.kind = "resync" => /\ f.seq \in Nat /\ f.checkpoint \subseteq Entry
                                   /\ Until(f) \in Int /\ Until(f) <= f.seq
<1>1. CASE f \in AttachedFrames
  BY <1>1 DEF AttachedFrames
<1>2. CASE f \in OpenedFrames
  BY <1>2 DEF OpenedFrames
<1>3. CASE f \in [kind : {"event"}, entry : Entry]
  BY <1>3 DEF EventFrame
<1>4. CASE f \in ResyncFrames
  BY <1>4 DEF ResyncFrames, Until
<1> QED BY <1>1, <1>2, <1>3, <1>4 DEF Frames

\* What follows the frames on their way changes nothing about them.
LEMMA LongerWire ==
    ASSUME HistoryInv, LinkInv, ResyncInv, HistoryInv', Grows, UNCHANGED transcript,
           NEW n \in Nat, n <= Len(wire), n <= Len(wire'), Len(wire) \in Nat, Len(wire') \in Nat,
           \A i \in 1 .. n : wire'[i] = wire[i],
           \A i \in 1 .. Len(wire') : i > n => wire'[i].kind \in {"event", "opened"}
    PROVE  ResyncInv'
<1> SUFFICES ASSUME NEW i \in 1 .. Len(wire'), wire'[i].kind = "resync"
             PROVE  LET f == wire'[i] IN
                    /\ i = 1 \/ (i = 2 /\ AttachedFirst')
                    /\ f.seq <= last' /\ Until(f) >= 0 /\ f.checkpoint \subseteq timeline'
                    /\ \A m \in Messages(f.checkpoint) : m.seq <= Until(f)
                    /\ \A x \in timeline' : x.seq > Until(f) => x.by = epoch'
                    /\ \A k \in 1 .. Len(transcript') :
                          transcript'[k].by = epoch' => transcript'[k].seq <= Until(f)
                    /\ \A x \in f.checkpoint : x.seq <= f.seq
                    /\ \A k \in Tokens(checkpoint') : k.seq <= f.seq => k \in f.checkpoint
  BY DEF ResyncInv
<1> DEFINE f == wire'[i]
<1>1. i \in 1 .. n /\ i \in 1 .. Len(wire) /\ f = wire[i] /\ wire[i].kind = "resync"
  <2>1. ~(i > n)
    OBVIOUS
  <2> QED BY <2>1
<1>2. /\ i = 1 \/ (i = 2 /\ AttachedFirst)
      /\ f.seq <= last /\ Until(f) >= 0 /\ f.checkpoint \subseteq timeline
      /\ \A m \in Messages(f.checkpoint) : m.seq <= Until(f)
      /\ \A x \in timeline : x.seq > Until(f) => x.by = epoch
      /\ \A k \in 1 .. Len(transcript) : transcript[k].by = epoch => transcript[k].seq <= Until(f)
      /\ \A x \in f.checkpoint : x.seq <= f.seq
      /\ \A k \in Tokens(checkpoint) : k.seq <= f.seq => k \in f.checkpoint
  BY <1>1 DEF ResyncInv
<1>3. epoch' = epoch /\ last <= last' /\ timeline \subseteq timeline'
      /\ \A x \in timeline' : x \in timeline \/ x.by = epoch
  BY DEF Grows
<1>4. i = 2 /\ AttachedFirst => AttachedFirst'
  <2>1. ASSUME i = 2, AttachedFirst PROVE AttachedFirst'
    <3>1. 1 \in 1 .. n
      BY <1>1, <2>1
    <3>2. 1 \in 1 .. Len(wire') /\ wire'[1].kind = "attached"
      BY <2>1, <3>1 DEF AttachedFirst, IsAt
    <3> QED BY <3>2 DEF AttachedFirst, IsAt
  <2> QED BY <2>1
<1> HIDE DEF f
<1>5. f.seq \in Nat /\ last \in Nat /\ last' \in Nat
  <2>1. last \in Nat /\ last' \in Nat
    BY RemoteStreamAssumption DEF HistoryInv
  <2> QED BY <1>1, <2>1, WireTypes, FrameOfKind DEF f
<1>6. f.seq <= last'
  BY <1>2, <1>3, <1>5
<1>7. ASSUME NEW k \in Tokens(checkpoint'), k.seq <= f.seq PROVE k \in f.checkpoint
  <2>1. k \in timeline' /\ k.seq \in Nat /\ (k \in checkpoint \/ k \notin timeline)
        /\ k.role = "token"
    BY DEF Tokens, HistoryInv, Entry, Grows
  <2>2. k \notin timeline => k.seq > last
    BY <2>1 DEF Grows
  <2>3. k \in Tokens(checkpoint)
    BY <1>2, <1>5, <1>7, <2>1, <2>2 DEF Tokens
  <2> QED BY <1>2, <1>7, <2>3
<1> QED BY <1>2, <1>3, <1>4, <1>6, <1>7 DEF f

\* The first frame stays the first, and a frame of another kind put after a wire that
\* is empty does not begin it with an attach's reply.
LEMMA SameFirst ==
    ASSUME NEW n \in Nat, n = Len(wire), Len(wire') \in Nat, n <= Len(wire'),
           \A i \in 1 .. n : wire'[i] = wire[i],
           \A i \in 1 .. Len(wire') : i > n => wire'[i].kind # "attached"
    PROVE  /\ AttachedFirst' <=> AttachedFirst
           /\ AttachedFirst => wire'[1] = wire[1]
<1>1. AttachedFirst => 1 \in 1 .. n /\ 1 \in 1 .. Len(wire') /\ wire'[1] = wire[1]
  BY DEF AttachedFirst, IsAt
<1>2. AttachedFirst' => 1 \in 1 .. n /\ wire'[1] = wire[1] /\ wire'[1].kind = "attached"
  BY DEF AttachedFirst, IsAt
<1> QED BY <1>1, <1>2 DEF AttachedFirst, IsAt

\* What has been passed stays passed while frames of these kinds follow.
LEMMA PassedStays ==
    ASSUME LinkInv, NEW n \in Nat, n = Len(wire), Len(wire') \in Nat, n <= Len(wire'),
           \A i \in 1 .. n : wire'[i] = wire[i],
           \A i \in 1 .. Len(wire') : i > n => wire'[i].kind \in {"event", "opened"},
           UNCHANGED sub, NEW e, Passed(e)
    PROVE  Passed(e)'
<1>1. /\ AttachedFirst' <=> AttachedFirst
      /\ AttachedFirst => wire'[1] = wire[1]
  BY SameFirst
<1>2. CASE \E i \in 1 .. Len(wire) : wire[i].kind = "resync" /\ e.seq <= wire[i].seq
  BY <1>2 DEF Passed
<1>3. CASE ~\E i \in 1 .. Len(wire) : wire[i].kind = "resync" /\ e.seq <= wire[i].seq
  <2>1. \A i \in 1 .. Len(wire') : wire'[i].kind # "resync"
    BY <1>3 DEF Passed
  <2> QED BY <1>1, <1>3, <2>1 DEF Passed
<1> QED BY <1>2, <1>3

\* A step of the daemon that sends nothing, or events that have just been recorded.
LEMMA PushKeeps ==
    ASSUME HistoryInv, SessionInv, WireInv, HistoryInv', Grows, Push,
           UNCHANGED <<link, live, asking, phase, sub, remote, transcript, unrewound>>
    PROVE  WireInv'
<1> USE DEF WireInv
<1> DEFINE new == timeline' \ timeline
           fs == EventFrames(new)
           n == Len(wire)
<1>1. /\ epoch' = epoch /\ chain' = chain /\ last <= last' /\ timeline \subseteq timeline'
      /\ \A e \in new : e.seq > last /\ e.by = epoch
  BY DEF Grows
<1>2. /\ new \subseteq Entry
      /\ \A e \in new : e.seq \in Nat /\ e.seq <= MaxSeq
      /\ \A e, f \in new : e.seq = f.seq => e = f
  <2>1. /\ new \subseteq Entry /\ \A e \in new : e.seq <= last'
        /\ \A e, f \in new : e.seq = f.seq => e = f
    BY DEF HistoryInv
  <2>2. last' \in Nat /\ last' <= MaxSeq /\ MaxSeq \in Nat
    BY RemoteStreamAssumption DEF HistoryInv
  <2> QED BY <2>1, <2>2 DEF Entry
<1>3. /\ fs \in Seq(Frames) /\ Len(fs) \in Nat
      /\ \A i \in 1 .. Len(fs) : fs[i].kind = "event" /\ fs[i].entry \in new
      /\ \A i, j \in 1 .. Len(fs) : i < j => fs[i].entry.seq < fs[j].entry.seq
      /\ \A e \in new : \E i \in 1 .. Len(fs) : fs[i] = EventFrame(e)
  BY <1>2, OrderedFrames, LenProperties
<1>4. n \in Nat /\ wire \in Seq(Frames)
  BY WireTypes
<1>5. wire' = IF live THEN wire \o fs ELSE wire
  BY DEF Push
<1> HIDE DEF fs, new
<1>6. /\ wire' \in Seq(Frames) /\ Len(wire') \in Nat /\ n <= Len(wire')
      /\ \A i \in 1 .. n : i \in 1 .. Len(wire') /\ wire'[i] = wire[i]
      /\ \A i \in 1 .. Len(wire') : i > n =>
            /\ live /\ i - n \in 1 .. Len(fs) /\ wire'[i] = fs[i - n]
            /\ wire'[i].kind = "event" /\ wire'[i].entry \in new
      /\ live => Len(wire') = n + Len(fs) /\ \A i \in 1 .. Len(fs) : wire'[n + i] = fs[i]
  <2>1. CASE live
    <3>1. /\ wire \o fs \in Seq(Frames) /\ Len(wire \o fs) = n + Len(fs)
          /\ \A i \in 1 .. n + Len(fs) :
                (wire \o fs)[i] = IF i <= n THEN wire[i] ELSE fs[i - n]
      BY <1>3, <1>4, ConcatProperties
    <3>2. wire' = wire \o fs
      BY <1>5, <2>1
    <3>3. \A i \in 1 .. n : i \in 1 .. Len(wire') /\ wire'[i] = wire[i]
      BY <1>3, <1>4, <3>1, <3>2
    <3>4. \A i \in 1 .. Len(wire') : i > n => i - n \in 1 .. Len(fs) /\ wire'[i] = fs[i - n]
      BY <1>3, <1>4, <3>1, <3>2
    <3>5. \A i \in 1 .. Len(fs) : wire'[n + i] = fs[i]
      BY <1>3, <1>4, <3>1, <3>2
    <3> QED BY <1>3, <1>4, <2>1, <3>1, <3>2, <3>3, <3>4, <3>5
  <2>2. CASE ~live
    BY <1>4, <1>5, <2>2
  <2> QED BY <2>1, <2>2
<1> HIDE DEF n
<1>7. n = Len(wire)
  BY DEF n
<1>8. \A i \in 1 .. Len(wire') : i > n => wire'[i].kind = "event" /\ wire'[i].kind \in {"event", "opened"}
  BY <1>6
<1>9. /\ AttachedFirst' <=> AttachedFirst
      /\ AttachedFirst => wire'[1] = wire[1]
  BY <1>4, <1>6, <1>7, <1>8, SameFirst
<1>10. LinkInv'
  <2>1. wire' # wire => live
    BY <1>5
  <2>2. ~live => wire' = wire
    BY <1>5
  <2> QED BY <1>1, <1>6, <1>9, <2>1, <2>2 DEF LinkInv, AttachFrom
<1>11. AttachedInv'
  <2>1. RewindFor(sub.epoch, sub.cursor)' = RewindFor(sub.epoch, sub.cursor)
        /\ Forgotten(sub.epoch, sub.cursor)' = Forgotten(sub.epoch, sub.cursor)
    BY <1>1 DEF RewindFor, Forgotten
  <2>2. ASSUME NEW i \in 1 .. Len(wire'), wire'[i].kind = "attached"
        PROVE  i \in 1 .. Len(wire) /\ wire'[i] = wire[i]
    <3>1. ~(i > n)
      BY <1>8, <2>2
    <3>2. i \in 1 .. n
      BY <1>4, <1>6, <1>7, <3>1
    <3> QED BY <1>6, <1>7, <3>2
  <2> QED BY <1>1, <2>1, <2>2 DEF AttachedInv
<1>12. OpenedInv'
  <2>1. CASE live
    <3>1. phase # "opening"
      BY <2>1 DEF LinkInv, SessionInv
    <3>2. \A i \in 1 .. n : wire[i].kind # "opened"
      BY <1>7, <3>1 DEF OpenedInv
    <3>3. \A i \in 1 .. Len(wire') : wire'[i].kind # "opened"
      BY <1>4, <1>6, <1>7, <1>8, <3>2
    <3> QED BY <3>3 DEF OpenedInv
  <2>2. CASE ~live
    BY <1>1, <1>5, <2>2 DEF OpenedInv
  <2> QED BY <2>1, <2>2
<1>13. ResyncInv'
  <2>1. n <= Len(wire) /\ Len(wire) \in Nat /\ UNCHANGED transcript
    BY <1>4, <1>7
  <2> QED BY <1>4, <1>6, <1>7, <1>8, <2>1, LongerWire
<1>14. EventsInv'
  <2>1. ASSUME NEW i \in 1 .. Len(wire'), wire'[i].kind = "event"
        PROVE  /\ wire'[i].entry \in timeline'
               /\ i <= n => /\ i \in 1 .. n /\ wire'[i] = wire[i] /\ wire'[i].entry.seq \in Nat
                            /\ wire'[i].entry.seq <= last
               /\ i > n => wire'[i].entry.seq > last /\ wire'[i].entry.seq \in Nat
    <3>1. CASE i <= n
      <4>1. i \in 1 .. n /\ wire'[i] = wire[i]
        BY <1>4, <1>6, <1>7, <3>1, SMTT(30)
      <4>2. wire[i].entry \in timeline
        BY <1>7, <2>1, <4>1 DEF EventsInv
      <4> QED BY <1>1, <3>1, <4>1, <4>2, <1>4, <1>7, Past
    <3>2. CASE i > n
      <4>1. wire'[i].entry \in new
        BY <1>6, <3>2
      <4>2. wire'[i].entry \in timeline'
        BY <4>1 DEF new
      <4> QED BY <1>1, <1>2, <1>4, <1>7, <3>2, <4>1, <4>2
    <3> QED BY <1>4, <1>7, <3>1, <3>2
  <2>2. ASSUME NEW i \in 1 .. Len(wire'), NEW j \in 1 .. Len(wire'), i < j,
               wire'[i].kind = "event", wire'[j].kind = "event"
        PROVE  wire'[i].entry.seq < wire'[j].entry.seq
    <3>1. CASE j <= n
      <4>1. i \in 1 .. Len(wire) /\ j \in 1 .. Len(wire) /\ wire'[i] = wire[i] /\ wire'[j] = wire[j]
        BY <1>4, <1>6, <1>7, <2>2, <3>1
      <4> QED BY <2>2, <4>1 DEF EventsInv
    <3>2. CASE i <= n /\ j > n
      <4>1. wire'[i].entry.seq <= last /\ wire'[j].entry.seq > last
            /\ wire'[i].entry.seq \in Nat /\ wire'[j].entry.seq \in Nat /\ last \in Nat
        BY <2>1, <2>2, <3>2, Past
      <4> QED BY <4>1
    <3>3. CASE i > n
      <4>1. /\ i - n \in 1 .. Len(fs) /\ wire'[i] = fs[i - n]
            /\ j - n \in 1 .. Len(fs) /\ wire'[j] = fs[j - n] /\ i - n < j - n
        BY <1>4, <1>6, <1>7, <2>2, <3>3
      <4> QED BY <1>3, <4>1
    <3> QED BY <1>4, <1>7, <3>1, <3>2, <3>3
  <2> QED BY <2>1, <2>2 DEF EventsInv
<1>15. DeliveryInv'
  <2> SUFFICES ASSUME live, NEW e \in timeline', e.role # "token" \/ e \in checkpoint'
               PROVE  Passed(e)' \/ \E i \in 1 .. Len(wire') : wire'[i] = EventFrame(e)
    BY DEF DeliveryInv
  <2>1. CASE e \in timeline
    <3>1. Passed(e) => Passed(e)'
      BY <1>4, <1>6, <1>7, <1>8, PassedStays
    <3>2. (\E i \in 1 .. Len(wire) : wire[i] = EventFrame(e)) =>
             \E i \in 1 .. Len(wire') : wire'[i] = EventFrame(e)
      BY <1>6, <1>7
    <3>3. e.role # "token" \/ e \in checkpoint
      BY <2>1 DEF Grows
    <3> QED BY <2>1, <3>1, <3>2, <3>3 DEF DeliveryInv
  <2>2. CASE e \notin timeline
    <3>1. e \in new
      BY <2>2 DEF new
    <3>2. PICK i \in 1 .. Len(fs) : fs[i] = EventFrame(e)
      BY <1>3, <3>1
    <3>3. n + i \in 1 .. Len(wire') /\ wire'[n + i] = EventFrame(e)
      BY <1>3, <1>4, <1>6, <1>7, <3>2
    <3> QED BY <3>3
  <2> QED BY <2>1, <2>2
<1> QED BY <1>10, <1>11, <1>12, <1>13, <1>14, <1>15

\* The reply to session.open is the last frame, and whoever waits for it follows
\* nothing yet.
LEMMA OpenKeeps ==
    ASSUME HistoryInv, SessionInv, WireInv, HistoryInv', Grows,
           link, phase = "opening", \A i \in 1 .. Len(wire) : wire[i].kind # "opened",
           wire' = wire \o <<Opened>>,
           UNCHANGED <<link, live, asking, phase, sub, remote, transcript, unrewound>>
    PROVE  WireInv'
<1> USE DEF WireInv
<1> DEFINE n == Len(wire)
<1>1. n \in Nat /\ wire \in Seq(Frames)
  BY WireTypes
<1>2. Opened \in Frames /\ Opened.kind = "opened" /\ Opened.epoch = epoch
  BY DEF Opened, Frames, OpenedFrames, HistoryInv
<1>3. /\ wire' \in Seq(Frames) /\ Len(wire') = n + 1 /\ wire'[n + 1] = Opened
      /\ \A i \in 1 .. n : wire'[i] = wire[i]
  <2> HIDE DEF n
  <2>1. n = Len(wire)
    BY DEF n
  <2>2. <<Opened>> \in Seq(Frames) /\ Len(<<Opened>>) = 1 /\ <<Opened>>[1] = Opened
    BY <1>2
  <2> QED BY <1>1, <2>1, <2>2, ConcatProperties
<1> HIDE DEF n
<1>4. n = Len(wire)
  BY DEF n
<1>5. \A i \in 1 .. Len(wire') : (i \in 1 .. n /\ i \in 1 .. Len(wire)) \/ (i = n + 1 /\ i > n)
  BY <1>1, <1>3, <1>4
<1>6. \A i \in 1 .. Len(wire') : i > n => /\ wire'[i].kind # "attached"
                                          /\ wire'[i].kind \in {"event", "opened"}
                                          /\ i = Len(wire')
  BY <1>1, <1>2, <1>3, <1>5
<1>7. Len(wire') \in Nat /\ n <= Len(wire')
  BY <1>1, <1>3
<1>8. AttachedFirst' <=> AttachedFirst
  BY <1>1, <1>3, <1>4, <1>6, <1>7, SameFirst
<1>9. sub = None /\ ~live
  BY DEF SessionInv, LinkInv
<1>10. epoch' = epoch
  BY DEF Grows
<1>11. LinkInv'
  BY <1>3, <1>8, <1>9, <1>10 DEF LinkInv
<1>12. AttachedInv'
  <2> SUFFICES ASSUME NEW i \in 1 .. Len(wire'), wire'[i].kind = "attached"
               PROVE  i = 1 /\ wire'[i].epoch = epoch'
    BY <1>9 DEF AttachedInv
  <2>1. i \in 1 .. Len(wire) /\ wire'[i] = wire[i]
    BY <1>3, <1>4, <1>5, <1>6
  <2> QED BY <1>10, <2>1 DEF AttachedInv
<1>13. OpenedInv'
  <2> SUFFICES ASSUME NEW i \in 1 .. Len(wire'), wire'[i].kind = "opened"
               PROVE  i = Len(wire') /\ wire'[i].epoch = epoch'
    BY DEF OpenedInv
  <2>1. ~(i \in 1 .. Len(wire))
    BY <1>3, <1>4
  <2> QED BY <1>2, <1>3, <1>5, <1>6, <1>10, <2>1
<1>14. ResyncInv'
  <2>1. n <= Len(wire) /\ Len(wire) \in Nat /\ UNCHANGED transcript
    BY <1>1, <1>4
  <2> QED BY <1>1, <1>3, <1>4, <1>6, <1>7, <2>1, LongerWire
<1>15. EventsInv'
  <2>1. ASSUME NEW i \in 1 .. Len(wire'), wire'[i].kind = "event"
        PROVE  i \in 1 .. Len(wire) /\ wire'[i] = wire[i]
    BY <1>2, <1>3, <1>4, <1>5, <2>1
  <2>2. timeline \subseteq timeline'
    BY DEF Grows
  <2> QED BY <2>1, <2>2 DEF EventsInv
<1>16. DeliveryInv'
  BY <1>9 DEF DeliveryInv
<1> QED BY <1>11, <1>12, <1>13, <1>14, <1>15, <1>16

\* No wire is right.
LEMMA EmptyWire ==
    ASSUME wire' = <<>>, ~live',
           asking' # None => sub' # None /\ asking' = AttachFrom(sub') /\ link'
    PROVE  WireInv'
<1>1. Len(wire') = 0 /\ wire' \in Seq(Frames) /\ \A i \in 1 .. Len(wire') : FALSE
  OBVIOUS
<1>2. LinkInv'
  BY <1>1 DEF LinkInv, AttachFrom
<1>3. AttachedInv' /\ OpenedInv' /\ ResyncInv' /\ EventsInv' /\ DeliveryInv'
  BY <1>1 DEF AttachedInv, OpenedInv, ResyncInv, EventsInv, DeliveryInv
<1> QED BY <1>2, <1>3 DEF WireInv

-----------------------------------------------------------------------------
(* The answer to an attach.                                                *)

LEMMA AttachAnswered ==
    ASSUME JournalInv, SessionInv, StoryInv, WireInv, ServeAttach
    PROVE  WireInv'
<1> USE DEF WireInv
<1> DEFINE from == ReplayFrom(asking)
           rs == RewindFor(asking.epoch, asking.afterSeq)
           a == Attached(rs)
           es == After(log, from)
           rest == IF from > last \/ from < low THEN <<ResyncFrame>> ELSE EventFrames(es)
<1>1. /\ asking # None /\ asking' = None /\ live' = TRUE
      /\ unrewound' = (unrewound \/ Forgotten(asking.epoch, asking.afterSeq))
      /\ UNCHANGED <<epoch, last, log, low, timeline, chain, checkpoint>>
      /\ UNCHANGED <<link, phase, sub, remote, transcript>>
  BY DEF ServeAttach, daemon
<1>2. /\ ~live /\ link /\ sub # None /\ wire = <<>>
      /\ asking = AttachFrom(sub) /\ asking.afterSeq = sub.cursor /\ asking.epoch = sub.epoch
  BY <1>1 DEF LinkInv, AttachFrom
<1>3. wire' = <<a>> \o rest
  <2>1. \E k \in {Len(wire)} : wire' = SubSeq(wire, 1, k) \o <<a>> \o rest
    BY <1>2 DEF ServeAttach
  <2>2. Len(wire) = 0 /\ SubSeq(<<>>, 1, 0) = <<>>
    BY <1>2
  <2>3. wire' = <<>> \o <<a>> \o rest
    BY <1>2, <2>1, <2>2
  <2>4. <<>> \o <<a>> = <<a>>
    OBVIOUS
  <2> HIDE DEF a, rest
  <2> QED BY <2>3, <2>4
<1>4. /\ sub \in Subscription /\ sub.cursor \in Nat /\ sub.epoch \in Nat
      /\ sub.epoch = remote.epoch /\ remote.epoch <= epoch
  BY <1>2, SessionTypes
<1>5. /\ from \in Nat /\ (from = sub.cursor \/ from \in rs)
      /\ rs = {} => from = sub.cursor
      /\ rs \subseteq Nat /\ \A r \in rs : from = r
  <2>1. rs = RewindFor(sub.epoch, sub.cursor)
    BY <1>2
  <2>2. rs = {} => from = sub.cursor
    BY <1>2 DEF ReplayFrom
  <2>3. rs # {} => from \in rs
    BY DEF ReplayFrom
  <2>4. \A r \in rs : r \in Nat /\ \A q \in rs : q = r
    BY <1>4, <2>1, RewindSeparates DEF JournalInv
  <2> HIDE DEF rs, from
  <2> QED BY <1>4, <2>2, <2>3, <2>4
<1>6. /\ a.kind = "attached" /\ a.epoch = epoch /\ a.rewinds = rs /\ a \in Frames
  BY <1>5, Past DEF Attached, Frames, AttachedFrames, JournalInv
<1> HIDE DEF from, rs, a
<1>7. /\ es \subseteq Entry /\ es \subseteq timeline
      /\ \A e, f \in es : e.seq = f.seq => e = f
      /\ \A e \in es : e.seq <= MaxSeq
  <2>1. es \subseteq timeline
    BY DEF JournalInv, HistoryInv, After
  <2>2. last \in Nat /\ MaxSeq \in Nat
    BY RemoteStreamAssumption, Past DEF JournalInv
  <2> QED BY <2>1, <2>2, Past DEF JournalInv, HistoryInv
<1>8. CASE from > last \/ from < low
  <2> DEFINE f == ResyncFrame
  <2>1. wire' = <<a>> \o <<f>>
    BY <1>3, <1>8
  <2>2. f.kind = "resync" /\ f.seq = last /\ f.checkpoint = checkpoint /\ f \in Frames
    BY Past DEF ResyncFrame, Frames, ResyncFrames, JournalInv, HistoryInv
  <2> HIDE DEF f
  <2>3. /\ wire' \in Seq(Frames) /\ Len(wire') = 2 /\ wire'[1] = a /\ wire'[2] = f
        /\ \A i \in 1 .. Len(wire') : i = 1 \/ i = 2
        /\ 1 \in 1 .. Len(wire') /\ 2 \in 1 .. Len(wire')
    <3>1. /\ <<a>> \in Seq(Frames) /\ Len(<<a>>) = 1 /\ <<a>>[1] = a
          /\ <<f>> \in Seq(Frames) /\ Len(<<f>>) = 1 /\ <<f>>[1] = f
      BY <1>6, <2>2
    <3>2. /\ wire' \in Seq(Frames) /\ Len(wire') = 2
          /\ \A i \in 1 .. 2 : wire'[i] = IF i <= 1 THEN <<a>>[i] ELSE <<f>>[i - 1]
      BY <2>1, <3>1, ConcatProperties
    <3> QED BY <3>1, <3>2
  <2>4. AttachedFirst'
    BY <1>6, <2>3 DEF AttachedFirst, IsAt
  <2>5. LinkInv'
    BY <1>1, <1>2, <2>3, <2>4 DEF LinkInv
  <2>6. AttachedInv'
    <3>1. RewindFor(sub.epoch, sub.cursor)' = rs
          /\ Forgotten(sub.epoch, sub.cursor)' = Forgotten(asking.epoch, asking.afterSeq)
      BY <1>1, <1>2 DEF RewindFor, Forgotten, rs
    <3>2. ~unrewound' => ~Forgotten(asking.epoch, asking.afterSeq)
      BY <1>1
    <3> QED BY <1>1, <1>6, <2>2, <2>3, <3>1, <3>2 DEF AttachedInv
  <2>7. OpenedInv'
    BY <1>6, <2>2, <2>3 DEF OpenedInv
  <2>8. ResyncInv'
    <3>1. /\ last \in Nat /\ epoch \in Nat
          /\ \A e \in timeline : e.seq \in Nat /\ e.seq > 0 /\ e.seq <= last /\ e.by \in Nat /\ e.by <= epoch
      BY Past DEF JournalInv
    <3>2. checkpoint \subseteq timeline
      BY DEF JournalInv, HistoryInv
    <3>3. /\ Until(f) >= 0
          /\ \A m \in Messages(timeline) : m.seq <= Until(f)
          /\ \A x \in timeline : x.seq > Until(f) => x.by = epoch
      <4>1. CASE Tokens(checkpoint) = {}
        <5>1. Until(f) = last
          BY <2>2, <4>1 DEF Until
        <5> QED BY <3>1, <5>1 DEF Messages
      <4>2. ASSUME NEW k \in Tokens(checkpoint)
            PROVE  /\ Until(f) >= 0
                   /\ \A m \in Messages(timeline) : m.seq <= Until(f)
                   /\ \A x \in timeline : x.seq > Until(f) => x.by = epoch
        <5>1. Until(f) = last - 1
          BY <2>2 DEF Until
        <5>2. k \in timeline /\ k.by = epoch /\ \A m \in Messages(timeline) : m.seq < k.seq
          BY <3>2 DEF JournalInv, TokensInv, Tokens, Messages, Finishers
        <5>3. \A x \in timeline : x.seq > Until(f) => x.by = epoch
          <6>1. ASSUME NEW x \in timeline, x.seq > Until(f) PROVE x.by = epoch
            <7>1. x.seq = last /\ k.seq <= x.seq
              BY <3>1, <5>1, <5>2, <6>1
            <7>2. k.seq < x.seq => k.by <= x.by
              BY <5>2 DEF JournalInv, HistoryInv
            <7>3. k.seq = x.seq => k = x
              BY <5>2 DEF JournalInv, HistoryInv
            <7> QED BY <3>1, <5>2, <7>1, <7>2, <7>3
          <6> QED BY <6>1
        <5>4. \A m \in Messages(timeline) : m \in timeline
          BY DEF Messages
        <5>5. Until(f) >= 0 /\ \A m \in Messages(timeline) : m.seq <= Until(f)
          BY <3>1, <5>1, <5>2, <5>4
        <5> QED BY <5>3, <5>5
      <4> QED BY <4>1, <4>2
    <3>4. \A m \in Messages(f.checkpoint) : m.seq <= Until(f)
      BY <2>2, <3>2, <3>3 DEF Messages
    <3>5. ASSUME NEW k \in 1 .. Len(transcript), transcript[k].by = epoch
          PROVE  transcript[k].seq <= Until(f)
      <4>1. Kept(transcript[k], remote)
        BY DEF StoryInv, Story
      <4>2. transcript[k] \in Messages(timeline)
        BY <3>1, <3>5, <4>1 DEF Kept, Messages
      <4> QED BY <3>3, <4>2
    <3>6. f.seq <= last /\ \A x \in f.checkpoint : x.seq <= f.seq
      BY <2>2, <3>1, <3>2
    <3>7. \A k \in Tokens(checkpoint) : k \in f.checkpoint
      BY <2>2 DEF Tokens
    <3> QED BY <1>1, <1>6, <2>2, <2>3, <2>4, <3>2, <3>3, <3>4, <3>5, <3>6, <3>7 DEF ResyncInv
  <2>9. EventsInv'
    BY <1>6, <2>2, <2>3 DEF EventsInv
  <2>10. DeliveryInv'
    <3>1. \A e \in timeline : e.seq <= wire'[2].seq
      BY <2>2, <2>3, Past DEF JournalInv
    <3> QED BY <1>1, <2>2, <2>3, <3>1 DEF DeliveryInv, Passed
  <2> QED BY <2>5, <2>6, <2>7, <2>8, <2>9, <2>10
<1>9. CASE ~(from > last \/ from < low)
  <2> DEFINE fs == EventFrames(es)
  <2>1. wire' = <<a>> \o fs
    BY <1>3, <1>9
  <2>2. /\ fs \in Seq(Frames) /\ Len(fs) \in Nat
        /\ \A i \in 1 .. Len(fs) : fs[i].kind = "event" /\ fs[i].entry \in es
        /\ \A i, j \in 1 .. Len(fs) : i < j => fs[i].entry.seq < fs[j].entry.seq
        /\ \A e \in es : \E i \in 1 .. Len(fs) : fs[i] = EventFrame(e)
    BY <1>7, OrderedFrames, LenProperties
  <2> HIDE DEF fs, es
  <2>3. /\ wire' \in Seq(Frames) /\ Len(wire') = 1 + Len(fs) /\ wire'[1] = a
        /\ \A i \in 1 .. Len(fs) : wire'[1 + i] = fs[i]
    <3>1. <<a>> \in Seq(Frames) /\ Len(<<a>>) = 1 /\ <<a>>[1] = a
      BY <1>6
    <3> QED BY <2>1, <2>2, <3>1, ConcatProperties
  <2>4. \A i \in 1 .. Len(wire') :
           i = 1 \/ (i - 1 \in 1 .. Len(fs) /\ wire'[i] = fs[i - 1] /\ wire'[i].kind = "event")
    <3> SUFFICES ASSUME NEW i \in 1 .. Len(wire'), i # 1
                 PROVE  i - 1 \in 1 .. Len(fs) /\ wire'[i] = fs[i - 1] /\ wire'[i].kind = "event"
      OBVIOUS
    <3>1. i - 1 \in 1 .. Len(fs) /\ 1 + (i - 1) = i
      BY <2>2, <2>3
    <3>2. wire'[1 + (i - 1)] = fs[i - 1]
      BY <2>3, <3>1
    <3> QED BY <2>2, <3>1, <3>2
  <2>5. 1 \in 1 .. Len(wire') /\ AttachedFirst'
    BY <1>6, <2>2, <2>3 DEF AttachedFirst, IsAt
  <2>6. LinkInv'
    BY <1>1, <1>2, <2>3, <2>5 DEF LinkInv
  <2>7. AttachedInv'
    <3>1. RewindFor(sub.epoch, sub.cursor)' = rs
          /\ Forgotten(sub.epoch, sub.cursor)' = Forgotten(asking.epoch, asking.afterSeq)
      BY <1>1, <1>2 DEF RewindFor, Forgotten, rs
    <3>2. ~unrewound' => ~Forgotten(asking.epoch, asking.afterSeq)
      BY <1>1
    <3> QED BY <1>1, <1>6, <2>3, <2>4, <3>1, <3>2 DEF AttachedInv
  <2>8. OpenedInv' /\ ResyncInv'
    BY <1>6, <2>3, <2>4 DEF OpenedInv, ResyncInv
  <2>9. EventsInv'
    <3>1. \A i \in 1 .. Len(wire') : wire'[i].kind = "event" => wire'[i].entry \in timeline'
      BY <1>1, <1>6, <1>7, <2>2, <2>3, <2>4 DEF es
    <3>2. ASSUME NEW i \in 1 .. Len(wire'), NEW j \in 1 .. Len(wire'), i < j,
                 wire'[i].kind = "event", wire'[j].kind = "event"
          PROVE  wire'[i].entry.seq < wire'[j].entry.seq
      <4>1. i # 1 /\ j # 1
        BY <1>6, <2>3, <3>2
      <4>2. /\ i - 1 \in 1 .. Len(fs) /\ j - 1 \in 1 .. Len(fs) /\ i - 1 < j - 1
            /\ wire'[i] = fs[i - 1] /\ wire'[j] = fs[j - 1]
        BY <2>4, <3>2, <4>1
      <4> QED BY <2>2, <4>2
    <3> QED BY <3>1, <3>2 DEF EventsInv
  <2>10. DeliveryInv'
    <3> SUFFICES ASSUME NEW e \in timeline, e.role # "token" \/ e \in checkpoint
                 PROVE  Passed(e)' \/ \E i \in 1 .. Len(wire') : wire'[i] = EventFrame(e)
      BY <1>1 DEF DeliveryInv
    <3>1. /\ last \in Nat /\ low \in Nat /\ e.seq \in Nat
          /\ e \in log \/ e.seq <= low
      BY Past DEF JournalInv, HistoryInv, TokensInv, Tokens
    <3>2. CASE e.seq > from
      <4>1. e \in es
        BY <1>5, <1>4, <1>9, <3>1, <3>2 DEF es, After
      <4>2. PICK i \in 1 .. Len(fs) : fs[i] = EventFrame(e)
        BY <2>2, <4>1
      <4>3. 1 + i \in 1 .. Len(wire') /\ wire'[1 + i] = EventFrame(e)
        BY <2>2, <2>3, <4>2
      <4> QED BY <4>3
    <3>3. CASE e.seq <= from
      <4>1. \A i \in 1 .. Len(wire') : wire'[i].kind # "resync"
        BY <1>6, <2>3, <2>4
      <4>2. rs = {} => e.seq <= sub.cursor
        BY <1>5, <3>3
      <4>3. rs # {} => \E r \in rs : e.seq <= r
        BY <1>5, <3>3
      <4> QED BY <1>1, <1>6, <2>3, <2>5, <4>1, <4>2, <4>3 DEF Passed
    <3> QED BY <1>4, <1>5, <3>1, <3>2, <3>3
  <2> QED BY <2>6, <2>7, <2>8, <2>9, <2>10
<1> QED BY <1>8, <1>9

-----------------------------------------------------------------------------
(* What the plugin does with a frame.                                      *)

LEMMA Taken ==
    ASSUME LinkInv, wire # <<>>, wire' = Tail(wire)
    PROVE  /\ Head(wire) = wire[1] /\ 1 \in 1 .. Len(wire) /\ wire[1] \in Frames
           /\ wire' \in Seq(Frames) /\ Len(wire') = Len(wire) - 1
           /\ Len(wire) \in Nat /\ Len(wire') \in Nat
           /\ \A i \in 1 .. Len(wire') : i + 1 \in 1 .. Len(wire) /\ wire'[i] = wire[i + 1]
           /\ \A i \in 1 .. Len(wire) :
                 i = 1 \/ (i - 1 \in 1 .. Len(wire') /\ wire'[i - 1] = wire[i])
<1>1. wire \in Seq(Frames) /\ Len(wire) \in Nat /\ Len(wire) # 0
  BY WireTypes, EmptySeq
<1>2. /\ Head(wire) = wire[1] /\ Tail(wire) \in Seq(Frames) /\ Len(Tail(wire)) = Len(wire) - 1
      /\ \A i \in 1 .. Len(Tail(wire)) : Tail(wire)[i] = wire[i + 1]
  BY <1>1, HeadTailProperties
<1>3. 1 \in 1 .. Len(wire) /\ wire[1] \in Frames
  BY <1>1
<1>4. \A i \in 1 .. Len(wire') : i + 1 \in 1 .. Len(wire) /\ wire'[i] = wire[i + 1]
  BY <1>1, <1>2
<1>5. ASSUME NEW i \in 1 .. Len(wire), i # 1
      PROVE  i - 1 \in 1 .. Len(wire') /\ wire'[i - 1] = wire[i]
  <2>1. i - 1 \in 1 .. Len(wire') /\ (i - 1) + 1 = i
    BY <1>1, <1>2, <1>5
  <2>2. wire'[i - 1] = wire[(i - 1) + 1]
    BY <1>2, <2>1
  <2> QED BY <2>1, <2>2
<1> QED BY <1>1, <1>2, <1>3, <1>4, <1>5

\* The rest of the wire: a reply is only ever the first frame.
LEMMA RestOfWire ==
    ASSUME WireInv, wire # <<>>, wire' = Tail(wire),
           UNCHANGED <<epoch, last, timeline, checkpoint>>
    PROVE  /\ \A i \in 1 .. Len(wire') : wire'[i].kind # "attached"
           /\ ~AttachedFirst' /\ AttachedInv' /\ EventsInv'
           /\ UNCHANGED phase => OpenedInv'
           /\ wire[1].kind # "attached" => \A i \in 1 .. Len(wire') : wire'[i].kind # "resync"
           /\ UNCHANGED transcript \/ wire[1].kind # "attached" => ResyncInv'
<1> USE DEF WireInv
<1>1. /\ Len(wire) \in Nat /\ Len(wire') = Len(wire) - 1 /\ 1 \in 1 .. Len(wire)
      /\ \A i \in 1 .. Len(wire') : i + 1 \in 1 .. Len(wire) /\ wire'[i] = wire[i + 1]
      /\ \A i \in 1 .. Len(wire') : i \in Nat /\ i >= 1 /\ i + 1 # 1
  BY Taken
<1>2. \A i \in 1 .. Len(wire') : wire'[i].kind # "attached"
  BY <1>1 DEF AttachedInv
<1>3. ~AttachedFirst'
  BY <1>2 DEF AttachedFirst, IsAt
<1>4. AttachedInv'
  BY <1>2 DEF AttachedInv
<1>5. EventsInv'
  <2>1. \A i \in 1 .. Len(wire') : wire'[i].kind = "event" => wire'[i].entry \in timeline
    BY <1>1 DEF EventsInv
  <2>2. ASSUME NEW i \in 1 .. Len(wire'), NEW j \in 1 .. Len(wire'), i < j,
               wire'[i].kind = "event", wire'[j].kind = "event"
        PROVE  wire'[i].entry.seq < wire'[j].entry.seq
    <3>1. /\ i + 1 \in 1 .. Len(wire) /\ j + 1 \in 1 .. Len(wire) /\ i + 1 < j + 1
          /\ wire'[i] = wire[i + 1] /\ wire'[j] = wire[j + 1]
      BY <1>1, <2>2
    <3> QED BY <2>2, <3>1 DEF EventsInv
  <2> QED BY <2>1, <2>2 DEF EventsInv
<1>6. UNCHANGED phase => OpenedInv'
  <2> SUFFICES ASSUME UNCHANGED phase, NEW i \in 1 .. Len(wire'), wire'[i].kind = "opened"
               PROVE  i = Len(wire') /\ phase = "opening" /\ wire'[i].epoch = epoch
    BY DEF OpenedInv
  <2>1. i + 1 \in 1 .. Len(wire) /\ wire'[i] = wire[i + 1]
    BY <1>1
  <2>2. i + 1 = Len(wire) /\ phase = "opening" /\ wire'[i].epoch = epoch
    BY <2>1 DEF OpenedInv
  <2>3. i = Len(wire')
    <3>1. i \in Nat /\ Len(wire) \in Nat /\ Len(wire') = Len(wire) - 1
      BY <1>1
    <3> QED BY <2>2, <3>1
  <2> QED BY <2>2, <2>3
<1>7. ASSUME NEW i \in 1 .. Len(wire'), wire'[i].kind = "resync"
      PROVE  i = 1 /\ AttachedFirst /\ wire'[i] = wire[2] /\ 2 \in 1 .. Len(wire)
  <2>1. i + 1 \in 1 .. Len(wire) /\ wire'[i] = wire[i + 1] /\ i + 1 # 1
    BY <1>1
  <2>2. i + 1 = 2 /\ AttachedFirst
    BY <1>7, <2>1 DEF ResyncInv
  <2>3. i = 1
    BY <1>1, <2>2
  <2> QED BY <2>1, <2>2, <2>3
<1>8. wire[1].kind # "attached" => \A i \in 1 .. Len(wire') : wire'[i].kind # "resync"
  BY <1>7 DEF AttachedFirst, IsAt
<1>9. UNCHANGED transcript \/ wire[1].kind # "attached" => ResyncInv'
  <2>1. ASSUME UNCHANGED transcript PROVE ResyncInv'
    <3> SUFFICES ASSUME NEW i \in 1 .. Len(wire'), wire'[i].kind = "resync"
                 PROVE  LET f == wire'[i] IN
                        /\ i = 1
                        /\ f.seq <= last /\ Until(f) >= 0 /\ f.checkpoint \subseteq timeline
                        /\ \A m \in Messages(f.checkpoint) : m.seq <= Until(f)
                        /\ \A x \in timeline : x.seq > Until(f) => x.by = epoch
                        /\ \A x \in f.checkpoint : x.seq <= f.seq
                        /\ \A n \in 1 .. Len(transcript) :
                              transcript[n].by = epoch => transcript[n].seq <= Until(f)
                        /\ \A k \in Tokens(checkpoint) : k.seq <= f.seq => k \in f.checkpoint
      BY <2>1 DEF ResyncInv
    <3>1. i = 1 /\ wire'[i] = wire[2] /\ 2 \in 1 .. Len(wire)
      BY <1>7
    <3> QED BY <3>1 DEF ResyncInv
  <2>2. ASSUME wire[1].kind # "attached" PROVE ResyncInv'
    BY <1>8, <2>2 DEF ResyncInv
  <2> QED BY <2>1, <2>2
<1> QED BY <1>2, <1>3, <1>4, <1>5, <1>6, <1>8, <1>9

\* What is saved does not change with what is shown.
LEMMA DiskStays ==
    ASSUME StoryInv, WholeInv, UNCHANGED <<epoch, last, timeline, disk>>, unrewound => unrewound'
    PROVE  /\ SavedInv(saved)' /\ (snapshot' # None => SavedInv(snapshot)')
           /\ ~unrewound' =>
                 /\ Whole(saved.remote.lastSeq, saved.remote.epoch, saved.applied)'
                 /\ snapshot' # None =>
                       Whole(snapshot.remote.lastSeq, snapshot.remote.epoch, snapshot.applied)'
<1>1. UNCHANGED <<epoch, last, timeline, saved, snapshot>>
  BY DEF disk
<1>2. SavedInv(saved)' <=> SavedInv(saved)
  BY <1>1 DEF SavedInv, Story, Kept, Older, Ascending
<1>3. SavedInv(snapshot)' <=> SavedInv(snapshot)
  BY <1>1 DEF SavedInv, Story, Kept, Older, Ascending
<1>4. Whole(saved.remote.lastSeq, saved.remote.epoch, saved.applied)' <=>
      Whole(saved.remote.lastSeq, saved.remote.epoch, saved.applied)
  BY <1>1 DEF Whole
<1>5. Whole(snapshot.remote.lastSeq, snapshot.remote.epoch, snapshot.applied)' <=>
      Whole(snapshot.remote.lastSeq, snapshot.remote.epoch, snapshot.applied)
  BY <1>1 DEF Whole
<1> QED BY <1>1, <1>2, <1>3, <1>4, <1>5 DEF StoryInv, WholeInv

\* A session that goes over to a new process keeps its place if nothing below its
\* cursor came after the process it knew.
LEMMA WholeForAll ==
    ASSUME HistoryInv, ChainInv, NEW p \in Nat, p <= epoch, NEW s \in Nat, NEW q \in Nat, q <= s,
           NEW done, Whole(q, p, done), RewindFor(p, s) = {}, ~Forgotten(p, s)
    PROVE  Whole(q, epoch, done)
<1>1. /\ \A e \in timeline : e.seq <= s => e.by <= p
      /\ p < epoch => s <= last
  BY NoRewindNeeded
<1>2. epoch \in Nat /\ last \in Nat /\ \A e \in timeline : e.seq \in Nat /\ e.by \in Nat
  BY Past
<1>3. \A e \in timeline : e.seq <= q => e.by <= p
  BY <1>1, <1>2
<1>4. q <= last
  BY <1>1, <1>2 DEF Whole
<1> QED BY <1>3, <1>4 DEF Whole

LEMMA StoryForAll ==
    ASSUME NEW r \in Remote, NEW q \in Remote, epoch \in Nat, NEW tr, Story(r, tr),
           r.epoch <= epoch, q.epoch = epoch, q.lastSeq = r.lastSeq
    PROVE  Story(q, tr)
<1>1. tr \in Seq(Entry) /\ \A i \in 1 .. Len(tr) : tr[i] \in Entry /\ Kept(tr[i], r)
  BY DEF Story
<1>2. \A i \in 1 .. Len(tr) : tr[i].by \in Nat
  BY <1>1 DEF Entry
<1>3. r.epoch \in Nat
  BY DEF Remote
<1>4. \A i \in 1 .. Len(tr) : Kept(tr[i], q)
  BY <1>1, <1>2, <1>3 DEF Kept
<1> QED BY <1>1, <1>4 DEF Story

\* The first frame is taken off the wire.
Received ==
    /\ wire # <<>> /\ wire' = Tail(wire)
    /\ UNCHANGED <<daemon, link, live, drops, leaves, disk>>

LEMMA OpenedTaken ==
    ASSUME JournalInv, SessionInv, StoryInv, WholeInv, WireInv, Received, ReceiveOpened(wire[1])
    PROVE  SessionInv' /\ StoryInv' /\ WholeInv' /\ WireInv'
<1> USE DEF JournalInv
<1> DEFINE f == wire[1]
<1>1. /\ wire # <<>> /\ wire' = Tail(wire)
      /\ UNCHANGED <<epoch, last, timeline, log, low, checkpoint, chain, link, live, disk>>
  BY DEF Received, daemon
<1>2. /\ Len(wire) \in Nat /\ Len(wire') = Len(wire) - 1 /\ 1 \in 1 .. Len(wire)
      /\ wire' \in Seq(Frames)
  BY <1>1, Taken DEF WireInv
<1>3. f.kind = "opened" /\ Len(wire) = 1 /\ phase = "opening" /\ f.epoch = epoch
  BY <1>2 DEF WireInv, OpenedInv, ReceiveOpened
<1>4. wire' = <<>>
  BY <1>2, <1>3, EmptySeq
<1>5. /\ phase' = "following"
      /\ remote' = [remote EXCEPT !.epoch = epoch]
      /\ sub' = Following(remote.lastSeq, epoch)
      /\ asking' = AttachFrom(sub')
      /\ unrewound' = (unrewound \/ RewindFor(remote.epoch, remote.lastSeq) # {}
                                   \/ Forgotten(remote.epoch, remote.lastSeq))
      /\ UNCHANGED <<openFrom, transcript, applied>>
  BY <1>3 DEF ReceiveOpened
<1>6. /\ sub = None /\ ~live /\ link
  BY <1>1, <1>3 DEF SessionInv, WireInv, LinkInv
<1>7. /\ epoch \in Nat /\ remote \in Remote /\ remote.lastSeq \in Nat /\ remote.epoch \in Nat
      /\ remote.epoch <= epoch
  BY Past, SessionTypes
<1>8. /\ remote' \in Remote /\ remote'.lastSeq = remote.lastSeq /\ remote'.epoch = epoch
  BY <1>5, <1>7 DEF Remote
<1>9. /\ sub' \in Subscription /\ sub'.cursor = remote.lastSeq /\ sub'.epoch = epoch
      /\ sub' # None
  BY <1>5, <1>7, NotNone DEF Following, Subscription
<1>10. WireInv'
  BY <1>1, <1>4, <1>5, <1>6, <1>9, EmptyWire
<1>11. SessionInv'
  <2>1. openFrom = Closed
    BY <1>6 DEF SessionInv
  <2>2. openFrom' <= sub'.cursor /\ openFrom' \in Nat \cup {Closed}
    BY <1>5, <1>7, <1>9, <2>1 DEF Closed
  <2> QED BY <1>1, <1>5, <1>7, <1>8, <1>9, <2>2 DEF SessionInv
<1>12. StoryInv'
  <2>1. Story(remote', transcript)
    BY <1>7, <1>8, StoryForAll DEF StoryInv
  <2>2. Story(remote, transcript)'
    BY <1>1, <1>5, <2>1 DEF Story, Kept, Older, Ascending
  <2> QED BY <1>1, <1>5, <2>2, DiskStays DEF StoryInv
<1>13. WholeInv'
  <2> SUFFICES ASSUME ~unrewound' PROVE WholeInv'
    BY DEF WholeInv
  <2>1. ~unrewound /\ RewindFor(remote.epoch, remote.lastSeq) = {}
        /\ ~Forgotten(remote.epoch, remote.lastSeq)
    BY <1>5
  <2>2. Whole(remote.lastSeq, remote.epoch, applied)
    BY <2>1 DEF WholeInv
  <2>3. Whole(remote.lastSeq, epoch, applied)
    BY <1>7, <2>1, <2>2, WholeForAll
  <2>4. Whole(remote.lastSeq, remote.epoch, applied)' /\ Whole(sub.cursor, sub.epoch, applied)'
    BY <1>1, <1>5, <1>8, <1>9, <2>3 DEF Whole
  <2> QED BY <1>1, <1>5, <2>4, DiskStays DEF WholeInv
<1> QED BY <1>10, <1>11, <1>12, <1>13

\* A frame that reaches a session that follows nothing changes nothing.
LEMMA TakenByNobody ==
    ASSUME JournalInv, SessionInv, StoryInv, WholeInv, WireInv, Received, sub = None,
           UNCHANGED <<phase, sub, remote, openFrom, transcript, applied, unrewound, asking>>
    PROVE  SessionInv' /\ StoryInv' /\ WholeInv' /\ WireInv'
<1>1. /\ wire # <<>> /\ wire' = Tail(wire)
      /\ UNCHANGED <<epoch, last, timeline, log, low, checkpoint, chain, link, live, disk>>
  BY DEF Received, daemon
<1>2. ~live
  BY DEF WireInv, LinkInv
<1>3. wire' \in Seq(Frames) /\ link
  BY <1>1, Taken DEF WireInv, LinkInv
<1>4. SessionInv'
  BY <1>1 DEF SessionInv
<1>5. StoryInv'
  <2>1. Story(remote, transcript)' <=> Story(remote, transcript)
    BY <1>1 DEF Story, Kept, Older, Ascending
  <2> QED BY <1>1, <2>1, DiskStays DEF StoryInv
<1>6. WholeInv'
  <2>1. Whole(remote.lastSeq, remote.epoch, applied)' <=>
        Whole(remote.lastSeq, remote.epoch, applied)
    BY <1>1 DEF Whole
  <2> QED BY <1>1, <2>1, DiskStays DEF WholeInv
<1>7. LinkInv' /\ DeliveryInv'
  BY <1>1, <1>2, <1>3 DEF WireInv, LinkInv, DeliveryInv
<1> QED BY <1>1, <1>4, <1>5, <1>6, <1>7, RestOfWire DEF WireInv

\* The reply to an attach: the cursor goes back to where its process ended, or
\* nothing below it came after that process.
LEMMA AttachedTaken ==
    ASSUME JournalInv, SessionInv, StoryInv, WholeInv, WireInv, Received, ReceiveAttached(wire[1])
    PROVE  SessionInv' /\ StoryInv' /\ WholeInv' /\ WireInv'
<1> USE DEF JournalInv
<1> DEFINE f == wire[1]
           rs == RewindFor(sub.epoch, sub.cursor)
<1>1. /\ wire # <<>> /\ wire' = Tail(wire)
      /\ UNCHANGED <<epoch, last, timeline, log, low, checkpoint, chain, link, live, disk>>
  BY DEF Received, daemon
<1>2. /\ Len(wire) \in Nat /\ 1 \in 1 .. Len(wire) /\ wire' \in Seq(Frames)
      /\ \A i \in 1 .. Len(wire) : i = 1 \/ (i - 1 \in 1 .. Len(wire') /\ wire'[i - 1] = wire[i])
  BY <1>1, Taken DEF WireInv
<1>3. /\ f.kind = "attached" /\ AttachedFirst /\ f.epoch = epoch
      /\ UNCHANGED <<phase, transcript, applied, unrewound, asking>>
  BY <1>2 DEF ReceiveAttached, WireInv, AttachedInv, AttachedFirst, IsAt
<1>4. CASE sub = None
  BY <1>3, <1>4, TakenByNobody DEF ReceiveAttached
<1>5. ASSUME sub # None,
             NEW c \in Nat, c <= sub.cursor, NEW l \in Nat, l <= c, l <= remote.lastSeq,
             sub' \in Subscription, sub'.cursor = c, sub'.epoch = epoch,
             remote' = [lastSeq |-> l, epoch |-> epoch],
             openFrom' \in Nat \cup {Closed}, openFrom' <= c,
             f.rewinds \subseteq {c}, f.rewinds = {} => c = sub.cursor,
             Story(remote', transcript),
             ~unrewound => Whole(l, epoch, applied) /\ Whole(c, epoch, applied)
      PROVE  SessionInv' /\ StoryInv' /\ WholeInv' /\ WireInv'
  <2>1. live /\ asking = None /\ link /\ sub' # None /\ epoch \in Nat
    BY <1>1, <1>5, NotNone, Past DEF WireInv, LinkInv
  <2>2. remote' \in Remote /\ remote'.lastSeq = l /\ remote'.epoch = epoch
    BY <1>5, <2>1 DEF Remote
  <2>3. SessionInv'
    BY <1>1, <1>3, <1>5, <2>1, <2>2 DEF SessionInv
  <2>4. StoryInv'
    <3>1. Story(remote, transcript)'
      BY <1>1, <1>3, <1>5 DEF Story, Kept, Older, Ascending
    <3> QED BY <1>1, <1>3, <3>1, DiskStays DEF StoryInv
  <2>5. WholeInv'
    <3> SUFFICES ASSUME ~unrewound PROVE WholeInv'
      BY <1>3 DEF WholeInv
    <3>1. Whole(remote.lastSeq, remote.epoch, applied)' /\ Whole(sub.cursor, sub.epoch, applied)'
      BY <1>1, <1>3, <1>5, <2>2 DEF Whole
    <3> QED BY <1>1, <1>3, <3>1, DiskStays DEF WholeInv
  <2>6. LinkInv'
    BY <1>1, <1>2, <1>3, <2>1, <2>2 DEF LinkInv
  <2>7. AttachedInv' /\ OpenedInv' /\ ResyncInv' /\ EventsInv' /\ ~AttachedFirst'
    BY <1>1, <1>3, RestOfWire
  <2>8. DeliveryInv'
    <3> SUFFICES ASSUME NEW e \in timeline, e.role # "token" \/ e \in checkpoint
                 PROVE  Passed(e)' \/ \E i \in 1 .. Len(wire') : wire'[i] = EventFrame(e)
      BY <1>1 DEF DeliveryInv
    <3>1. Passed(e) \/ \E i \in 1 .. Len(wire) : wire[i] = EventFrame(e)
      BY <2>1 DEF WireInv, DeliveryInv
    <3>2. ASSUME NEW i \in 1 .. Len(wire), wire[i] = EventFrame(e)
          PROVE  \E k \in 1 .. Len(wire') : wire'[k] = EventFrame(e)
      <4>1. i # 1
        BY <1>3, <3>2 DEF EventFrame
      <4> QED BY <1>2, <3>2, <4>1
    <3>3. ASSUME NEW i \in 1 .. Len(wire), wire[i].kind = "resync", e.seq <= wire[i].seq
          PROVE  Passed(e)'
      <4>1. i # 1
        BY <1>3, <3>3
      <4>2. i - 1 \in 1 .. Len(wire') /\ wire'[i - 1] = wire[i]
        BY <1>2, <4>1
      <4> QED BY <3>3, <4>2 DEF Passed
    <3>4. ASSUME \A i \in 1 .. Len(wire) : wire[i].kind # "resync",
                 \/ \E r \in f.rewinds : e.seq <= r
                 \/ f.rewinds = {} /\ e.seq <= sub.cursor
          PROVE  Passed(e)'
      <4>1. e.seq <= sub'.cursor
        BY <1>5, <3>4
      <4>2. \A i \in 1 .. Len(wire') : i + 1 \in 1 .. Len(wire) /\ wire'[i] = wire[i + 1]
        BY <1>1, Taken DEF WireInv
      <4>3. \A i \in 1 .. Len(wire') : wire'[i].kind # "resync"
        BY <3>4, <4>2
      <4> QED BY <2>7, <4>1, <4>3 DEF Passed
    <3> QED BY <1>3, <3>1, <3>2, <3>3, <3>4 DEF Passed
  <2> QED BY <2>3, <2>4, <2>5, <2>6, <2>7, <2>8 DEF WireInv
<1>6. CASE sub # None
  <2>1. /\ f.rewinds = rs /\ (~unrewound => ~Forgotten(sub.epoch, sub.cursor))
    BY <1>2, <1>3, <1>6 DEF WireInv, AttachedInv
  <2>2. /\ epoch \in Nat /\ remote \in Remote /\ remote.lastSeq \in Nat /\ remote.epoch \in Nat
        /\ remote.epoch <= epoch /\ sub \in Subscription /\ sub.cursor \in Nat /\ sub.epoch \in Nat
        /\ sub.epoch = remote.epoch /\ remote.lastSeq <= sub.cursor
        /\ sub.ackTarget \in Nat /\ sub.ackSent \in Nat
        /\ openFrom \in Nat \cup {Closed} /\ openFrom <= sub.cursor
    BY <1>6, Past, SessionTypes DEF SessionInv
  <2>3. \A r \in rs : /\ r \in Nat /\ r < sub.cursor /\ sub.epoch < epoch /\ r <= last
                      /\ \A e \in timeline : e.seq > r <=> e.by > sub.epoch
                      /\ \A q \in rs : q = r
    BY <2>2, RewindSeparates
  <2> HIDE DEF rs
  <2>4. Story(remote, transcript)
    BY DEF StoryInv
  <2>5. ASSUME NEW r \in f.rewinds, r < sub.cursor, sub' = Rewound(sub, r, f.epoch),
               remote' = RewoundRemote(r, f.epoch), openFrom' = Closed
        PROVE  SessionInv' /\ StoryInv' /\ WholeInv' /\ WireInv'
    <3> DEFINE l == MinOf(remote.lastSeq, r)
    <3>1. /\ r \in Nat /\ r <= last /\ r <= sub.cursor /\ f.rewinds \subseteq {r} /\ f.rewinds # {}
          /\ \A e \in timeline : e.seq > r <=> e.by > sub.epoch
      BY <2>1, <2>2, <2>3, <2>5
    <3>2. l \in {remote.lastSeq, r} /\ l <= remote.lastSeq /\ l <= r /\ l \in Nat
      BY <2>2, <3>1, Bounds
    <3>3. remote' = [lastSeq |-> l, epoch |-> epoch]
      BY <1>3, <2>5 DEF RewoundRemote
    <3> HIDE DEF l
    <3>4. sub' \in Subscription /\ sub'.cursor = r /\ sub'.epoch = epoch
      <4>1. MinOf(sub.ackTarget, r) \in Nat /\ MinOf(sub.ackSent, r) \in Nat
        BY <2>2, <3>1, Bounds
      <4> QED BY <1>3, <2>2, <2>5, <3>1, <4>1 DEF Rewound, Subscription
    <3>5. openFrom' \in Nat \cup {Closed} /\ openFrom' <= r
      BY <2>5, <3>1 DEF Closed
    <3>6. \A e \in timeline : e.seq \in Nat /\ e.by \in Nat
      BY Past
    <3>7. Story(remote', transcript)
      <4>1. transcript \in Seq(Entry) /\ \A i \in 1 .. Len(transcript) :
               /\ Kept(transcript[i], remote) /\ transcript[i].by \in Nat /\ transcript[i].seq \in Nat
        <5>1. \A i \in 1 .. Len(transcript) : transcript[i] \in Entry
          BY <2>4 DEF Story
        <5> QED BY <2>4, <5>1 DEF Story, Entry
      <4>2. ASSUME NEW i \in 1 .. Len(transcript) PROVE Kept(transcript[i], remote')
        <5> DEFINE t == transcript[i]
        <5>1. Kept(t, remote) /\ t.by \in Nat /\ t.seq \in Nat
          BY <4>1
        <5> SUFFICES Kept(t, remote')
          OBVIOUS
        <5> HIDE DEF t
        <5>2. t.by <= epoch /\ t.by < epoch
          BY <2>1, <2>2, <2>3, <2>5, <5>1 DEF Kept
        <5>3. CASE l = remote.lastSeq
          BY <3>3, <5>1, <5>2, <5>3 DEF Kept
        <5>4. CASE l = r
          <6>1. \A x \in timeline : x.seq > l => x.by > t.by
            BY <2>2, <3>1, <3>6, <5>1, <5>4 DEF Kept
          <6> QED BY <3>3, <5>1, <5>2, <6>1 DEF Kept, Older
        <5> QED BY <3>2, <5>3, <5>4
      <4> QED BY <2>4, <4>1, <4>2 DEF Story
    <3>8. ASSUME ~unrewound PROVE Whole(l, epoch, applied) /\ Whole(r, epoch, applied)
      <4>1. Whole(sub.cursor, sub.epoch, applied)
        BY <1>6, <3>8 DEF WholeInv
      <4>2. \A e \in timeline : e.seq <= r => e.by <= sub.epoch /\ e.seq <= sub.cursor
        BY <2>2, <3>1, <3>6
      <4>3. \A e \in timeline : e.seq <= l => e.seq <= r
        BY <3>1, <3>2, <3>6
      <4>4. r <= last /\ l <= last
        BY <3>1, <3>2, Past
      <4> QED BY <4>1, <4>2, <4>3, <4>4 DEF Whole
    <3> QED BY <1>5, <1>6, <3>1, <3>2, <3>3, <3>4, <3>5, <3>7, <3>8
  <2>6. ASSUME \A r \in f.rewinds : r >= sub.cursor, sub' = [sub EXCEPT !.epoch = f.epoch],
               remote' = [remote EXCEPT !.epoch = f.epoch], UNCHANGED openFrom
        PROVE  SessionInv' /\ StoryInv' /\ WholeInv' /\ WireInv'
    <3>1. f.rewinds = {} /\ rs = {}
      BY <2>1, <2>2, <2>3, <2>6
    <3>2. remote' = [lastSeq |-> remote.lastSeq, epoch |-> epoch]
          /\ remote' \in Remote /\ remote'.epoch = epoch /\ remote'.lastSeq = remote.lastSeq
      BY <1>3, <2>2, <2>6 DEF Remote
    <3>3. sub' \in Subscription /\ sub'.cursor = sub.cursor /\ sub'.epoch = epoch
      BY <1>3, <2>2, <2>6 DEF Subscription
    <3>4. Story(remote', transcript)
      BY <2>2, <2>4, <3>2, StoryForAll
    <3>5. ASSUME ~unrewound
          PROVE  Whole(remote.lastSeq, epoch, applied) /\ Whole(sub.cursor, epoch, applied)
      <4>1. Whole(sub.cursor, sub.epoch, applied) /\ Whole(remote.lastSeq, sub.epoch, applied)
        BY <1>6, <2>2, <3>5 DEF WholeInv
      <4>2. RewindFor(sub.epoch, sub.cursor) = {} /\ ~Forgotten(sub.epoch, sub.cursor)
        BY <2>1, <3>1, <3>5 DEF rs
      <4> QED BY <2>2, <4>1, <4>2, WholeForAll
    <3>6. /\ sub.cursor <= sub.cursor /\ remote.lastSeq <= remote.lastSeq
          /\ openFrom' \in Nat \cup {Closed} /\ openFrom' <= sub.cursor
          /\ f.rewinds \subseteq {sub.cursor}
      BY <2>2, <2>6, <3>1
    <3> HIDE DEF f
    <3> QED BY <1>5, <1>6, <2>2, <3>2, <3>3, <3>4, <3>5, <3>6
  <2> QED BY <1>6, <2>5, <2>6 DEF ReceiveAttached
<1> QED BY <1>4, <1>6

\* An event is applied only when it comes after everything applied so far.
LEMMA EventTaken ==
    ASSUME JournalInv, SessionInv, StoryInv, WholeInv, WireInv, Received, ReceiveEvent(wire[1])
    PROVE  SessionInv' /\ StoryInv' /\ WholeInv' /\ WireInv'
<1> USE DEF JournalInv
<1> DEFINE f == wire[1]
           e == f.entry
<1>1. /\ wire # <<>> /\ wire' = Tail(wire)
      /\ UNCHANGED <<epoch, last, timeline, log, low, checkpoint, chain, link, live, disk>>
      /\ UNCHANGED <<phase, unrewound, asking>>
  BY DEF Received, ReceiveEvent, daemon
<1>2. /\ Len(wire) \in Nat /\ 1 \in 1 .. Len(wire) /\ wire' \in Seq(Frames) /\ f \in Frames
      /\ \A i \in 1 .. Len(wire) : i \in Nat /\ (i = 1 \/ (i > 1 /\ i - 1 \in 1 .. Len(wire') /\ wire'[i - 1] = wire[i]))
  BY <1>1, Taken DEF WireInv
<1>3. f.kind = "event" /\ e \in timeline /\ ~AttachedFirst /\ f = EventFrame(e)
  BY <1>2, FrameOfKind DEF ReceiveEvent, WireInv, EventsInv, AttachedFirst, IsAt
<1>4. \A i \in 1 .. Len(wire) : wire[i].kind # "resync"
  <2>1. \A i \in 1 .. Len(wire) : wire[i].kind = "resync" => i = 1
    BY <1>3 DEF WireInv, ResyncInv
  <2> QED BY <1>3, <2>1
<1>5. /\ AttachedInv' /\ OpenedInv' /\ ResyncInv' /\ EventsInv' /\ ~AttachedFirst'
      /\ \A i \in 1 .. Len(wire') : wire'[i].kind # "resync"
  BY <1>1, <1>3, RestOfWire
<1>6. CASE sub = None
  BY <1>1, <1>6, TakenByNobody DEF ReceiveEvent
<1>7. CASE sub # None
  <2>1. /\ live /\ asking = None /\ link
    BY <1>1, <1>7 DEF WireInv, LinkInv
  <2>2. /\ epoch \in Nat /\ remote \in Remote /\ remote.lastSeq \in Nat /\ remote.epoch = epoch
        /\ sub \in Subscription /\ sub.cursor \in Nat /\ sub.epoch = epoch
        /\ remote.lastSeq <= sub.cursor
        /\ openFrom \in Nat \cup {Closed} /\ openFrom <= sub.cursor
    BY <1>3, <1>7, <2>1, Past, SessionTypes DEF SessionInv, WireInv, LinkInv
  <2>3. /\ e \in Entry /\ e.seq \in Nat /\ e.seq > 0 /\ e.by \in Nat /\ e.by <= epoch /\ e.seq <= last
        /\ last \in Nat /\ \A x \in timeline : x.seq \in Nat /\ x.by \in Nat /\ x.by <= epoch
    BY <1>3, Past
  <2> HIDE DEF e, f
  <2>4. f.entry = e
    BY DEF e
  <2>5. ASSUME NEW x \in timeline, x.role # "token" \/ x \in checkpoint
        PROVE  /\ x.seq <= sub.cursor \/ \E i \in 1 .. Len(wire) : wire[i] = EventFrame(x)
               /\ x.seq <= sub.cursor \/ x = e \/ x.seq > e.seq
               /\ x.seq <= sub.cursor \/ x = e \/ \E i \in 1 .. Len(wire') : wire'[i] = EventFrame(x)
    <3>1. Passed(x) => x.seq <= sub.cursor
      BY <1>3, <1>4 DEF Passed
    <3>2. ASSUME NEW i \in 1 .. Len(wire), wire[i] = EventFrame(x)
          PROVE  x = e \/ (x.seq > e.seq /\ \E k \in 1 .. Len(wire') : wire'[k] = EventFrame(x))
      <4>1. CASE i = 1
        <5>1. EventFrame(x) = EventFrame(e)
          BY <1>3, <3>2, <4>1 DEF f
        <5> QED BY <5>1 DEF EventFrame
      <4>2. CASE i > 1
        <5>1. /\ wire[i].kind = "event" /\ wire[i].entry = x
              /\ wire[1].kind = "event" /\ wire[1].entry = e
          BY <1>3, <2>4, <3>2 DEF f, EventFrame
        <5>2. e.seq < x.seq
          BY <1>2, <4>2, <5>1 DEF WireInv, EventsInv
        <5>3. i - 1 \in 1 .. Len(wire') /\ wire'[i - 1] = EventFrame(x)
          BY <1>2, <3>2, <4>2
        <5> QED BY <2>3, <5>2, <5>3
      <4> QED BY <1>2, <4>1, <4>2
    <3> QED BY <2>1, <2>5, <3>1, <3>2 DEF WireInv, DeliveryInv
  <2>6. CASE e.seq <= sub.cursor
    <3>1. UNCHANGED <<sub, remote, openFrom, transcript, applied>>
      BY <2>4, <2>6, <1>7 DEF ReceiveEvent, f
    <3>2. SessionInv'
      BY <1>1, <3>1 DEF SessionInv
    <3>3. StoryInv'
      <4>1. Story(remote, transcript)' <=> Story(remote, transcript)
        BY <1>1, <3>1 DEF Story, Kept, Older, Ascending
      <4> QED BY <1>1, <4>1, DiskStays DEF StoryInv
    <3>4. WholeInv'
      <4>1. /\ Whole(remote.lastSeq, remote.epoch, applied)' <=>
               Whole(remote.lastSeq, remote.epoch, applied)
            /\ Whole(sub.cursor, sub.epoch, applied)' <=> Whole(sub.cursor, sub.epoch, applied)
        BY <1>1, <3>1 DEF Whole
      <4> QED BY <1>1, <3>1, <4>1, DiskStays DEF WholeInv
    <3>5. LinkInv'
      BY <1>1, <1>2, <2>1, <2>2, <3>1, <1>7 DEF LinkInv
    <3>6. DeliveryInv'
      <4> SUFFICES ASSUME NEW x \in timeline, x.role # "token" \/ x \in checkpoint
                   PROVE  Passed(x)' \/ \E i \in 1 .. Len(wire') : wire'[i] = EventFrame(x)
        BY <1>1 DEF DeliveryInv
      <4>1. x.seq <= sub.cursor \/ \E i \in 1 .. Len(wire') : wire'[i] = EventFrame(x)
        BY <2>5, <2>6
      <4>2. x.seq <= sub.cursor => Passed(x)'
        BY <1>5, <3>1 DEF Passed
      <4> QED BY <4>1, <4>2
    <3> QED BY <1>5, <3>2, <3>3, <3>4, <3>5, <3>6 DEF WireInv
  <2>7. CASE e.seq > sub.cursor
    <3>1. /\ sub' = [sub EXCEPT !.cursor = e.seq]
          /\ openFrom' = StreamFrom(e)
          /\ remote' = [remote EXCEPT !.lastSeq = AdvancedCursor(e, openFrom')]
          /\ transcript' = IF e.role = "message" THEN Append(transcript, e) ELSE transcript
          /\ applied' = applied \cup {e}
      BY <2>2, <2>3, <2>4, <2>7, <1>7 DEF ReceiveEvent, f
    <3>2. /\ openFrom' \in Nat \cup {Closed} /\ openFrom' <= e.seq
          /\ e.role = "message" => openFrom' = Closed
      BY <2>2, <2>3, <2>7, <3>1 DEF StreamFrom, Finishers, Closed
    <3> DEFINE to == AdvancedCursor(e, openFrom')
    <3>3. /\ to \in Nat /\ remote.lastSeq <= to /\ to <= e.seq
          /\ e.role = "message" => to = e.seq
      BY <2>2, <2>3, <2>7, <3>2 DEF AdvancedCursor, MaxOf, Closed
    <3> HIDE DEF to
    <3>4. remote' \in Remote /\ remote'.lastSeq = to /\ remote'.epoch = epoch
      BY <2>2, <3>1, <3>3 DEF Remote, to
    <3>5. sub' \in Subscription /\ sub'.cursor = e.seq /\ sub'.epoch = epoch /\ sub' # None
      <4>1. sub' \in Subscription /\ sub'.cursor = e.seq /\ sub'.epoch = epoch
        BY <2>2, <2>3, <3>1 DEF Subscription
      <4> QED BY <4>1, NotNone
    <3>6. SessionInv'
      BY <1>1, <1>7, <2>2, <3>2, <3>3, <3>4, <3>5 DEF SessionInv
    <3>7. StoryInv'
      <4>1. /\ transcript \in Seq(Entry) /\ Ascending(transcript) /\ Len(transcript) \in Nat
            /\ \A i \in 1 .. Len(transcript) : Kept(transcript[i], remote) /\ transcript[i] \in Entry
        BY LenProperties DEF StoryInv, Story
      <4>2. ASSUME NEW t \in Entry, Kept(t, remote)
            PROVE  Kept(t, remote') /\ (t.seq < e.seq \/ t.by < e.by)
        <5>1. t.seq \in Nat /\ t.by \in Nat
          BY DEF Entry
        <5>2. Older(t, remote.lastSeq) => Older(t, to) /\ t.by < e.by
          BY <1>3, <2>2, <2>3, <2>7, <3>3 DEF Older
        <5>3. t.seq <= remote.lastSeq => t.seq <= to /\ t.seq < e.seq
          BY <2>2, <2>3, <2>7, <3>3, <5>1
        <5> QED BY <2>2, <3>4, <4>2, <5>2, <5>3 DEF Kept
      <4>3. Story(remote', transcript')
        <5>1. CASE e.role # "message"
          BY <3>1, <4>1, <4>2, <5>1 DEF Story
        <5>2. CASE e.role = "message"
          <6>1. /\ transcript' \in Seq(Entry) /\ Len(transcript') = Len(transcript) + 1
                /\ transcript'[Len(transcript) + 1] = e
                /\ \A i \in 1 .. Len(transcript) : transcript'[i] = transcript[i]
            BY <2>3, <3>1, <4>1, <5>2, AppendProperties
          <6>2. \A i \in 1 .. Len(transcript') :
                   \/ i \in 1 .. Len(transcript) /\ transcript'[i] = transcript[i]
                   \/ i = Len(transcript) + 1 /\ transcript'[i] = e
            BY <4>1, <6>1
          <6>3. Kept(e, remote')
            BY <1>3, <2>3, <3>3, <3>4, <5>2 DEF Kept
          <6>4. Ascending(transcript')
            <7> SUFFICES ASSUME NEW i \in 1 .. Len(transcript'), NEW j \in 1 .. Len(transcript'), i < j
                         PROVE  transcript'[i].seq < transcript'[j].seq \/ transcript'[i].by < transcript'[j].by
              BY DEF Ascending
            <7>1. i \in 1 .. Len(transcript) /\ transcript'[i] = transcript[i]
              BY <4>1, <6>1, <6>2
            <7>2. CASE j \in 1 .. Len(transcript)
              BY <4>1, <6>1, <7>1, <7>2 DEF Ascending
            <7>3. CASE j = Len(transcript) + 1
              BY <4>1, <4>2, <6>1, <7>1, <7>3
            <7> QED BY <6>2, <7>2, <7>3
          <6> QED BY <4>1, <4>2, <6>1, <6>2, <6>3, <6>4 DEF Story
        <5> QED BY <5>1, <5>2
      <4>4. Story(remote, transcript)'
        BY <1>1, <4>3 DEF Story, Kept, Older, Ascending
      <4> QED BY <1>1, <4>4, DiskStays DEF StoryInv
    <3>8. WholeInv'
      <4> SUFFICES ASSUME ~unrewound PROVE WholeInv'
        BY <1>1 DEF WholeInv
      <4>1. Whole(sub.cursor, sub.epoch, applied)
        BY <1>7 DEF WholeInv
      <4>2. ASSUME NEW x \in timeline, x.role # "token", x.seq <= e.seq PROVE x \in applied'
        <5>1. x.seq <= sub.cursor \/ x = e
          BY <2>3, <2>5, <4>2
        <5> QED BY <2>2, <2>3, <3>1, <4>1, <4>2, <5>1 DEF Whole
      <4>3. Whole(e.seq, epoch, applied') /\ Whole(to, epoch, applied')
        BY <2>3, <3>3, <4>2 DEF Whole
      <4>4. Whole(remote.lastSeq, remote.epoch, applied)' /\ Whole(sub.cursor, sub.epoch, applied)'
        BY <1>1, <3>4, <3>5, <4>3 DEF Whole
      <4> QED BY <1>1, <4>4, DiskStays DEF WholeInv
    <3>9. LinkInv'
      BY <1>1, <1>2, <2>1, <3>4, <3>5 DEF LinkInv
    <3>10. DeliveryInv'
      <4> SUFFICES ASSUME NEW x \in timeline, x.role # "token" \/ x \in checkpoint
                   PROVE  Passed(x)' \/ \E i \in 1 .. Len(wire') : wire'[i] = EventFrame(x)
        BY <1>1 DEF DeliveryInv
      <4>1. x.seq <= sub.cursor \/ x = e \/ \E i \in 1 .. Len(wire') : wire'[i] = EventFrame(x)
        BY <2>5
      <4>2. x.seq <= e.seq => Passed(x)'
        BY <1>5, <3>5 DEF Passed
      <4>3. x.seq <= sub.cursor \/ x = e => x.seq <= e.seq
        BY <2>2, <2>3, <2>7
      <4> QED BY <4>1, <4>2, <4>3
    <3> QED BY <1>5, <3>6, <3>7, <3>8, <3>9, <3>10 DEF WireInv
  <2> QED BY <2>2, <2>3, <2>6, <2>7
<1> QED BY <1>6, <1>7

\* A checkpoint is taken over: it reaches past every event it stands for.
LEMMA ResyncTaken ==
    ASSUME JournalInv, SessionInv, StoryInv, WholeInv, WireInv, Received, ReceiveResync(wire[1])
    PROVE  SessionInv' /\ StoryInv' /\ WholeInv' /\ WireInv'
<1> USE DEF JournalInv
<1> DEFINE f == wire[1]
           until == Until(f)
           missed == MissedMessages(f)
<1>1. /\ wire # <<>> /\ wire' = Tail(wire)
      /\ UNCHANGED <<epoch, last, timeline, log, low, checkpoint, chain, link, live, disk>>
      /\ UNCHANGED <<phase, unrewound, asking>>
  BY DEF Received, ReceiveResync, daemon
<1>2. /\ Len(wire) \in Nat /\ 1 \in 1 .. Len(wire) /\ wire' \in Seq(Frames) /\ f \in Frames
      /\ \A i \in 1 .. Len(wire) : i = 1 \/ (i - 1 \in 1 .. Len(wire') /\ wire'[i - 1] = wire[i])
  BY <1>1, Taken DEF WireInv
<1>3. /\ f.kind = "resync" /\ ~AttachedFirst /\ f.seq \in Nat /\ f.seq <= last
      /\ until \in Nat /\ until <= f.seq
      /\ f.checkpoint \subseteq timeline
      /\ \A m \in Messages(f.checkpoint) : m.seq <= until
      /\ \A x \in timeline : x.seq > until => x.by = epoch
      /\ \A n \in 1 .. Len(transcript) : transcript[n].by = epoch => transcript[n].seq <= until
  <2>1. f.kind = "resync" /\ ~AttachedFirst
    BY DEF ReceiveResync, AttachedFirst, IsAt
  <2>2. f.seq \in Nat /\ until \in Int /\ until <= f.seq
    BY <1>2, <2>1, FrameOfKind
  <2>3. until >= 0 /\ until \in Nat
    BY <1>2, <2>1, <2>2 DEF WireInv, ResyncInv
  <2> QED BY <1>2, <2>1, <2>2, <2>3 DEF WireInv, ResyncInv
<1>4. /\ AttachedInv' /\ OpenedInv' /\ ResyncInv' /\ EventsInv' /\ ~AttachedFirst'
      /\ \A i \in 1 .. Len(wire') : wire'[i].kind # "resync"
  BY <1>1, <1>3, RestOfWire
<1>5. CASE sub = None
  BY <1>1, <1>5, TakenByNobody DEF ReceiveResync
<1>6. CASE sub # None
  <2>1. live /\ asking = None /\ link
    BY <1>1, <1>6 DEF WireInv, LinkInv
  <2>2. /\ epoch \in Nat /\ remote \in Remote /\ remote.lastSeq \in Nat /\ remote.epoch = epoch
        /\ sub \in Subscription /\ sub.epoch = epoch
        /\ \A x \in timeline : x \in Entry /\ x.seq \in Nat /\ x.by \in Nat /\ x.by <= epoch
    BY <1>3, <1>6, <2>1, Past, SessionTypes DEF WireInv, LinkInv
  <2>3. /\ sub' = [sub EXCEPT !.cursor = f.seq]
        /\ remote' = [remote EXCEPT !.lastSeq = until]
        /\ openFrom' = IF until = f.seq THEN Closed ELSE until
        /\ transcript' = transcript \o InOrder(missed)
        /\ applied' = applied \cup {e \in timeline : e.seq <= f.seq}
    BY <1>6 DEF ReceiveResync, Until
  <2> HIDE DEF until, f
  <2>4. remote' \in Remote /\ remote'.lastSeq = until /\ remote'.epoch = epoch
    BY <1>3, <2>2, <2>3 DEF Remote
  <2>5. sub' \in Subscription /\ sub'.cursor = f.seq /\ sub'.epoch = epoch /\ sub' # None
    <3>1. sub' \in Subscription /\ sub'.cursor = f.seq /\ sub'.epoch = epoch
      BY <1>3, <2>2, <2>3 DEF Subscription
    <3> QED BY <3>1, NotNone
  <2>6. SessionInv'
    <3>1. openFrom' \in Nat \cup {Closed} /\ openFrom' <= f.seq
      BY <1>3, <2>3 DEF Closed
    <3> QED BY <1>1, <1>3, <1>6, <2>2, <2>4, <2>5, <3>1 DEF SessionInv
  <2>7. StoryInv'
    <3> DEFINE a == transcript
               b == InOrder(missed)
    <3>1. /\ missed \subseteq Messages(f.checkpoint) /\ missed \subseteq timeline
          /\ \A m \in missed : m.role = "message" /\ m.seq > remote.lastSeq
      BY <1>3 DEF MissedMessages, After, Messages
    <3> HIDE DEF missed
    <3>2. /\ a \in Seq(Entry) /\ Ascending(a) /\ Len(a) \in Nat
          /\ \A i \in 1 .. Len(a) : Kept(a[i], remote) /\ a[i] \in Entry
      BY LenProperties DEF StoryInv, Story
    <3>3. missed \in SUBSET Entry
      BY <2>2, <3>1
    <3>4. /\ b \in Seq(missed) /\ b \in Seq(Entry) /\ Len(b) \in Nat
          /\ \A i, j \in 1 .. Len(b) : i < j => b[i].seq < b[j].seq
      BY <3>3, Ordered, LenProperties, SeqMonotonic
    <3> HIDE DEF b
    <3>5. \A i \in 1 .. Len(b) : b[i] \in missed
      BY <3>4
    <3>6. ASSUME NEW i \in 1 .. Len(a) PROVE Kept(a[i], remote')
      <4>1. /\ a[i].seq \in Nat /\ a[i].by \in Nat /\ Kept(a[i], remote)
        BY <3>2 DEF Entry
      <4>2. a[i].by = epoch => a[i].seq <= until
        BY <1>3
      <4>3. a[i].by < epoch => Older(a[i], until)
        BY <1>3 DEF Older
      <4>4. a[i].by <= epoch
        BY <2>2, <4>1 DEF Kept
      <4> HIDE DEF a
      <4> QED BY <2>2, <2>4, <4>1, <4>2, <4>3, <4>4 DEF Kept
    <3>7. ASSUME NEW m \in missed PROVE Kept(m, remote')
      BY <1>3, <2>2, <2>4, <3>1 DEF Kept
    <3>8. ASSUME NEW i \in 1 .. Len(a), NEW m \in missed
          PROVE  a[i].seq < m.seq \/ a[i].by < m.by
      <4>1. /\ a[i].seq \in Nat /\ a[i].by \in Nat /\ Kept(a[i], remote)
        BY <3>2 DEF Entry
      <4>2. m \in timeline /\ m.seq > remote.lastSeq
        BY <3>1
      <4> HIDE DEF a
      <4> QED BY <2>2, <4>1, <4>2 DEF Kept, Older
    <3> HIDE DEF a
    <3>9. /\ a \o b \in Seq(Entry) /\ Len(a \o b) = Len(a) + Len(b)
          /\ \A i \in 1 .. Len(a \o b) :
                \/ i \in 1 .. Len(a) /\ (a \o b)[i] = a[i]
                \/ i > Len(a) /\ i - Len(a) \in 1 .. Len(b) /\ (a \o b)[i] = b[i - Len(a)]
      <4>1. /\ a \o b \in Seq(Entry) /\ Len(a \o b) = Len(a) + Len(b)
            /\ \A i \in 1 .. Len(a) + Len(b) :
                  (a \o b)[i] = IF i <= Len(a) THEN a[i] ELSE b[i - Len(a)]
        BY <3>2, <3>4, ConcatProperties
      <4> QED BY <3>2, <3>4, <4>1
    <3> DEFINE c == a \o b
    <3> HIDE DEF c
    <3>10. Ascending(c)
      <4> SUFFICES ASSUME NEW i \in 1 .. Len(c), NEW j \in 1 .. Len(c), i < j
                   PROVE  c[i].seq < c[j].seq \/ c[i].by < c[j].by
        BY DEF Ascending
      <4>1. CASE j \in 1 .. Len(a) /\ c[j] = a[j]
        <5>1. i \in 1 .. Len(a) /\ c[i] = a[i]
          BY <3>2, <3>9, <4>1 DEF c
        <5> QED BY <3>2, <4>1, <5>1 DEF Ascending
      <4>2. CASE j > Len(a) /\ j - Len(a) \in 1 .. Len(b) /\ c[j] = b[j - Len(a)]
        <5>1. CASE i \in 1 .. Len(a) /\ c[i] = a[i]
          BY <3>5, <3>8, <4>2, <5>1
        <5>2. CASE i > Len(a) /\ i - Len(a) \in 1 .. Len(b) /\ c[i] = b[i - Len(a)]
          <6>1. i - Len(a) < j - Len(a)
            BY <3>2, <4>2, <5>2
          <6> QED BY <3>4, <4>2, <5>2, <6>1
        <5> QED BY <3>9, <5>1, <5>2 DEF c
      <4> QED BY <3>9, <4>1, <4>2 DEF c
    <3>11. \A i \in 1 .. Len(c) : Kept(c[i], remote')
      BY <3>5, <3>6, <3>7, <3>9 DEF c
    <3>12. Story(remote', transcript')
      BY <2>3, <3>9, <3>10, <3>11 DEF Story, a, b, c
    <3>13. Story(remote, transcript)'
      BY <1>1, <3>12 DEF Story, Kept, Older, Ascending
    <3> QED BY <1>1, <3>13, DiskStays DEF StoryInv
  <2>8. WholeInv'
    <3> SUFFICES ASSUME ~unrewound PROVE WholeInv'
      BY <1>1 DEF WholeInv
    <3>1. Whole(f.seq, epoch, applied') /\ Whole(until, epoch, applied')
      <4>1. last \in Nat
        BY Past
      <4> QED BY <1>3, <2>2, <2>3, <4>1 DEF Whole
    <3>2. Whole(remote.lastSeq, remote.epoch, applied)' /\ Whole(sub.cursor, sub.epoch, applied)'
      BY <1>1, <2>4, <2>5, <3>1 DEF Whole
    <3> QED BY <1>1, <3>2, DiskStays DEF WholeInv
  <2>9. LinkInv'
    BY <1>1, <1>2, <2>1, <2>4, <2>5 DEF LinkInv
  <2>10. DeliveryInv'
    <3> SUFFICES ASSUME NEW e \in timeline, e.role # "token" \/ e \in checkpoint
                 PROVE  Passed(e)' \/ \E i \in 1 .. Len(wire') : wire'[i] = EventFrame(e)
      BY <1>1 DEF DeliveryInv
    <3>1. Passed(e) => e.seq <= f.seq
      <4>1. \A i \in 1 .. Len(wire) : wire[i].kind = "resync" => i = 1
        BY <1>3 DEF WireInv, ResyncInv
      <4> QED BY <1>2, <1>3, <4>1 DEF Passed, f
    <3>2. e.seq <= f.seq => Passed(e)'
      BY <1>4, <2>5 DEF Passed
    <3>3. ASSUME NEW i \in 1 .. Len(wire), wire[i] = EventFrame(e)
          PROVE  \E k \in 1 .. Len(wire') : wire'[k] = EventFrame(e)
      <4>1. i # 1
        BY <1>3, <3>3 DEF EventFrame, f
      <4> QED BY <1>2, <3>3, <4>1
    <3> QED BY <2>1, <3>1, <3>2, <3>3 DEF WireInv, DeliveryInv
  <2> QED BY <1>4, <2>6, <2>7, <2>8, <2>9, <2>10 DEF WireInv
<1> QED BY <1>5, <1>6

-----------------------------------------------------------------------------
(* The plugin saves, acknowledges, leaves and comes back.                  *)

LEMMA JournalStays == ASSUME JournalInv, UNCHANGED daemon PROVE JournalInv'
<1>1. UNCHANGED <<epoch, log, last, low, acked, checkpoint, flushed, sidecar, chain, timeline>>
  BY DEF daemon
<1>2. HistoryInv'
  BY <1>1 DEF JournalInv, HistoryInv
<1>3. TokensInv' /\ ChainInv'
  BY <1>1 DEF JournalInv, TokensInv, ChainInv
<1> QED BY <1>2, <1>3 DEF JournalInv

\* What is on its way is right for whoever keeps its place, and for nobody.
LEMMA WireStays ==
    ASSUME WireInv,
           UNCHANGED <<epoch, last, timeline, checkpoint, chain, link, wire, transcript, unrewound>>,
           UNCHANGED phase \/ phase # "opening",
           \/ /\ sub # None /\ sub' # None /\ sub'.cursor = sub.cursor /\ sub'.epoch = sub.epoch
              /\ UNCHANGED <<live, asking, remote>>
           \/ sub' = None /\ ~live' /\ asking' = None
    PROVE  WireInv'
<1> USE DEF WireInv
<1>1. AttachedFirst' <=> AttachedFirst
  BY DEF AttachedFirst, IsAt
<1>2. LinkInv'
  BY <1>1 DEF LinkInv, AttachFrom
<1>3. AttachedInv'
  <2>2. CASE sub' = None
    BY <2>2 DEF AttachedInv
  <2>3. CASE sub # None /\ sub' # None /\ sub'.cursor = sub.cursor /\ sub'.epoch = sub.epoch
    <3>1. RewindFor(sub.epoch, sub.cursor)' = RewindFor(sub.epoch, sub.cursor)
          /\ Forgotten(sub.epoch, sub.cursor)' = Forgotten(sub.epoch, sub.cursor)
      BY <2>3 DEF RewindFor, Forgotten
    <3> QED BY <2>3, <3>1 DEF AttachedInv
  <2> QED BY <2>2, <2>3
<1>4. OpenedInv'
  BY DEF OpenedInv
<1>5. ResyncInv' /\ EventsInv'
  BY <1>1 DEF ResyncInv, EventsInv
<1>6. DeliveryInv'
  BY <1>1 DEF DeliveryInv, Passed
<1> QED BY <1>2, <1>3, <1>4, <1>5, <1>6

\* What is shown stays right while neither it nor the history changes.
LEMMA ShownStays ==
    ASSUME StoryInv, WholeInv,
           UNCHANGED <<epoch, last, timeline, remote, transcript, applied, unrewound>>
    PROVE  /\ Story(remote, transcript)'
           /\ ~unrewound => Whole(remote.lastSeq, remote.epoch, applied)'
           /\ \A s \in {saved, snapshot} :
                 /\ SavedInv(s) => SavedInv(s)'
                 /\ Whole(s.remote.lastSeq, s.remote.epoch, s.applied) =>
                       Whole(s.remote.lastSeq, s.remote.epoch, s.applied)'
<1>1. Story(remote, transcript)' <=> Story(remote, transcript)
  BY DEF Story, Kept, Older, Ascending
<1>2. Whole(remote.lastSeq, remote.epoch, applied)' <=> Whole(remote.lastSeq, remote.epoch, applied)
  BY DEF Whole
<1>3. ASSUME NEW s PROVE SavedInv(s) => SavedInv(s)'
  BY DEF SavedInv, Story, Kept, Older, Ascending
<1>4. ASSUME NEW s
      PROVE  Whole(s.remote.lastSeq, s.remote.epoch, s.applied) =>
                Whole(s.remote.lastSeq, s.remote.epoch, s.applied)'
  BY DEF Whole
<1> QED BY <1>1, <1>2, <1>3, <1>4 DEF StoryInv, WholeInv

LEMMA StartKeeps == Inv /\ Start => Inv'
<1> SUFFICES ASSUME Inv, Start PROVE Inv'
  OBVIOUS
<1> USE DEF Inv
<1>1. /\ phase = "none" /\ phase' = "opening" /\ sub = None
      /\ UNCHANGED daemon
      /\ UNCHANGED <<epoch, last, timeline, checkpoint, chain, link, live, wire, asking, sub, remote, openFrom,
                     transcript, applied, unrewound, disk>>
  BY DEF Start, SessionInv, connection, daemon
<1>2. ~live /\ asking = None
  BY <1>1 DEF WireInv, LinkInv
<1>3. SessionInv'
  BY <1>1 DEF SessionInv
<1>4. StoryInv' /\ WholeInv'
  BY <1>1, ShownStays, DiskStays DEF StoryInv, WholeInv
<1> QED BY <1>1, <1>2, <1>3, <1>4, JournalStays, WireStays

LEMMA ConnectKeeps == Inv /\ Connect => Inv'
<1> SUFFICES ASSUME Inv, Connect PROVE Inv'
  OBVIOUS
<1> USE DEF Inv
<1>1. /\ ~link /\ link' /\ asking' = Reattach
      /\ UNCHANGED daemon
      /\ UNCHANGED <<epoch, last, timeline, wire, live, phase, sub, remote, openFrom,
                     transcript, applied, unrewound, disk>>
  BY DEF Connect, session, daemon
<1>2. wire = <<>> /\ ~live
  BY <1>1 DEF WireInv, LinkInv
<1>3. asking' # None => sub' # None /\ asking' = AttachFrom(sub')
  BY <1>1 DEF Reattach, AttachFrom
<1>4. SessionInv'
  BY <1>1 DEF SessionInv
<1>5. StoryInv' /\ WholeInv'
  <2>1. sub # None => (Whole(sub.cursor, sub.epoch, applied)' <=> Whole(sub.cursor, sub.epoch, applied))
    BY <1>1 DEF Whole
  <2> QED BY <1>1, <2>1, ShownStays, DiskStays DEF StoryInv, WholeInv
<1>6. WireInv'
  BY <1>1, <1>2, <1>3, EmptyWire
<1> QED BY <1>1, <1>4, <1>5, <1>6, JournalStays

LEMMA DropKeeps == Inv /\ Drop => Inv'
<1> SUFFICES ASSUME Inv, Drop PROVE Inv'
  OBVIOUS
<1> USE DEF Inv
<1>1. /\ wire' = <<>> /\ ~live' /\ asking' = None
      /\ UNCHANGED daemon
      /\ UNCHANGED <<epoch, last, timeline, phase, sub, remote, openFrom,
                     transcript, applied, unrewound, disk>>
  BY DEF Drop, session, daemon
<1>2. SessionInv'
  BY <1>1 DEF SessionInv
<1>3. StoryInv' /\ WholeInv'
  <2>1. sub # None => (Whole(sub.cursor, sub.epoch, applied)' <=> Whole(sub.cursor, sub.epoch, applied))
    BY <1>1 DEF Whole
  <2> QED BY <1>1, <2>1, ShownStays, DiskStays DEF StoryInv, WholeInv
<1>4. WireInv'
  BY <1>1, EmptyWire
<1> QED BY <1>1, <1>2, <1>3, <1>4, JournalStays

LEMMA BeginSaveKeeps == Inv /\ BeginSave => Inv'
<1> SUFFICES ASSUME Inv, BeginSave PROVE Inv'
  OBVIOUS
<1> USE DEF Inv
<1>1. /\ snapshot'.remote = remote /\ snapshot'.transcript = transcript /\ snapshot'.applied = applied
      /\ saved' = saved
      /\ UNCHANGED daemon
      /\ UNCHANGED <<epoch, last, timeline, checkpoint, chain, link, wire, live, asking, phase, sub, remote,
                     openFrom, transcript, applied, unrewound>>
  BY DEF BeginSave, session, connection, daemon
<1>2. SessionInv'
  BY <1>1 DEF SessionInv
<1>3. StoryInv'
  <2>1. SavedInv(snapshot)'
    BY <1>1, ShownStays, SessionTypes DEF SavedInv
  <2> QED BY <1>1, <2>1, ShownStays DEF StoryInv
<1>4. WholeInv'
  <2>1. sub # None => (Whole(sub.cursor, sub.epoch, applied)' <=> Whole(sub.cursor, sub.epoch, applied))
    BY <1>1 DEF Whole
  <2>2. Whole(snapshot.remote.lastSeq, snapshot.remote.epoch, snapshot.applied)' <=>
        Whole(remote.lastSeq, remote.epoch, applied)'
    BY <1>1 DEF Whole
  <2> QED BY <1>1, <2>1, <2>2, ShownStays DEF WholeInv
<1>5. WireInv'
  <2>1. sub = None => ~live /\ asking = None
    BY DEF WireInv, LinkInv
  <2> QED BY <1>1, <2>1, WireStays
<1> QED BY <1>1, <1>2, <1>3, <1>4, <1>5, JournalStays

LEMMA FinishSaveKeeps == Inv /\ FinishSave => Inv'
<1> SUFFICES ASSUME Inv, FinishSave PROVE Inv'
  OBVIOUS
<1> USE DEF Inv
<1>1. /\ snapshot # None /\ saved' = snapshot /\ snapshot' = None
      /\ sub' = IF sub = None THEN None ELSE AckAfterSave(sub)
      /\ UNCHANGED daemon
      /\ UNCHANGED <<epoch, last, timeline, checkpoint, chain, link, wire, live, asking, phase, remote,
                     openFrom, transcript, applied, unrewound>>
  BY DEF FinishSave, connection, daemon
<1>2. SavedInv(snapshot)
  BY <1>1 DEF StoryInv
<1>3. sub # None => /\ sub' \in Subscription /\ sub' # None
                    /\ sub'.cursor = sub.cursor /\ sub'.epoch = sub.epoch
  <2> SUFFICES ASSUME sub # None
               PROVE  sub' \in Subscription /\ sub'.cursor = sub.cursor /\ sub'.epoch = sub.epoch
    BY NotNone
  <2>1. sub \in Subscription /\ sub.ackTarget \in Nat /\ remote.lastSeq \in Nat
    BY SessionTypes
  <2>2. MinOf(snapshot.remote.lastSeq, remote.lastSeq) \in Nat
    BY <1>2, <2>1, SavedTypes, Bounds
  <2>3. MaxOf(sub.ackTarget, MinOf(snapshot.remote.lastSeq, remote.lastSeq)) \in Nat
    BY <2>1, <2>2, Bounds
  <2> QED BY <1>1, <2>1, <2>3 DEF AckAfterSave, Subscription
<1>4. SessionInv'
  BY <1>1, <1>3 DEF SessionInv
<1>5. StoryInv'
  <2>1. SavedInv(saved)'
    <3>1. ASSUME NEW s, s = snapshot PROVE SavedInv(s)'
      BY <1>1, <1>2, <3>1, ShownStays
    <3> QED BY <1>1, <3>1
  <2> QED BY <1>1, <2>1, ShownStays DEF StoryInv
<1>6. WholeInv'
  <2>1. sub # None => (Whole(sub.cursor, sub.epoch, applied)' <=> Whole(sub.cursor, sub.epoch, applied))
    BY <1>1, <1>3 DEF Whole
  <2>2. ~unrewound => Whole(saved.remote.lastSeq, saved.remote.epoch, saved.applied)'
    <3>1. ASSUME ~unrewound, NEW s, s = snapshot
          PROVE  Whole(s.remote.lastSeq, s.remote.epoch, s.applied)'
      BY <1>1, <3>1, ShownStays DEF WholeInv
    <3> QED BY <1>1, <3>1
  <2> QED BY <1>1, <2>1, <2>2, ShownStays DEF WholeInv
<1>7. WireInv'
  <2>1. sub = None => ~live /\ asking = None
    BY DEF WireInv, LinkInv
  <2> QED BY <1>1, <1>3, <2>1, WireStays
<1> QED BY <1>1, <1>4, <1>5, <1>6, <1>7, JournalStays

LEMMA SendAckKeeps == Inv /\ SendAck => Inv'
<1> SUFFICES ASSUME Inv, SendAck PROVE Inv'
  OBVIOUS
<1> USE DEF Inv
<1>1. /\ sub # None /\ sub' = [sub EXCEPT !.ackSent = sub.ackTarget]
      /\ acked' = MaxOf(acked, MinOf(sub.ackTarget, last))
      /\ sidecar' = IF acked' > acked THEN last ELSE sidecar
      /\ UNCHANGED <<epoch, log, last, low, checkpoint, flushed, chain, timeline, disk>>
      /\ UNCHANGED <<link, wire, live, asking, phase, remote,
                     openFrom, transcript, applied, unrewound>>
  BY DEF SendAck, connection
<1>2. sub' \in Subscription /\ sub'.cursor = sub.cursor /\ sub'.epoch = sub.epoch /\ sub' # None
  <2>1. sub' \in Subscription /\ sub'.cursor = sub.cursor /\ sub'.epoch = sub.epoch
    BY <1>1, SessionTypes DEF Subscription
  <2> QED BY <2>1, NotNone
<1>3. JournalInv'
  <2>1. last \in Nat /\ sidecar \in 0 .. last /\ acked \in Nat /\ MaxSeq \in Nat
    BY RemoteStreamAssumption DEF JournalInv, HistoryInv
  <2>2. sidecar' \in 0 .. last /\ sidecar <= sidecar'
    BY <1>1, <2>1
  <2>3. acked' \in Nat
    <3>1. MinOf(sub.ackTarget, last) \in Nat
      BY <1>1, <2>1, SessionTypes, Bounds
    <3> QED BY <1>1, <2>1, <3>1, Bounds
  <2>4. HistoryInv'
    BY <1>1, <2>2, <2>3 DEF JournalInv, HistoryInv
  <2>5. TokensInv'
    BY <1>1 DEF JournalInv, TokensInv
  <2>6. \A i \in 1 .. Len(chain) : chain[i].startSeq <= sidecar'
    BY <2>1, <2>2, LinkTypes DEF JournalInv, ChainInv
  <2>7. ChainInv'
    BY <1>1, <2>6 DEF JournalInv, ChainInv
  <2> QED BY <2>4, <2>5, <2>7 DEF JournalInv
<1>4. SessionInv'
  BY <1>1, <1>2 DEF SessionInv
<1>5. StoryInv' /\ WholeInv'
  <2>1. Whole(sub.cursor, sub.epoch, applied)' <=> Whole(sub.cursor, sub.epoch, applied)
    BY <1>1, <1>2 DEF Whole
  <2> QED BY <1>1, <1>2, <2>1, ShownStays, DiskStays DEF StoryInv, WholeInv
<1>6. WireInv'
  BY <1>1, <1>2, WireStays
<1> QED BY <1>3, <1>4, <1>5, <1>6

LEMMA DetachKeeps == Inv /\ Detach => Inv'
<1> SUFFICES ASSUME Inv, Detach PROVE Inv'
  OBVIOUS
<1> USE DEF Inv
<1>1. /\ phase = "following" /\ phase' = "none" /\ sub' = None /\ openFrom' = Closed
      /\ ~live' /\ asking' = None
      /\ UNCHANGED daemon
      /\ UNCHANGED <<epoch, last, timeline, checkpoint, chain, link, wire, remote, transcript, applied,
                     unrewound, disk>>
  BY DEF Detach, daemon
<1>2. SessionInv'
  BY <1>1 DEF SessionInv
<1>3. StoryInv' /\ WholeInv'
  BY <1>1, ShownStays, DiskStays DEF StoryInv, WholeInv
<1>4. WireInv'
  BY <1>1, WireStays
<1> QED BY <1>1, <1>2, <1>3, <1>4, JournalStays

LEMMA QuitKeeps == Inv /\ Quit => Inv'
<1> SUFFICES ASSUME Inv, Quit PROVE Inv'
  OBVIOUS
<1> USE DEF Inv
<1>1. /\ remote' = saved.remote /\ transcript' = saved.transcript /\ applied' = saved.applied
      /\ \/ phase' = "following" /\ sub' = Following(saved.remote.lastSeq, saved.remote.epoch)
         \/ phase' = "none" /\ sub' = None
      /\ openFrom' = Closed /\ snapshot' = None /\ saved' = saved
      /\ wire' = <<>> /\ ~live' /\ asking' = None
      /\ UNCHANGED daemon
      /\ UNCHANGED <<epoch, last, timeline, unrewound>>
  BY DEF Quit, daemon
<1>2. /\ SavedInv(saved) /\ saved.remote \in Remote /\ saved.remote.lastSeq \in Nat
      /\ saved.remote.epoch \in Nat /\ saved.remote.epoch <= epoch
      /\ Story(saved.remote, saved.transcript)
  BY SavedTypes DEF StoryInv
<1>3. sub' # None => /\ sub' \in Subscription /\ phase' = "following"
                     /\ sub'.cursor = saved.remote.lastSeq /\ sub'.epoch = saved.remote.epoch
  BY <1>1, <1>2 DEF Following, Subscription
<1>4. phase' = "following" => sub' # None
  <2>1. Following(saved.remote.lastSeq, saved.remote.epoch) \in Subscription
    BY <1>2 DEF Following, Subscription
  <2> QED BY <1>1, <2>1, NotNone
<1>5. SessionInv'
  <2>1. sub' # None => Closed <= sub'.cursor
    BY <1>2, <1>3 DEF Closed
  <2>2. sub' # None => remote'.lastSeq <= sub'.cursor
    BY <1>1, <1>2, <1>3
  <2> QED BY <1>1, <1>2, <1>3, <1>4, <2>1, <2>2 DEF SessionInv
<1>6. StoryInv'
  <2>1. ASSUME NEW s, s = saved PROVE SavedInv(s)' /\ Story(s.remote, s.transcript)'
    BY <1>1, <1>2, <2>1 DEF SavedInv, Story, Kept, Older, Ascending
  <2> QED BY <1>1, <2>1 DEF StoryInv
<1>7. WholeInv'
  <2> SUFFICES ASSUME ~unrewound PROVE WholeInv'
    BY <1>1 DEF WholeInv
  <2>1. ASSUME NEW s, s = saved PROVE Whole(s.remote.lastSeq, s.remote.epoch, s.applied)'
    BY <1>1, <2>1 DEF WholeInv, Whole
  <2>2. Whole(remote.lastSeq, remote.epoch, applied)'
    BY <1>1, <2>1
  <2>3. sub' # None => Whole(sub.cursor, sub.epoch, applied)'
    BY <1>1, <1>3, <2>2 DEF Whole
  <2> QED BY <1>1, <2>1, <2>2, <2>3 DEF WholeInv
<1>8. WireInv'
  BY <1>1, EmptyWire
<1> QED BY <1>1, <1>5, <1>6, <1>7, <1>8, JournalStays

-----------------------------------------------------------------------------
(* The daemon's steps, and all of them together.                           *)

LEMMA SendKeeps == Inv /\ Send => Inv'
<1> SUFFICES ASSUME Inv, Send PROVE Inv'
  OBVIOUS
<1> USE DEF Inv
<1> DEFINE roles == IF driver THEN <<"busy">> ELSE <<"idle", "busy">>
<1>1. /\ Record(roles) /\ Push
      /\ UNCHANGED <<epoch, acked, chain, link, live, asking, phase, sub, remote, openFrom,
                     transcript, applied, unrewound, disk>>
  BY DEF Send
<1>2. roles \in Seq(Roles)
  <2>1. <<"busy">> \in Seq(Roles) /\ <<"idle", "busy">> \in Seq(Roles)
    BY DEF Roles
  <2> QED BY <2>1
<1> HIDE DEF roles
<1>3. JournalInv' /\ Grows
  BY <1>1, <1>2, RecordGrows
<1> QED BY <1>1, <1>3, SessionStays, PushKeeps DEF JournalInv

LEMMA EmitKeeps == ASSUME NEW role \in {"token", "message", "turn_end", "idle", "other"}
                   PROVE  Inv /\ Emit(role) => Inv'
<1> SUFFICES ASSUME Inv, Emit(role) PROVE Inv'
  OBVIOUS
<1> USE DEF Inv
<1>1. /\ Record(<<role>>) /\ Push
      /\ UNCHANGED <<epoch, acked, chain, link, live, asking, phase, sub, remote, openFrom,
                     transcript, applied, unrewound, disk>>
  BY DEF Emit, session
<1>2. <<role>> \in Seq(Roles)
  BY DEF Roles
<1>3. JournalInv' /\ Grows
  BY <1>1, <1>2, RecordGrows
<1> QED BY <1>1, <1>3, SessionStays, PushKeeps DEF JournalInv

LEMMA CompactKeeps == ASSUME NEW w \in 0 .. MaxSeq PROVE Inv /\ Compact(w) => Inv'
<1> SUFFICES ASSUME Inv, Compact(w) PROVE Inv'
  OBVIOUS
<1> USE DEF Inv
<1>1. UNCHANGED <<timeline, link, wire, live, asking, phase, sub, remote, openFrom,
                  transcript, applied, unrewound, disk>>
  BY DEF Compact, session, connection
<1>2. JournalInv' /\ Grows
  BY CompactGrows
<1>3. Push
  <2>1. EventFrames({}) = <<>>
    <3>1. InOrder({}) \in Seq({})
      BY Ordered
    <3>2. Len(InOrder({})) = 0
      <4>1. Len(InOrder({})) \in Nat /\ \A i \in 1 .. Len(InOrder({})) : InOrder({})[i] \in {}
        BY <3>1, LenProperties
      <4>2. Len(InOrder({})) # 0 => 1 \in 1 .. Len(InOrder({}))
        BY <4>1
      <4> QED BY <4>1, <4>2
    <3> QED BY <3>2 DEF EventFrames
  <2>2. timeline' \ timeline = {}
    BY <1>1
  <2>3. wire \in Seq(Frames) /\ wire \o <<>> = wire
    BY WireTypes, ConcatEmptySeq DEF WireInv
  <2> QED BY <1>1, <2>1, <2>2, <2>3 DEF Push
<1> QED BY <1>1, <1>2, <1>3, SessionStays, PushKeeps DEF JournalInv

LEMMA RestartKeeps == ASSUME NEW c \in 0 .. MaxSeq PROVE Inv /\ Restart(c) => Inv'
<1> SUFFICES ASSUME Inv, Restart(c) PROVE Inv'
  OBVIOUS
<1> USE DEF Inv
<1>1. /\ wire' = <<>> /\ ~live' /\ asking' = None
      /\ UNCHANGED <<phase, sub, remote, openFrom, transcript, applied, unrewound, disk>>
  BY DEF Restart, session
<1>2. JournalInv' /\ Restarts
  BY RestartHistory
<1>3. WireInv'
  BY <1>1, EmptyWire
<1> QED BY <1>1, <1>2, <1>3, SessionStays DEF JournalInv

LEMMA ServeAttachKeeps == Inv /\ ServeAttach => Inv'
<1> SUFFICES ASSUME Inv, ServeAttach PROVE Inv'
  OBVIOUS
<1> USE DEF Inv
<1>1. /\ UNCHANGED daemon
      /\ UNCHANGED <<epoch, last, timeline, phase, sub, remote, openFrom, transcript, applied, disk>>
      /\ unrewound => unrewound'
  BY DEF ServeAttach, daemon
<1>2. SessionInv'
  BY <1>1 DEF SessionInv
<1>3. Story(remote, transcript)'
  BY <1>1 DEF StoryInv, Story, Kept, Older, Ascending
<1>4. StoryInv'
  BY <1>1, <1>3, DiskStays DEF StoryInv
<1>5. WholeInv'
  <2>1. /\ Whole(remote.lastSeq, remote.epoch, applied)' <=>
           Whole(remote.lastSeq, remote.epoch, applied)
        /\ Whole(sub.cursor, sub.epoch, applied)' <=> Whole(sub.cursor, sub.epoch, applied)
    BY <1>1 DEF Whole
  <2> QED BY <1>1, <2>1, DiskStays DEF WholeInv
<1> QED BY <1>1, <1>2, <1>4, <1>5, JournalStays, AttachAnswered

LEMMA ServeOpenKeeps == Inv /\ ServeOpen => Inv'
<1> SUFFICES ASSUME Inv, ServeOpen PROVE Inv'
  OBVIOUS
<1> USE DEF Inv
<1>1. /\ link /\ phase = "opening" /\ \A i \in 1 .. Len(wire) : wire[i].kind # "opened"
      /\ \/ UNCHANGED <<log, last, low, checkpoint, flushed, sidecar, timeline>>
         \/ Record(<<"idle">>)
      /\ wire' = wire \o <<Opened>>
      /\ UNCHANGED <<epoch, acked, chain, link, live, asking, phase, sub, remote, openFrom,
                     transcript, applied, unrewound, disk>>
  BY DEF ServeOpen, session
<1>2. JournalInv' /\ Grows
  <2>1. CASE UNCHANGED <<log, last, low, checkpoint, flushed, sidecar, timeline>>
    <3>1. HistoryInv'
      BY <1>1, <2>1 DEF JournalInv, HistoryInv
    <3>2. TokensInv' /\ ChainInv'
      BY <1>1, <2>1 DEF JournalInv, TokensInv, ChainInv
    <3>3. Grows
      BY <1>1, <2>1, Past DEF Grows, JournalInv
    <3> QED BY <3>1, <3>2, <3>3 DEF JournalInv
  <2>2. CASE Record(<<"idle">>)
    <3>1. <<"idle">> \in Seq(Roles)
      BY DEF Roles
    <3> QED BY <1>1, <2>2, <3>1, RecordGrows
  <2> QED BY <1>1, <2>1, <2>2
<1> QED BY <1>1, <1>2, SessionStays, OpenKeeps DEF JournalInv

LEMMA ReceiveKeeps == Inv /\ Receive => Inv'
<1> SUFFICES ASSUME Inv, Receive PROVE Inv'
  OBVIOUS
<1> USE DEF Inv
<1>1. /\ Received
      /\ ReceiveOpened(Head(wire)) \/ ReceiveAttached(Head(wire)) \/ ReceiveEvent(Head(wire))
         \/ ReceiveResync(Head(wire))
  BY DEF Receive, Received
<1>2. Head(wire) = wire[1]
  BY <1>1, Taken DEF Received, WireInv
<1>3. JournalInv'
  BY <1>1, JournalStays DEF Received
<1> QED
  BY <1>1, <1>2, <1>3, OpenedTaken, AttachedTaken, EventTaken, ResyncTaken

LEMMA InitInv == Init => Inv
<1> SUFFICES ASSUME Init PROVE Inv
  OBVIOUS
<1>1. MaxSeq \in Nat
  BY RemoteStreamAssumption
<1>2. HistoryInv /\ TokensInv
  BY <1>1 DEF Init, HistoryInv, TokensInv, Tokens
<1>3. ChainInv
  <2>1. chain \in Seq(Epoch) /\ Len(chain) = 1 /\ chain[1].epoch = 1 /\ chain[1].startSeq = 0
    BY DEF Init, Epoch
  <2>2. \A i \in 1 .. Len(chain) : i = 1
    BY <2>1
  <2> QED BY <2>1, <2>2 DEF Init, ChainInv
<1>4. remote \in Remote /\ remote.epoch = 0 /\ remote.lastSeq = 0 /\ epoch = 1
  BY DEF Init, Remote
<1>5. SessionInv
  BY <1>4 DEF Init, SessionInv
<1>6. Story(remote, <<>>)
  BY DEF Story, Ascending
<1>7. /\ saved.remote = remote /\ saved.transcript = <<>> /\ saved.applied = {}
      /\ transcript = <<>> /\ snapshot = None /\ sub = None /\ timeline = {}
  BY DEF Init
<1>8. StoryInv
  BY <1>4, <1>6, <1>7 DEF StoryInv, SavedInv
<1>9. WholeInv
  BY <1>4, <1>7 DEF WholeInv, Whole
<1>10. WireInv
  <2>1. wire = <<>> /\ ~live /\ asking = None
    BY DEF Init
  <2>2. Len(wire) = 0 /\ wire \in Seq(Frames) /\ \A i \in 1 .. Len(wire) : FALSE
    BY <2>1
  <2> QED
    BY <1>7, <2>1, <2>2
    DEF WireInv, LinkInv, AttachedInv, OpenedInv, ResyncInv, EventsInv, DeliveryInv
<1> QED BY <1>2, <1>3, <1>5, <1>8, <1>9, <1>10 DEF Inv, JournalInv

LEMMA NextInv == Inv /\ [Next]_vars => Inv'
<1> SUFFICES ASSUME Inv, [Next]_vars PROVE Inv'
  OBVIOUS
<1>1. CASE UNCHANGED vars
  <2>1. /\ UNCHANGED daemon
        /\ UNCHANGED <<epoch, last, timeline, checkpoint, chain, link, wire, live, asking, phase, sub, remote,
                       openFrom, transcript, applied, unrewound, disk>>
    BY <1>1 DEF vars, daemon, connection, session
  <2>2. JournalInv'
    BY <2>1, JournalStays DEF Inv
  <2>3. SessionInv'
    BY <2>1 DEF Inv, SessionInv
  <2>4. StoryInv' /\ WholeInv'
    <3>1. Whole(sub.cursor, sub.epoch, applied)' <=> Whole(sub.cursor, sub.epoch, applied)
      BY <2>1 DEF Whole
    <3> QED BY <2>1, <3>1, ShownStays, DiskStays DEF Inv, StoryInv, WholeInv
  <2>5. WireInv'
    <3>1. sub = None => ~live /\ asking = None
      BY DEF Inv, WireInv, LinkInv
    <3> QED BY <2>1, <3>1, WireStays DEF Inv
  <2> QED BY <2>2, <2>3, <2>4, <2>5 DEF Inv
<1>2. ASSUME NEW c \in 0 .. MaxSeq, Compact(c) \/ Restart(c) PROVE Inv'
  BY <1>2, CompactKeeps, RestartKeeps
<1>3. ASSUME NEW role \in {"token", "message", "turn_end", "idle", "other"}, Emit(role) PROVE Inv'
  BY <1>3, EmitKeeps
<1> QED
  BY <1>1, <1>2, <1>3, SendKeeps, ConnectKeeps, DropKeeps, ServeAttachKeeps, ServeOpenKeeps,
     StartKeeps, ReceiveKeeps, BeginSaveKeeps, FinishSaveKeeps, SendAckKeeps, DetachKeeps, QuitKeeps
  DEF Next

-----------------------------------------------------------------------------
(* The half-streamed text.                                                 *)

\* Between two steps of one process the text stays right: what is recorded is new, and
\* what is new is not below the cursor.
LEMMA StreamGrows ==
    ASSUME Inv, StreamInv, HistoryInv', Grows, UNCHANGED <<sub, remote, stream, leaves, unrewound>>
    PROVE  StreamInv'
<1> USE DEF Inv, JournalInv
<1> SUFFICES ASSUME leaves = 0, ~unrewound, sub # None, sub.epoch = epoch,
                    NEW k \in Tokens(checkpoint'), k.seq <= sub.cursor
             PROVE  \E i \in 1 .. Len(stream) : stream[i] = k
  BY DEF StreamInv, Grows
<1>1. sub.cursor \in Nat /\ sub.cursor <= last /\ last \in Nat
  BY SessionTypes, Past DEF WholeInv, Whole
<1>2. k \in timeline' /\ k.seq \in Nat /\ k.role = "token"
  BY DEF Tokens, HistoryInv, Entry
<1>3. ~(k.seq > last)
  BY <1>1, <1>2
<1>4. k \in Tokens(checkpoint)
  BY <1>2, <1>3 DEF Grows, Tokens
<1> QED BY <1>4 DEF StreamInv

\* A step that touches nothing of it.
LEMMA StreamKept ==
    ASSUME StreamInv, UNCHANGED <<epoch, checkpoint, sub, remote, stream, leaves, unrewound>>
    PROVE  StreamInv'
BY DEF StreamInv

\* Who has just been restarted, or has let go of the thread, shows no text yet.
LEMMA StreamLeft ==
    ASSUME StreamInv, stream' = <<>>, leaves' = leaves + 1
    PROVE  StreamInv'
<1>1. leaves' \in Nat /\ leaves' # 0
  BY DEF StreamInv
<1>2. stream' \in Seq(Entry) /\ Len(stream') = 0 /\ \A i \in 1 .. Len(stream') : FALSE
  OBVIOUS
<1> QED BY <1>1, <1>2 DEF StreamInv

LEMMA StreamRestarted ==
    ASSUME Inv, StreamInv, epoch' = epoch + 1, UNCHANGED <<sub, remote, stream, leaves, unrewound>>
    PROVE  StreamInv'
<1>1. sub # None => sub.epoch # epoch'
  BY SessionTypes, Past DEF Inv, JournalInv
<1> QED BY <1>1 DEF StreamInv

LEMMA StreamOpened ==
    ASSUME Inv, StreamInv, Received, ReceiveOpened(wire[1])
    PROVE  StreamInv'
<1> USE DEF Inv, JournalInv
<1>1. wire # <<>> /\ wire' = Tail(wire) /\ UNCHANGED <<epoch, checkpoint, timeline, leaves>>
  BY DEF Received, daemon
<1>2. wire[1].kind = "opened" /\ 1 \in 1 .. Len(wire)
  BY <1>1, Taken DEF WireInv, ReceiveOpened
<1>3. phase = "opening" /\ sub = None /\ remote.lastSeq \in Nat
  BY <1>2, SessionTypes DEF WireInv, OpenedInv, SessionInv
<1>4. /\ sub'.cursor = remote.lastSeq /\ remote'.lastSeq = remote.lastSeq
      /\ stream' = stream /\ stream = <<>> /\ (leaves = 0 => remote.lastSeq = 0)
  <2>1. remote' = [remote EXCEPT !.epoch = wire[1].epoch] /\ remote \in Remote
    BY <1>3, SessionTypes DEF ReceiveOpened
  <2> QED BY <1>3, <2>1 DEF ReceiveOpened, Following, StreamInv, Remote
<1>5. \A k \in Tokens(checkpoint) : k.seq \in Nat /\ k.seq > 0
  BY DEF Tokens, HistoryInv, Entry
<1>6. Len(stream') = 0 /\ stream' \in Seq(Entry) /\ \A i \in 1 .. Len(stream') : FALSE
  BY <1>4
<1>7. leaves \in Nat /\ (leaves' = 0 => \A k \in Tokens(checkpoint') : ~(k.seq <= sub'.cursor))
  BY <1>1, <1>3, <1>4, <1>5 DEF StreamInv
<1>8. leaves' = 0 => remote'.lastSeq = 0
  BY <1>1, <1>4
<1> QED BY <1>1, <1>4, <1>6, <1>7, <1>8 DEF StreamInv

\* The reply to an attach: a rewind drops the text and the cursor goes below all of it;
\* otherwise what a new process records is above the cursor.
LEMMA StreamAttached ==
    ASSUME Inv, StreamInv, Received, ReceiveAttached(wire[1]), sub # None
    PROVE  StreamInv'
<1> USE DEF Inv, JournalInv
<1> DEFINE f == wire[1]
           rs == RewindFor(sub.epoch, sub.cursor)
<1>1. /\ wire # <<>> /\ wire' = Tail(wire)
      /\ UNCHANGED <<epoch, checkpoint, timeline, leaves, unrewound>>
  BY DEF Received, ReceiveAttached, daemon
<1>2. f.kind = "attached" /\ 1 \in 1 .. Len(wire)
  BY <1>1, Taken DEF WireInv, ReceiveAttached
<1>3. f.epoch = epoch /\ f.rewinds = rs /\ (~unrewound => ~Forgotten(sub.epoch, sub.cursor))
  BY <1>2 DEF WireInv, AttachedInv
<1>4. /\ sub \in Subscription /\ sub.cursor \in Nat /\ sub.epoch \in Nat /\ sub.epoch <= epoch
      /\ sub.ackTarget \in Nat /\ sub.ackSent \in Nat /\ epoch \in Nat
  BY SessionTypes, Past
<1>5. \A k \in Tokens(checkpoint) : k \in timeline /\ k.by = epoch /\ k.seq \in Nat
  BY DEF Tokens, HistoryInv, TokensInv, Entry
<1>6. leaves \in Nat
  BY DEF StreamInv
<1>7. ASSUME NEW r \in f.rewinds, sub' = Rewound(sub, r, f.epoch), stream' = <<>>
      PROVE  StreamInv'
  <2>1. /\ r \in Nat /\ sub.epoch < epoch /\ \A e \in timeline : e.seq > r <=> e.by > sub.epoch
    BY <1>3, <1>4, <1>7, RewindSeparates
  <2>2. sub'.cursor = r
    BY <1>7 DEF Rewound
  <2>3. \A k \in Tokens(checkpoint) : ~(k.seq <= sub'.cursor)
    BY <1>5, <2>1, <2>2
  <2>4. sub' # None
    <3>1. MinOf(sub.ackTarget, r) \in Nat /\ MinOf(sub.ackSent, r) \in Nat
      BY <1>4, <2>1, Bounds
    <3>2. sub' \in Subscription
      BY <1>3, <1>4, <1>7, <2>1, <3>1 DEF Rewound, Subscription
    <3> QED BY <3>2, NotNone
  <2>5. Len(stream') = 0 /\ stream' \in Seq(Entry) /\ \A i \in 1 .. Len(stream') : FALSE
    BY <1>7
  <2> QED BY <1>1, <1>6, <2>3, <2>4, <2>5 DEF StreamInv
<1>8. ASSUME \A r \in f.rewinds : r >= sub.cursor, sub' = [sub EXCEPT !.epoch = f.epoch],
             UNCHANGED stream
      PROVE  StreamInv'
  <2>1. rs = {}
    <3>1. \A r \in rs : r \in Nat /\ r < sub.cursor /\ r >= sub.cursor
      BY <1>3, <1>4, <1>8, RewindSeparates
    <3> QED BY <1>4, <3>1
  <2>2. sub' \in Subscription /\ sub'.cursor = sub.cursor /\ sub' # None
    <3>1. sub' \in Subscription /\ sub'.cursor = sub.cursor
      BY <1>3, <1>4, <1>8 DEF Subscription
    <3> QED BY <3>1, NotNone
  <2>3. ASSUME leaves = 0, ~unrewound, NEW k \in Tokens(checkpoint), k.seq <= sub.cursor
        PROVE  \E i \in 1 .. Len(stream) : stream[i] = k
    <3>1. ~Forgotten(sub.epoch, sub.cursor)
      BY <1>3, <2>3
    <3>2. \A e \in timeline : e.seq <= sub.cursor => e.by <= sub.epoch
      BY <1>4, <2>1, <3>1, NoRewindNeeded DEF rs
    <3>3. epoch <= sub.epoch
      BY <1>5, <2>3, <3>2
    <3>4. sub.epoch = epoch
      BY <1>4, <3>3
    <3> QED BY <2>3, <3>4 DEF StreamInv
  <2> HIDE DEF rs, f
  <2> QED BY <1>1, <1>6, <1>8, <2>2, <2>3 DEF StreamInv
<1> QED BY <1>7, <1>8 DEF ReceiveAttached

\* An event: the one that finishes a text comes before any text that is not finished.
LEMMA StreamEvent ==
    ASSUME Inv, StreamInv, Received, ReceiveEvent(wire[1]), sub # None
    PROVE  StreamInv'
<1> USE DEF Inv, JournalInv
<1> DEFINE f == wire[1]
           e == f.entry
<1>1. /\ wire # <<>> /\ wire' = Tail(wire)
      /\ UNCHANGED <<epoch, checkpoint, timeline, leaves, unrewound>>
  BY DEF Received, ReceiveEvent, daemon
<1>2. f.kind = "event" /\ 1 \in 1 .. Len(wire) /\ f \in Frames
  BY <1>1, Taken DEF WireInv, ReceiveEvent
<1>3. e \in timeline /\ f = EventFrame(e) /\ ~AttachedFirst
  BY <1>2, FrameOfKind DEF WireInv, EventsInv, AttachedFirst, IsAt
<1>4. \A i \in 1 .. Len(wire) : wire[i].kind # "resync"
  <2>1. \A i \in 1 .. Len(wire) : wire[i].kind = "resync" => i = 1
    BY <1>3 DEF WireInv, ResyncInv
  <2> QED BY <1>2, <2>1
<1>5. /\ sub.cursor \in Nat /\ sub.epoch = epoch /\ sub \in Subscription /\ live
      /\ e \in Entry /\ e.seq \in Nat
      /\ \A k \in Tokens(checkpoint) : k \in timeline /\ k.seq \in Nat /\ k.role = "token"
                                       /\ k \in checkpoint
  <2>1. live /\ sub.epoch = epoch
    BY <1>1, <1>3, SessionTypes DEF WireInv, LinkInv
  <2>2. e \in Entry /\ e.seq \in Nat /\ sub \in Subscription /\ sub.cursor \in Nat
    BY <1>3, SessionTypes, Past
  <2> QED BY <2>1, <2>2, Past DEF Tokens, HistoryInv
<1>6. /\ stream \in Seq(Entry) /\ leaves \in Nat /\ Len(stream) \in Nat
      /\ \A i, j \in 1 .. Len(stream) : i < j => stream[i].seq < stream[j].seq
      /\ \A i \in 1 .. Len(stream) : stream[i] \in Entry /\ stream[i].seq \in Nat
                                     /\ stream[i].seq <= sub.cursor
      /\ leaves = 0 /\ ~unrewound => \A k \in Tokens(checkpoint) : k.seq <= sub.cursor =>
            \E i \in 1 .. Len(stream) : stream[i] = k
  <2>1. stream \in Seq(Entry) /\ Len(stream) \in Nat
    BY LenProperties DEF StreamInv
  <2>2. \A i \in 1 .. Len(stream) : stream[i] \in Entry /\ stream[i].seq \in Nat
    <3>1. \A i \in 1 .. Len(stream) : stream[i] \in Entry
      BY <2>1
    <3> QED BY <3>1 DEF Entry
  <2> QED BY <1>5, <2>1, <2>2 DEF StreamInv
<1>7. ASSUME NEW k \in Tokens(checkpoint), k.seq <= e.seq, k # e PROVE k.seq <= sub.cursor
  <2>1. Passed(k) => k.seq <= sub.cursor
    BY <1>3, <1>4 DEF Passed
  <2>2. ASSUME NEW i \in 1 .. Len(wire), wire[i] = EventFrame(k) PROVE FALSE
    <3>1. i # 1
      <4>1. EventFrame(k) # EventFrame(e)
        BY <1>7 DEF EventFrame
      <4> QED BY <1>3, <2>2, <4>1
    <3>2. 1 < i
      BY <1>2, <3>1
    <3>3. wire[i].kind = "event" /\ wire[i].entry = k
      BY <2>2 DEF EventFrame
    <3>4. e.seq < k.seq
      BY <1>2, <3>2, <3>3 DEF WireInv, EventsInv
    <3> QED BY <1>5, <1>7, <3>4
  <2>3. Passed(k) \/ \E i \in 1 .. Len(wire) : wire[i] = EventFrame(k)
    BY <1>5 DEF WireInv, DeliveryInv
  <2> QED BY <2>1, <2>2, <2>3
<1> HIDE DEF e, f
<1>8. f.entry = e /\ ReceiveEvent(f)
  BY DEF e, f
<1>9. CASE e.seq <= sub.cursor
  <2>1. UNCHANGED <<sub, remote, stream>>
    BY <1>8, <1>9 DEF ReceiveEvent
  <2> QED BY <1>1, <2>1, StreamKept
<1>10. CASE e.seq > sub.cursor
  <2>1. /\ sub' = [sub EXCEPT !.cursor = e.seq]
        /\ stream' = IF e.role = "token" THEN Append(stream, e)
                     ELSE IF e \in Finishers({e}) THEN <<>> ELSE stream
    BY <1>5, <1>8, <1>10 DEF ReceiveEvent
  <2>2. sub'.cursor = e.seq /\ sub' # None
    <3>1. sub' \in Subscription /\ sub'.cursor = e.seq
      BY <1>5, <2>1 DEF Subscription
    <3> QED BY <3>1, NotNone
  <2>3. CASE e.role = "token"
    <3>1. stream' = Append(stream, e)
      BY <2>1, <2>3
    <3>2. /\ stream' \in Seq(Entry) /\ Len(stream') = Len(stream) + 1
          /\ stream'[Len(stream) + 1] = e
          /\ \A i \in 1 .. Len(stream) : stream'[i] = stream[i]
      BY <1>5, <1>6, <3>1, AppendProperties
    <3>3. \A i \in 1 .. Len(stream') : (i \in 1 .. Len(stream) /\ stream'[i] = stream[i])
                                       \/ (i = Len(stream) + 1 /\ stream'[i] = e)
      BY <1>6, <3>2
    <3>4. ASSUME NEW i \in 1 .. Len(stream'), NEW j \in 1 .. Len(stream'), i < j
          PROVE  stream'[i].seq < stream'[j].seq
      <4>1. i \in 1 .. Len(stream) /\ stream'[i] = stream[i]
        BY <1>6, <3>2, <3>3, <3>4
      <4>2. stream[i].seq < e.seq
        BY <1>5, <1>6, <1>10, <4>1
      <4> QED BY <1>6, <3>3, <3>4, <4>1, <4>2
    <3>5. \A i \in 1 .. Len(stream') : stream'[i].seq <= e.seq
      BY <1>5, <1>6, <1>10, <3>3
    <3>6. ASSUME leaves = 0, ~unrewound, NEW k \in Tokens(checkpoint), k.seq <= e.seq
          PROVE  \E i \in 1 .. Len(stream') : stream'[i] = k
      <4>1. CASE k = e
        <5>1. Len(stream) + 1 \in 1 .. Len(stream')
          BY <1>6, <3>2
        <5> QED BY <3>2, <4>1, <5>1
      <4>2. CASE k # e
        <5>1. PICK i \in 1 .. Len(stream) : stream[i] = k
          BY <1>6, <1>7, <3>6, <4>2
        <5>2. i \in 1 .. Len(stream') /\ stream'[i] = k
          BY <1>6, <3>2, <5>1
        <5> QED BY <5>2
      <4> QED BY <4>1, <4>2
    <3> QED BY <1>1, <1>6, <2>2, <3>2, <3>4, <3>5, <3>6 DEF StreamInv
  <2>4. CASE e.role # "token" /\ e \in Finishers({e})
    <3>1. stream' = <<>>
      BY <2>1, <2>4
    <3>2. Len(stream') = 0 /\ stream' \in Seq(Entry) /\ \A i \in 1 .. Len(stream') : FALSE
      BY <3>1
    <3>3. e \in Finishers(timeline)
      BY <1>3, <2>4 DEF Finishers
    <3>4. \A k \in Tokens(checkpoint) : ~(k.seq <= e.seq)
      BY <1>5, <3>3 DEF TokensInv
    <3> QED BY <1>1, <1>6, <2>2, <3>2, <3>4 DEF StreamInv
  <2>5. CASE e.role # "token" /\ e \notin Finishers({e})
    <3>1. stream' = stream
      BY <2>1, <2>5
    <3>2. \A k \in Tokens(checkpoint) : k.seq <= e.seq => k.seq <= sub.cursor
      BY <1>5, <1>7, <2>5
    <3>3. \A i \in 1 .. Len(stream) : stream[i].seq <= e.seq
      BY <1>5, <1>6, <1>10
    <3> QED BY <1>1, <1>6, <2>2, <3>1, <3>2, <3>3 DEF StreamInv
  <2> QED BY <2>3, <2>4, <2>5
<1> QED BY <1>5, <1>9, <1>10

\* A checkpoint brings the whole of the unfinished text.
LEMMA StreamResync ==
    ASSUME Inv, StreamInv, Received, ReceiveResync(wire[1]), sub # None
    PROVE  StreamInv'
<1> USE DEF Inv, JournalInv
<1> DEFINE f == wire[1]
           ts == Tokens(f.checkpoint)
<1>1. /\ wire # <<>> /\ wire' = Tail(wire)
      /\ UNCHANGED <<epoch, checkpoint, timeline, leaves, unrewound>>
  BY DEF Received, ReceiveResync, daemon
<1>2. f.kind = "resync" /\ 1 \in 1 .. Len(wire) /\ f \in Frames
  BY <1>1, Taken DEF WireInv, ReceiveResync
<1>3. /\ f.seq \in Nat /\ f.checkpoint \subseteq timeline /\ \A x \in f.checkpoint : x.seq <= f.seq
      /\ \A k \in Tokens(checkpoint) : k.seq <= f.seq => k \in f.checkpoint
  BY <1>2, FrameOfKind DEF WireInv, ResyncInv
<1>4. sub' = [sub EXCEPT !.cursor = f.seq] /\ stream' = InOrder(ts)
  BY DEF ReceiveResync, StreamOf
<1>5. sub'.cursor = f.seq /\ sub' # None
  <2>1. sub \in Subscription
    BY SessionTypes
  <2>2. sub' \in Subscription /\ sub'.cursor = f.seq
    BY <1>3, <1>4, <2>1 DEF Subscription
  <2> QED BY <2>2, NotNone
<1>6. /\ ts \subseteq timeline /\ ts \in SUBSET Entry /\ \A x \in ts : x.seq <= f.seq
      /\ \A k \in Tokens(checkpoint) : k.seq <= f.seq => k \in ts
  BY <1>3 DEF Tokens, HistoryInv
<1> HIDE DEF ts, f
<1>7. /\ stream' \in Seq(ts) /\ stream' \in Seq(Entry) /\ Len(stream') \in Nat
      /\ \A i, j \in 1 .. Len(stream') : i < j => stream'[i].seq < stream'[j].seq
      /\ \A k \in ts : \E i \in 1 .. Len(stream') : stream'[i] = k
  <2>1. \A x, y \in ts : x.seq = y.seq => x = y
    BY <1>6 DEF HistoryInv
  <2>2. \A x \in ts : x.seq <= MaxSeq
    BY <1>6, Past, RemoteStreamAssumption
  <2> QED BY <1>4, <1>6, <2>1, <2>2, Ordered, LenProperties, SeqMonotonic
<1>8. \A i \in 1 .. Len(stream') : stream'[i].seq <= f.seq
  BY <1>6, <1>7
<1>9. leaves \in Nat
  BY DEF StreamInv
<1> QED BY <1>1, <1>5, <1>6, <1>7, <1>8, <1>9 DEF StreamInv

LEMMA StreamReceived == Inv /\ StreamInv /\ Receive => StreamInv'
<1> SUFFICES ASSUME Inv, StreamInv, Receive PROVE StreamInv'
  OBVIOUS
<1>1. /\ Received /\ UNCHANGED <<epoch, checkpoint, leaves>>
      /\ ReceiveOpened(Head(wire)) \/ ReceiveAttached(Head(wire)) \/ ReceiveEvent(Head(wire))
         \/ ReceiveResync(Head(wire))
  BY DEF Receive, Received, daemon
<1>2. Head(wire) = wire[1]
  BY <1>1, Taken DEF Received, Inv, WireInv
<1>3. CASE ReceiveOpened(Head(wire))
  BY <1>1, <1>2, <1>3, StreamOpened
<1>4. CASE sub = None /\ ~ReceiveOpened(Head(wire))
  <2>1. UNCHANGED <<sub, remote, stream, unrewound>>
    BY <1>1, <1>4 DEF ReceiveAttached, ReceiveEvent, ReceiveResync
  <2> QED BY <1>1, <2>1, StreamKept
<1>5. CASE sub # None /\ ~ReceiveOpened(Head(wire))
  BY <1>1, <1>2, <1>5, StreamAttached, StreamEvent, StreamResync
<1> QED BY <1>3, <1>4, <1>5

LEMMA StreamNext == Inv /\ StreamInv /\ [Next]_vars => StreamInv'
<1> SUFFICES ASSUME Inv, StreamInv, [Next]_vars PROVE StreamInv'
  OBVIOUS
<1> USE DEF Inv
<1>1. CASE UNCHANGED vars
  BY <1>1, StreamKept DEF vars, daemon, connection, session
<1>2. CASE Send
  <2> DEFINE roles == IF driver THEN <<"busy">> ELSE <<"idle", "busy">>
  <2>1. /\ Record(roles) /\ UNCHANGED <<epoch, acked, chain, sub, remote, stream, leaves, unrewound>>
    BY <1>2 DEF Send
  <2>2. roles \in Seq(Roles)
    <3>1. <<"busy">> \in Seq(Roles) /\ <<"idle", "busy">> \in Seq(Roles)
      BY DEF Roles
    <3> QED BY <3>1
  <2> HIDE DEF roles
  <2> QED BY <2>1, <2>2, RecordGrows, StreamGrows DEF JournalInv
<1>3. ASSUME NEW role \in {"token", "message", "turn_end", "idle", "other"}, Emit(role)
      PROVE  StreamInv'
  <2>1. /\ Record(<<role>>) /\ UNCHANGED <<epoch, acked, chain, sub, remote, stream, leaves, unrewound>>
    BY <1>3 DEF Emit, session
  <2>2. <<role>> \in Seq(Roles)
    BY DEF Roles
  <2> QED BY <2>1, <2>2, RecordGrows, StreamGrows DEF JournalInv
<1>4. ASSUME NEW c \in 0 .. MaxSeq, Compact(c) PROVE StreamInv'
  BY <1>4, StreamKept DEF Compact, session
<1>5. ASSUME NEW c \in 0 .. MaxSeq, Restart(c) PROVE StreamInv'
  BY <1>5, StreamRestarted DEF Restart, session
<1>6. CASE Connect \/ Drop \/ Start \/ BeginSave
  BY <1>6, StreamKept DEF Connect, Drop, Start, BeginSave, daemon, connection, session
<1>7. CASE ServeAttach
  <2>1. /\ UNCHANGED <<epoch, checkpoint, sub, remote, stream, leaves>> /\ (unrewound => unrewound')
    BY <1>7 DEF ServeAttach, daemon
  <2> QED BY <2>1 DEF StreamInv
<1>8. CASE ServeOpen
  <2>1. UNCHANGED <<epoch, acked, chain, sub, remote, stream, leaves, unrewound>>
    BY <1>8 DEF ServeOpen, session
  <2>2. CASE Record(<<"idle">>)
    <3>1. <<"idle">> \in Seq(Roles)
      BY DEF Roles
    <3> QED BY <2>1, <2>2, <3>1, RecordGrows, StreamGrows DEF JournalInv
  <2>3. CASE UNCHANGED checkpoint
    BY <2>1, <2>3, StreamKept
  <2> QED BY <1>8, <2>2, <2>3 DEF ServeOpen
<1>9. CASE FinishSave \/ SendAck
  <2>1. /\ UNCHANGED <<epoch, checkpoint, remote, stream, leaves, unrewound>>
        /\ sub = None => sub' = None
        /\ sub # None => sub'.cursor = sub.cursor /\ sub'.epoch = sub.epoch /\ sub' # None
    <3>1. ASSUME sub # None
          PROVE  sub'.cursor = sub.cursor /\ sub'.epoch = sub.epoch /\ sub' # None
      <4>1. /\ sub \in Subscription
            /\ \E n : sub' = [sub EXCEPT !.ackSent = n] \/ sub' = [sub EXCEPT !.ackTarget = n]
        BY <1>9, <3>1, SessionTypes DEF FinishSave, SendAck, AckAfterSave
      <4>2. "cursor" \in DOMAIN sub' /\ sub'.cursor = sub.cursor /\ sub'.epoch = sub.epoch
        BY <4>1 DEF Subscription
      <4>3. "cursor" \notin DOMAIN None
        BY DEF None
      <4> QED BY <4>2, <4>3
    <3> QED BY <1>9, <3>1 DEF FinishSave, SendAck, daemon, connection
  <2> QED BY <2>1 DEF StreamInv
<1>10. CASE Detach \/ Quit
  BY <1>10, StreamLeft DEF Detach, Quit
<1> QED
  BY <1>1, <1>2, <1>3, <1>4, <1>5, <1>6, <1>7, <1>8, <1>9, <1>10, StreamReceived DEF Next

-----------------------------------------------------------------------------
(* Theorems.                                                               *)

THEOREM InvHolds == Spec => []Inv
BY InitInv, NextInv, PTL DEF Spec

\* "Can never double-apply": however many times the connection drops, the daemon dies or
\* the plugin starts again from what it saved, no message enters the transcript twice,
\* and none enters it after a newer one.
THEOREM NeverTwice == Spec => []InOrderOnce
<1>1. Inv => InOrderOnce
  BY DEF Inv, StoryInv, Story, Ascending, InOrderOnce
<1> QED BY <1>1, InvHolds, PTL

\* A client that has received all there is has applied every event up to its cursor,
\* unless a cursor of a process that is gone was not sent back to where that process
\* ended.
THEOREM NeverSkipped == Spec => []NothingSkippedWhenRewound
<1>1. Inv => NothingSkippedWhenRewound
  <2> SUFFICES ASSUME Inv, ~unrewound, CaughtUp, NEW e \in timeline,
                      e.seq <= sub.cursor, e.role # "token"
               PROVE  e \in applied
    BY DEF NothingSkippedWhenRewound, NothingSkipped
  <2>1. ~AttachedFirst
    BY DEF CaughtUp, AttachedFirst, IsAt
  <2>2. sub # None /\ remote.epoch = epoch /\ sub.epoch = epoch
    BY <2>1, SessionTypes DEF CaughtUp, Inv, WireInv, LinkInv
  <2>3. Whole(sub.cursor, epoch, applied)
    BY <2>2 DEF Inv, WholeInv
  <2>4. e.by <= epoch
    BY Past DEF Inv, JournalInv
  <2> QED BY <2>3, <2>4 DEF Whole
<1> QED BY <1>1, InvHolds, PTL

\* "So nothing is shown twice": the half-streamed text has each token once, in order, and
\* until the plugin has been restarted, a client that has received all there is lacks no
\* token of the daemon's checkpoint.
THEOREM TextStreamedOnce == Spec => []StreamedOnce
<1>1. Init => StreamInv
  BY DEF Init, StreamInv, Tokens
<1>2. Inv /\ StreamInv => StreamedOnce
  <2> SUFFICES ASSUME Inv, StreamInv, leaves = 0, CaughtUp, ~unrewound,
                      NEW k \in Tokens(checkpoint)
               PROVE  \E i \in 1 .. Len(stream) : stream[i] = k
    BY DEF StreamedOnce, StreamedWhole, StreamInv
  <2>1. ~AttachedFirst /\ Len(wire) = 0
    BY DEF CaughtUp, AttachedFirst, IsAt
  <2>2. sub # None /\ sub.epoch = epoch
    BY <2>1, SessionTypes DEF CaughtUp, Inv, WireInv, LinkInv
  <2>3. k \in timeline /\ k \in checkpoint
    BY DEF Tokens, Inv, JournalInv, HistoryInv
  <2>4. Passed(k)
    BY <2>1, <2>3 DEF CaughtUp, Inv, WireInv, DeliveryInv
  <2>5. k.seq <= sub.cursor
    BY <2>1, <2>4 DEF Passed
  <2> QED BY <2>2, <2>5 DEF StreamInv
<1>3. Spec => [](Inv /\ StreamInv)
  BY <1>1, InitInv, NextInv, StreamNext, PTL DEF Spec
<1> QED BY <1>2, <1>3, PTL
=============================================================================

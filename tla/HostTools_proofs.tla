-------------------------- MODULE HostTools_proofs --------------------------
(***************************************************************************)
(* Theorems about host tools, for any number of clients, calls,            *)
(* connections, crashes and restarts, with their proofs: calls end, the    *)
(* controller has the seat and is the one that runs tools, the journal     *)
(* agrees with the broker, and work on a canceled call stops.              *)
(***************************************************************************)
EXTENDS HostTools, Subsequences_proofs

-----------------------------------------------------------------------------
(* The operations of the broker keep its timers.                           *)

\* A broker whose open calls have their timers.
Sound(b) == b \in Broker /\ Timed(b)

\* A new broker has no call and no timer.
LEMMA NewBrokerSound == Sound(NewBroker) /\ ~NewBroker.attached
BY DEF Sound, NewBroker, Broker, Timed, With, Open, Status

\* setAttached arms or stops the grace timers of all open calls at once.
LEMMA SetAttachedSound ==
    ASSUME NEW b, Sound(b), NEW on \in BOOLEAN
    PROVE  Sound(SetAttached(b, on)) /\ SetAttached(b, on).attached = on
<1>1. CASE on = b.attached
  BY <1>1 DEF SetAttached
<1>2. CASE on /\ ~b.attached
  <2> DEFINE c == SetAttached(b, on)
  <2>1. /\ c = [attached |-> TRUE,
                call |-> [k \in Calls |-> IF k \in With(b, "waiting") THEN "issued" ELSE b.call[k]],
                grace |-> {}, answer |-> b.answer \cup With(b, "waiting")]
    BY <1>2 DEF SetAttached, Issue, Sound, Broker
  <2> HIDE DEF c
  <2>2. c \in Broker
    BY <2>1 DEF Sound, Broker, With, Status
  <2>3. Timed(c)
    BY <2>1 DEF Sound, Broker, Timed, With, Open, Status
  <2>4. c.attached = on
    BY <1>2, <2>1
  <2> QED BY <2>2, <2>3, <2>4 DEF c, Sound
<1>3. CASE ~on /\ b.attached
  <2> DEFINE c == SetAttached(b, on)
  <2>1. c = [b EXCEPT !.attached = FALSE, !.grace = b.grace \cup With(b, "issued")]
    BY <1>3 DEF SetAttached
  <2> HIDE DEF c
  <2>2. c \in Broker /\ c.attached = FALSE /\ c.call = b.call /\ c.answer = b.answer
        /\ c.grace = b.grace \cup With(b, "issued")
    BY <2>1 DEF Sound, Broker, With
  <2>3. Timed(c)
    BY <1>3, <2>2 DEF Sound, Broker, Timed, With, Open
  <2> QED BY <1>3, <2>2, <2>3 DEF c, Sound
<1> QED
  BY <1>1, <1>2, <1>3 DEF Sound, Broker

\* call gives a new call the timer of its state.
LEMMA CallSound ==
    ASSUME NEW b, Sound(b), NEW k \in Calls, b.call[k] = "none"
    PROVE  Sound(Call(b, k)) /\ Call(b, k).attached = b.attached
<1> DEFINE c == Call(b, k)
<1>1. CASE b.attached
  <2>1. c = [attached |-> b.attached,
             call |-> [j \in Calls |-> IF j \in {k} THEN "issued" ELSE b.call[j]],
             grace |-> b.grace \ {k}, answer |-> b.answer \cup {k}]
    BY <1>1 DEF Call, Issue, Sound, Broker
  <2> HIDE DEF c
  <2>2. c \in Broker
    BY <2>1 DEF Sound, Broker, Status
  <2>3. Timed(c)
    BY <1>1, <2>1 DEF Sound, Broker, Timed, With, Open, Status
  <2>4. c.attached = b.attached
    BY <2>1
  <2> QED BY <2>2, <2>3, <2>4 DEF c, Sound
<1>2. CASE ~b.attached
  <2>1. c = [attached |-> b.attached, call |-> [b.call EXCEPT ![k] = "waiting"],
             grace |-> b.grace \cup {k}, answer |-> b.answer]
    BY <1>2 DEF Call, Sound, Broker
  <2> HIDE DEF c
  <2>2. c \in Broker
    BY <2>1 DEF Sound, Broker, Status
  <2>3. Timed(c)
    BY <1>2, <2>1 DEF Sound, Broker, Timed, With, Open, Status
  <2>4. c.attached = b.attached
    BY <2>1
  <2> QED BY <2>2, <2>3, <2>4 DEF c, Sound
<1> QED
  BY <1>1, <1>2 DEF Sound, Broker

\* finish stops the timers of the calls it ends, and of no other.
LEMMA FinishSound ==
    ASSUME NEW b, Sound(b), NEW ks \in SUBSET Calls
    PROVE  Sound(Finish(b, ks)) /\ Finish(b, ks).attached = b.attached
<1> DEFINE c == Finish(b, ks)
<1>1. [k \in Calls |-> IF k \in ks THEN "done" ELSE b.call[k]] \in [Calls -> Status]
  BY DEF Sound, Broker, Status
<1>2. /\ c \in Broker /\ c.attached = b.attached
      /\ c.call = [k \in Calls |-> IF k \in ks THEN "done" ELSE b.call[k]]
      /\ c.grace = b.grace \ ks /\ c.answer = b.answer \ ks
  BY <1>1 DEF Finish, Sound, Broker
<1> HIDE DEF c
<1>3. Timed(c)
  BY <1>2 DEF Sound, Broker, Timed, With, Open, Status
<1> QED
  BY <1>2, <1>3 DEF c, Sound

\* The broker of the next daemon has no open call and no timer.
LEMMA LoseCallsSound ==
    ASSUME NEW b, Sound(b)
    PROVE  Sound(LoseCalls(b)) /\ ~LoseCalls(b).attached
<1> DEFINE ended == Finish(b, Open(b))
           c == LoseCalls(b)
<1>1. ended \in Broker
      /\ ended.call = [k \in Calls |-> IF k \in Open(b) THEN "done" ELSE b.call[k]]
  BY DEF Finish, Sound, Broker, Status
<1>2. c \in Broker /\ c.attached = FALSE /\ c.grace = {} /\ c.answer = {}
      /\ c.call = ended.call
  BY <1>1 DEF LoseCalls, Broker
<1> HIDE DEF c, ended
<1>3. With(c, "waiting") = {} /\ With(c, "issued") = {}
  BY <1>1, <1>2 DEF With, Open
<1> QED
  BY <1>2, <1>3 DEF c, Sound, Timed

-----------------------------------------------------------------------------
(* The invariant of the system.                                            *)

\* The manifest that stands is the one of the seat's holder.
Attachable(s, m) == s # Nobody /\ s = m

\* The broker is sound, and counts a client as attached when its calls can be issued.
BrokerInv == Sound(broker) /\ (broker.attached <=> Attachable(seat, owner))

\* reconcile brings the broker in line with the seat and the manifest.
LEMMA ReconciledSound ==
    ASSUME NEW b, Sound(b), NEW s, NEW m
    PROVE  Sound(Reconciled(b, s, m)) /\ (Reconciled(b, s, m).attached <=> Attachable(s, m))
<1> DEFINE on == s # Nobody /\ s = m
<1>1. on \in BOOLEAN
  OBVIOUS
<1>2. Sound(SetAttached(b, on)) /\ SetAttached(b, on).attached = on
  BY <1>1, SetAttachedSound
<1> QED
  BY <1>2 DEF Reconciled, Attachable

\* Open calls are calls.
LEMMA OpenIsCalls == ASSUME NEW b PROVE Open(b) \in SUBSET Calls
BY DEF Open, With

LEMMA InitBrokerInv == Init => BrokerInv
BY NewBrokerSound DEF Init, BrokerInv, Attachable

LEMMA NextBrokerInv == BrokerInv /\ [Next]_vars => BrokerInv'
<1> SUFFICES ASSUME BrokerInv, [Next]_vars PROVE BrokerInv'
  OBVIOUS
<1> USE DEF BrokerInv
<1>1. ASSUME NEW k \in Calls, CallTool(k) PROVE BrokerInv'
  <2>1. broker' = Call(broker, k) /\ broker.call[k] = "none"
    BY <1>1 DEF CallTool, DaemonStep, MayCall
  <2> QED BY <1>1, <2>1, CallSound DEF CallTool, DaemonStep, Attachable
<1>2. ASSUME NEW k \in Calls, TimerFires(k) \/ AbortCall(k) PROVE BrokerInv'
  <2>1. broker' = Finish(broker, {k}) /\ UNCHANGED <<seat, owner>>
    BY <1>2 DEF TimerFires, AbortCall, DaemonStep
  <2>2. {k} \in SUBSET Calls
    OBVIOUS
  <2> QED BY <2>1, <2>2, FinishSound DEF Attachable
<1>3. ASSUME NEW n \in conns, CleanUp(n) PROVE BrokerInv'
  BY <1>3, ReconciledSound DEF CleanUp, Attachable
<1>4. CASE Crash
  BY <1>4, LoseCallsSound DEF Crash, Attachable
<1>5. ASSUME NEW c \in Clients, ServeAttach(c) PROVE BrokerInv'
  BY <1>5, ReconciledSound DEF ServeAttach, Attachable
<1>6. ASSUME NEW c \in Clients, ServeOpen(c) PROVE BrokerInv'
  <2>1. CASE broker' = Reconciled(Reconciled(broker, seat', owner), seat', owner')
    BY <2>1, ReconciledSound DEF Attachable
  <2>2. CASE UNCHANGED <<seat, owner, broker>>
    BY <2>2 DEF Attachable
  <2> QED BY <1>6, <2>1, <2>2 DEF ServeOpen
<1>7. ASSUME NEW c \in Clients, ServeControl(c) PROVE BrokerInv'
  <2> DEFINE b == Reconciled(broker, seat', owner)
  <2>1. Sound(b) /\ (b.attached <=> Attachable(seat', owner))
    BY ReconciledSound
  <2> HIDE DEF b
  <2>2. Sound(Finish(b, Open(b))) /\ Finish(b, Open(b)).attached = b.attached
    BY <2>1, OpenIsCalls, FinishSound
  <2>3. UNCHANGED owner
    BY <1>7 DEF ServeControl
  <2>4. broker' = b \/ broker' = Finish(b, Open(b)) \/ UNCHANGED <<seat, broker>>
    BY <1>7 DEF ServeControl, b
  <2> QED BY <2>1, <2>2, <2>3, <2>4 DEF Attachable
<1>8. ASSUME NEW c \in Clients, ServeManifest(c) PROVE BrokerInv'
  <2>1. CASE HasSeat(c)
    BY <1>8, <2>1, ReconciledSound DEF ServeManifest, Attachable
  <2>2. CASE ~HasSeat(c)
    BY <1>8, <2>2 DEF ServeManifest, Attachable
  <2> QED BY <2>1, <2>2
<1>9. ASSUME NEW c \in Clients, ServeResult(c) PROVE BrokerInv'
  <2> DEFINE k == Head(outbox[c]).call
  <2>1. UNCHANGED <<seat, owner>>
    BY <1>9 DEF ServeResult
  <2>2. CASE Accepts(c, k)
    <3>1. broker' = Finish(broker, {k})
      BY <1>9, <2>2 DEF ServeResult
    <3>2. broker' = Finish(broker, {k} \cap Calls)
      BY <3>1 DEF Finish, BrokerInv, Sound, Broker
    <3> QED BY <2>1, <3>2, FinishSound DEF Attachable
  <2>3. CASE ~Accepts(c, k)
    BY <1>9, <2>1, <2>3 DEF ServeResult, Attachable
  <2> QED BY <2>2, <2>3
<1>10. ASSUME NEW c \in Clients,
              \/ Connect(c) \/ Drop(c) \/ CommandTimesOut(c) \/ Start(c, TRUE) \/ Start(c, FALSE)
              \/ Control(c) \/ Quit(c) \/ Receive(c) \/ Tell(c) \/ FlushDeferred(c)
              \/ \E k \in Calls : Decide(c, k) \/ Return(c, k)
       PROVE BrokerInv'
  <2>1. UNCHANGED <<seat, owner, broker>>
    BY <1>10 DEF Connect, Drop, CommandTimesOut, Start, Control, Quit, Receive, Tell, FlushDeferred,
                 Decide, Return, daemon
  <2> QED BY <2>1 DEF Attachable
<1>11. CASE UNCHANGED vars
  BY <1>11 DEF vars, daemon, Attachable
<1> QED
  BY <1>1, <1>2, <1>3, <1>4, <1>5, <1>6, <1>7, <1>8, <1>9, <1>10, <1>11 DEF Next

-----------------------------------------------------------------------------
(* Types.                                                                  *)

\* What a client is sent: events of the journal by their position, and replies.
EventFrames(n) == [type : {"event"}, seq : 1 .. n, reopen : BOOLEAN, replay : BOOLEAN]
\* What the daemon sends while its journal has n entries.
Replies == {Attached(TRUE), Attached(FALSE), Opened(TRUE), Opened(FALSE), Refused}
Frames(n) == EventFrames(n) \cup Replies

\* What a client sends.
Commands == [type : {"attach", "open", "control", "manifest"}, call : {NoCall}]
            \cup [type : {"result"}, call : Calls]

\* The types of the daemon, of the connections, and of the plugins.
DaemonTyped ==
    /\ driver \in BOOLEAN /\ opens \in Nat
    /\ conns \subseteq Conn /\ subs \subseteq conns
    /\ \A n \in conns : n.id <= opens
    /\ seat \in conns \cup {Nobody} /\ owner \in Conn \cup {Nobody}
    /\ journal \in Seq(JournalEntry)

LinksTyped ==
    /\ link \in [Clients -> Conn \cup {Nobody}]
    /\ outbox \in [Clients -> Seq(Commands)]
    /\ inbox \in [Clients -> Seq(Frames(Len(journal)))]
    /\ told \in [Clients -> Seq(Replies)]
    /\ asked \in [Clients -> {"none", "sent", "opened", "refused"}]

SessionsTyped ==
    /\ phase \in [Clients -> {"none", "opening", "following"}]
    /\ opened \in [Clients -> BOOLEAN] /\ controller \in [Clients -> BOOLEAN]
    /\ recalled \in [Clients -> BOOLEAN]
    /\ cursor \in [Clients -> 0 .. Len(journal)]
    /\ deferred \in [Clients -> SUBSET Calls] /\ ignored \in [Clients -> SUBSET Calls]
    /\ exec \in [Clients -> [Calls -> ExecState]] /\ aborted \in [Clients -> SUBSET Calls]

\* A connection belongs to its client, and without one nothing is on the way to it.
Linked ==
    \A c \in Clients :
        /\ link[c] # Nobody => link[c].client = c /\ link[c].id <= opens
        /\ link[c] = Nobody => inbox[c] = <<>> /\ told[c] = <<>>

\* All types.
Typed == DaemonTyped /\ LinksTyped /\ SessionsTyped /\ Linked

\* What is journaled at once is a sequence of entries, one for each call.
LEMMA EntriesTyped ==
    ASSUME NEW name \in Names, NEW ks
    PROVE  /\ Entries(name, ks) \in Seq(JournalEntry)
           /\ ToSet(Entries(name, ks)) = {[name |-> name, call |-> k] : k \in ks \cap Calls}
<1> DEFINE s == [k \in Calls |-> [name |-> name, call |-> k]]
<1>1. s \in Seq(JournalEntry) /\ Len(s) = MaxCalls
  BY BrokerAssumption DEF Calls, JournalEntry
<1>2. {s[k] : k \in ks \cap 1 .. Len(s)} = {[name |-> name, call |-> k] : k \in ks \cap Calls}
  BY <1>1 DEF Calls
<1> HIDE DEF s
<1>3. Entries(name, ks) = Picked(s, ks)
  BY DEF Entries, s
<1> QED
  BY <1>1, <1>2, <1>3, InPicked

\* So are answers that are given again.
LEMMA ResultsTyped ==
    ASSUME NEW ks
    PROVE  /\ Results(ks) \in Seq(Commands)
           /\ ToSet(Results(ks)) = {Result(k) : k \in ks \cap Calls}
<1> DEFINE s == [k \in Calls |-> Result(k)]
<1>1. s \in Seq(Commands) /\ Len(s) = MaxCalls
  BY BrokerAssumption DEF Calls, Commands, Result
<1>2. {s[k] : k \in ks \cap 1 .. Len(s)} = {Result(k) : k \in ks \cap Calls}
  BY <1>1 DEF Calls
<1> HIDE DEF s
<1>3. Results(ks) = Picked(s, ks)
  BY DEF Results, s
<1> QED
  BY <1>1, <1>2, <1>3, InPicked

\* What attach replays are events of the journal.
LEMMA ReplayTyped ==
    ASSUME Typed, NEW c \in Clients
    PROVE  Replay(c) \in Seq(EventFrames(Len(journal)))
<1> DEFINE n == Len(journal)
           s == [i \in 1 .. cursor[c] |-> EventFrame(i, TRUE, TRUE)]
           seen == {i \in 1 .. cursor[c] :
                       journal[i].name = "call" /\ journal[i].call \in OpenIn(journal)}
<1>1. n \in Nat /\ cursor[c] \in 0 .. n
  BY LenProperties DEF Typed, DaemonTyped, SessionsTyped
<1> HIDE DEF n
<1>2. s \in Seq(EventFrames(n))
  <2>1. \A i \in 1 .. cursor[c] : EventFrame(i, TRUE, TRUE) \in EventFrames(n)
    BY <1>1 DEF EventFrames, EventFrame
  <2>2. s \in [1 .. cursor[c] -> EventFrames(n)]
    BY <2>1
  <2>3. cursor[c] \in Nat
    BY <1>1
  <2> HIDE DEF s
  <2> QED BY <2>2, <2>3, FunctionIsSequence
<1>3. Picked(s, seen) \in Seq(EventFrames(n))
  BY <1>2, InPicked
<1>4. [i \in 1 .. n - cursor[c] |-> EventFrame(cursor[c] + i, FALSE, TRUE)] \in Seq(EventFrames(n))
  <2>1. \A i \in 1 .. n - cursor[c] : EventFrame(cursor[c] + i, FALSE, TRUE) \in EventFrames(n)
    BY <1>1 DEF EventFrames, EventFrame
  <2>2. n - cursor[c] \in Nat
    BY <1>1
  <2> DEFINE f == [i \in 1 .. n - cursor[c] |-> EventFrame(cursor[c] + i, FALSE, TRUE)]
  <2>3. f \in [1 .. n - cursor[c] -> EventFrames(n)]
    BY <2>1
  <2> HIDE DEF f
  <2>4. f \in Seq(EventFrames(n))
    BY <2>2, <2>3, FunctionIsSequence
  <2> QED BY <2>4 DEF f
<1>5. Replay(c) = Picked(s, seen)
                  \o [i \in 1 .. n - cursor[c] |-> EventFrame(cursor[c] + i, FALSE, TRUE)]
  BY DEF Replay, FramesAfter, n
<1> QED
  BY <1>3, <1>4, <1>5, ConcatProperties DEF n

\* Events and replies are told apart.
LEMMA FramesApart ==
    ASSUME NEW n
    PROVE  /\ \A f \in EventFrames(n) : f.type = "event"
           /\ \A f \in Replies : f.type # "event"
           /\ EventFrames(n) \cap Replies = {}
BY DEF EventFrames, Replies, Attached, Opened, Refused

LEMMA RepliesApart ==
    ASSUME NEW f \in Replies
    PROVE  /\ f.type = "attached" => f.controller \in BOOLEAN /\ f = Attached(f.controller)
           /\ f.type = "opened" => f.again \in BOOLEAN /\ f = Opened(f.again)
           /\ f.type = "refused" => f = Refused
<1>1. ASSUME NEW b \in BOOLEAN, f = Attached(b)
      PROVE  f.type = "attached" /\ f.controller \in BOOLEAN /\ f = Attached(f.controller)
  BY <1>1 DEF Attached
<1>2. ASSUME NEW b \in BOOLEAN, f = Opened(b)
      PROVE  f.type = "opened" /\ f.again \in BOOLEAN /\ f = Opened(f.again)
  BY <1>2 DEF Opened
<1>3. Refused.type = "refused"
  BY DEF Refused
<1> QED
  BY <1>1, <1>2, <1>3 DEF Replies

\* What Publish sends.
LEMMA PublishTyped ==
    ASSUME DaemonTyped, LinksTyped,
           NEW events \in Seq(JournalEntry), NEW followers,
           NEW replies \in [Clients -> Seq(Frames(Len(journal)))],
           Publish(events, followers, replies)
    PROVE  /\ journal' \in Seq(JournalEntry)
           /\ Len(journal') = Len(journal) + Len(events) /\ Len(journal) \in Nat /\ Len(events) \in Nat
           /\ inbox' \in [Clients -> Seq(Frames(Len(journal')))]
           /\ \A c \in Clients :
                /\ ToSet(inbox'[c]) \cap Replies = (ToSet(inbox[c]) \cup ToSet(replies[c])) \cap Replies
                /\ link[c] \notin followers /\ replies[c] = <<>> => inbox'[c] = inbox[c]
<1> DEFINE n == Len(journal)
           m == n + Len(events)
           news(c) == IF link[c] \in followers
                      THEN [i \in 1 .. Len(events) |-> EventFrame(n + i, FALSE, FALSE)]
                      ELSE <<>>
<1>1. /\ journal' \in Seq(JournalEntry) /\ Len(journal') = m
      /\ n \in Nat /\ Len(events) \in Nat /\ m \in Nat
  BY ConcatProperties, LenProperties DEF Publish, DaemonTyped
<1>2. inbox' = [c \in Clients |-> inbox[c] \o replies[c] \o news(c)]
  BY DEF Publish
<1>3. Frames(n) \subseteq Frames(m) /\ EventFrames(m) \subseteq Frames(m)
  <2>1. 1 .. n \subseteq 1 .. m
    BY <1>1
  <2> QED BY <2>1 DEF Frames, EventFrames
<1> HIDE DEF m
<1>4. ASSUME NEW c \in Clients
      PROVE  /\ inbox'[c] \in Seq(Frames(m))
             /\ ToSet(inbox'[c]) \cap Replies = (ToSet(inbox[c]) \cup ToSet(replies[c])) \cap Replies
             /\ link[c] \notin followers /\ replies[c] = <<>> => inbox'[c] = inbox[c]
  <2>1. inbox[c] \in Seq(Frames(m)) /\ replies[c] \in Seq(Frames(m))
    BY <1>3, SeqMonotonic DEF LinksTyped
  <2>2. news(c) \in Seq(EventFrames(m))
    <3>1. \A i \in 1 .. Len(events) : EventFrame(n + i, FALSE, FALSE) \in EventFrames(m)
      BY <1>1 DEF m, EventFrame, EventFrames
    <3> DEFINE f == [i \in 1 .. Len(events) |-> EventFrame(n + i, FALSE, FALSE)]
    <3>2. f \in [1 .. Len(events) -> EventFrames(m)]
      BY <3>1
    <3> HIDE DEF f
    <3>3. f \in Seq(EventFrames(m))
      BY <1>1, <3>2, FunctionIsSequence
    <3>4. <<>> \in Seq(EventFrames(m))
      BY EmptySeq
    <3>5. news(c) = IF link[c] \in followers THEN f ELSE <<>>
      BY DEF f
    <3> HIDE DEF news
    <3> QED BY <3>3, <3>4, <3>5
  <2>3. ToSet(news(c)) \subseteq EventFrames(m) /\ news(c) \in Seq(Frames(m))
    BY <1>3, <2>2, InSequence, SeqMonotonic, ZenonT(60)
  <2>4. link[c] \notin followers => news(c) = <<>>
    OBVIOUS
  <2> DEFINE w == news(c)
  <2>5. inbox'[c] = inbox[c] \o replies[c] \o w
    BY <1>2
  <2> HIDE DEF w
  <2>6. /\ inbox[c] \o replies[c] \in Seq(Frames(m))
        /\ ToSet(inbox[c] \o replies[c]) = ToSet(inbox[c]) \cup ToSet(replies[c])
    BY <2>1, InConcat
  <2>7. w \in Seq(Frames(m)) /\ ToSet(w) \subseteq EventFrames(m)
    BY <2>3 DEF w
  <2>8. /\ inbox'[c] \in Seq(Frames(m))
        /\ ToSet(inbox'[c]) = ToSet(inbox[c]) \cup ToSet(replies[c]) \cup ToSet(w)
    <3> DEFINE v == inbox[c] \o replies[c]
    <3>1. v \in Seq(Frames(m)) /\ inbox'[c] = v \o w
      BY <2>5, <2>6
    <3>2. ToSet(v) = ToSet(inbox[c]) \cup ToSet(replies[c])
      BY <2>6
    <3> HIDE DEF v
    <3>3. v \o w \in Seq(Frames(m)) /\ ToSet(v \o w) = ToSet(v) \cup ToSet(w)
      BY <3>1, <2>7, InConcat
    <3> QED BY <3>1, <3>2, <3>3
  <2>9. ToSet(w) \cap Replies = {}
    BY <2>7, FramesApart
  <2>10. link[c] \notin followers /\ replies[c] = <<>> => inbox'[c] = inbox[c]
    <3>1. link[c] \notin followers => w = <<>>
      BY <2>4 DEF w
    <3> QED BY <3>1, <2>1, <2>5, ConcatEmptySeq
  <2> QED BY <2>8, <2>9, <2>10
<1>5. inbox' \in [Clients -> Seq(Frames(m))]
  BY <1>2, <1>4
<1> QED
  BY <1>1, <1>4, <1>5 DEF m

\* Nobody is not a connection.
LEMMA NobodyApart == Nobody \notin Conn
BY DEF Nobody, Conn

\* A step of the daemon keeps what the plugins have, and sends to connections it holds.
LEMMA DaemonStepTyped ==
    ASSUME Typed,
           NEW events \in Seq(JournalEntry), NEW followers \in SUBSET conns,
           NEW replies \in [Clients -> Seq(Frames(Len(journal)))],
           \A c \in Clients : replies[c] = <<>> \/ link[c] \in conns,
           Publish(events, followers, replies),
           UNCHANGED <<link, opens, session, executor>>
    PROVE  /\ journal' \in Seq(JournalEntry)
           /\ inbox' \in [Clients -> Seq(Frames(Len(journal')))]
           /\ SessionsTyped' /\ Linked'
           /\ told' \in [Clients -> Seq(Replies)]
<1>1. /\ journal' \in Seq(JournalEntry) /\ Len(journal') = Len(journal) + Len(events)
      /\ Len(journal) \in Nat /\ Len(events) \in Nat
      /\ inbox' \in [Clients -> Seq(Frames(Len(journal')))]
      /\ \A c \in Clients :
            link[c] \notin followers /\ replies[c] = <<>> => inbox'[c] = inbox[c]
  BY PublishTyped DEF Typed
<1>2. 0 .. Len(journal) \subseteq 0 .. Len(journal')
  BY <1>1
<1>3. SessionsTyped'
  BY <1>2 DEF Typed, SessionsTyped, session, executor
<1>4. Linked'
  BY <1>1, NobodyApart DEF Typed, DaemonTyped, LinksTyped, Linked, session
<1> QED
  BY <1>1, <1>3, <1>4 DEF Typed, LinksTyped, session

\* A reply is sent to one client.
LEMMA ReplyTyped ==
    ASSUME NEW n, NEW c \in Clients, NEW frames \in Seq(Frames(n))
    PROVE  /\ Reply(c, frames) \in [Clients -> Seq(Frames(n))] /\ Reply(c, frames)[c] = frames
           /\ \A d \in Clients : d # c => Reply(c, frames)[d] = <<>>
           /\ NoReplies \in [Clients -> Seq(Frames(n))]
           /\ \A d \in Clients : NoReplies[d] = <<>>
<1>1. <<>> \in Seq(Frames(n))
  OBVIOUS
<1> QED
  BY <1>1 DEF Reply, NoReplies

LEMMA OneReplyTyped == ASSUME NEW n, NEW f \in Replies PROVE <<f>> \in Seq(Frames(n))
BY DEF Frames

\* What the broker's operations journal.
LEMMA JournaledTyped ==
    ASSUME NEW b, NEW c, NEW ks
    PROVE  /\ IssuedBetween(b, c) \in Seq(JournalEntry)
           /\ CanceledOf(b, ks) \in Seq(JournalEntry)
           /\ IssuedBetween(b, c) \o CanceledOf(b, ks) \in Seq(JournalEntry)
           /\ <<>> \in Seq(JournalEntry)
<1>1. "call" \in Names /\ "canceled" \in Names
  BY DEF Names
<1>2. IssuedBetween(b, c) \in Seq(JournalEntry) /\ CanceledOf(b, ks) \in Seq(JournalEntry)
  BY <1>1, EntriesTyped DEF IssuedBetween, CanceledOf
<1>3. <<>> \in Seq(JournalEntry)
  OBVIOUS
<1> QED
  BY <1>2, <1>3, ConcatProperties

\* A command that is served leaves its queue.
LEMMA ServingTyped ==
    ASSUME Typed, NEW c \in Clients, NEW type, Serving(c, type)
    PROVE  /\ outbox' \in [Clients -> Seq(Commands)]
           /\ Head(outbox[c]) \in Commands /\ Head(outbox[c]).type = type
           /\ link[c] \in Conn /\ link[c].client = c /\ link[c].id <= opens
           /\ ToSet(outbox[c]) = {Head(outbox[c])} \cup ToSet(outbox'[c])
           /\ \A d \in Clients : d # c => outbox'[d] = outbox[d]
<1>1. outbox[c] \in Seq(Commands) /\ outbox[c] # <<>>
  BY DEF Typed, LinksTyped, Serving
<1>2. /\ Head(outbox[c]) \in Commands /\ Tail(outbox[c]) \in Seq(Commands)
      /\ ToSet(outbox[c]) = {Head(outbox[c])} \cup ToSet(Tail(outbox[c]))
  BY <1>1, InHeadTail
<1>3. link[c] \in Conn /\ link[c] # Nobody
  BY NobodyApart DEF Typed, DaemonTyped, Serving
<1>4. outbox' = [outbox EXCEPT ![c] = Tail(outbox[c])]
  BY DEF Serving
<1> QED
  BY <1>2, <1>3, <1>4 DEF Typed, LinksTyped, Linked, Serving

LEMMA InitTyped == Init => Typed
<1> SUFFICES ASSUME Init PROVE Typed
  OBVIOUS
<1>1. DaemonTyped
  <2>1. journal \in Seq(JournalEntry)
    BY DEF Init
  <2> QED BY <2>1 DEF Init, DaemonTyped
<1>2. LinksTyped
  BY DEF Init, LinksTyped
<1>3. SessionsTyped
  BY DEF Init, SessionsTyped, ExecState
<1>4. Linked
  BY DEF Init, Linked
<1> QED
  BY <1>1, <1>2, <1>3, <1>4 DEF Typed

\* Steps of the broker and its timers.
LEMMA BrokerStepTyped ==
    ASSUME Typed, NEW b, NEW events \in Seq(JournalEntry), DaemonStep(b, events)
    PROVE  Typed'
<1>1. /\ journal' \in Seq(JournalEntry)
      /\ inbox' \in [Clients -> Seq(Frames(Len(journal')))]
      /\ SessionsTyped' /\ Linked'
      /\ told' \in [Clients -> Seq(Replies)]
  <2>1. subs \in SUBSET conns
    BY DEF Typed, DaemonTyped
  <2>2. \A c \in Clients : NoReplies[c] = <<>> \/ link[c] \in conns
    BY DEF NoReplies
  <2>3. NoReplies \in [Clients -> Seq(Frames(Len(journal)))]
    BY DEF NoReplies
  <2>4. Publish(events, subs, NoReplies) /\ UNCHANGED <<link, opens, session, executor>>
    BY DEF DaemonStep
  <2> QED BY <2>1, <2>2, <2>3, <2>4, DaemonStepTyped
<1>2. DaemonTyped'
  BY <1>1 DEF DaemonStep, Typed, DaemonTyped
<1>3. LinksTyped'
  BY <1>1 DEF DaemonStep, Typed, LinksTyped
<1> QED
  BY <1>1, <1>2, <1>3 DEF Typed

LEMMA CleanUpTyped ==
    ASSUME Typed, NEW n \in conns, CleanUp(n)
    PROVE  Typed'
<1>1. /\ journal' \in Seq(JournalEntry)
      /\ inbox' \in [Clients -> Seq(Frames(Len(journal')))]
      /\ SessionsTyped' /\ Linked'
      /\ told' \in [Clients -> Seq(Replies)]
  <2>1. subs' \in SUBSET conns
    BY DEF Typed, DaemonTyped, CleanUp
  <2>2. \A c \in Clients : NoReplies[c] = <<>> \/ link[c] \in conns
    BY DEF NoReplies
  <2>3. NoReplies \in [Clients -> Seq(Frames(Len(journal)))]
    BY DEF NoReplies
  <2>4. /\ Publish(IssuedBetween(broker, broker'), subs', NoReplies)
        /\ UNCHANGED <<link, opens, session, executor>>
    BY DEF CleanUp
  <2> QED BY <2>1, <2>2, <2>3, <2>4, JournaledTyped, DaemonStepTyped
<1>2. DaemonTyped'
  BY <1>1 DEF CleanUp, Release, Typed, DaemonTyped
<1>3. LinksTyped'
  BY <1>1 DEF CleanUp, Typed, LinksTyped
<1> QED
  BY <1>1, <1>2, <1>3 DEF Typed

LEMMA CrashTyped ==
    ASSUME Typed, Crash
    PROVE  Typed'
<1>1. /\ journal' \in Seq(JournalEntry)
      /\ inbox' \in [Clients -> Seq(Frames(Len(journal')))]
      /\ SessionsTyped' /\ Linked'
      /\ told' \in [Clients -> Seq(Replies)]
  <2>1. Entries("expired", OpenIn(journal)) \in Seq(JournalEntry)
    BY EntriesTyped DEF Names
  <2>2. \A c \in Clients : NoReplies[c] = <<>> \/ link[c] \in conns
    BY DEF NoReplies
  <2>3. NoReplies \in [Clients -> Seq(Frames(Len(journal)))]
    BY DEF NoReplies
  <2>4. /\ Publish(Entries("expired", OpenIn(journal)), {}, NoReplies)
        /\ UNCHANGED <<link, opens, session, executor>>
    BY DEF Crash
  <2> QED BY <2>1, <2>2, <2>3, <2>4, DaemonStepTyped
<1>2. DaemonTyped'
  BY <1>1 DEF Crash, Typed, DaemonTyped
<1>3. LinksTyped'
  BY <1>1 DEF Crash, Typed, LinksTyped
<1> QED
  BY <1>1, <1>2, <1>3 DEF Typed

\* Serving a command: what it journals, and what it sends to its connection.
LEMMA ServeTyped ==
    ASSUME Typed, NEW c \in Clients, NEW type, Serving(c, type),
           NEW events \in Seq(JournalEntry), NEW followers \in SUBSET conns,
           NEW frames \in Seq(Frames(Len(journal))),
           \/ Publish(events, followers, Reply(c, frames))
           \/ Publish(events, followers, NoReplies)
           \/ UNCHANGED <<journal, inbox>>,
           UNCHANGED <<link, opens, session, executor, conns>>,
           subs' \in SUBSET conns, seat' \in {seat, link[c]}, owner' \in {owner, link[c]},
           driver' \in BOOLEAN, asked' \in [Clients -> {"none", "sent", "opened", "refused"}]
    PROVE  Typed'
<1>1. /\ journal' \in Seq(JournalEntry)
      /\ inbox' \in [Clients -> Seq(Frames(Len(journal')))]
      /\ SessionsTyped' /\ Linked'
      /\ told' \in [Clients -> Seq(Replies)]
  <2>1. /\ Reply(c, frames) \in [Clients -> Seq(Frames(Len(journal)))]
        /\ NoReplies \in [Clients -> Seq(Frames(Len(journal)))]
        /\ \A d \in Clients : d # c => Reply(c, frames)[d] = <<>>
        /\ \A d \in Clients : NoReplies[d] = <<>>
    BY ReplyTyped
  <2>2. link[c] \in conns
    BY DEF Serving
  <2>3. CASE Publish(events, followers, Reply(c, frames))
    BY <2>1, <2>2, <2>3, DaemonStepTyped
  <2>4. CASE Publish(events, followers, NoReplies)
    BY <2>1, <2>4, DaemonStepTyped
  <2>5. CASE UNCHANGED <<journal, inbox>>
    BY <2>5 DEF Typed, DaemonTyped, LinksTyped, SessionsTyped, Linked, session, executor
  <2> QED BY <2>3, <2>4, <2>5
<1>2. link[c] \in conns /\ link[c] \in Conn /\ outbox' \in [Clients -> Seq(Commands)]
  BY ServingTyped DEF Serving
<1>3. DaemonTyped'
  BY <1>1, <1>2 DEF Typed, DaemonTyped
<1>4. LinksTyped'
  BY <1>1, <1>2 DEF Typed, LinksTyped
<1> QED
  BY <1>1, <1>3, <1>4 DEF Typed

LEMMA ServeAttachTyped == ASSUME Typed, NEW c \in Clients, ServeAttach(c) PROVE Typed'
<1> DEFINE frames == <<Attached(MayClaim(c))>> \o Replay(c)
           events == IssuedBetween(broker, broker')
<1>1. frames \in Seq(Frames(Len(journal)))
  <2>1. Attached(MayClaim(c)) \in Replies
    BY DEF MayClaim, Replies, Attached
  <2>2. Replay(c) \in Seq(Frames(Len(journal)))
    BY ReplayTyped, SeqMonotonic DEF Frames
  <2> QED BY <2>1, <2>2, OneReplyTyped, ConcatProperties
<1>2. Serving(c, "attach") /\ Publish(events, subs', Reply(c, frames))
  BY DEF ServeAttach
<1>3. subs' \in SUBSET conns
  BY DEF ServeAttach, Serving, Typed, DaemonTyped
<1>4. events \in Seq(JournalEntry)
  BY JournaledTyped
<1>5. /\ UNCHANGED <<link, opens, session, executor, conns, owner, driver, asked>>
      /\ seat' \in {seat, link[c]}
  BY DEF ServeAttach
<1>6. driver' \in BOOLEAN /\ asked' \in [Clients -> {"none", "sent", "opened", "refused"}]
  BY <1>5 DEF Typed, DaemonTyped, LinksTyped
<1> HIDE DEF frames, events
<1> QED
  BY <1>1, <1>2, <1>3, <1>4, <1>5, <1>6, ServeTyped

LEMMA ServeOpenTyped == ASSUME Typed, NEW c \in Clients, ServeOpen(c) PROVE Typed'
<1>1. \E f \in Replies, events \in Seq(JournalEntry) : Publish(events, subs, Reply(c, <<f>>))
  <2>1. Opened(TRUE) \in Replies /\ Opened(FALSE) \in Replies /\ Refused \in Replies
    BY DEF Replies
  <2>2. /\ <<>> \in Seq(JournalEntry) /\ IssuedBetween(broker, broker') \in Seq(JournalEntry)
    BY JournaledTyped
  <2>3. \/ Publish(<<>>, subs, Reply(c, <<Opened(TRUE)>>))
        \/ Publish(<<>>, subs, Reply(c, <<Refused>>))
        \/ Publish(IssuedBetween(broker, broker'), subs, Reply(c, <<Opened(FALSE)>>))
    BY DEF ServeOpen
  <2> QED BY <2>1, <2>2, <2>3
<1>2. PICK f \in Replies, events \in Seq(JournalEntry) : Publish(events, subs, Reply(c, <<f>>))
  BY <1>1
<1>3. <<f>> \in Seq(Frames(Len(journal)))
  BY OneReplyTyped
<1>4. subs \in SUBSET conns /\ UNCHANGED subs
  BY DEF ServeOpen, Typed, DaemonTyped
<1>5. /\ UNCHANGED <<link, opens, session, executor, conns>> /\ Serving(c, "open")
  BY DEF ServeOpen
<1>6. /\ seat' \in {seat, link[c]} /\ owner' \in {owner, link[c]}
      /\ driver' \in BOOLEAN /\ asked' \in [Clients -> {"none", "sent", "opened", "refused"}]
  BY DEF ServeOpen, Typed, DaemonTyped, LinksTyped
<1> QED
  BY <1>2, <1>3, <1>4, <1>5, <1>6, ServeTyped

LEMMA ServeControlTyped == ASSUME Typed, NEW c \in Clients, ServeControl(c) PROVE Typed'
<1> DEFINE b == Reconciled(broker, seat', owner)
<1>1. \/ Publish(IssuedBetween(broker, broker'), subs, NoReplies)
      \/ Publish(IssuedBetween(broker, b) \o CanceledOf(b, Open(b)), subs, NoReplies)
      \/ UNCHANGED <<journal, inbox>>
  BY DEF ServeControl
<1>2. /\ IssuedBetween(broker, broker') \in Seq(JournalEntry) /\ <<>> \in Seq(JournalEntry)
      /\ IssuedBetween(broker, b) \o CanceledOf(b, Open(b)) \in Seq(JournalEntry)
  BY JournaledTyped
<1>3. \E events \in Seq(JournalEntry) :
         Publish(events, subs, NoReplies) \/ UNCHANGED <<journal, inbox>>
  BY <1>1, <1>2
<1>4. PICK events \in Seq(JournalEntry) :
         Publish(events, subs, NoReplies) \/ UNCHANGED <<journal, inbox>>
  BY <1>3
<1>5. subs \in SUBSET conns /\ UNCHANGED subs /\ <<>> \in Seq(Frames(Len(journal)))
  BY DEF ServeControl, Typed, DaemonTyped
<1>6. /\ UNCHANGED <<link, opens, session, executor, conns>> /\ Serving(c, "control")
  BY DEF ServeControl
<1>7. /\ seat' \in {seat, link[c]} /\ owner' \in {owner, link[c]}
      /\ driver' \in BOOLEAN /\ asked' \in [Clients -> {"none", "sent", "opened", "refused"}]
  BY DEF ServeControl, Typed, DaemonTyped, LinksTyped
<1> QED
  BY <1>4, <1>5, <1>6, <1>7, ServeTyped

LEMMA ServeManifestTyped == ASSUME Typed, NEW c \in Clients, ServeManifest(c) PROVE Typed'
<1>1. Publish(IssuedBetween(broker, broker'), subs, NoReplies)
  BY DEF ServeManifest
<1>2. IssuedBetween(broker, broker') \in Seq(JournalEntry) /\ <<>> \in Seq(Frames(Len(journal)))
  BY JournaledTyped
<1>3. subs \in SUBSET conns /\ UNCHANGED subs
  BY DEF ServeManifest, Typed, DaemonTyped
<1>4. /\ UNCHANGED <<link, opens, session, executor, conns>> /\ Serving(c, "manifest")
  BY DEF ServeManifest
<1>5. /\ seat' \in {seat, link[c]} /\ owner' \in {owner, link[c]}
      /\ driver' \in BOOLEAN /\ asked' \in [Clients -> {"none", "sent", "opened", "refused"}]
  BY DEF ServeManifest, Typed, DaemonTyped, LinksTyped
<1> QED
  BY <1>1, <1>2, <1>3, <1>4, <1>5, ServeTyped

LEMMA ServeResultTyped == ASSUME Typed, NEW c \in Clients, ServeResult(c) PROVE Typed'
<1> DEFINE k == Head(outbox[c]).call
<1>1. Publish(Entries("resolved", {k}), subs, NoReplies) \/ UNCHANGED <<journal, inbox>>
  BY DEF ServeResult
<1>2. Entries("resolved", {k}) \in Seq(JournalEntry) /\ <<>> \in Seq(Frames(Len(journal)))
  BY EntriesTyped DEF Names
<1>3. subs \in SUBSET conns /\ UNCHANGED subs
  BY DEF ServeResult, Typed, DaemonTyped
<1>4. /\ UNCHANGED <<link, opens, session, executor, conns>> /\ Serving(c, "result")
  BY DEF ServeResult
<1>5. /\ seat' \in {seat, link[c]} /\ owner' \in {owner, link[c]}
      /\ driver' \in BOOLEAN /\ asked' \in [Clients -> {"none", "sent", "opened", "refused"}]
  BY DEF ServeResult, Typed, DaemonTyped, LinksTyped
<1> HIDE DEF k
<1> QED
  BY <1>1, <1>2, <1>3, <1>4, <1>5, ServeTyped

\* What a plugin sends.
LEMMA SendTyped ==
    ASSUME Typed, NEW c \in Clients, NEW commands \in Seq(Commands), Send(c, commands)
    PROVE  /\ outbox' \in [Clients -> Seq(Commands)]
           /\ ToSet(outbox'[c]) = ToSet(outbox[c]) \cup ToSet(commands)
           /\ \A d \in Clients : d # c => outbox'[d] = outbox[d]
<1>1. outbox[c] \in Seq(Commands) /\ outbox' = [outbox EXCEPT ![c] = outbox[c] \o commands]
  BY DEF Send, Typed, LinksTyped
<1>2. /\ outbox[c] \o commands \in Seq(Commands)
      /\ ToSet(outbox[c] \o commands) = ToSet(outbox[c]) \cup ToSet(commands)
  BY <1>1, InConcat
<1> QED
  BY <1>1, <1>2 DEF Typed, LinksTyped

LEMMA CommandTyped ==
    /\ \A type \in {"attach", "open", "control", "manifest"} :
          Command(type) \in Commands /\ <<Command(type)>> \in Seq(Commands)
    /\ \A k \in Calls : Result(k) \in Commands /\ <<Result(k)>> \in Seq(Commands)
    /\ <<>> \in Seq(Commands)
    /\ <<Command("manifest"), Command("control")>> \in Seq(Commands)
BY DEF Commands, Command, Result

\* What a lost connection leaves of the commands.
LEMMA WithoutAttachTyped ==
    ASSUME NEW s \in Seq(Commands)
    PROVE  WithoutAttach(s) \in Seq(Commands) /\ ToSet(WithoutAttach(s)) \subseteq ToSet(s)
<1> DEFINE p == {i \in DOMAIN s : s[i].type # "attach"}
<1>1. Picked(s, p) \in Seq(Commands) /\ ToSet(Picked(s, p)) = {s[i] : i \in p \cap 1 .. Len(s)}
  BY InPicked
<1>2. {s[i] : i \in p \cap 1 .. Len(s)} \subseteq ToSet(s)
  BY InSequence
<1> QED
  BY <1>1, <1>2 DEF WithoutAttach

LEMMA ConnectTyped == ASSUME Typed, NEW c \in Clients, Connect(c) PROVE Typed'
<1> DEFINE n == [client |-> c, id |-> opens']
<1>1. opens' = opens + 1 /\ opens \in Nat /\ n \in Conn /\ n.id = opens' /\ n.client = c
  BY DEF Connect, Conn, Typed, DaemonTyped
<1>2. link' = [link EXCEPT ![c] = n] /\ conns' = conns \cup {n}
  BY DEF Connect, Typed, LinksTyped
<1> HIDE DEF n
<1>3. DaemonTyped'
  <2>1. conns' \subseteq Conn /\ \A m \in conns' : m.id <= opens'
    BY <1>1, <1>2 DEF Typed, DaemonTyped, Conn
  <2>2. /\ UNCHANGED <<driver, subs, seat, owner, journal>> /\ conns \subseteq conns'
        /\ opens' \in Nat
    BY <1>1, <1>2 DEF Connect
  <2> QED BY <2>1, <2>2 DEF Typed, DaemonTyped
<1>4. outbox' \in [Clients -> Seq(Commands)]
  <2>1. \/ outbox' = [outbox EXCEPT ![c] = <<Command("attach")>> \o outbox[c]]
        \/ outbox' = [outbox EXCEPT ![c] = <<>> \o outbox[c]]
    BY DEF Connect
  <2>2. /\ outbox[c] \in Seq(Commands) /\ <<Command("attach")>> \in Seq(Commands)
        /\ <<>> \in Seq(Commands)
    BY CommandTyped DEF Typed, LinksTyped
  <2>3. <<Command("attach")>> \o outbox[c] \in Seq(Commands) /\ <<>> \o outbox[c] \in Seq(Commands)
    BY <2>2, ConcatProperties
  <2> QED BY <2>1, <2>3 DEF Typed, LinksTyped
<1>5. LinksTyped'
  BY <1>1, <1>2, <1>4 DEF Connect, Typed, LinksTyped, session
<1>6. SessionsTyped'
  BY DEF Connect, Typed, SessionsTyped, session, executor
<1>7. Linked'
  <2> SUFFICES ASSUME NEW d \in Clients
               PROVE  /\ link'[d] # Nobody => link'[d].client = d /\ link'[d].id <= opens'
                      /\ link'[d] = Nobody => inbox'[d] = <<>> /\ told'[d] = <<>>
    BY DEF Linked
  <2>1. UNCHANGED <<inbox, told>>
    BY DEF Connect, session
  <2>2. CASE d = c
    <3>1. link'[d] = n
      BY <1>2, <2>2 DEF Typed, LinksTyped
    <3> QED BY <1>1, <2>2, <3>1, NobodyApart
  <2>3. CASE d # c
    <3>1. link'[d] = link[d] /\ (link[d] # Nobody => link[d] \in Conn)
      BY <1>2, <2>3 DEF Typed, LinksTyped
    <3>2. link[d] # Nobody => link[d].client = d /\ link[d].id <= opens /\ link[d].id \in Nat
      BY <3>1 DEF Typed, Linked, Conn
    <3>3. link[d] = Nobody => inbox[d] = <<>> /\ told[d] = <<>>
      BY DEF Typed, Linked
    <3> QED BY <1>1, <2>1, <3>1, <3>2, <3>3
  <2> QED BY <2>2, <2>3
<1> QED
  BY <1>3, <1>5, <1>6, <1>7 DEF Typed

LEMMA DropTyped == ASSUME Typed, NEW c \in Clients, Drop(c) PROVE Typed'
<1>1. outbox' \in [Clients -> Seq(Commands)]
  <2> DEFINE kept == WithoutAttach(outbox[c])
  <2>1. \/ outbox' = [outbox EXCEPT ![c] = <<Command("open")>> \o kept]
        \/ outbox' = [outbox EXCEPT ![c] = <<>> \o kept]
    BY DEF Drop
  <2>2. kept \in Seq(Commands) /\ <<Command("open")>> \in Seq(Commands) /\ <<>> \in Seq(Commands)
    BY CommandTyped, WithoutAttachTyped DEF Typed, LinksTyped
  <2> HIDE DEF kept
  <2>3. <<Command("open")>> \o kept \in Seq(Commands) /\ <<>> \o kept \in Seq(Commands)
    BY <2>2, ConcatProperties
  <2> QED BY <2>1, <2>3 DEF Typed, LinksTyped
<1>2. DaemonTyped'
  BY DEF Drop, daemon, Typed, DaemonTyped
<1>3. LinksTyped'
  BY <1>1 DEF Drop, daemon, session, Typed, LinksTyped
<1>4. SessionsTyped'
  BY DEF Drop, daemon, session, executor, Typed, SessionsTyped
<1>5. Linked'
  BY DEF Drop, Idle, session, Typed, LinksTyped, Linked
<1> QED
  BY <1>2, <1>3, <1>4, <1>5 DEF Typed

LEMMA CommandTimesOutTyped == ASSUME Typed, NEW c \in Clients, CommandTimesOut(c) PROVE Typed'
<1>1. outbox' \in [Clients -> Seq(Commands)]
  <2>1. outbox[c] \in Seq(Commands) /\ outbox[c] # <<>>
    BY DEF CommandTimesOut, Typed, LinksTyped
  <2>2. Tail(outbox[c]) \in Seq(Commands)
    BY <2>1, InHeadTail
  <2> QED BY <2>2 DEF CommandTimesOut, Typed, LinksTyped
<1>2. DaemonTyped'
  BY DEF CommandTimesOut, daemon, Typed, DaemonTyped
<1>3. LinksTyped'
  BY <1>1 DEF CommandTimesOut, daemon, Typed, LinksTyped
<1>4. SessionsTyped'
  BY DEF CommandTimesOut, daemon, executor, Typed, SessionsTyped
<1>5. Linked'
  BY DEF CommandTimesOut, Typed, LinksTyped, Linked
<1> QED
  BY <1>2, <1>3, <1>4, <1>5 DEF Typed

LEMMA StartTyped == ASSUME Typed, NEW c \in Clients, NEW a \in BOOLEAN, Start(c, a) PROVE Typed'
<1>1. outbox' \in [Clients -> Seq(Commands)]
  <2>1. Send(c, <<Command("attach")>>) \/ Send(c, <<>>) \/ Send(c, <<Command("open")>>)
    BY DEF Start, Ask
  <2> QED BY <2>1, CommandTyped, SendTyped
<1>2. DaemonTyped'
  BY DEF Start, daemon, Typed, DaemonTyped
<1>3. LinksTyped'
  BY <1>1 DEF Start, Ask, daemon, Typed, LinksTyped
<1>4. SessionsTyped'
  BY DEF Start, daemon, executor, Typed, SessionsTyped
<1>5. Linked'
  BY DEF Start, Typed, LinksTyped, Linked
<1> QED
  BY <1>2, <1>3, <1>4, <1>5 DEF Typed

LEMMA ControlTyped == ASSUME Typed, NEW c \in Clients, Control(c) PROVE Typed'
<1>1. outbox' \in [Clients -> Seq(Commands)]
  <2>1. Send(c, <<Command("control")>>) \/ Send(c, <<Command("open")>>)
    BY DEF Control, Ask
  <2> QED BY <2>1, CommandTyped, SendTyped
<1>2. DaemonTyped'
  BY DEF Control, daemon, Typed, DaemonTyped
<1>3. LinksTyped'
  BY <1>1 DEF Control, Ask, daemon, session, Typed, LinksTyped
<1>4. SessionsTyped'
  BY DEF Control, daemon, session, executor, Typed, SessionsTyped
<1>5. Linked'
  BY DEF Control, session, Typed, LinksTyped, Linked
<1> QED
  BY <1>2, <1>3, <1>4, <1>5 DEF Typed

LEMMA QuitTyped == ASSUME Typed, NEW c \in Clients, Quit(c) PROVE Typed'
<1>1. DaemonTyped'
  BY DEF Quit, daemon, Typed, DaemonTyped
<1>2. LinksTyped'
  BY DEF Quit, daemon, Typed, LinksTyped
<1>3. cursor' \in [Clients -> 0 .. Len(journal')]
  <2>1. PICK saved \in 0 .. cursor[c] : cursor' = [cursor EXCEPT ![c] = saved]
    BY DEF Quit
  <2>2. cursor[c] \in 0 .. Len(journal) /\ Len(journal) \in Nat /\ journal' = journal
    BY LenProperties DEF Quit, daemon, Typed, DaemonTyped, SessionsTyped
  <2>3. saved \in 0 .. Len(journal)
    BY <2>1, <2>2
  <2> QED BY <2>1, <2>2, <2>3 DEF Typed, SessionsTyped
<1>4. SessionsTyped'
  BY <1>3 DEF Quit, Typed, SessionsTyped, ExecState
<1>5. Linked'
  BY DEF Quit, Idle, Typed, LinksTyped, Linked
<1> QED
  BY <1>1, <1>2, <1>4, <1>5 DEF Typed

\* handleCall starts calls and answers those it has answered before.
LEMMA HandleCallsTyped ==
    ASSUME Typed, NEW c \in Clients, NEW ks, NEW reopened \in BOOLEAN, HandleCalls(c, ks, reopened)
    PROVE  /\ exec' \in [Clients -> [Calls -> ExecState]]
           /\ outbox' \in [Clients -> Seq(Commands)]
           /\ ToSet(outbox[c]) \subseteq ToSet(outbox'[c])
           /\ \A d \in Clients : d # c => outbox'[d] = outbox[d]
<1>1. exec' \in [Clients -> [Calls -> ExecState]]
  BY DEF HandleCalls, StartNew, Typed, SessionsTyped, ExecState
<1> DEFINE done == {k \in ks : exec[c][k] = "done"}
<1>2. Send(c, Results(done)) \/ Send(c, <<>>)
  BY DEF HandleCalls
<1>3. Results(done) \in Seq(Commands)
  BY ResultsTyped
<1>4. <<>> \in Seq(Commands)
  BY CommandTyped
<1> HIDE DEF done
<1> QED
  BY <1>1, <1>2, <1>3, <1>4, SendTyped

LEMMA ExecutorTyped ==
    ASSUME Typed, NEW c \in Clients, NEW k \in Calls, Decide(c, k) \/ Return(c, k)
    PROVE  Typed'
<1>1. outbox' \in [Clients -> Seq(Commands)]
  <2>1. Send(c, <<Result(k)>>) \/ UNCHANGED outbox
    BY DEF Decide, Return, Finished
  <2>2. <<Result(k)>> \in Seq(Commands)
    BY CommandTyped
  <2> QED BY <2>1, <2>2, SendTyped DEF Typed, LinksTyped
<1>2. exec' \in [Clients -> [Calls -> ExecState]]
  <2>1. exec' = [exec EXCEPT ![c][k] = "done"] \/ exec' = [exec EXCEPT ![c][k] = "invoking"]
    BY DEF Decide, Return, Finished
  <2>2. ASSUME NEW s \in ExecState PROVE [exec EXCEPT ![c][k] = s] \in [Clients -> [Calls -> ExecState]]
    <3>1. exec \in [Clients -> [Calls -> ExecState]]
      BY DEF Typed, SessionsTyped
    <3> HIDE DEF ExecState
    <3> QED BY <3>1
  <2> QED BY <2>1, <2>2 DEF ExecState
<1>3. UNCHANGED <<daemon, link, inbox, opens, asked, session, aborted, bounds>>
  BY DEF Decide, Return
<1>4. DaemonTyped'
  BY <1>3 DEF daemon, Typed, DaemonTyped
<1>5. LinksTyped'
  BY <1>1, <1>3 DEF daemon, session, Typed, LinksTyped
<1>6. SessionsTyped'
  BY <1>2, <1>3 DEF daemon, session, Typed, SessionsTyped
<1>7. Linked'
  BY <1>3 DEF session, Typed, Linked
<1> QED
  BY <1>4, <1>5, <1>6, <1>7 DEF Typed

LEMMA FlushDeferredTyped == ASSUME Typed, NEW c \in Clients, FlushDeferred(c) PROVE Typed'
<1>1. /\ exec' \in [Clients -> [Calls -> ExecState]]
      /\ outbox' \in [Clients -> Seq(Commands)]
  <2>1. HandleCalls(c, deferred[c], TRUE) \/ UNCHANGED <<exec, outbox>>
    BY DEF FlushDeferred
  <2> QED BY <2>1, HandleCallsTyped DEF Typed, LinksTyped, SessionsTyped
<1>2. UNCHANGED <<daemon, link, inbox, opens, asked, phase, opened, controller, told, cursor,
                  ignored, recalled, aborted, bounds>>
  BY DEF FlushDeferred
<1>3. deferred' \in [Clients -> SUBSET Calls]
  BY DEF FlushDeferred, Typed, SessionsTyped
<1>4. DaemonTyped'
  BY <1>2 DEF daemon, Typed, DaemonTyped
<1>5. LinksTyped'
  BY <1>1, <1>2 DEF daemon, Typed, LinksTyped
<1>6. SessionsTyped'
  BY <1>1, <1>2, <1>3 DEF daemon, Typed, SessionsTyped
<1>7. Linked'
  BY <1>2 DEF Typed, Linked
<1> QED
  BY <1>4, <1>5, <1>6, <1>7 DEF Typed

\* A frame that is handled was an event of the journal or a reply.
LEMMA HeadOfInbox ==
    ASSUME Typed, NEW c \in Clients, inbox[c] # <<>>
    PROVE  /\ Tail(inbox[c]) \in Seq(Frames(Len(journal)))
           /\ ToSet(inbox[c]) = {Head(inbox[c])} \cup ToSet(Tail(inbox[c]))
           /\ \/ Head(inbox[c]) \in EventFrames(Len(journal)) /\ Head(inbox[c]).type = "event"
              \/ Head(inbox[c]) \in Replies /\ Head(inbox[c]).type # "event"
           /\ link[c] # Nobody
<1>1. inbox[c] \in Seq(Frames(Len(journal)))
  BY DEF Typed, LinksTyped
<1>2. /\ Head(inbox[c]) \in Frames(Len(journal)) /\ Tail(inbox[c]) \in Seq(Frames(Len(journal)))
      /\ ToSet(inbox[c]) = {Head(inbox[c])} \cup ToSet(Tail(inbox[c]))
  BY <1>1, InHeadTail
<1> QED
  BY <1>2, FramesApart DEF Frames, Typed, Linked

LEMMA OnEventTyped ==
    ASSUME Typed, NEW c \in Clients, NEW f \in EventFrames(Len(journal)), OnEvent(c, f)
    PROVE  /\ cursor' \in [Clients -> 0 .. Len(journal)]
           /\ deferred' \in [Clients -> SUBSET Calls] /\ ignored' \in [Clients -> SUBSET Calls]
           /\ exec' \in [Clients -> [Calls -> ExecState]] /\ aborted' \in [Clients -> SUBSET Calls]
           /\ outbox' \in [Clients -> Seq(Commands)]
           /\ ToSet(outbox[c]) \subseteq ToSet(outbox'[c])
           /\ \A d \in Clients : d # c => outbox'[d] = outbox[d]
<1> USE DEF SessionsTyped, LinksTyped
<1> DEFINE e == journal[f.seq]
<1>1. f.seq \in 1 .. Len(journal) /\ f.reopen \in BOOLEAN /\ Len(journal) \in Nat
  BY LenProperties DEF EventFrames, Typed, DaemonTyped
<1>2. e \in JournalEntry /\ e.call \in Calls
  <2>1. e \in JournalEntry
    BY <1>1, ElementOfSeq DEF Typed, DaemonTyped
  <2> QED BY <2>1 DEF JournalEntry
<1>3. cursor' \in [Clients -> 0 .. Len(journal)]
  <2>1. UNCHANGED cursor \/ cursor' = [cursor EXCEPT ![c] = IF f.reopen THEN @ ELSE f.seq]
    BY DEF OnEvent
  <2>2. f.seq \in 0 .. Len(journal)
    BY <1>1
  <2> QED BY <2>1, <2>2, ZenonT(60) DEF Typed
<1>4. \/ UNCHANGED <<deferred, ignored, exec, aborted, outbox>>
      \/ OnToolCall(c, e.call, f)
      \/ OnClosed(c, e)
  BY DEF OnEvent
<1> HIDE DEF e
<1>5. CASE UNCHANGED <<deferred, ignored, exec, aborted, outbox>>
  BY <1>3, <1>5 DEF Typed
<1>6. CASE OnToolCall(c, e.call, f)
  <2>1. \/ UNCHANGED <<exec, outbox>>
        \/ HandleCalls(c, {e.call}, f.reopen)
    BY <1>6 DEF OnToolCall
  <2>2. /\ exec' \in [Clients -> [Calls -> ExecState]]
        /\ outbox' \in [Clients -> Seq(Commands)]
        /\ ToSet(outbox[c]) \subseteq ToSet(outbox'[c])
        /\ \A d \in Clients : d # c => outbox'[d] = outbox[d]
    BY <1>1, <2>1, HandleCallsTyped DEF Typed
  <2>3. /\ deferred' \in [Clients -> SUBSET Calls] /\ ignored' \in [Clients -> SUBSET Calls]
        /\ aborted' \in [Clients -> SUBSET Calls]
    <3>1. /\ UNCHANGED aborted
          /\ UNCHANGED ignored \/ ignored' = [ignored EXCEPT ![c] = @ \cup {e.call}]
          /\ UNCHANGED deferred \/ deferred' = [deferred EXCEPT ![c] = @ \cup {e.call}]
      BY <1>6 DEF OnToolCall
    <3>2. ASSUME NEW v \in [Clients -> SUBSET Calls]
          PROVE  [v EXCEPT ![c] = @ \cup {e.call}] \in [Clients -> SUBSET Calls]
      <4>1. v[c] \cup {e.call} \in SUBSET Calls
        BY <1>2
      <4> QED BY <4>1
    <3>3. aborted \in [Clients -> SUBSET Calls] /\ ignored \in [Clients -> SUBSET Calls]
          /\ deferred \in [Clients -> SUBSET Calls]
      BY DEF Typed
    <3> QED BY <3>1, <3>2, <3>3
  <2> QED BY <1>3, <2>2, <2>3
<1>7. CASE OnClosed(c, e)
  <2>1. aborted' \in [Clients -> SUBSET Calls]
    BY <1>2, <1>7 DEF OnClosed, Cancel, Typed
  <2>2. deferred' \in [Clients -> SUBSET Calls]
    BY <1>7 DEF OnClosed, Typed
  <2> QED BY <1>3, <1>7, <2>1, <2>2 DEF OnClosed, Typed
<1> QED
  BY <1>4, <1>5, <1>6, <1>7

LEMMA ReceiveTyped == ASSUME Typed, NEW c \in Clients, Receive(c) PROVE Typed'
<1> DEFINE f == Head(inbox[c])
<1>1. inbox[c] # <<>> /\ UNCHANGED <<daemon, link, opens, phase, opened, controller, recalled, bounds>>
  BY DEF Receive
<1>2. /\ Tail(inbox[c]) \in Seq(Frames(Len(journal)))
      /\ \/ f \in EventFrames(Len(journal)) /\ f.type = "event"
         \/ f \in Replies /\ f.type # "event"
      /\ link[c] # Nobody
  BY <1>1, HeadOfInbox
<1>3. inbox' = [inbox EXCEPT ![c] = Tail(inbox[c])]
  BY DEF Receive
<1>4. DaemonTyped'
  BY <1>1 DEF daemon, Typed, DaemonTyped
<1>5. inbox' \in [Clients -> Seq(Frames(Len(journal')))] /\ UNCHANGED <<journal, link, opens>>
  BY <1>1, <1>2, <1>3 DEF daemon, Typed, LinksTyped
<1>6. Linked'
  <2>1. \A d \in Clients : d # c => inbox'[d] = inbox[d] /\ told'[d] = told[d]
    BY <1>3 DEF Receive, Typed, LinksTyped
  <2> QED BY <2>1, <1>2, <1>5 DEF Typed, Linked
<1>7. CASE f.type = "event"
  <2>1. OnEvent(c, f) /\ UNCHANGED <<told, asked>> /\ f \in EventFrames(Len(journal))
    BY <1>2, <1>7 DEF Receive
  <2> HIDE DEF f
  <2>2. /\ cursor' \in [Clients -> 0 .. Len(journal)]
        /\ deferred' \in [Clients -> SUBSET Calls] /\ ignored' \in [Clients -> SUBSET Calls]
        /\ exec' \in [Clients -> [Calls -> ExecState]] /\ aborted' \in [Clients -> SUBSET Calls]
        /\ outbox' \in [Clients -> Seq(Commands)]
    BY <2>1, OnEventTyped
  <2>3. LinksTyped'
    BY <1>1, <1>5, <2>1, <2>2 DEF Typed, LinksTyped
  <2>4. SessionsTyped'
    BY <1>1, <1>5, <2>2 DEF Typed, SessionsTyped
  <2> QED BY <1>4, <1>6, <2>3, <2>4 DEF Typed
<1>8. CASE f.type # "event"
  <2>1. /\ told' = [told EXCEPT ![c] = Append(told[c], f)]
        /\ asked' = [asked EXCEPT ![c] = IF f.type = "attached" THEN @ ELSE "none"]
        /\ UNCHANGED <<cursor, deferred, ignored, exec, aborted, outbox>>
        /\ f \in Replies
    BY <1>2, <1>8 DEF Receive
  <2> HIDE DEF f
  <2>2. Append(told[c], f) \in Seq(Replies)
    BY <2>1, InAppend DEF Typed, LinksTyped
  <2>3. LinksTyped'
    BY <1>1, <1>5, <2>1, <2>2 DEF Typed, LinksTyped
  <2>4. SessionsTyped'
    BY <1>1, <1>5, <2>1 DEF Typed, SessionsTyped
  <2> QED BY <1>4, <1>6, <2>3, <2>4 DEF Typed
<1> QED
  BY <1>7, <1>8

\* The oldest reply a client has not acted on.
LEMMA HeadOfTold ==
    ASSUME Typed, NEW c \in Clients, told[c] # <<>>
    PROVE  /\ Tail(told[c]) \in Seq(Replies) /\ Head(told[c]) \in Replies
           /\ ToSet(told[c]) = {Head(told[c])} \cup ToSet(Tail(told[c]))
           /\ link[c] # Nobody
BY InHeadTail DEF Typed, LinksTyped, Linked

LEMMA TellTyped == ASSUME Typed, NEW c \in Clients, Tell(c) PROVE Typed'
<1> DEFINE f == Head(told[c])
<1>1. /\ told[c] # <<>> /\ told' = [told EXCEPT ![c] = Tail(told[c])]
      /\ UNCHANGED <<daemon, link, inbox, opens, asked, cursor, deferred, ignored, exec, bounds>>
      /\ ToldAttached(c, f) \/ ToldOpened(c, f) \/ ToldRefused(c, f)
  BY DEF Tell
<1>2. Tail(told[c]) \in Seq(Replies) /\ f \in Replies /\ link[c] # Nobody
  BY <1>1, HeadOfTold
<1> HIDE DEF f
<1>3. DaemonTyped'
  BY <1>1 DEF daemon, Typed, DaemonTyped
<1>4. Linked'
  BY <1>1, <1>2 DEF Typed, LinksTyped, Linked
<1>5. outbox' \in [Clients -> Seq(Commands)]
  <2>1. <<Command("attach")>> \o <<Command("manifest")>> \in Seq(Commands)
        /\ <<>> \o <<Command("manifest")>> \in Seq(Commands)
    BY CommandTyped, ConcatProperties
  <2>2. \/ UNCHANGED outbox
        \/ Send(c, <<Command("manifest")>>) \/ Send(c, <<>>)
        \/ Send(c, <<Command("manifest"), Command("control")>>)
        \/ Send(c, <<Command("attach")>> \o <<Command("manifest")>>)
        \/ Send(c, <<>> \o <<Command("manifest")>>)
    BY <1>1 DEF ToldAttached, ToldOpened, ToldRefused
  <2> QED BY <2>1, <2>2, CommandTyped, SendTyped DEF Typed, LinksTyped
<1>6. LinksTyped'
  BY <1>1, <1>2, <1>5 DEF daemon, Typed, LinksTyped
<1>7. /\ phase' \in [Clients -> {"none", "opening", "following"}]
      /\ opened' \in [Clients -> BOOLEAN] /\ controller' \in [Clients -> BOOLEAN]
      /\ recalled' \in [Clients -> BOOLEAN] /\ aborted' \in [Clients -> SUBSET Calls]
  <2>1. CASE ToldAttached(c, f)
    <3>1. f.controller \in BOOLEAN
      BY <1>2, <2>1, RepliesApart DEF ToldAttached
    <3> QED BY <2>1, <3>1 DEF ToldAttached, AbortAll, Running, Typed, SessionsTyped
  <2>2. CASE ToldOpened(c, f)
    <3>1. f.again \in BOOLEAN
      BY <1>2, <2>2, RepliesApart DEF ToldOpened
    <3> QED BY <2>2, <3>1 DEF ToldOpened, Typed, SessionsTyped
  <2>3. CASE ToldRefused(c, f)
    BY <2>3 DEF ToldRefused, Typed, SessionsTyped
  <2> QED BY <1>1, <2>1, <2>2, <2>3
<1>8. SessionsTyped'
  BY <1>1, <1>7 DEF daemon, Typed, SessionsTyped
<1> QED
  BY <1>3, <1>4, <1>6, <1>8 DEF Typed

LEMMA NextTyped == Typed /\ [Next]_vars => Typed'
<1> SUFFICES ASSUME Typed, [Next]_vars PROVE Typed'
  OBVIOUS
<1>1. ASSUME NEW k \in Calls, CallTool(k) \/ TimerFires(k) \/ AbortCall(k) PROVE Typed'
  BY <1>1, JournaledTyped, BrokerStepTyped DEF CallTool, TimerFires, AbortCall
<1>2. ASSUME NEW n \in conns, CleanUp(n) PROVE Typed'
  BY <1>2, CleanUpTyped
<1>3. CASE Crash
  BY <1>3, CrashTyped
<1>4. ASSUME NEW c \in Clients,
             \/ ServeAttach(c) \/ ServeOpen(c) \/ ServeControl(c)
             \/ ServeManifest(c) \/ ServeResult(c)
      PROVE Typed'
  BY <1>4, ServeAttachTyped, ServeOpenTyped, ServeControlTyped, ServeManifestTyped, ServeResultTyped
<1>5. ASSUME NEW c \in Clients,
             \/ Connect(c) \/ Drop(c) \/ CommandTimesOut(c)
             \/ Start(c, TRUE) \/ Start(c, FALSE) \/ Control(c) \/ Quit(c)
      PROVE Typed'
  BY <1>5, ConnectTyped, DropTyped, CommandTimesOutTyped, StartTyped, ControlTyped, QuitTyped
<1>6. ASSUME NEW c \in Clients,
             \/ Receive(c) \/ Tell(c) \/ FlushDeferred(c)
             \/ \E k \in Calls : Decide(c, k) \/ Return(c, k)
      PROVE Typed'
  BY <1>6, ReceiveTyped, TellTyped, FlushDeferredTyped, ExecutorTyped
<1>7. CASE UNCHANGED vars
  <2>1. DaemonTyped'
    BY <1>7 DEF vars, daemon, network, Typed, DaemonTyped
  <2>2. LinksTyped'
    BY <1>7 DEF vars, daemon, network, session, Typed, LinksTyped
  <2>3. SessionsTyped'
    BY <1>7 DEF vars, daemon, session, executor, Typed, SessionsTyped
  <2>4. Linked'
    BY <1>7 DEF vars, network, session, Typed, Linked
  <2> QED BY <2>1, <2>2, <2>3, <2>4 DEF Typed
<1> QED
  BY <1>1, <1>2, <1>3, <1>4, <1>5, <1>6, <1>7 DEF Next

-----------------------------------------------------------------------------
(* The seat.                                                               *)

\* Replies a client has not acted on.
Coming(c) == ToSet(inbox[c]) \cup ToSet(told[c])

\* Replies that give the seat, and replies to an attach.
Grants == {Attached(TRUE), Opened(FALSE)}
AttachReplies == {Attached(TRUE), Attached(FALSE)}

\* c will hear what came of an attach.
AttachComing(c) ==
    Coming(c) \cap AttachReplies # {} \/ Command("attach") \in ToSet(outbox[c])

\* A reply that gave the seat stands for as long as the daemon holds the connection; and
\* once no attach is open, a client that is the controller by this connection has it.
SeatStands(c) ==
    /\ link[c] \in conns /\ Coming(c) \cap Grants # {} => seat = link[c]
    /\ link[c] \in subs /\ ~AttachComing(c) /\ controller[c] /\ ~recalled[c] => seat = link[c]

\* Of every client.
Seats == \A c \in Clients : SeatStands(c)

LEMMA GrantsAreReplies == Grants \subseteq Replies /\ AttachReplies \subseteq Replies
BY DEF Grants, AttachReplies, Replies

\* A step of the daemon that takes the seat from no connection it keeps, and gives it to
\* the one it tells so.
LEMMA DaemonStepSeats ==
    ASSUME Typed, Seats,
           NEW events \in Seq(JournalEntry), NEW followers,
           NEW replies \in [Clients -> Seq(Frames(Len(journal)))],
           Publish(events, followers, replies),
           UNCHANGED <<link, session>>, conns' \subseteq conns,
           \A c \in Clients : link[c] \in conns' /\ seat = link[c] => seat' = seat,
           \A c \in Clients :
              link[c] \in conns' /\ ToSet(replies[c]) \cap Grants # {} => seat' = link[c],
           \A c \in Clients :
              Command("attach") \in ToSet(outbox[c])
                 => Command("attach") \in ToSet(outbox'[c]) \/ ToSet(replies[c]) \cap AttachReplies # {},
           \A c \in Clients :
              link[c] \in subs' => link[c] \in subs \/ ToSet(replies[c]) \cap AttachReplies # {},
           subs' \subseteq conns'
    PROVE  Seats'
<1> SUFFICES ASSUME NEW c \in Clients PROVE SeatStands(c)'
  BY DEF Seats
<1>1. /\ ToSet(inbox'[c]) \cap Replies = (ToSet(inbox[c]) \cup ToSet(replies[c])) \cap Replies
  BY PublishTyped DEF Typed
<1>2. UNCHANGED <<link, told, controller, recalled>>
  BY DEF session
<1>3. Coming(c)' \cap Grants = (Coming(c) \cup ToSet(replies[c])) \cap Grants
      /\ Coming(c)' \cap AttachReplies = (Coming(c) \cup ToSet(replies[c])) \cap AttachReplies
  BY <1>1, <1>2, GrantsAreReplies DEF Coming
<1>4. SeatStands(c)
  BY DEF Seats
<1>5. ASSUME link[c] \in conns', Coming(c)' \cap Grants # {} PROVE seat' = link[c]
  BY <1>3, <1>4, <1>5 DEF SeatStands
<1>6. ASSUME link[c] \in subs', ~AttachComing(c)', controller[c], ~recalled[c] PROVE seat' = link[c]
  <2>1. ToSet(replies[c]) \cap AttachReplies = {} /\ ~AttachComing(c)
    BY <1>3, <1>6 DEF AttachComing
  <2>2. link[c] \in subs /\ link[c] \in conns'
    BY <1>6, <2>1
  <2> QED BY <1>4, <1>6, <2>1, <2>2 DEF SeatStands
<1> QED
  BY <1>2, <1>5, <1>6 DEF SeatStands

\* A step of one plugin concerns no other's seat.
LEMMA PluginStepSeats ==
    ASSUME Seats, NEW c \in Clients, UNCHANGED <<subs, seat>>,
           \A d \in Clients \ {c} :
              /\ link'[d] = link[d] /\ inbox'[d] = inbox[d] /\ told'[d] = told[d]
              /\ outbox'[d] = outbox[d] /\ controller'[d] = controller[d]
              /\ recalled'[d] = recalled[d]
              /\ link[d] \in conns' => link[d] \in conns,
           SeatStands(c)'
    PROVE  Seats'
<1> SUFFICES ASSUME NEW d \in Clients, d # c PROVE SeatStands(d)'
  BY DEF Seats
<1>1. SeatStands(d)
  BY DEF Seats
<1> QED
  BY <1>1 DEF SeatStands, Coming, AttachComing

\* claim gives the seat away from no connection but one of the same client.
LEMMA ClaimSticks ==
    ASSUME Typed, NEW c \in Clients, seat' \in {seat, link[c]}, MayClaim(c) \/ UNCHANGED seat,
           NEW d \in Clients, link[d] \in conns, seat = link[d]
    PROVE  seat' = seat
<1>1. link[d] # Nobody /\ link[d].client = d
  BY NobodyApart DEF Typed, DaemonTyped, Linked
<1> QED
  BY <1>1 DEF MayClaim

\* A command other than an attach leaves an attach that waits where it is.
LEMMA AttachWaits ==
    ASSUME Typed, NEW c \in Clients, NEW type, type # "attach", Serving(c, type), NEW d \in Clients,
           Command("attach") \in ToSet(outbox[d])
    PROVE  Command("attach") \in ToSet(outbox'[d])
<1>1. Command("attach") # Head(outbox[c])
  BY ServingTyped DEF Command
<1> QED
  BY <1>1, ServingTyped

\* Serving a command of c other than an attach.
LEMMA ServeSeats ==
    ASSUME Typed, Seats, NEW c \in Clients, NEW type, type # "attach", Serving(c, type),
           NEW events \in Seq(JournalEntry), NEW replies \in [Clients -> Seq(Frames(Len(journal)))],
           Publish(events, subs, replies), UNCHANGED <<link, session, conns, subs>>,
           seat' \in {seat, link[c]}, MayClaim(c) \/ UNCHANGED seat,
           \A d \in Clients : ToSet(replies[d]) \cap Grants # {} => seat' = link[d]
    PROVE  Seats'
<1>1. subs' \subseteq conns' /\ conns' \subseteq conns
  BY DEF Typed, DaemonTyped
<1>2. \A d \in Clients : link[d] \in conns' /\ seat = link[d] => seat' = seat
  BY ClaimSticks
<1>3. \A d \in Clients :
         Command("attach") \in ToSet(outbox[d]) => Command("attach") \in ToSet(outbox'[d])
  BY AttachWaits
<1> QED
  BY <1>1, <1>2, <1>3, DaemonStepSeats

LEMMA SetOfOne == ASSUME NEW x, NEW S PROVE ToSet(<<x>>) \cap S # {} <=> x \in S
BY InOne

LEMMA RepliesDiffer ==
    /\ Opened(FALSE) \in Grants /\ Opened(TRUE) \notin Grants /\ Refused \notin Grants
    /\ Attached(TRUE) \in Grants /\ Attached(FALSE) \notin Grants
    /\ Opened(FALSE) \notin AttachReplies /\ Opened(TRUE) \notin AttachReplies
    /\ Refused \notin AttachReplies
<1>1. /\ \A b \in BOOLEAN : Attached(b).type = "attached" /\ Attached(b).controller = b
      /\ \A b \in BOOLEAN : Opened(b).type = "opened" /\ Opened(b).again = b
      /\ Refused.type = "refused"
  BY DEF Attached, Opened, Refused
<1> QED
  BY <1>1 DEF Grants, AttachReplies

LEMMA ServeAttachSeats == ASSUME Typed, Seats, NEW c \in Clients, ServeAttach(c) PROVE Seats'
<1> DEFINE frames == <<Attached(MayClaim(c))>> \o Replay(c)
           events == IssuedBetween(broker, broker')
           replies == Reply(c, frames)
<1>1. /\ frames \in Seq(Frames(Len(journal)))
      /\ ToSet(frames) \cap Replies = {Attached(MayClaim(c))}
  <2>1. Attached(MayClaim(c)) \in Replies /\ MayClaim(c) \in BOOLEAN
    BY DEF MayClaim, Replies, Attached
  <2>2. Replay(c) \in Seq(EventFrames(Len(journal)))
    BY ReplayTyped
  <2>3. Replay(c) \in Seq(Frames(Len(journal))) /\ ToSet(Replay(c)) \cap Replies = {}
    BY <2>2, SeqMonotonic, InSequence, FramesApart DEF Frames
  <2>4. /\ <<Attached(MayClaim(c))>> \in Seq(Frames(Len(journal)))
        /\ ToSet(<<Attached(MayClaim(c))>>) = {Attached(MayClaim(c))}
    BY <2>1, OneReplyTyped, InOne
  <2> DEFINE first == <<Attached(MayClaim(c))>>
             rest == Replay(c)
  <2>5. first \in Seq(Frames(Len(journal))) /\ rest \in Seq(Frames(Len(journal))) /\ frames = first \o rest
    BY <2>3, <2>4
  <2>6. ToSet(first) = {Attached(MayClaim(c))} /\ ToSet(rest) \cap Replies = {}
    BY <2>3, <2>4
  <2> HIDE DEF first, rest, frames
  <2>7. frames \in Seq(Frames(Len(journal))) /\ ToSet(frames) = ToSet(first) \cup ToSet(rest)
    BY <2>5, InConcat
  <2> QED BY <2>1, <2>6, <2>7
<1>2. Publish(events, subs', replies) /\ events \in Seq(JournalEntry)
  BY JournaledTyped DEF ServeAttach
<1> HIDE DEF frames, events
<1>3. /\ replies \in [Clients -> Seq(Frames(Len(journal)))] /\ replies[c] = frames
      /\ \A d \in Clients : d # c => ToSet(replies[d]) = {}
  BY <1>1, ReplyTyped, InEmpty
<1> HIDE DEF replies
<1>4. /\ UNCHANGED <<link, session, conns>> /\ Serving(c, "attach") /\ link[c] \in conns
      /\ subs' = subs \cup {link[c]} /\ subs' \subseteq conns'
      /\ seat' = IF MayClaim(c) THEN link[c] ELSE seat
  BY DEF ServeAttach, Serving, Typed, DaemonTyped
<1>5. Attached(MayClaim(c)) \in AttachReplies /\ (~MayClaim(c) => Attached(MayClaim(c)) \notin Grants)
  BY RepliesDiffer DEF AttachReplies, MayClaim
<1>6. ToSet(replies[c]) \cap AttachReplies # {} /\ (~MayClaim(c) => ToSet(replies[c]) \cap Grants = {})
  BY <1>1, <1>3, <1>5, GrantsAreReplies
<1>7. \A d \in Clients : link[d] \in conns' /\ seat = link[d] => seat' = seat
  BY <1>4, ClaimSticks
<1>8. \A d \in Clients : link[d] \in conns' /\ ToSet(replies[d]) \cap Grants # {} => seat' = link[d]
  BY <1>3, <1>4, <1>6
<1>9. \A d \in Clients :
         Command("attach") \in ToSet(outbox[d])
            => Command("attach") \in ToSet(outbox'[d]) \/ ToSet(replies[d]) \cap AttachReplies # {}
  <2>1. \A d \in Clients : d # c => outbox'[d] = outbox[d]
    BY <1>4, ServingTyped
  <2> QED BY <2>1, <1>6
<1>10. \A d \in Clients :
          link[d] \in subs' => link[d] \in subs \/ ToSet(replies[d]) \cap AttachReplies # {}
  <2>1. \A d \in Clients : link[d] = link[c] => d = c
    BY <1>4, NobodyApart DEF Typed, DaemonTyped, Linked
  <2> QED BY <2>1, <1>4, <1>6
<1>11. conns' \subseteq conns
  BY <1>4
<1> QED
  BY <1>2, <1>3, <1>4, <1>7, <1>8, <1>9, <1>10, <1>11, DaemonStepSeats

LEMMA ServeOpenSeats == ASSUME Typed, Seats, NEW c \in Clients, ServeOpen(c) PROVE Seats'
<1>1. \E f \in Replies, events \in Seq(JournalEntry) :
         /\ Publish(events, subs, Reply(c, <<f>>))
         /\ f \in Grants => seat' = link[c]
  <2>1. Opened(TRUE) \in Replies /\ Opened(FALSE) \in Replies /\ Refused \in Replies
    BY DEF Replies
  <2>2. /\ <<>> \in Seq(JournalEntry) /\ IssuedBetween(broker, broker') \in Seq(JournalEntry)
    BY JournaledTyped
  <2>3. \/ Publish(<<>>, subs, Reply(c, <<Opened(TRUE)>>))
        \/ Publish(<<>>, subs, Reply(c, <<Refused>>))
        \/ /\ Publish(IssuedBetween(broker, broker'), subs, Reply(c, <<Opened(FALSE)>>))
           /\ seat' = link[c]
    BY DEF ServeOpen
  <2> QED BY <2>1, <2>2, <2>3, RepliesDiffer
<1>2. PICK f \in Replies, events \in Seq(JournalEntry) :
         /\ Publish(events, subs, Reply(c, <<f>>))
         /\ f \in Grants => seat' = link[c]
  BY <1>1
<1> DEFINE replies == Reply(c, <<f>>)
<1>3. /\ replies \in [Clients -> Seq(Frames(Len(journal)))] /\ replies[c] = <<f>>
      /\ \A d \in Clients : d # c => ToSet(replies[d]) = {}
  BY OneReplyTyped, ReplyTyped, InEmpty, ZenonT(60)
<1> HIDE DEF replies
<1>4. \A d \in Clients : ToSet(replies[d]) \cap Grants # {} => seat' = link[d]
  BY <1>2, <1>3, SetOfOne
<1>5. Serving(c, "open") /\ UNCHANGED <<link, session, conns, subs>> /\ seat' \in {seat, link[c]}
      /\ (MayClaim(c) \/ UNCHANGED seat)
  BY DEF ServeOpen
<1>6. Publish(events, subs, replies)
  BY <1>2 DEF replies
<1> QED
  BY <1>3, <1>4, <1>5, <1>6, ServeSeats

\* The other commands are answered with nothing that could give the seat.
LEMMA ServeOtherSeats ==
    ASSUME Typed, Seats, NEW c \in Clients,
           ServeControl(c) \/ ServeManifest(c) \/ ServeResult(c)
    PROVE  Seats'
<1>1. \E events \in Seq(JournalEntry) :
         Publish(events, subs, NoReplies) \/ UNCHANGED <<journal, inbox>>
  <2> DEFINE b == Reconciled(broker, seat', owner)
  <2>1. \/ Publish(IssuedBetween(broker, broker'), subs, NoReplies)
        \/ Publish(IssuedBetween(broker, b) \o CanceledOf(b, Open(b)), subs, NoReplies)
        \/ Publish(Entries("resolved", {Head(outbox[c]).call}), subs, NoReplies)
        \/ UNCHANGED <<journal, inbox>>
    BY DEF ServeControl, ServeManifest, ServeResult
  <2>2. /\ IssuedBetween(broker, broker') \in Seq(JournalEntry) /\ <<>> \in Seq(JournalEntry)
        /\ IssuedBetween(broker, b) \o CanceledOf(b, Open(b)) \in Seq(JournalEntry)
    BY JournaledTyped
  <2>3. Entries("resolved", {Head(outbox[c]).call}) \in Seq(JournalEntry)
    BY EntriesTyped DEF Names
  <2> HIDE DEF b
  <2> QED BY <2>1, <2>2, <2>3
<1>2. PICK events \in Seq(JournalEntry) :
         Publish(events, subs, NoReplies) \/ UNCHANGED <<journal, inbox>>
  BY <1>1
<1>3. PICK type : type # "attach" /\ Serving(c, type)
  BY DEF ServeControl, ServeManifest, ServeResult
<1>4. /\ UNCHANGED <<link, session, conns, subs>> /\ seat' \in {seat, link[c]}
      /\ (MayClaim(c) \/ UNCHANGED seat)
  BY DEF ServeControl, ServeManifest, ServeResult
<1>5. CASE Publish(events, subs, NoReplies)
  <2>1. NoReplies \in [Clients -> Seq(Frames(Len(journal)))]
        /\ \A d \in Clients : ToSet(NoReplies[d]) = {}
    BY InEmpty DEF NoReplies
  <2> QED BY <1>3, <1>4, <1>5, <2>1, ServeSeats
<1>6. CASE UNCHANGED <<journal, inbox>>
  <2> SUFFICES ASSUME NEW d \in Clients PROVE SeatStands(d)'
    BY DEF Seats
  <2>1. SeatStands(d) /\ UNCHANGED <<inbox, told, controller, recalled, link, conns, subs>>
    BY <1>4, <1>6 DEF Seats, session
  <2>2. link[d] \in conns /\ seat = link[d] => seat' = seat
    BY <1>4, ClaimSticks
  <2>3. Command("attach") \in ToSet(outbox[d]) => Command("attach") \in ToSet(outbox'[d])
    BY <1>3, AttachWaits
  <2>4. subs \subseteq conns
    BY DEF Typed, DaemonTyped
  <2> QED BY <2>1, <2>2, <2>3, <2>4 DEF SeatStands, Coming, AttachComing
<1> QED
  BY <1>2, <1>5, <1>6

LEMMA ConnectSeats == ASSUME Typed, Seats, NEW c \in Clients, Connect(c) PROVE Seats'
<1> DEFINE n == [client |-> c, id |-> opens']
<1>1. /\ link' = [link EXCEPT ![c] = n] /\ conns' = conns \cup {n} /\ n.id = opens + 1
      /\ opens \in Nat /\ n \in Conn
      /\ UNCHANGED <<subs, seat, inbox, told, controller, recalled>> /\ link[c] = Nobody
  BY DEF Connect, session, Typed, DaemonTyped, LinksTyped, Conn
<1> HIDE DEF n
<1>2. n \notin conns
  BY <1>1 DEF Typed, DaemonTyped, Conn
<1>3. SeatStands(c)'
  <2>1. link'[c] \notin subs'
    BY <1>1, <1>2 DEF Typed, DaemonTyped, LinksTyped
  <2>2. Coming(c)' = {}
    BY <1>1, InEmpty DEF Typed, Linked, Coming
  <2> QED BY <2>1, <2>2 DEF SeatStands
<1>4. \A d \in Clients \ {c} :
         /\ link'[d] = link[d] /\ inbox'[d] = inbox[d] /\ told'[d] = told[d]
         /\ outbox'[d] = outbox[d] /\ controller'[d] = controller[d]
         /\ recalled'[d] = recalled[d]
         /\ link[d] \in conns' => link[d] \in conns
  <2>1. \A d \in Clients \ {c} : link'[d] = link[d] /\ outbox'[d] = outbox[d] /\ link[d] # n
    <3>1. \A d \in Clients \ {c} : link'[d] = link[d] /\ outbox'[d] = outbox[d]
      BY <1>1 DEF Connect, Typed, LinksTyped
    <3>2. \A d \in Clients : link[d] # Nobody => link[d] \in Conn /\ link[d].id <= opens
      BY DEF Typed, LinksTyped, Linked
    <3>3. n # Nobody
      BY <1>1, NobodyApart
    <3> QED BY <3>1, <3>2, <3>3, <1>1 DEF Conn
  <2> QED BY <1>1, <2>1
<1> QED
  BY <1>1, <1>3, <1>4, PluginStepSeats

\* A client without a connection has no seat to stand for.
LEMMA UnlinkedSeats ==
    ASSUME Typed, Seats, NEW c \in Clients, Drop(c) \/ Quit(c) \/ CommandTimesOut(c)
    PROVE  Seats'
<1>1. UNCHANGED <<subs, seat, conns, told>>
  BY DEF Drop, Quit, CommandTimesOut, daemon, session
<1>2. link'[c] \notin conns
  BY NobodyApart DEF Drop, Quit, CommandTimesOut, Typed, DaemonTyped, LinksTyped
<1>3. SeatStands(c)'
  BY <1>1, <1>2 DEF SeatStands, Typed, DaemonTyped
<1>4. \A d \in Clients \ {c} :
         /\ link'[d] = link[d] /\ inbox'[d] = inbox[d] /\ told'[d] = told[d]
         /\ outbox'[d] = outbox[d] /\ controller'[d] = controller[d]
         /\ recalled'[d] = recalled[d]
         /\ link[d] \in conns' => link[d] \in conns
  BY <1>1 DEF Drop, Quit, CommandTimesOut, daemon, session, Typed, LinksTyped, SessionsTyped
<1> QED
  BY <1>1, <1>3, <1>4, PluginStepSeats

\* Steps of a plugin that send commands and learn nothing about the seat.
LEMMA SendingSeats ==
    ASSUME Seats, NEW c \in Clients,
           UNCHANGED <<subs, seat, conns, link, inbox, told, controller, recalled>>,
           ToSet(outbox[c]) \subseteq ToSet(outbox'[c]),
           \A d \in Clients : d # c => outbox'[d] = outbox[d]
    PROVE  Seats'
BY DEF Seats, SeatStands, Coming, AttachComing

LEMMA StartSeats ==
    ASSUME Typed, Seats, NEW c \in Clients, Start(c, TRUE) \/ Start(c, FALSE) \/ Control(c)
    PROVE  Seats'
<1>1. \/ Send(c, <<Command("attach")>>) \/ Send(c, <<>>) \/ Send(c, <<Command("open")>>)
      \/ Send(c, <<Command("control")>>)
  BY DEF Start, Control, Ask
<1>2. /\ ToSet(outbox[c]) \subseteq ToSet(outbox'[c])
      /\ \A d \in Clients : d # c => outbox'[d] = outbox[d]
  BY <1>1, CommandTyped, SendTyped
<1>3. UNCHANGED <<subs, seat, conns, link, inbox, told, controller, recalled>>
  BY DEF Start, Control, daemon, session
<1> QED
  BY <1>2, <1>3, SendingSeats

LEMMA ExecutorSeats ==
    ASSUME Typed, Seats, NEW c \in Clients,
           FlushDeferred(c) \/ \E k \in Calls : Decide(c, k) \/ Return(c, k)
    PROVE  Seats'
<1>1. /\ ToSet(outbox[c]) \subseteq ToSet(outbox'[c])
      /\ \A d \in Clients : d # c => outbox'[d] = outbox[d]
  <2>1. CASE UNCHANGED outbox
    BY <2>1
  <2>2. CASE HandleCalls(c, deferred[c], TRUE)
    BY <2>2, HandleCallsTyped
  <2>3. ASSUME NEW k \in Calls, Send(c, <<Result(k)>>)
        PROVE  /\ ToSet(outbox[c]) \subseteq ToSet(outbox'[c])
               /\ \A d \in Clients : d # c => outbox'[d] = outbox[d]
    BY <2>3, CommandTyped, SendTyped
  <2> QED BY <2>1, <2>2, <2>3 DEF FlushDeferred, Decide, Return, Finished
<1>2. UNCHANGED <<subs, seat, conns, link, inbox, told, controller, recalled>>
  BY DEF FlushDeferred, Decide, Return, daemon, session
<1> QED
  BY <1>1, <1>2, SendingSeats

\* A reply that is received is one that is told.
LEMMA ReceiveSeats == ASSUME Typed, Seats, NEW c \in Clients, Receive(c) PROVE Seats'
<1> DEFINE f == Head(inbox[c])
<1>1. /\ inbox[c] # <<>> /\ inbox' = [inbox EXCEPT ![c] = Tail(inbox[c])]
      /\ UNCHANGED <<daemon, link, controller, recalled>>
  BY DEF Receive
<1>2. UNCHANGED <<subs, seat, conns, link, controller, recalled>>
  BY <1>1 DEF daemon
<1>3. /\ ToSet(inbox[c]) = {f} \cup ToSet(Tail(inbox[c]))
      /\ \/ f \in EventFrames(Len(journal)) /\ f.type = "event" /\ f \notin Replies
         \/ f \in Replies /\ f.type # "event"
  BY <1>1, HeadOfInbox, FramesApart
<1>4. inbox'[c] = Tail(inbox[c]) /\ \A d \in Clients : d # c => inbox'[d] = inbox[d]
  BY <1>1 DEF Typed, LinksTyped
<1>5. /\ Coming(c)' \cap Replies = Coming(c) \cap Replies
      /\ ToSet(outbox[c]) \subseteq ToSet(outbox'[c])
      /\ \A d \in Clients : d # c => outbox'[d] = outbox[d] /\ told'[d] = told[d]
  <2>1. CASE f.type = "event"
    <3>1. OnEvent(c, f) /\ UNCHANGED told /\ f \in EventFrames(Len(journal))
      BY <1>3, <2>1, FramesApart DEF Receive
    <3>2. f \notin Replies
      BY <1>3, <2>1
    <3> HIDE DEF f
    <3>3. /\ ToSet(outbox[c]) \subseteq ToSet(outbox'[c])
          /\ \A d \in Clients : d # c => outbox'[d] = outbox[d]
      BY <3>1, OnEventTyped
    <3> QED BY <1>3, <1>4, <3>1, <3>2, <3>3 DEF Coming
  <2>2. CASE f.type # "event"
    <3>1. told' = [told EXCEPT ![c] = Append(told[c], f)] /\ UNCHANGED outbox /\ f \in Replies
      BY <1>3, <2>2 DEF Receive
    <3>2. told[c] \in Seq(Replies)
      BY DEF Typed, LinksTyped
    <3> HIDE DEF f
    <3>3. ToSet(Append(told[c], f)) = ToSet(told[c]) \cup {f}
      BY <3>1, <3>2, InAppend
    <3>4. told'[c] = Append(told[c], f) /\ \A d \in Clients : d # c => told'[d] = told[d]
      BY <3>1 DEF Typed, LinksTyped
    <3> QED BY <1>3, <1>4, <3>1, <3>3, <3>4 DEF Coming
  <2> QED BY <2>1, <2>2
<1>6. SeatStands(c)'
  <2>1. Coming(c)' \cap Grants = Coming(c) \cap Grants
        /\ Coming(c)' \cap AttachReplies = Coming(c) \cap AttachReplies
    BY <1>5, GrantsAreReplies
  <2>2. AttachComing(c) => AttachComing(c)'
    BY <1>5, <2>1 DEF AttachComing
  <2>3. SeatStands(c)
    BY DEF Seats
  <2> QED BY <1>2, <2>1, <2>2, <2>3 DEF SeatStands
<1>7. \A d \in Clients \ {c} :
         /\ link'[d] = link[d] /\ inbox'[d] = inbox[d] /\ told'[d] = told[d]
         /\ outbox'[d] = outbox[d] /\ controller'[d] = controller[d]
         /\ recalled'[d] = recalled[d]
         /\ link[d] \in conns' => link[d] \in conns
  BY <1>2, <1>4, <1>5
<1> QED
  BY <1>2, <1>6, <1>7, PluginStepSeats

\* A client that is told it has the seat has it.
LEMMA TellSeats == ASSUME Typed, Seats, NEW c \in Clients, Tell(c) PROVE Seats'
<1> DEFINE f == Head(told[c])
<1>1. /\ told[c] # <<>> /\ told' = [told EXCEPT ![c] = Tail(told[c])]
      /\ UNCHANGED <<daemon, link, inbox>>
      /\ ToldAttached(c, f) \/ ToldOpened(c, f) \/ ToldRefused(c, f)
  BY DEF Tell
<1>2. f \in Replies /\ ToSet(told[c]) = {f} \cup ToSet(Tail(told[c]))
  BY <1>1, HeadOfTold
<1> HIDE DEF f
<1>3. UNCHANGED <<subs, seat, conns, link, inbox>>
  BY <1>1 DEF daemon
<1>4. told'[c] = Tail(told[c]) /\ \A d \in Clients : d # c => told'[d] = told[d]
  BY <1>1 DEF Typed, LinksTyped
<1>5. Coming(c) = Coming(c)' \cup {f}
  BY <1>2, <1>3, <1>4 DEF Coming
<1>6. /\ ToSet(outbox[c]) \subseteq ToSet(outbox'[c])
      /\ \A d \in Clients : d # c => outbox'[d] = outbox[d]
  <2>1. <<Command("attach")>> \o <<Command("manifest")>> \in Seq(Commands)
        /\ <<>> \o <<Command("manifest")>> \in Seq(Commands)
    BY CommandTyped, ConcatProperties
  <2>2. \/ UNCHANGED outbox
        \/ Send(c, <<Command("manifest")>>) \/ Send(c, <<>>)
        \/ Send(c, <<Command("manifest"), Command("control")>>)
        \/ Send(c, <<Command("attach")>> \o <<Command("manifest")>>)
        \/ Send(c, <<>> \o <<Command("manifest")>>)
    BY <1>1 DEF ToldAttached, ToldOpened, ToldRefused
  <2> QED BY <2>1, <2>2, CommandTyped, SendTyped
<1>7. \A d \in Clients \ {c} : controller'[d] = controller[d] /\ recalled'[d] = recalled[d]
  BY <1>1 DEF ToldAttached, ToldOpened, ToldRefused, Typed, SessionsTyped
<1>8. SeatStands(c)'
  <2>1. SeatStands(c) /\ subs \subseteq conns
    BY DEF Seats, Typed, DaemonTyped
  <2>2. link[c] \in conns /\ f \in Grants => seat = link[c]
    BY <2>1, <1>5 DEF SeatStands
  <2>3. link[c] \in conns /\ Coming(c)' \cap Grants # {} => seat = link[c]
    BY <2>1, <1>5 DEF SeatStands
  <2>4. f \notin AttachReplies /\ AttachComing(c) => AttachComing(c)'
    BY <1>5, <1>6 DEF AttachComing
  <2>5. ASSUME link[c] \in subs, ~AttachComing(c)', controller'[c], ~recalled'[c]
        PROVE  seat = link[c]
    <3>1. CASE ToldAttached(c, f)
      <4>1. f.type = "attached" /\ controller'[c] = f.controller
        BY <3>1 DEF ToldAttached, Typed, SessionsTyped
      <4>2. f = Attached(TRUE)
        BY <4>1, <1>2, <2>5, RepliesApart
      <4> QED BY <4>2, <2>1, <2>2, <2>5 DEF Grants
    <3>2. CASE ToldOpened(c, f)
      <4>1. f.type = "opened" /\ recalled'[c] = f.again
        BY <3>2 DEF ToldOpened, Typed, SessionsTyped
      <4>2. f = Opened(FALSE)
        BY <4>1, <1>2, <2>5, RepliesApart
      <4> QED BY <4>2, <2>1, <2>2, <2>5 DEF Grants
    <3>3. CASE ToldRefused(c, f)
      <4>1. f \notin AttachReplies /\ UNCHANGED <<controller, recalled>>
        BY <3>3, <1>2, RepliesApart, RepliesDiffer DEF ToldRefused
      <4> QED BY <4>1, <2>1, <2>4, <2>5 DEF SeatStands
    <3> QED BY <1>1, <3>1, <3>2, <3>3
  <2> QED BY <1>3, <2>3, <2>5 DEF SeatStands
<1> QED
  BY <1>3, <1>4, <1>6, <1>7, <1>8, PluginStepSeats

LEMMA InitSeats == Init => Seats
BY NobodyApart DEF Init, Seats, SeatStands

\* Whatever interleaving of connections, seats and replies: the seat is where it was said to be.
LEMMA NextSeats == Typed /\ Seats /\ [Next]_vars => Seats'
<1> SUFFICES ASSUME Typed, Seats, [Next]_vars PROVE Seats'
  OBVIOUS
<1>1. ASSUME NEW k \in Calls, CallTool(k) \/ TimerFires(k) \/ AbortCall(k) PROVE Seats'
  <2>1. PICK events \in Seq(JournalEntry) : \E b : DaemonStep(b, events)
    BY <1>1, JournaledTyped DEF CallTool, TimerFires, AbortCall
  <2>2. /\ Publish(events, subs, NoReplies)
        /\ UNCHANGED <<link, session, conns, subs, seat, outbox>>
    BY <2>1 DEF DaemonStep
  <2>3. NoReplies \in [Clients -> Seq(Frames(Len(journal)))]
        /\ \A d \in Clients : ToSet(NoReplies[d]) = {}
    BY InEmpty DEF NoReplies
  <2>4. subs \subseteq conns
    BY DEF Typed, DaemonTyped
  <2> QED BY <2>2, <2>3, <2>4, DaemonStepSeats
<1>2. ASSUME NEW n \in conns, CleanUp(n) PROVE Seats'
  <2>1. /\ Publish(IssuedBetween(broker, broker'), subs', NoReplies)
        /\ UNCHANGED <<link, session, outbox>> /\ conns' = conns \ {n} /\ subs' = subs \ {n}
        /\ seat' = Release(seat, n)
    BY <1>2 DEF CleanUp
  <2>2. NoReplies \in [Clients -> Seq(Frames(Len(journal)))]
        /\ \A d \in Clients : ToSet(NoReplies[d]) = {}
    BY InEmpty DEF NoReplies
  <2>3. subs' \subseteq conns' /\ IssuedBetween(broker, broker') \in Seq(JournalEntry)
    BY <2>1, JournaledTyped DEF Typed, DaemonTyped
  <2>4. \A d \in Clients : link[d] \in conns' /\ seat = link[d] => seat' = seat
    BY <2>1 DEF Release
  <2> QED BY <2>1, <2>2, <2>3, <2>4, DaemonStepSeats
<1>3. CASE Crash
  BY <1>3 DEF Crash, Seats, SeatStands
<1>4. ASSUME NEW c \in Clients,
             \/ ServeAttach(c) \/ ServeOpen(c) \/ ServeControl(c)
             \/ ServeManifest(c) \/ ServeResult(c)
      PROVE Seats'
  BY <1>4, ServeAttachSeats, ServeOpenSeats, ServeOtherSeats
<1>5. ASSUME NEW c \in Clients,
             \/ Connect(c) \/ Drop(c) \/ CommandTimesOut(c)
             \/ Start(c, TRUE) \/ Start(c, FALSE) \/ Control(c) \/ Quit(c)
      PROVE Seats'
  BY <1>5, ConnectSeats, UnlinkedSeats, StartSeats
<1>6. ASSUME NEW c \in Clients,
             \/ Receive(c) \/ Tell(c) \/ FlushDeferred(c)
             \/ \E k \in Calls : Decide(c, k) \/ Return(c, k)
      PROVE Seats'
  BY <1>6, ReceiveSeats, TellSeats, ExecutorSeats
<1>7. CASE UNCHANGED vars
  BY <1>7 DEF vars, daemon, network, session, Seats, SeatStands, Coming, AttachComing
<1> QED
  BY <1>1, <1>2, <1>3, <1>4, <1>5, <1>6, <1>7 DEF Next

\* A settled session has heard what came of every attach.
LEMMA SettledHearsNothing ==
    ASSUME Typed, NEW c \in Clients, Settled(c)
    PROVE  ~AttachComing(c)
<1>1. Coming(c) = {}
  BY InEmpty DEF Settled, Coming
<1>2. outbox[c] \in Seq(Commands)
  BY DEF Typed, LinksTyped
<1>3. ToSet(outbox[c]) = {outbox[c][i] : i \in 1 .. Len(outbox[c])}
  BY <1>2, InSequence
<1>4. Command("attach") \notin ToSet(outbox[c])
  BY <1>3 DEF Settled, Command
<1> QED
  BY <1>1, <1>4 DEF AttachComing

-----------------------------------------------------------------------------
(* What a session is asking for it may run.                                *)

\* A call that waits for its approval is one of a controller, or was aborted.
AskingControls ==
    \A c \in Clients, k \in Calls :
        exec[c][k] = "asking" /\ k \notin aborted[c] => controller[c]

\* A step that starts no call of a session that is not the controller.
LEMMA QuietAsking ==
    ASSUME AskingControls, UNCHANGED <<aborted, controller>>,
           \A c \in Clients, k \in Calls :
              exec'[c][k] = "asking" => exec[c][k] = "asking" \/ controller[c]
    PROVE  AskingControls'
BY DEF AskingControls

LEMMA HandleCallsAsking ==
    ASSUME Typed, NEW c \in Clients, NEW ks, NEW reopened, HandleCalls(c, ks, reopened), controller[c]
    PROVE  \A d \in Clients, k \in Calls :
              exec'[d][k] = "asking" => exec[d][k] = "asking" \/ controller[d]
BY DEF HandleCalls, StartNew, Typed, SessionsTyped

LEMMA OnEventAsking ==
    ASSUME Typed, AskingControls, NEW c \in Clients, NEW f, OnEvent(c, f), UNCHANGED controller
    PROVE  AskingControls'
<1> DEFINE e == journal[f.seq]
<1>1. \/ UNCHANGED <<exec, aborted>>
      \/ controller[c] /\ HandleCalls(c, {e.call}, f.reopen) /\ UNCHANGED aborted
      \/ /\ UNCHANGED exec
         /\ aborted' = [aborted EXCEPT ![c] = Cancel(c, e.call)]
  <2>1. \/ UNCHANGED <<exec, aborted>>
        \/ OnToolCall(c, e.call, f) \/ OnClosed(c, e)
    BY DEF OnEvent
  <2> HIDE DEF e
  <2>2. CASE OnToolCall(c, e.call, f)
    BY <2>2 DEF OnToolCall
  <2>3. CASE OnClosed(c, e)
    BY <2>3 DEF OnClosed, Typed, SessionsTyped
  <2> QED BY <2>1, <2>2, <2>3
<1> HIDE DEF e
<1>2. CASE UNCHANGED <<exec, aborted>>
  BY <1>2 DEF AskingControls
<1>3. CASE controller[c] /\ HandleCalls(c, {e.call}, f.reopen) /\ UNCHANGED aborted
  BY <1>3, HandleCallsAsking, QuietAsking
<1>4. CASE UNCHANGED exec /\ aborted' = [aborted EXCEPT ![c] = Cancel(c, e.call)]
  <2>1. \A d \in Clients : aborted[d] \subseteq aborted'[d]
    BY <1>4 DEF Cancel, Typed, SessionsTyped
  <2> QED BY <1>4, <2>1 DEF AskingControls
<1> QED
  BY <1>1, <1>2, <1>3, <1>4

LEMMA TellAsking == ASSUME Typed, AskingControls, NEW c \in Clients, Tell(c) PROVE AskingControls'
<1> DEFINE f == Head(told[c])
<1>1. /\ UNCHANGED exec
      /\ ToldAttached(c, f) \/ ToldOpened(c, f) \/ ToldRefused(c, f)
  BY DEF Tell
<1>2. f \in Replies
  BY HeadOfTold DEF Tell
<1> HIDE DEF f
<1>3. \A d \in Clients \ {c} : controller'[d] = controller[d] /\ aborted'[d] = aborted[d]
  BY <1>1 DEF ToldAttached, ToldOpened, ToldRefused, Typed, SessionsTyped
<1>4. ASSUME NEW k \in Calls, exec[c][k] = "asking", k \notin aborted'[c] PROVE controller'[c]
  <2>1. CASE ToldAttached(c, f)
    <3>1. f.controller \in BOOLEAN /\ controller'[c] = f.controller
      BY <2>1, <1>2, RepliesApart DEF ToldAttached, Typed, SessionsTyped
    <3>2. ~f.controller => k \in aborted'[c]
      BY <2>1, <1>4 DEF ToldAttached, AbortAll, Running, Typed, SessionsTyped
    <3> QED BY <1>4, <3>1, <3>2
  <2>2. CASE ToldOpened(c, f)
    BY <2>2 DEF ToldOpened, Typed, SessionsTyped
  <2>3. CASE ToldRefused(c, f)
    BY <2>3, <1>4 DEF ToldRefused, AskingControls
  <2> QED BY <1>1, <2>1, <2>2, <2>3
<1> QED
  BY <1>1, <1>3, <1>4 DEF AskingControls

LEMMA QuitAsking == ASSUME Typed, AskingControls, NEW c \in Clients, Quit(c) PROVE AskingControls'
<1>1. \A k \in Calls : exec'[c][k] = "none"
  BY DEF Quit, Typed, SessionsTyped
<1>2. \A d \in Clients \ {c} :
         controller'[d] = controller[d] /\ aborted'[d] = aborted[d] /\ exec'[d] = exec[d]
  BY DEF Quit, Typed, SessionsTyped
<1> QED
  BY <1>1, <1>2 DEF AskingControls

LEMMA InitAsking == Init => AskingControls
BY DEF Init, AskingControls

LEMMA NextAsking == Typed /\ AskingControls /\ [Next]_vars => AskingControls'
<1> SUFFICES ASSUME Typed, AskingControls, [Next]_vars PROVE AskingControls'
  OBVIOUS
<1>1. CASE UNCHANGED <<exec, aborted, controller>>
  BY <1>1 DEF AskingControls
<1>2. ASSUME NEW c \in Clients, Quit(c) PROVE AskingControls'
  BY <1>2, QuitAsking
<1>3. ASSUME NEW c \in Clients, Tell(c) PROVE AskingControls'
  BY <1>3, TellAsking
<1>4. ASSUME NEW c \in Clients, Receive(c) PROVE AskingControls'
  <2>1. UNCHANGED controller
    BY <1>4 DEF Receive
  <2>2. OnEvent(c, Head(inbox[c])) \/ UNCHANGED <<exec, aborted>>
    BY <1>4 DEF Receive
  <2>3. CASE OnEvent(c, Head(inbox[c]))
    BY <2>1, <2>3, OnEventAsking
  <2>4. CASE UNCHANGED <<exec, aborted>>
    BY <2>1, <2>4 DEF AskingControls
  <2> QED BY <2>2, <2>3, <2>4
<1>5. ASSUME NEW c \in Clients, FlushDeferred(c) PROVE AskingControls'
  <2>1. UNCHANGED <<aborted, controller>>
    BY <1>5 DEF FlushDeferred
  <2>2. CASE UNCHANGED exec
    BY <2>1, <2>2, QuietAsking
  <2>3. CASE controller[c] /\ HandleCalls(c, deferred[c], TRUE)
    BY <2>1, <2>3, HandleCallsAsking, QuietAsking
  <2> QED BY <1>5, <2>2, <2>3 DEF FlushDeferred
<1>6. ASSUME NEW c \in Clients, NEW k \in Calls, Decide(c, k) \/ Return(c, k) PROVE AskingControls'
  <2>1. UNCHANGED <<aborted, controller>>
    BY <1>6 DEF Decide, Return, session
  <2>2. exec' = [exec EXCEPT ![c][k] = "done"] \/ exec' = [exec EXCEPT ![c][k] = "invoking"]
    BY <1>6 DEF Decide, Return, Finished
  <2>3. exec \in [Clients -> [Calls -> ExecState]]
    BY DEF Typed, SessionsTyped
  <2>4. \A d \in Clients, j \in Calls : exec'[d][j] = "asking" => exec[d][j] = "asking"
    BY <2>2, <2>3
  <2> QED BY <2>1, <2>4, QuietAsking
<1>7. ASSUME \/ \E k \in Calls : CallTool(k) \/ TimerFires(k) \/ AbortCall(k)
             \/ \E n \in conns : CleanUp(n)
             \/ Crash
             \/ \E c \in Clients :
                   \/ ServeAttach(c) \/ ServeOpen(c) \/ ServeControl(c)
                   \/ ServeManifest(c) \/ ServeResult(c)
                   \/ Connect(c) \/ Drop(c) \/ CommandTimesOut(c)
                   \/ Start(c, TRUE) \/ Start(c, FALSE) \/ Control(c)
             \/ UNCHANGED vars
      PROVE UNCHANGED <<exec, aborted, controller>>
  BY <1>7 DEF CallTool, TimerFires, AbortCall, DaemonStep, CleanUp, Crash, ServeAttach, ServeOpen,
              ServeControl, ServeManifest, ServeResult, Connect, Drop, CommandTimesOut, Start,
              Control, vars, session, executor
<1> QED
  BY <1>1, <1>2, <1>3, <1>4, <1>5, <1>6, <1>7 DEF Next

\* A tool that starts was asked for and not aborted.
LEMMA RunsUnaborted ==
    ASSUME Typed, [Next]_vars, NEW c \in Clients, NEW k \in Calls,
           exec[c][k] = "asking", exec'[c][k] = "invoking"
    PROVE  k \notin aborted[c]
<1> USE DEF Typed, SessionsTyped
<1>1. PICK d \in Clients :
         \/ Quit(d) \/ Receive(d) \/ FlushDeferred(d) \/ \E j \in Calls : Decide(d, j) \/ Return(d, j)
  <2>1. ~UNCHANGED exec
    OBVIOUS
  <2> QED
    BY <2>1, ZenonT(60) DEF Next, CallTool, TimerFires, AbortCall, DaemonStep, CleanUp, Crash, ServeAttach,
                ServeOpen, ServeControl, ServeManifest, ServeResult, Connect, Drop, CommandTimesOut,
                Start, Control, Tell, vars, session, executor
<1>2. CASE Quit(d)
  BY <1>2 DEF Quit
<1>3. ASSUME NEW ks, NEW reopened, HandleCalls(d, ks, reopened) PROVE FALSE
  BY <1>3 DEF HandleCalls, StartNew
<1>4. CASE Receive(d)
  BY <1>3, <1>4 DEF Receive, OnEvent, OnToolCall, OnClosed
<1>5. CASE FlushDeferred(d)
  BY <1>3, <1>5 DEF FlushDeferred
<1>6. ASSUME NEW j \in Calls, Decide(d, j) \/ Return(d, j) PROVE k \notin aborted[c]
  <2>1. \/ exec' = [exec EXCEPT ![d][j] = "done"]
        \/ exec' = [exec EXCEPT ![d][j] = "invoking"] /\ j \notin aborted[d]
    BY <1>6 DEF Decide, Return, Finished
  <2>2. exec \in [Clients -> [Calls -> ExecState]]
    OBVIOUS
  <2>3. exec' # [exec EXCEPT ![d][j] = "done"]
    <3> SUFFICES ASSUME exec' = [exec EXCEPT ![d][j] = "done"] PROVE FALSE
      OBVIOUS
    <3>1. exec'[c][k] = "done" \/ exec'[c][k] = exec[c][k]
      BY <2>2
    <3> QED BY <3>1
  <2>4. exec' = [exec EXCEPT ![d][j] = "invoking"] /\ j \notin aborted[d]
    BY <2>1, <2>3
  <2>5. c = d /\ k = j
    BY <2>2, <2>4
  <2> QED BY <2>4, <2>5
<1> QED
  BY <1>1, <1>2, <1>4, <1>5, <1>6

-----------------------------------------------------------------------------
(* The journal and the broker.                                             *)

\* One entry for each call, and no other.
LEMMA EntriesOnce ==
    ASSUME NEW name \in Names, NEW ks \in SUBSET Calls, NEW e, e = Entries(name, ks)
    PROVE  /\ e \in Seq(JournalEntry) /\ Len(e) \in Nat
           /\ \A i \in 1 .. Len(e) : e[i].name = name /\ e[i].call \in ks
           /\ \A i, j \in 1 .. Len(e) : i # j => e[i].call # e[j].call
           /\ \A k \in ks : \E i \in 1 .. Len(e) : e[i] = [name |-> name, call |-> k]
<1> DEFINE s == [k \in Calls |-> [name |-> name, call |-> k]]
<1>1. s \in Seq(JournalEntry) /\ Len(s) = MaxCalls /\ MaxCalls \in Nat
  BY BrokerAssumption DEF Calls, JournalEntry
<1>2. \A k \in Calls : s[k] = [name |-> name, call |-> k]
  OBVIOUS
<1> HIDE DEF s
<1>3. e = Picked(s, ks)
  BY DEF Entries, s
<1>4. PICK f : PickedSoFar(f, e, s, ks, Len(s))
  BY <1>1, <1>3, PickedInOrder
<1>5. e \in Seq(JournalEntry) /\ Len(e) \in Nat
  BY EntriesTyped, LenProperties
<1>6. \A i \in 1 .. Len(e) : f[i] \in ks /\ f[i] \in Calls /\ e[i] = [name |-> name, call |-> f[i]]
  BY <1>2, <1>4 DEF PickedSoFar
<1>7. \A i, j \in 1 .. Len(e) : i # j => f[i] # f[j]
  <2> SUFFICES ASSUME NEW i \in 1 .. Len(e), NEW j \in 1 .. Len(e), i # j PROVE f[i] # f[j]
    OBVIOUS
  <2>1. f[i] \in 1 .. MaxCalls /\ f[j] \in 1 .. MaxCalls
    BY <1>6 DEF Calls
  <2>2. i < j \/ j < i
    BY <1>5
  <2> QED BY <1>1, <1>4, <2>1, <2>2 DEF PickedSoFar
<1>8. \A k \in ks : \E i \in 1 .. Len(e) : f[i] = k
  BY <1>1, <1>4 DEF PickedSoFar, Calls
<1>9. ASSUME NEW i \in 1 .. Len(e) PROVE e[i].name = name /\ e[i].call = f[i]
  <2>1. e[i] = [name |-> name, call |-> f[i]]
    BY <1>6
  <2> QED BY <2>1
<1>10. \A i \in 1 .. Len(e) : e[i].name = name /\ e[i].call \in ks
  BY <1>6, <1>9
<1>11. \A i, j \in 1 .. Len(e) : i # j => e[i].call # e[j].call
  BY <1>7, <1>9
<1>12. \A k \in ks : \E i \in 1 .. Len(e) : e[i] = [name |-> name, call |-> k]
  BY <1>6, <1>8
<1> QED
  BY <1>5, <1>10, <1>11, <1>12

\* A call is journaled once and closed once.
OnceEach(j) ==
    \A i, n \in 1 .. Len(j) :
        i < n /\ j[i].call = j[n].call => j[i].name = "call" /\ j[n].name # "call"

\* What the journal says of the calls of b.
Journaled(j, b) ==
    /\ OpenIn(j) = With(b, "issued")
    /\ OnceEach(j)
    /\ \A i \in 1 .. Len(j) : b.call[j[i].call] \in {"issued", "done"}

\* Entries that are appended, by their position.
LEMMA Appended ==
    ASSUME NEW S, NEW j \in Seq(S), NEW e \in Seq(S)
    PROVE  /\ j \o e \in Seq(S) /\ Len(j \o e) = Len(j) + Len(e)
           /\ Len(j) \in Nat /\ Len(e) \in Nat
           /\ \A i \in 1 .. Len(j) : (j \o e)[i] = j[i]
           /\ \A i \in 1 .. Len(j) + Len(e) :
                 i \in 1 .. Len(j) \/ (i - Len(j) \in 1 .. Len(e) /\ (j \o e)[i] = e[i - Len(j)])
           /\ \A i \in 1 .. Len(e) :
                 Len(j) + i \in 1 .. Len(j) + Len(e) /\ (j \o e)[Len(j) + i] = e[i]
<1>1. Len(j) \in Nat /\ Len(e) \in Nat
  BY LenProperties
<1>2. /\ j \o e \in Seq(S) /\ Len(j \o e) = Len(j) + Len(e)
      /\ \A i \in 1 .. Len(j) + Len(e) : (j \o e)[i] = IF i <= Len(j) THEN j[i] ELSE e[i - Len(j)]
  BY ConcatProperties
<1>3. \A i \in 1 .. Len(e) : Len(j) + i \in 1 .. Len(j) + Len(e)
                             /\ ~(Len(j) + i <= Len(j)) /\ (Len(j) + i) - Len(j) = i
  BY <1>1
<1>4. \A i \in 1 .. Len(j) : i \in 1 .. Len(j) + Len(e) /\ i <= Len(j)
  BY <1>1
<1>5. \A i \in 1 .. Len(j) + Len(e) :
         i \in 1 .. Len(j) \/ (i - Len(j) \in 1 .. Len(e) /\ ~(i <= Len(j)))
  BY <1>1
<1> QED
  BY <1>1, <1>2, <1>3, <1>4, <1>5

\* Calls that are issued are open from then on.
LEMMA OpenInIssued ==
    ASSUME NEW j \in Seq(JournalEntry), NEW ks \in SUBSET Calls
    PROVE  OpenIn(j \o Entries("call", ks)) = OpenIn(j) \cup ks
<1> DEFINE e == Entries("call", ks)
           w == j \o e
<1>1. /\ e \in Seq(JournalEntry) /\ Len(e) \in Nat
      /\ \A i \in 1 .. Len(e) : e[i].name = "call" /\ e[i].call \in ks
      /\ \A i, n \in 1 .. Len(e) : i # n => e[i].call # e[n].call
      /\ \A k \in ks : \E i \in 1 .. Len(e) : e[i] = [name |-> "call", call |-> k]
  BY EntriesOnce DEF Names
<1> HIDE DEF e
<1>2. /\ Len(w) = Len(j) + Len(e) /\ Len(j) \in Nat
      /\ \A i \in 1 .. Len(j) : w[i] = j[i]
      /\ \A i \in 1 .. Len(j) + Len(e) :
            i \in 1 .. Len(j) \/ (i - Len(j) \in 1 .. Len(e) /\ w[i] = e[i - Len(j)])
      /\ \A i \in 1 .. Len(e) : Len(j) + i \in 1 .. Len(j) + Len(e) /\ w[Len(j) + i] = e[i]
  BY <1>1, Appended
<1> HIDE DEF w
<1>3. ASSUME NEW k \in ks PROVE k \in OpenIn(w)
  <2>1. PICK i \in 1 .. Len(e) : e[i] = [name |-> "call", call |-> k]
    BY <1>1
  <2>2. Len(j) + i \in 1 .. Len(w) /\ w[Len(j) + i] = [name |-> "call", call |-> k]
    BY <1>2, <2>1
  <2>3. ASSUME NEW n \in Len(j) + i + 1 .. Len(w) PROVE w[n].call # k
    <3>1. n \in 1 .. Len(j) + Len(e) /\ n \notin 1 .. Len(j) /\ n - Len(j) # i
      BY <1>1, <1>2
    <3>2. n - Len(j) \in 1 .. Len(e) /\ w[n] = e[n - Len(j)]
      BY <1>2, <3>1
    <3> QED BY <1>1, <2>1, <3>1, <3>2, SMTT(30)
  <2> QED BY <2>2, <2>3 DEF OpenIn
<1>4. ASSUME NEW k \in OpenIn(j), k \notin ks PROVE k \in OpenIn(w)
  <2>1. k \in Calls
    BY DEF OpenIn
  <2>2. PICK i \in 1 .. Len(j) : /\ j[i] = [name |-> "call", call |-> k]
                                 /\ \A n \in i + 1 .. Len(j) : j[n].call # k
    BY DEF OpenIn
  <2>3. i \in 1 .. Len(w) /\ w[i] = [name |-> "call", call |-> k]
    BY <1>1, <1>2, <2>2
  <2>4. ASSUME NEW n \in i + 1 .. Len(w) PROVE w[n].call # k
    <3>1. n \in 1 .. Len(j) + Len(e)
      BY <1>1, <1>2
    <3>2. CASE n \in 1 .. Len(j)
      <4>1. n \in i + 1 .. Len(j)
        BY <1>2, <3>2
      <4> QED BY <1>2, <2>2, <3>2, <4>1
    <3>3. CASE n - Len(j) \in 1 .. Len(e) /\ w[n] = e[n - Len(j)]
      BY <1>1, <1>4, <3>3
    <3> QED BY <1>2, <3>1, <3>2, <3>3
  <2> QED BY <2>1, <2>3, <2>4 DEF OpenIn
<1>5. ASSUME NEW k \in OpenIn(w), k \notin ks PROVE k \in OpenIn(j)
  <2>1. k \in Calls
    BY DEF OpenIn
  <2>2. PICK i \in 1 .. Len(w) : /\ w[i] = [name |-> "call", call |-> k]
                                 /\ \A n \in i + 1 .. Len(w) : w[n].call # k
    BY DEF OpenIn
  <2>3. i \in 1 .. Len(j) /\ j[i] = [name |-> "call", call |-> k]
    BY <1>1, <1>2, <1>5, <2>2
  <2>4. ASSUME NEW n \in i + 1 .. Len(j) PROVE j[n].call # k
    <3>1. n \in i + 1 .. Len(w) /\ n \in 1 .. Len(j)
      BY <1>1, <1>2
    <3> QED BY <1>2, <2>2, <3>1
  <2> QED BY <2>1, <2>3, <2>4 DEF OpenIn
<1>6. OpenIn(w) = OpenIn(j) \cup ks
  BY <1>3, <1>4, <1>5
<1> QED
  BY <1>6 DEF w, e

\* Calls that are closed are not open any more, and the others are as they were.
LEMMA OpenInClosed ==
    ASSUME NEW j \in Seq(JournalEntry), NEW ks \in SUBSET Calls, NEW name \in Names, name # "call"
    PROVE  OpenIn(j \o Entries(name, ks)) = OpenIn(j) \ ks
<1> DEFINE e == Entries(name, ks)
           w == j \o e
<1>1. /\ e \in Seq(JournalEntry) /\ Len(e) \in Nat
      /\ \A i \in 1 .. Len(e) : e[i].name = name /\ e[i].call \in ks
      /\ \A k \in ks : \E i \in 1 .. Len(e) : e[i] = [name |-> name, call |-> k]
  BY EntriesOnce
<1> HIDE DEF e
<1>2. /\ Len(w) = Len(j) + Len(e) /\ Len(j) \in Nat
      /\ \A i \in 1 .. Len(j) : w[i] = j[i]
      /\ \A i \in 1 .. Len(j) + Len(e) :
            i \in 1 .. Len(j) \/ (i - Len(j) \in 1 .. Len(e) /\ w[i] = e[i - Len(j)])
      /\ \A i \in 1 .. Len(e) : Len(j) + i \in 1 .. Len(j) + Len(e) /\ w[Len(j) + i] = e[i]
  BY <1>1, Appended
<1> HIDE DEF w
<1>3. ASSUME NEW k \in OpenIn(j), k \notin ks PROVE k \in OpenIn(w)
  <2>1. k \in Calls
    BY DEF OpenIn
  <2>2. PICK i \in 1 .. Len(j) : /\ j[i] = [name |-> "call", call |-> k]
                                 /\ \A n \in i + 1 .. Len(j) : j[n].call # k
    BY DEF OpenIn
  <2>3. i \in 1 .. Len(w) /\ w[i] = [name |-> "call", call |-> k]
    BY <1>1, <1>2, <2>2
  <2>4. ASSUME NEW n \in i + 1 .. Len(w) PROVE w[n].call # k
    <3>1. n \in 1 .. Len(j) + Len(e)
      BY <1>1, <1>2
    <3>2. CASE n \in 1 .. Len(j)
      <4>1. n \in i + 1 .. Len(j)
        BY <1>2, <3>2
      <4> QED BY <1>2, <2>2, <3>2, <4>1
    <3>3. CASE n - Len(j) \in 1 .. Len(e) /\ w[n] = e[n - Len(j)]
      BY <1>1, <1>3, <3>3
    <3> QED BY <1>2, <3>1, <3>2, <3>3
  <2> QED BY <2>1, <2>3, <2>4 DEF OpenIn
<1>4. ASSUME NEW k \in OpenIn(w) PROVE k \in OpenIn(j) /\ k \notin ks
  <2>1. k \in Calls
    BY DEF OpenIn
  <2>2. PICK i \in 1 .. Len(w) : /\ w[i] = [name |-> "call", call |-> k]
                                 /\ \A n \in i + 1 .. Len(w) : w[n].call # k
    BY DEF OpenIn
  <2>3. i \in 1 .. Len(j) /\ j[i] = [name |-> "call", call |-> k]
    <3>1. i \in 1 .. Len(j) + Len(e)
      BY <1>2
    <3>2. CASE i - Len(j) \in 1 .. Len(e) /\ w[i] = e[i - Len(j)]
      <4>1. e[i - Len(j)].name = "call"
        BY <2>2, <3>2
      <4> QED BY <1>1, <3>2, <4>1
    <3> QED BY <1>2, <2>2, <3>1, <3>2
  <2>4. ASSUME NEW n \in i + 1 .. Len(j) PROVE j[n].call # k
    <3>1. n \in i + 1 .. Len(w) /\ n \in 1 .. Len(j)
      BY <1>1, <1>2
    <3> QED BY <1>2, <2>2, <3>1
  <2>5. k \notin ks
    <3> SUFFICES ASSUME k \in ks PROVE FALSE
      OBVIOUS
    <3>1. PICK n \in 1 .. Len(e) : e[n] = [name |-> name, call |-> k]
      BY <1>1
    <3>2. w[Len(j) + n].call = k /\ Len(j) + n \in i + 1 .. Len(w)
      BY <1>1, <1>2, <2>3, <3>1
    <3> QED BY <2>2, <3>2
  <2> QED BY <2>1, <2>3, <2>4, <2>5 DEF OpenIn
<1>5. OpenIn(w) = OpenIn(j) \ ks
  BY <1>3, <1>4
<1> QED
  BY <1>5 DEF w, e

\* What is issued is journaled, once.
LEMMA IssueJournaled ==
    ASSUME NEW j \in Seq(JournalEntry), NEW b, NEW c, Journaled(j, b),
           With(b, "issued") \subseteq With(c, "issued"),
           \A k \in Calls : b.call[k] \in {"issued", "done"} => c.call[k] = b.call[k]
    PROVE  Journaled(j \o IssuedBetween(b, c), c)
<1> DEFINE ks == With(c, "issued") \ With(b, "issued")
           e == IssuedBetween(b, c)
           w == j \o e
<1>1. /\ ks \in SUBSET Calls /\ e = Entries("call", ks)
      /\ \A k \in ks : b.call[k] \notin {"issued", "done"} /\ c.call[k] = "issued"
      /\ With(c, "issued") = With(b, "issued") \cup ks
  BY DEF With, IssuedBetween
<1> HIDE DEF e, ks
<1>2. OpenIn(w) = With(c, "issued")
  <2>1. OpenIn(j \o Entries("call", ks)) = OpenIn(j) \cup ks
    BY <1>1, OpenInIssued
  <2> QED BY <1>1, <2>1 DEF Journaled
<1>3. /\ e \in Seq(JournalEntry) /\ Len(e) \in Nat
      /\ \A i \in 1 .. Len(e) : e[i].name = "call" /\ e[i].call \in ks
      /\ \A i, n \in 1 .. Len(e) : i # n => e[i].call # e[n].call
  BY <1>1, EntriesOnce DEF Names
<1>4. \A k \in ks : c.call[k] = "issued"
  BY <1>1
<1>5. /\ Len(w) = Len(j) + Len(e) /\ Len(j) \in Nat
      /\ \A i \in 1 .. Len(j) : w[i] = j[i]
      /\ \A i \in 1 .. Len(j) + Len(e) :
            i \in 1 .. Len(j) \/ (i - Len(j) \in 1 .. Len(e) /\ w[i] = e[i - Len(j)])
  BY <1>3, Appended
<1>6. \A i \in 1 .. Len(j) : j[i].call \in Calls /\ b.call[j[i].call] \in {"issued", "done"}
  <2>1. \A i \in 1 .. Len(j) : j[i] \in JournalEntry
    BY ElementOfSeq
  <2> QED BY <2>1 DEF Journaled, JournalEntry
<1> HIDE DEF w
<1>7. OnceEach(w)
  <2> SUFFICES ASSUME NEW i \in 1 .. Len(w), NEW n \in 1 .. Len(w), i < n, w[i].call = w[n].call
               PROVE  w[i].name = "call" /\ w[n].name # "call"
    BY DEF OnceEach
  <2>1. CASE n \in 1 .. Len(j)
    <3>1. i \in 1 .. Len(j)
      BY <1>3, <1>5, <2>1
    <3> QED BY <3>1, <2>1, <1>5 DEF Journaled, OnceEach
  <2>2. CASE n \notin 1 .. Len(j)
    <3>1. n - Len(j) \in 1 .. Len(e) /\ w[n] = e[n - Len(j)] /\ w[n].call \in ks
      BY <1>3, <1>5, <2>2
    <3>2. CASE i \in 1 .. Len(j)
      BY <1>1, <1>5, <1>6, <3>1, <3>2
    <3>3. CASE i \notin 1 .. Len(j)
      <4>1. i - Len(j) \in 1 .. Len(e) /\ w[i] = e[i - Len(j)]
        BY <1>5, <3>3
      <4>2. i - Len(j) # n - Len(j)
        BY <1>3, <1>5
      <4> QED BY <1>3, <3>1, <4>1, <4>2
    <3> QED BY <3>2, <3>3
  <2> QED BY <2>1, <2>2
<1>8. ASSUME NEW i \in 1 .. Len(w) PROVE c.call[w[i].call] \in {"issued", "done"}
  <2>1. CASE i \in 1 .. Len(j)
    BY <1>5, <1>6, <2>1
  <2>2. CASE i - Len(j) \in 1 .. Len(e) /\ w[i] = e[i - Len(j)]
    BY <1>3, <1>4, <2>2
  <2> QED BY <1>5, <2>1, <2>2
<1>9. Journaled(w, c)
  BY <1>2, <1>7, <1>8 DEF Journaled
<1> QED
  BY <1>9 DEF w, e

\* What is closed was open, and is closed once.
LEMMA CloseJournaled ==
    ASSUME NEW j \in Seq(JournalEntry), NEW b, NEW c, Journaled(j, b),
           NEW name \in Names, name # "call", NEW ks, ks \subseteq With(b, "issued"),
           With(c, "issued") = With(b, "issued") \ ks,
           \A k \in Calls : b.call[k] \in {"issued", "done"} => c.call[k] \in {"issued", "done"}
    PROVE  Journaled(j \o Entries(name, ks), c)
<1> DEFINE e == Entries(name, ks)
           w == j \o e
<1>1. ks \in SUBSET Calls /\ ks \subseteq OpenIn(j)
  BY DEF With, Journaled
<1>2. OpenIn(w) = With(c, "issued")
  BY <1>1, OpenInClosed DEF Journaled
<1>3. /\ e \in Seq(JournalEntry) /\ Len(e) \in Nat
      /\ \A i \in 1 .. Len(e) : e[i].name = name /\ e[i].call \in ks
      /\ \A i, n \in 1 .. Len(e) : i # n => e[i].call # e[n].call
  BY <1>1, EntriesOnce
<1> HIDE DEF e
<1>4. /\ Len(w) = Len(j) + Len(e) /\ Len(j) \in Nat
      /\ \A i \in 1 .. Len(j) : w[i] = j[i]
      /\ \A i \in 1 .. Len(j) + Len(e) :
            i \in 1 .. Len(j) \/ (i - Len(j) \in 1 .. Len(e) /\ w[i] = e[i - Len(j)])
  BY <1>3, Appended
<1>5. \A i \in 1 .. Len(j) : j[i].call \in Calls /\ b.call[j[i].call] \in {"issued", "done"}
  <2>1. \A i \in 1 .. Len(j) : j[i] \in JournalEntry
    BY ElementOfSeq
  <2> QED BY <2>1 DEF Journaled, JournalEntry
<1> HIDE DEF w
<1>6. ASSUME NEW i \in 1 .. Len(j), j[i].call \in ks PROVE j[i].name = "call"
  <2> DEFINE k == j[i].call
  <2>1. PICK m \in 1 .. Len(j) : /\ j[m] = [name |-> "call", call |-> k]
                                 /\ \A n \in m + 1 .. Len(j) : j[n].call # k
    BY <1>1, <1>6 DEF OpenIn
  <2>2. ~(m < i)
    BY <1>4, <2>1
  <2>3. ~(i < m)
    BY <2>1 DEF Journaled, OnceEach
  <2>4. i = m
    BY <1>4, <2>2, <2>3
  <2> QED BY <2>1, <2>4
<1>7. OnceEach(w)
  <2> SUFFICES ASSUME NEW i \in 1 .. Len(w), NEW n \in 1 .. Len(w), i < n, w[i].call = w[n].call
               PROVE  w[i].name = "call" /\ w[n].name # "call"
    BY DEF OnceEach
  <2>1. CASE n \in 1 .. Len(j)
    <3>1. i \in 1 .. Len(j)
      BY <1>3, <1>4, <2>1
    <3> QED BY <3>1, <2>1, <1>4 DEF Journaled, OnceEach
  <2>2. CASE n \notin 1 .. Len(j)
    <3>1. n - Len(j) \in 1 .. Len(e) /\ w[n] = e[n - Len(j)] /\ w[n].call \in ks /\ w[n].name = name
      BY <1>3, <1>4, <2>2
    <3>2. CASE i \in 1 .. Len(j)
      BY <1>4, <1>6, <3>1, <3>2
    <3>3. CASE i \notin 1 .. Len(j)
      <4>1. i - Len(j) \in 1 .. Len(e) /\ w[i] = e[i - Len(j)]
        BY <1>4, <3>3
      <4>2. i - Len(j) # n - Len(j)
        BY <1>3, <1>4
      <4> QED BY <1>3, <3>1, <4>1, <4>2
    <3> QED BY <3>2, <3>3
  <2> QED BY <2>1, <2>2
<1>8. ASSUME NEW i \in 1 .. Len(w) PROVE c.call[w[i].call] \in {"issued", "done"}
  <2>1. CASE i \in 1 .. Len(j)
    BY <1>4, <1>5, <2>1
  <2>2. CASE i - Len(j) \in 1 .. Len(e) /\ w[i] = e[i - Len(j)]
    <3>1. w[i].call \in ks /\ w[i].call \in Calls
      BY <1>1, <1>3, <2>2
    <3>2. b.call[w[i].call] = "issued"
      BY <3>1 DEF With
    <3> QED BY <3>1, <3>2
  <2> QED BY <1>4, <2>1, <2>2
<1>9. Journaled(w, c)
  BY <1>2, <1>7, <1>8 DEF Journaled
<1> QED
  BY <1>9 DEF w, e

\* Operations that only issue calls: no other call changes, but one that waited or is new.
Issues(b, c) ==
    /\ With(b, "issued") \subseteq With(c, "issued")
    /\ \A k \in Calls : b.call[k] \in {"issued", "done"} => c.call[k] = b.call[k]

\* reconcile issues what waited, or nothing.
LEMMA ReconciledIssues ==
    ASSUME NEW b, Sound(b), NEW s, NEW m
    PROVE  Issues(b, Reconciled(b, s, m))
<1> DEFINE c == Reconciled(b, s, m)
           issued == [k \in Calls |-> IF k \in With(b, "waiting") THEN "issued" ELSE b.call[k]]
<1>1. c.call = b.call \/ c.call = issued
  <2>1. b = [attached |-> b.attached, call |-> b.call, grace |-> b.grace, answer |-> b.answer]
    BY DEF Sound, Broker
  <2>2. [b EXCEPT !.attached = FALSE, !.grace = b.grace \cup With(b, "issued")].call = b.call
    BY <2>1
  <2>3. Issue(b, With(b, "waiting")).call = issued
    BY <2>1 DEF Issue
  <2>4. [Issue(b, With(b, "waiting")) EXCEPT !.attached = TRUE, !.grace = {}].call
            = Issue(b, With(b, "waiting")).call
    BY <2>1 DEF Issue
  <2> QED BY <2>2, <2>3, <2>4 DEF Reconciled, SetAttached
<1> HIDE DEF c
<1>2. Issues(b, c)
  BY <1>1 DEF Issues, With
<1> QED
  BY <1>2 DEF c

LEMMA CallIssues ==
    ASSUME NEW b, Sound(b), NEW k \in Calls, b.call[k] = "none"
    PROVE  Issues(b, Call(b, k))
<1> DEFINE c == Call(b, k)
<1>1. \/ c.call = [j \in Calls |-> IF j \in {k} THEN "issued" ELSE b.call[j]]
      \/ c.call = [b.call EXCEPT ![k] = "waiting"]
  BY DEF Call, Issue, Sound, Broker
<1>2. b.call \in [Calls -> Status]
  BY DEF Sound, Broker
<1> HIDE DEF c
<1>3. Issues(b, c)
  BY <1>1, <1>2 DEF Issues, With
<1> QED
  BY <1>3 DEF c

\* A step that issues calls and journals them.
LEMMA IssueStep ==
    ASSUME NEW j \in Seq(JournalEntry), NEW b, NEW c, Journaled(j, b), Issues(b, c)
    PROVE  j \o IssuedBetween(b, c) \in Seq(JournalEntry) /\ Journaled(j \o IssuedBetween(b, c), c)
<1>1. IssuedBetween(b, c) \in Seq(JournalEntry)
  <2>1. With(c, "issued") \ With(b, "issued") \in SUBSET Calls
    BY DEF With
  <2> QED BY <2>1, EntriesTyped DEF IssuedBetween, Names
<1> QED
  BY <1>1, ConcatProperties, IssueJournaled DEF Issues

\* A step that ends calls, and closes those of them that were journaled.
LEMMA FinishStep ==
    ASSUME NEW j \in Seq(JournalEntry), NEW b, Sound(b), Journaled(j, b),
           NEW name \in Names, name # "call", NEW ks \in SUBSET Calls,
           NEW c, c.call = Finish(b, ks).call
    PROVE  Journaled(j \o Entries(name, With(b, "issued") \cap ks), c)
<1>1. c.call = [k \in Calls |-> IF k \in ks THEN "done" ELSE b.call[k]]
  BY DEF Finish, Sound, Broker
<1>2. With(c, "issued") = With(b, "issued") \ (With(b, "issued") \cap ks)
  BY <1>1 DEF With
<1>3. \A k \in Calls : b.call[k] \in {"issued", "done"} => c.call[k] \in {"issued", "done"}
  BY <1>1
<1> QED
  BY <1>2, <1>3, CloseJournaled

LEMMA InitJournaled == Init => Journaled(journal, broker)
<1> SUFFICES ASSUME Init PROVE Journaled(journal, broker)
  OBVIOUS
<1>1. journal = <<>> /\ Len(journal) = 0
  BY DEF Init
<1>2. With(broker, "issued") = {}
  BY DEF Init, NewBroker, With
<1> QED
  BY <1>1, <1>2 DEF Journaled, OpenIn, OnceEach

\* Nothing is issued or ended, and nothing journaled.
LEMMA QuietJournaled ==
    ASSUME Typed, Journaled(journal, broker), broker' = broker,
           journal' = journal \/ journal' = journal \o <<>>
    PROVE  Journaled(journal', broker')
<1>1. journal' = journal
  BY ConcatEmptySeq DEF Typed, DaemonTyped
<1> QED
  BY <1>1

LEMMA IssuingJournaled ==
    ASSUME Typed, Journaled(journal, broker), Issues(broker, broker'),
           journal' = journal \o IssuedBetween(broker, broker')
    PROVE  Journaled(journal', broker')
<1>1. journal \in Seq(JournalEntry)
  BY DEF Typed, DaemonTyped
<1> QED
  BY <1>1, IssueStep

LEMMA NextJournaled ==
    Typed /\ BrokerInv /\ Journaled(journal, broker) /\ [Next]_vars => Journaled(journal', broker')
<1> SUFFICES ASSUME Typed, BrokerInv, Journaled(journal, broker), [Next]_vars
             PROVE  Journaled(journal', broker')
  OBVIOUS
<1>0. journal \in Seq(JournalEntry) /\ Sound(broker)
  BY DEF Typed, DaemonTyped, BrokerInv
<1>1. ASSUME NEW k \in Calls, CallTool(k) PROVE Journaled(journal', broker')
  <2>1. broker' = Call(broker, k) /\ broker.call[k] = "none"
        /\ journal' = journal \o IssuedBetween(broker, broker')
    BY <1>1 DEF CallTool, DaemonStep, MayCall, Publish
  <2> QED BY <1>0, <2>1, CallIssues, IssuingJournaled
<1>2. ASSUME NEW k \in Calls, TimerFires(k) \/ AbortCall(k) PROVE Journaled(journal', broker')
  <2>1. broker' = Finish(broker, {k})
        /\ journal' = journal \o Entries("canceled", With(broker, "issued") \cap {k})
    BY <1>2 DEF TimerFires, AbortCall, DaemonStep, Publish, CanceledOf
  <2> QED BY <1>0, <2>1, FinishStep DEF Names
<1>3. ASSUME NEW n \in conns, CleanUp(n) PROVE Journaled(journal', broker')
  <2>1. broker' = Reconciled(broker, seat', owner)
        /\ journal' = journal \o IssuedBetween(broker, broker')
    BY <1>3 DEF CleanUp, Publish
  <2> QED BY <1>0, <2>1, ReconciledIssues, IssuingJournaled
<1>4. CASE Crash
  <2>1. broker' = LoseCalls(broker) /\ journal' = journal \o Entries("expired", OpenIn(journal))
    BY <1>4 DEF Crash, Publish
  <2>2. broker'.call = Finish(broker, Open(broker)).call
    BY <1>0, <2>1 DEF LoseCalls, Finish, Sound, Broker
  <2>3. OpenIn(journal) = With(broker, "issued") \cap Open(broker)
    BY DEF Journaled, Open
  <2> QED BY <1>0, <2>1, <2>2, <2>3, OpenIsCalls, FinishStep DEF Names
<1>5. ASSUME NEW c \in Clients, ServeAttach(c) PROVE Journaled(journal', broker')
  <2>1. broker' = Reconciled(broker, seat', owner)
        /\ journal' = journal \o IssuedBetween(broker, broker')
    BY <1>5 DEF ServeAttach, Publish
  <2> QED BY <1>0, <2>1, ReconciledIssues, IssuingJournaled
<1>6. ASSUME NEW c \in Clients, ServeOpen(c) PROVE Journaled(journal', broker')
  <2>1. CASE /\ broker' = Reconciled(Reconciled(broker, seat', owner), seat', owner')
             /\ journal' = journal \o IssuedBetween(broker, broker')
    <3> DEFINE b == Reconciled(broker, seat', owner)
    <3>1. Sound(b) /\ Issues(broker, b)
      BY <1>0, ReconciledSound, ReconciledIssues
    <3> HIDE DEF b
    <3>2. Issues(b, Reconciled(b, seat', owner'))
      BY <3>1, ReconciledIssues
    <3>3. Issues(broker, Reconciled(b, seat', owner'))
      BY <3>1, <3>2 DEF Issues
    <3> QED BY <2>1, <3>3, IssuingJournaled DEF b
  <2>2. CASE broker' = broker /\ journal' = journal \o <<>>
    BY <2>2, QuietJournaled
  <2> QED BY <1>6, <2>1, <2>2 DEF ServeOpen, Publish
<1>7. ASSUME NEW c \in Clients, ServeControl(c) PROVE Journaled(journal', broker')
  <2> DEFINE b == Reconciled(broker, seat', owner)
             issued == IssuedBetween(broker, b)
             w == journal \o issued
             canceled == Entries("canceled", With(b, "issued") \cap Open(b))
  <2>1. Sound(b) /\ Issues(broker, b)
    BY <1>0, ReconciledSound, ReconciledIssues
  <2>2. \/ broker' = b /\ journal' = w
        \/ broker' = Finish(b, Open(b)) /\ journal' = journal \o (issued \o canceled)
        \/ broker' = broker /\ journal' = journal
    BY <1>7 DEF ServeControl, Publish, CanceledOf
  <2> HIDE DEF b
  <2>3. w \in Seq(JournalEntry) /\ Journaled(w, b)
    BY <1>0, <2>1, IssueStep
  <2>4. issued \in Seq(JournalEntry) /\ canceled \in Seq(JournalEntry)
    <3>1. With(b, "issued") \ With(broker, "issued") \in SUBSET Calls
          /\ With(b, "issued") \cap Open(b) \in SUBSET Calls
      BY DEF With
    <3> QED BY <3>1, EntriesTyped DEF IssuedBetween, Names
  <2>5. journal \o (issued \o canceled) = w \o canceled
    BY <1>0, <2>4, ConcatAssociative
  <2> HIDE DEF w, issued
  <2>6. Journaled(w \o canceled, Finish(b, Open(b)))
    BY <2>1, <2>3, OpenIsCalls, FinishStep DEF Names
  <2> QED BY <2>2, <2>3, <2>5, <2>6
<1>8. ASSUME NEW c \in Clients, ServeManifest(c) PROVE Journaled(journal', broker')
  <2>1. journal' = journal \o IssuedBetween(broker, broker')
        /\ (broker' = Reconciled(broker, seat, owner') \/ broker' = broker)
    BY <1>8 DEF ServeManifest, Publish
  <2>2. Issues(broker, broker)
    BY DEF Issues
  <2> QED BY <1>0, <2>1, <2>2, ReconciledIssues, IssuingJournaled
<1>9. ASSUME NEW c \in Clients, ServeResult(c) PROVE Journaled(journal', broker')
  <2> DEFINE k == Head(outbox[c]).call
  <2>1. CASE Accepts(c, k) /\ k \in Calls
    <3>1. broker' = Finish(broker, {k}) /\ journal' = journal \o Entries("resolved", {k})
      BY <1>9, <2>1 DEF ServeResult, Publish
    <3>2. {k} = With(broker, "issued") \cap {k}
      BY <2>1 DEF Accepts, With
    <3> HIDE DEF k
    <3> QED BY <1>0, <2>1, <3>1, <3>2, FinishStep DEF Names
  <2>2. CASE ~Accepts(c, k)
    BY <1>9, <2>2 DEF ServeResult
  <2>3. k \in Calls
    <3>1. Serving(c, "result")
      BY <1>9 DEF ServeResult
    <3>2. Head(outbox[c]) \in Commands /\ Head(outbox[c]).type = "result"
      BY <3>1, ServingTyped
    <3> QED BY <3>2 DEF Commands
  <2> QED BY <2>1, <2>2, <2>3
<1>10. ASSUME NEW c \in Clients,
              \/ Connect(c) \/ Drop(c) \/ CommandTimesOut(c) \/ Start(c, TRUE) \/ Start(c, FALSE)
              \/ Control(c) \/ Quit(c) \/ Receive(c) \/ Tell(c) \/ FlushDeferred(c)
              \/ \E k \in Calls : Decide(c, k) \/ Return(c, k)
       PROVE Journaled(journal', broker')
  <2>1. UNCHANGED <<broker, journal>>
    BY <1>10 DEF Connect, Drop, CommandTimesOut, Start, Control, Quit, Receive, Tell, FlushDeferred,
                 Decide, Return, daemon
  <2> QED BY <2>1
<1>11. CASE UNCHANGED vars
  BY <1>11 DEF vars, daemon
<1> QED
  BY <1>1, <1>2, <1>3, <1>4, <1>5, <1>6, <1>7, <1>8, <1>9, <1>10, <1>11 DEF Next

-----------------------------------------------------------------------------
(* What a session has been told of a call, and what it is at work on.      *)

\* An event that is sent as it happens, or replayed in its place.
Fresh(f) == f.type = "event" /\ ~f.reopen

\* The t-th event of the journal is on its way.
Has(s, t) == \E q \in 1 .. Len(s) : Fresh(s[q]) /\ s[q].seq = t

\* The frames to a client whose cursor is at from bring no event before those it lacks.
InLine(s, from) ==
    \A p \in 1 .. Len(s) : Fresh(s[p]) =>
        \A t \in from + 1 .. s[p].seq - 1 : \E q \in 1 .. p - 1 : Fresh(s[q]) /\ s[q].seq = t

Closes(e, k) == e.call = k /\ e.name # "call"

\* A call that is reopened is closed, if it is, only after what comes before its frame.
ReopensOpen(j, s, from) ==
    \A p \in 1 .. Len(s) : s[p].type = "event" /\ s[p].reopen =>
        /\ j[s[p].seq].name = "call"
        /\ \A n \in 1 .. Len(j) : Closes(j[n], j[s[p].seq].call) =>
              n > from /\ \A q \in 1 .. p - 1 : s[q].type = "event" => s[q].seq < n

Line(j, s, from) == InLine(s, from) /\ ReopensOpen(j, s, from)

HasEvent(s) == \E q \in 1 .. Len(s) : s[q].type = "event"

\* A client that follows the thread has had, or is being sent, every event of it.
FollowsOn(c) ==
    /\ Line(journal, inbox[c], cursor[c])
    /\ link[c] \in subs => \A t \in cursor[c] + 1 .. Len(journal) : Has(inbox[c], t)
    /\ link[c] \in subs \/ Command("attach") \in ToSet(outbox[c]) \/ HasEvent(inbox[c])
         => phase[c] = "following"

\* A call that a session keeps for later was not closed by what it has seen, and one it is
\* at work on is a controller's and was not canceled by it.
WorksOn(c) ==
    /\ \A k \in deferred[c], n \in 1 .. cursor[c] : ~Closes(journal[n], k)
    /\ \A k \in Running(c) \ aborted[c] :
          /\ controller[c]
          /\ \A n \in 1 .. cursor[c] : journal[n] # [name |-> "canceled", call |-> k]

Follow == \A c \in Clients : FollowsOn(c)
Work == \A c \in Clients : WorksOn(c)

\* Frames one after the other, and more of them.
LEMMA HasConcat ==
    ASSUME NEW S, NEW s \in Seq(S), NEW r \in Seq(S), NEW t
    PROVE  /\ Has(s, t) \/ Has(r, t) => Has(s \o r, t)
           /\ HasEvent(s \o r) => HasEvent(s) \/ HasEvent(r)
<1> DEFINE w == s \o r
           a == Len(s)
           b == Len(r)
<1>1. /\ a \in Nat /\ b \in Nat /\ Len(w) = a + b /\ \A i \in 1 .. a : w[i] = s[i]
      /\ \A i \in 1 .. a + b : i \in 1 .. a \/ (i - a \in 1 .. b /\ w[i] = r[i - a])
      /\ \A i \in 1 .. b : a + i \in 1 .. a + b /\ w[a + i] = r[i]
  BY Appended
<1> HIDE DEF w, a, b
<1>2. ASSUME NEW q \in 1 .. a, Fresh(s[q]) /\ s[q].seq = t
      PROVE  \E i \in 1 .. Len(w) : Fresh(w[i]) /\ w[i].seq = t
  <2>1. q \in 1 .. Len(w) /\ w[q] = s[q]
    BY <1>1
  <2> QED BY <1>2, <2>1
<1>3. ASSUME NEW q \in 1 .. b, Fresh(r[q]) /\ r[q].seq = t
      PROVE  \E i \in 1 .. Len(w) : Fresh(w[i]) /\ w[i].seq = t
  <2>1. a + q \in 1 .. Len(w) /\ w[a + q] = r[q]
    BY <1>1
  <2> QED BY <1>3, <2>1
<1>4. ASSUME NEW q \in 1 .. Len(w), w[q].type = "event"
      PROVE  (\E i \in 1 .. a : s[i].type = "event") \/ (\E i \in 1 .. b : r[i].type = "event")
  <2>1. (q \in 1 .. a /\ w[q] = s[q]) \/ (q - a \in 1 .. b /\ w[q] = r[q - a])
    BY <1>1
  <2> QED BY <1>4, <2>1
<1> QED BY <1>2, <1>3, <1>4 DEF Has, HasEvent, w, a, b

\* Frames that are in line with those before them, and reopen what is not closed.
Continues(s, r, from) ==
    \A p \in 1 .. Len(r) : Fresh(r[p]) =>
        \A t \in from + 1 .. r[p].seq - 1 :
            Has(s, t) \/ \E q \in 1 .. p - 1 : Fresh(r[q]) /\ r[q].seq = t

ReopenedOpen(j, r) ==
    \A p \in 1 .. Len(r) : r[p].type = "event" /\ r[p].reopen =>
        j[r[p].seq].name = "call" /\ \A n \in 1 .. Len(j) : ~Closes(j[n], j[r[p].seq].call)

\* Frames in line, and then frames in line with them.
LEMMA LineConcat ==
    ASSUME NEW S, NEW s \in Seq(S), NEW r \in Seq(S), NEW j, NEW from, Line(j, s, from),
           Continues(s, r, from), ReopenedOpen(j, r)
    PROVE  Line(j, s \o r, from)
<1> DEFINE w == s \o r
           a == Len(s)
           b == Len(r)
<1>1. /\ a \in Nat /\ b \in Nat /\ Len(w) = a + b /\ \A i \in 1 .. a : w[i] = s[i]
      /\ \A i \in 1 .. a + b : i \in 1 .. a \/ (i - a \in 1 .. b /\ w[i] = r[i - a])
      /\ \A i \in 1 .. b : a + i \in 1 .. a + b /\ w[a + i] = r[i]
  BY Appended
<1> HIDE DEF w, a, b
<1>2. ASSUME NEW p \in 1 .. Len(w), Fresh(w[p]), NEW t \in from + 1 .. w[p].seq - 1
      PROVE  \E q \in 1 .. p - 1 : Fresh(w[q]) /\ w[q].seq = t
  <2>1. CASE p \in 1 .. a
    <3>1. PICK q \in 1 .. p - 1 : Fresh(s[q]) /\ s[q].seq = t
      <4>1. w[p] = s[p] /\ p \in 1 .. Len(s)
        BY <1>1, <2>1 DEF a
      <4> QED BY <1>2, <4>1 DEF Line, InLine
    <3>2. w[q] = s[q]
      BY <1>1, <2>1
    <3> QED BY <3>1, <3>2
  <2>2. CASE p \notin 1 .. a
    <3>1. p - a \in 1 .. b /\ w[p] = r[p - a] /\ p - a \in 1 .. Len(r)
      BY <1>1, <2>2 DEF b
    <3>2. Has(s, t) \/ \E q \in 1 .. (p - a) - 1 : Fresh(r[q]) /\ r[q].seq = t
      BY <1>2, <3>1 DEF Continues
    <3>3. ASSUME Has(s, t) PROVE \E q \in 1 .. p - 1 : Fresh(w[q]) /\ w[q].seq = t
      <4>1. PICK q \in 1 .. a : Fresh(s[q]) /\ s[q].seq = t
        BY <3>3 DEF Has, a
      <4>2. q \in 1 .. p - 1 /\ w[q] = s[q]
        BY <1>1, <3>1
      <4> QED BY <4>1, <4>2
    <3>4. ASSUME NEW q \in 1 .. (p - a) - 1, Fresh(r[q]) /\ r[q].seq = t
          PROVE  \E i \in 1 .. p - 1 : Fresh(w[i]) /\ w[i].seq = t
      <4>1. q \in 1 .. b /\ a + q \in 1 .. p - 1
        BY <1>1, <3>1
      <4>2. w[a + q] = r[q]
        BY <1>1, <4>1
      <4> QED BY <3>4, <4>1, <4>2
    <3> QED BY <3>2, <3>3, <3>4
  <2> QED BY <2>1, <2>2
<1>3. ASSUME NEW p \in 1 .. Len(w), w[p].type = "event" /\ w[p].reopen
      PROVE  /\ j[w[p].seq].name = "call"
             /\ \A n \in 1 .. Len(j) : Closes(j[n], j[w[p].seq].call) =>
                   n > from /\ \A q \in 1 .. p - 1 : w[q].type = "event" => w[q].seq < n
  <2>1. CASE p \in 1 .. a
    <3>1. w[p] = s[p] /\ p \in 1 .. Len(s) /\ \A q \in 1 .. p - 1 : w[q] = s[q]
      BY <1>1, <2>1 DEF a
    <3> QED BY <1>3, <3>1 DEF Line, ReopensOpen
  <2>2. CASE p \notin 1 .. a
    <3>1. w[p] = r[p - a] /\ p - a \in 1 .. Len(r)
      BY <1>1, <2>2 DEF b
    <3> QED BY <1>3, <3>1 DEF ReopenedOpen
  <2> QED BY <2>1, <2>2
<1> QED BY <1>2, <1>3 DEF Line, InLine, ReopensOpen, w

\* Nothing on the way is in line.
LEMMA LineEmpty == ASSUME NEW j, NEW from PROVE Line(j, <<>>, from) /\ ~HasEvent(<<>>)
<1>1. 1 .. Len(<<>>) = {}
  OBVIOUS
<1> QED
  BY <1>1 DEF Line, InLine, ReopensOpen, HasEvent

\* What is left when the first frame was handled, which is the next event or none of those
\* the client lacks.
LEMMA LineTail ==
    ASSUME NEW m, NEW s \in Seq(Frames(m)), s # <<>>, NEW j, NEW from \in Nat, NEW to,
           Line(j, s, from),
           \/ to = from + 1 /\ Fresh(s[1]) /\ s[1].seq = to
           \/ to = from /\ (Fresh(s[1]) => s[1].seq <= from)
    PROVE  /\ Line(j, Tail(s), to)
           /\ \A t : t > to /\ t \in Nat /\ Has(s, t) => Has(Tail(s), t)
           /\ HasEvent(Tail(s)) => HasEvent(s)
<1> DEFINE w == Tail(s)
<1>1. /\ Len(s) \in Nat /\ Len(w) = Len(s) - 1
      /\ \A i \in 1 .. Len(w) : i + 1 \in 1 .. Len(s) /\ w[i] = s[i + 1]
      /\ \A i \in 1 .. Len(s) : i = 1 \/ (i - 1 \in 1 .. Len(w) /\ w[i - 1] = s[i])
  <2>1. /\ Len(s) \in Nat /\ Len(w) = Len(s) - 1
        /\ \A i \in 1 .. Len(w) : w[i] = s[i + 1]
    BY HeadTailProperties, LenProperties
  <2> HIDE DEF w
  <2>2. \A i \in 1 .. Len(w) : i + 1 \in 1 .. Len(s)
    BY <2>1
  <2>3. \A i \in 1 .. Len(s) : i = 1 \/ (i - 1 \in 1 .. Len(w) /\ (i - 1) + 1 = i)
    BY <2>1
  <2>4. \A i \in 1 .. Len(s) : i = 1 \/ (i - 1 \in 1 .. Len(w) /\ w[i - 1] = s[i])
    <3> SUFFICES ASSUME NEW i \in 1 .. Len(s), i # 1 PROVE i - 1 \in 1 .. Len(w) /\ w[i - 1] = s[i]
      OBVIOUS
    <3>1. i - 1 \in 1 .. Len(w) /\ (i - 1) + 1 = i
      BY <2>3
    <3>2. w[i - 1] = s[(i - 1) + 1]
      BY <2>1, <3>1
    <3> QED BY <3>1, <3>2
  <2> QED BY <2>1, <2>2, <2>4
<1>2. to \in Nat /\ from <= to /\ \A t \in Nat : t > to => ~(Fresh(s[1]) /\ s[1].seq = t)
  <2>1. CASE to = from + 1 /\ Fresh(s[1]) /\ s[1].seq = to
    BY <2>1
  <2>2. CASE to = from /\ (Fresh(s[1]) => s[1].seq <= from)
    <3> SUFFICES ASSUME NEW t \in Nat, t > to, Fresh(s[1]), s[1].seq = t PROVE FALSE
      BY <2>2
    <3> QED BY <2>2
  <2> QED BY <2>1, <2>2
<1> HIDE DEF w
<1>3. ASSUME NEW t \in Nat, t > to, NEW p \in Nat, \E q \in 1 .. p : q \in 1 .. Len(s) /\ Fresh(s[q]) /\ s[q].seq = t
      PROVE  \E q \in 1 .. p - 1 : q \in 1 .. Len(w) /\ Fresh(w[q]) /\ w[q].seq = t
  <2>1. PICK q \in 1 .. p : q \in 1 .. Len(s) /\ Fresh(s[q]) /\ s[q].seq = t
    BY <1>3
  <2>2. q # 1
    BY <1>2, <1>3, <2>1
  <2>3. q - 1 \in 1 .. p - 1 /\ q - 1 \in 1 .. Len(w) /\ w[q - 1] = s[q]
    BY <1>1, <2>1, <2>2
  <2> QED BY <2>1, <2>3
<1>4. InLine(w, to)
  <2> SUFFICES ASSUME NEW p \in 1 .. Len(w), Fresh(w[p]), NEW t \in to + 1 .. w[p].seq - 1
               PROVE  \E q \in 1 .. p - 1 : Fresh(w[q]) /\ w[q].seq = t
    BY DEF InLine
  <2>1. p + 1 \in 1 .. Len(s) /\ w[p] = s[p + 1] /\ p \in Nat /\ (p + 1) - 1 = p
    BY <1>1
  <2>2. s[p + 1] \in Frames(m)
    BY <2>1
  <2>3. s[p + 1].seq \in Int
    <3>1. Fresh(s[p + 1])
      BY <2>1
    <3>2. s[p + 1] \in EventFrames(m)
      BY <2>2, <3>1, FramesApart DEF Frames, Fresh
    <3> QED BY <3>2 DEF EventFrames
  <2>4. t \in Nat /\ t > to /\ t \in from + 1 .. s[p + 1].seq - 1
    BY <1>2, <2>1, <2>3
  <2>5. \E q \in 1 .. (p + 1) - 1 : Fresh(s[q]) /\ s[q].seq = t
    BY <2>1, <2>4 DEF Line, InLine
  <2>6. \E q \in 1 .. p : q \in 1 .. Len(s) /\ Fresh(s[q]) /\ s[q].seq = t
    BY <1>1, <2>1, <2>5
  <2> QED BY <1>3, <2>1, <2>4, <2>6
<1>5. ReopensOpen(j, w, to)
  <2> SUFFICES ASSUME NEW p \in 1 .. Len(w), w[p].type = "event" /\ w[p].reopen
               PROVE  /\ j[w[p].seq].name = "call"
                      /\ \A n \in 1 .. Len(j) : Closes(j[n], j[w[p].seq].call) =>
                            n > to /\ \A q \in 1 .. p - 1 : w[q].type = "event" => w[q].seq < n
    BY DEF ReopensOpen
  <2>1. p + 1 \in 1 .. Len(s) /\ w[p] = s[p + 1] /\ p \in Nat /\ (p + 1) - 1 = p
    BY <1>1
  <2>2. /\ j[w[p].seq].name = "call"
        /\ \A n \in 1 .. Len(j) : Closes(j[n], j[w[p].seq].call) =>
              n > from /\ \A q \in 1 .. (p + 1) - 1 : s[q].type = "event" => s[q].seq < n
    BY <2>1 DEF Line, ReopensOpen
  <2>3. ASSUME NEW n \in 1 .. Len(j), Closes(j[n], j[w[p].seq].call) PROVE n > to
    <3>1. n > from /\ (s[1].type = "event" => s[1].seq < n)
      BY <2>1, <2>2, <2>3
    <3>2. CASE Fresh(s[1]) /\ s[1].seq = to
      BY <3>1, <3>2 DEF Fresh
    <3> QED BY <3>1, <3>2
  <2>4. ASSUME NEW n \in 1 .. Len(j), Closes(j[n], j[w[p].seq].call),
               NEW q \in 1 .. p - 1, w[q].type = "event"
        PROVE  w[q].seq < n
    <3>1. q + 1 \in 1 .. (p + 1) - 1 /\ w[q] = s[q + 1]
      BY <1>1, <2>1
    <3> QED BY <2>2, <2>4, <3>1
  <2> QED BY <2>2, <2>3, <2>4
<1>6. ASSUME NEW t \in Nat, t > to, Has(s, t) PROVE Has(w, t)
  <2>1. \E q \in 1 .. Len(s) : q \in 1 .. Len(s) /\ Fresh(s[q]) /\ s[q].seq = t
    BY <1>6 DEF Has
  <2>2. \E q \in 1 .. Len(s) - 1 : q \in 1 .. Len(w) /\ Fresh(w[q]) /\ w[q].seq = t
    BY <1>1, <1>3, <1>6, <2>1
  <2> QED BY <2>2 DEF Has
<1>7. ASSUME HasEvent(w) PROVE HasEvent(s)
  BY <1>1, <1>7 DEF HasEvent
<1> QED
  BY <1>4, <1>5, <1>6, <1>7 DEF Line, w

\* What is on the way knows of what was journaled when it was sent.
LEMMA LineGrows ==
    ASSUME NEW j \in Seq(JournalEntry), NEW e \in Seq(JournalEntry),
           NEW s \in Seq(Frames(Len(j))), NEW from \in 0 .. Len(j), Line(j, s, from)
    PROVE  Line(j \o e, s, from)
<1> DEFINE w == j \o e
<1>1. /\ Len(w) = Len(j) + Len(e) /\ Len(j) \in Nat /\ Len(e) \in Nat
      /\ \A i \in 1 .. Len(j) : w[i] = j[i]
  BY Appended
<1> HIDE DEF w
<1>2. ASSUME NEW p \in 1 .. Len(s), s[p].type = "event" PROVE s[p].seq \in 1 .. Len(j)
  <2>1. s[p] \in EventFrames(Len(j))
    BY <1>2, FramesApart DEF Frames
  <2> QED BY <2>1 DEF EventFrames
<1>3. ASSUME NEW p \in 1 .. Len(s), s[p].type = "event" /\ s[p].reopen
      PROVE  /\ w[s[p].seq].name = "call"
             /\ \A n \in 1 .. Len(w) : Closes(w[n], w[s[p].seq].call) =>
                   n > from /\ \A q \in 1 .. p - 1 : s[q].type = "event" => s[q].seq < n
  <2>1. s[p].seq \in 1 .. Len(j) /\ w[s[p].seq] = j[s[p].seq]
    BY <1>1, <1>2, <1>3
  <2>2. /\ j[s[p].seq].name = "call"
        /\ \A n \in 1 .. Len(j) : Closes(j[n], j[s[p].seq].call) =>
              n > from /\ \A q \in 1 .. p - 1 : s[q].type = "event" => s[q].seq < n
    BY <1>3 DEF Line, ReopensOpen
  <2>3. ASSUME NEW n \in 1 .. Len(w), n \notin 1 .. Len(j)
        PROVE  n > from /\ \A q \in 1 .. p - 1 : s[q].type = "event" => s[q].seq < n
    <3>1. n > Len(j) /\ n \in Nat
      BY <1>1, <2>3
    <3>2. ASSUME NEW q \in 1 .. p - 1, s[q].type = "event" PROVE s[q].seq < n
      <4>1. q \in 1 .. Len(s)
        BY LenProperties
      <4>2. s[q].seq \in 1 .. Len(j)
        BY <1>2, <3>2, <4>1
      <4> QED BY <1>1, <3>1, <4>2
    <3> QED BY <1>1, <3>1, <3>2
  <2> QED BY <1>1, <2>1, <2>2, <2>3
<1> QED
  BY <1>3 DEF Line, ReopensOpen, w

\* Events that are sent as they are journaled follow those that are on the way.
LEMMA NewsLine ==
    ASSUME NEW j \in Seq(JournalEntry), NEW e \in Seq(JournalEntry),
           NEW s \in Seq(Frames(Len(j))), NEW from \in 0 .. Len(j), Line(j, s, from),
           \A t \in from + 1 .. Len(j) : Has(s, t),
           NEW news, news = [i \in 1 .. Len(e) |-> EventFrame(Len(j) + i, FALSE, FALSE)]
    PROVE  /\ Line(j \o e, s \o news, from)
           /\ \A t \in from + 1 .. Len(j \o e) : Has(s \o news, t)
<1> DEFINE w == j \o e
           m == Len(j) + Len(e)
<1>1. Len(w) = m /\ Len(j) \in Nat /\ Len(e) \in Nat
  BY Appended
<1> HIDE DEF w
<1>2. /\ news \in Seq(Frames(m)) /\ Len(news) = Len(e) /\ s \in Seq(Frames(m))
      /\ \A i \in 1 .. Len(e) : Fresh(news[i]) /\ ~news[i].reopen /\ news[i].seq = Len(j) + i
  <2>1. \A i \in 1 .. Len(e) : EventFrame(Len(j) + i, FALSE, FALSE) \in Frames(m)
    BY <1>1 DEF EventFrame, EventFrames, Frames
  <2>2. news \in [1 .. Len(e) -> Frames(m)]
    BY <2>1
  <2>3. news \in Seq(Frames(m)) /\ Len(news) = Len(e)
    BY <1>1, <2>2, FunctionIsSequence, ZenonT(60)
  <2>4. 1 .. Len(j) \subseteq 1 .. m
    BY <1>1
  <2>5. Frames(Len(j)) \subseteq Frames(m)
    BY <2>4 DEF Frames, EventFrames
  <2>6. \A i \in 1 .. Len(e) : news[i] = EventFrame(Len(j) + i, FALSE, FALSE)
    OBVIOUS
  <2> QED BY <2>3, <2>5, <2>6, SeqMonotonic DEF EventFrame, Fresh
<1>3. Line(w, s, from)
  BY LineGrows DEF w
<1>4. ASSUME NEW p \in 1 .. Len(news), NEW t \in from + 1 .. news[p].seq - 1
      PROVE  Has(s, t) \/ \E q \in 1 .. p - 1 : Fresh(news[q]) /\ news[q].seq = t
  <2>1. news[p].seq = Len(j) + p /\ p \in 1 .. Len(e)
    BY <1>2
  <2>2. CASE t \in from + 1 .. Len(j)
    BY <2>2
  <2>3. CASE t \notin from + 1 .. Len(j)
    <3>0. t \in from + 1 .. (Len(j) + p) - 1
      BY <2>1
    <3>1. t - Len(j) \in 1 .. p - 1 /\ t - Len(j) \in 1 .. Len(e) /\ Len(j) + (t - Len(j)) = t
      BY <1>1, <2>1, <2>3, <3>0
    <3>2. Fresh(news[t - Len(j)]) /\ news[t - Len(j)].seq = Len(j) + (t - Len(j))
      BY <1>2, <3>1
    <3> QED BY <3>1, <3>2
  <2> QED BY <2>2, <2>3
<1>5. Line(w, s \o news, from)
  <2>1. Continues(s, news, from)
    BY <1>4 DEF Continues
  <2>2. ReopenedOpen(w, news)
    BY <1>2 DEF ReopenedOpen
  <2> QED BY <1>2, <1>3, <2>1, <2>2, LineConcat
<1>6. ASSUME NEW t \in from + 1 .. m PROVE Has(s \o news, t)
  <2>1. CASE t \in from + 1 .. Len(j)
    BY <1>2, <2>1, HasConcat
  <2>2. CASE t \notin from + 1 .. Len(j)
    <3>1. t - Len(j) \in 1 .. Len(e) /\ Len(j) + (t - Len(j)) = t
      BY <1>1, <2>2
    <3>2. Fresh(news[t - Len(j)]) /\ news[t - Len(j)].seq = t
      BY <1>2, <3>1
    <3>3. Has(news, t)
      BY <1>2, <3>1, <3>2 DEF Has
    <3> QED BY <1>2, <3>3, HasConcat
  <2> QED BY <2>1, <2>2
<1> QED
  BY <1>1, <1>5, <1>6 DEF w

\* A call the journal has open was not closed.
LEMMA OpenUnclosed ==
    ASSUME NEW j \in Seq(JournalEntry), OnceEach(j), NEW k \in OpenIn(j), NEW n \in 1 .. Len(j)
    PROVE  ~Closes(j[n], k)
<1> SUFFICES ASSUME Closes(j[n], k) PROVE FALSE
  OBVIOUS
<1>1. PICK i \in 1 .. Len(j) : /\ j[i] = [name |-> "call", call |-> k]
                               /\ \A m \in i + 1 .. Len(j) : j[m].call # k
  BY DEF OpenIn
<1>2. j[n].call = k /\ j[n].name # "call" /\ j[i].call = k /\ j[i].name = "call"
  BY <1>1 DEF Closes
<1>3. ~(n > i)
  BY <1>1, <1>2, LenProperties
<1>4. ~(n < i)
  BY <1>2 DEF OnceEach
<1> QED
  BY <1>2, <1>3, <1>4

\* attach replays, in line, everything the client lacks, and reopens what is open.
LEMMA ReplayLine ==
    ASSUME Typed, OnceEach(journal), NEW c \in Clients, NEW s
    PROVE  /\ Continues(s, Replay(c), cursor[c]) /\ ReopenedOpen(journal, Replay(c))
           /\ \A t \in cursor[c] + 1 .. Len(journal) : Has(Replay(c), t)
<1> DEFINE n == Len(journal)
           from == cursor[c]
           u == [i \in 1 .. from |-> EventFrame(i, TRUE, TRUE)]
           seen == {i \in 1 .. from : journal[i].name = "call" /\ journal[i].call \in OpenIn(journal)}
           a == Picked(u, seen)
           b == [i \in 1 .. n - from |-> EventFrame(from + i, FALSE, TRUE)]
           w == a \o b
<1>1. n \in Nat /\ from \in 0 .. n /\ journal \in Seq(JournalEntry)
  BY LenProperties DEF Typed, DaemonTyped, SessionsTyped
<1>2. Replay(c) = w
  BY DEF Replay, FramesAfter
<1> HIDE DEF n, from
<1>3. a \in Seq(EventFrames(n))
      /\ \A i \in 1 .. Len(a) : a[i].type = "event" /\ a[i].reopen /\ a[i].seq \in seen
  <2>1. \A i \in 1 .. from : EventFrame(i, TRUE, TRUE) \in EventFrames(n)
    BY <1>1 DEF EventFrames, EventFrame
  <2>2. u \in [1 .. from -> EventFrames(n)]
    BY <2>1
  <2>3. from \in Nat
    BY <1>1
  <2>4. \A i \in 1 .. from : u[i].type = "event" /\ u[i].reopen /\ u[i].seq = i
    BY DEF EventFrame
  <2> HIDE DEF u
  <2>5. u \in Seq(EventFrames(n)) /\ Len(u) = from
    BY <2>2, <2>3, FunctionIsSequence
  <2> HIDE DEF seen
  <2>6. a \in Seq(EventFrames(n)) /\ ToSet(a) = {u[i] : i \in seen \cap 1 .. from}
    BY <2>5, InPicked
  <2> HIDE DEF a
  <2>7. \A i \in 1 .. Len(a) : a[i] \in ToSet(a)
    BY <2>6, InSequence, SMTT(30)
  <2>8. \A i \in 1 .. Len(a) : \E x \in seen \cap 1 .. from : a[i] = u[x]
    BY <2>6, <2>7
  <2> QED BY <2>4, <2>6, <2>8
<1>4. /\ b \in Seq(EventFrames(n)) /\ Len(b) = n - from
      /\ \A i \in 1 .. n - from : Fresh(b[i]) /\ ~b[i].reopen /\ b[i].seq = from + i
  <2>1. \A i \in 1 .. n - from : EventFrame(from + i, FALSE, TRUE) \in EventFrames(n)
    BY <1>1 DEF EventFrames, EventFrame
  <2>2. b \in [1 .. n - from -> EventFrames(n)]
    BY <2>1
  <2>3. n - from \in Nat
    BY <1>1
  <2>4. \A i \in 1 .. n - from : Fresh(b[i]) /\ ~b[i].reopen /\ b[i].seq = from + i
    BY DEF EventFrame, Fresh
  <2> HIDE DEF b
  <2>5. b \in Seq(EventFrames(n)) /\ Len(b) = n - from
    BY <2>2, <2>3, FunctionIsSequence
  <2> QED BY <2>4, <2>5
<1> HIDE DEF a, b
<1>5. /\ Len(a) \in Nat /\ Len(w) = Len(a) + Len(b) /\ Len(b) \in Nat
      /\ \A i \in 1 .. Len(a) : w[i] = a[i]
      /\ \A i \in 1 .. Len(a) + Len(b) : i \in 1 .. Len(a) \/ (i - Len(a) \in 1 .. Len(b) /\ w[i] = b[i - Len(a)])
      /\ \A i \in 1 .. Len(b) : Len(a) + i \in 1 .. Len(a) + Len(b) /\ w[Len(a) + i] = b[i]
  <2>1. a \in Seq(EventFrames(n)) /\ b \in Seq(EventFrames(n))
    BY <1>3, <1>4
  <2> QED BY <2>1, Appended
<1> HIDE DEF w
<1>6. ASSUME NEW p \in 1 .. Len(w), Fresh(w[p]), NEW t \in from + 1 .. w[p].seq - 1
      PROVE  \E q \in 1 .. p - 1 : Fresh(w[q]) /\ w[q].seq = t
  <2>1. p \notin 1 .. Len(a)
    BY <1>3, <1>5, <1>6 DEF Fresh
  <2>2. p - Len(a) \in 1 .. n - from /\ w[p] = b[p - Len(a)]
    BY <1>4, <1>5, <2>1
  <2>3. w[p].seq = from + (p - Len(a))
    BY <1>4, <2>2
  <2>4. t \in from + 1 .. (from + (p - Len(a))) - 1
    BY <1>6, <2>3
  <2>5. t - from \in 1 .. Len(b) /\ Len(a) + (t - from) \in 1 .. p - 1 /\ from + (t - from) = t
    BY <1>1, <1>4, <1>5, <2>2, <2>4
  <2>6. w[Len(a) + (t - from)] = b[t - from] /\ Fresh(b[t - from]) /\ b[t - from].seq = t
    BY <1>4, <1>5, <2>5
  <2> QED BY <2>5, <2>6
<1>7. ASSUME NEW p \in 1 .. Len(w), w[p].type = "event" /\ w[p].reopen
      PROVE  /\ journal[w[p].seq].name = "call"
             /\ \A i \in 1 .. Len(journal) : ~Closes(journal[i], journal[w[p].seq].call)
  <2>1. p \in 1 .. Len(a)
    BY <1>4, <1>5, <1>7
  <2>2. w[p].seq \in seen
    BY <1>3, <1>5, <2>1
  <2> QED BY <1>1, <2>2, OpenUnclosed
<1>8. ASSUME NEW t \in from + 1 .. n PROVE Has(w, t)
  <2>1. t - from \in 1 .. Len(b) /\ from + (t - from) = t
    BY <1>1, <1>4
  <2>2. Len(a) + (t - from) \in 1 .. Len(w) /\ w[Len(a) + (t - from)] = b[t - from]
    BY <1>5, <2>1
  <2>3. Fresh(b[t - from]) /\ b[t - from].seq = t
    BY <1>4, <2>1
  <2> QED BY <2>2, <2>3 DEF Has
<1> QED
  BY <1>2, <1>6, <1>7, <1>8 DEF Continues, ReopenedOpen, n, from

\* A step that brings the client nothing keeps it following.
LEMMA FollowsQuiet ==
    ASSUME NEW c \in Clients, FollowsOn(c),
           journal' = journal, inbox'[c] = inbox[c], cursor'[c] = cursor[c],
           link'[c] \in subs' => link[c] \in subs,
           Command("attach") \in ToSet(outbox'[c])
              => Command("attach") \in ToSet(outbox[c]) \/ phase'[c] = "following",
           phase[c] = "following" => phase'[c] = "following"
    PROVE  FollowsOn(c)'
BY DEF FollowsOn

\* So does one that ends its connection.
LEMMA FollowsReset ==
    ASSUME NEW c \in Clients, inbox'[c] = <<>>, link'[c] \notin subs',
           Command("attach") \in ToSet(outbox'[c]) => phase'[c] = "following"
    PROVE  FollowsOn(c)'
<1>1. Line(journal', inbox'[c], cursor'[c]) /\ ~HasEvent(inbox'[c])
  BY LineEmpty
<1> QED
  BY <1>1 DEF FollowsOn

\* What a step of the daemon sends is in line.
LEMMA PublishFollows ==
    ASSUME Typed, NEW c \in Clients, FollowsOn(c),
           NEW events \in Seq(JournalEntry), NEW followers,
           NEW replies \in [Clients -> Seq(Frames(Len(journal)))],
           Publish(events, followers, replies), UNCHANGED <<link, phase, cursor>>,
           Continues(inbox[c], replies[c], cursor[c]), ReopenedOpen(journal, replies[c]),
           link[c] \in subs' => link[c] \in followers,
           link[c] \in followers =>
              \A t \in cursor[c] + 1 .. Len(journal) : Has(inbox[c] \o replies[c], t),
           \/ link[c] \in followers \/ HasEvent(replies[c]) \/ Command("attach") \in ToSet(outbox'[c])
              => phase[c] = "following"
    PROVE  FollowsOn(c)'
<1> DEFINE n == Len(journal)
           s == inbox[c] \o replies[c]
           news == [i \in 1 .. Len(events) |-> EventFrame(n + i, FALSE, FALSE)]
<1>1. /\ journal \in Seq(JournalEntry) /\ cursor[c] \in 0 .. n
      /\ inbox[c] \in Seq(Frames(n)) /\ replies[c] \in Seq(Frames(n))
  BY DEF Typed, DaemonTyped, LinksTyped, SessionsTyped
<1>2. /\ journal' = journal \o events
      /\ inbox'[c] = s \o (IF link[c] \in followers THEN news ELSE <<>>)
  BY DEF Publish
<1>3. s \in Seq(Frames(n)) /\ Line(journal, s, cursor[c])
  <2>1. Line(journal, inbox[c], cursor[c])
    BY DEF FollowsOn
  <2> HIDE DEF n
  <2> QED BY <1>1, <2>1, Appended, LineConcat
<1>4. HasEvent(s) => phase[c] = "following"
  <2>1. HasEvent(s) => HasEvent(inbox[c]) \/ HasEvent(replies[c])
    BY <1>1, HasConcat
  <2> QED BY <2>1 DEF FollowsOn
<1>5. link[c] \in followers => \A t \in cursor[c] + 1 .. n : Has(s, t)
  OBVIOUS
<1> HIDE DEF s
<1>6. CASE link[c] \in followers
  <2> DEFINE more == news
  <2>1. inbox'[c] = s \o more /\ more = [i \in 1 .. Len(events) |-> EventFrame(n + i, FALSE, FALSE)]
    BY <1>2, <1>6
  <2> HIDE DEF more
  <2>2. /\ Line(journal \o events, s \o more, cursor[c])
        /\ \A t \in cursor[c] + 1 .. Len(journal \o events) : Has(s \o more, t)
    BY <1>1, <1>3, <1>5, <1>6, <2>1, NewsLine
  <2>3. Line(journal', inbox'[c], cursor'[c])
        /\ \A t \in cursor'[c] + 1 .. Len(journal') : Has(inbox'[c], t)
    BY <1>2, <2>1, <2>2
  <2> QED BY <1>6, <2>3 DEF FollowsOn
<1>7. CASE link[c] \notin followers
  <2>1. inbox'[c] = s
    BY <1>2, <1>3, <1>7, ConcatEmptySeq
  <2>2. Line(journal', inbox'[c], cursor'[c])
    BY <1>1, <1>2, <1>3, <2>1, LineGrows
  <2> QED BY <1>4, <1>7, <2>1, <2>2 DEF FollowsOn
<1> QED
  BY <1>6, <1>7

\* Replies are no events.
LEMMA RepliesLine ==
    ASSUME NEW s, NEW r \in Seq(Replies), NEW j, NEW from
    PROVE  Continues(s, r, from) /\ ReopenedOpen(j, r) /\ ~HasEvent(r)
<1>1. \A p \in 1 .. Len(r) : r[p].type # "event"
  BY FramesApart
<1> QED
  BY <1>1 DEF Continues, ReopenedOpen, HasEvent, Fresh

\* A step of the daemon that makes no connection follow the thread.
LEMMA DaemonFollows ==
    ASSUME Typed, Follow,
           NEW events \in Seq(JournalEntry), NEW followers \in SUBSET subs,
           NEW replies \in [Clients -> Seq(Replies)],
           Publish(events, followers, replies), UNCHANGED <<link, phase, cursor>>,
           subs' \subseteq followers,
           \A c \in Clients :
              Command("attach") \in ToSet(outbox'[c]) => Command("attach") \in ToSet(outbox[c])
    PROVE  Follow'
<1> SUFFICES ASSUME NEW c \in Clients PROVE FollowsOn(c)'
  BY DEF Follow
<1>1. FollowsOn(c) /\ inbox[c] \in Seq(Frames(Len(journal)))
  BY DEF Follow, Typed, LinksTyped
<1>2. replies \in [Clients -> Seq(Frames(Len(journal)))]
  <2>1. Seq(Replies) \subseteq Seq(Frames(Len(journal)))
    BY SeqMonotonic DEF Frames
  <2> QED BY <2>1
<1>3. replies[c] \in Seq(Replies) /\ replies[c] \in Seq(Frames(Len(journal)))
  BY <1>2
<1>4. Continues(inbox[c], replies[c], cursor[c]) /\ ReopenedOpen(journal, replies[c])
      /\ ~HasEvent(replies[c])
  BY <1>3, RepliesLine
<1>5. ASSUME link[c] \in followers
      PROVE  /\ phase[c] = "following"
             /\ \A t \in cursor[c] + 1 .. Len(journal) : Has(inbox[c] \o replies[c], t)
  <2>1. link[c] \in subs
    BY <1>5
  <2>2. phase[c] = "following" /\ \A t \in cursor[c] + 1 .. Len(journal) : Has(inbox[c], t)
    BY <1>1, <2>1 DEF FollowsOn
  <2> QED BY <1>1, <1>3, <2>2, HasConcat
<1>6. /\ link[c] \in subs' => link[c] \in followers
      /\ Command("attach") \in ToSet(outbox'[c]) => phase[c] = "following"
  BY <1>1 DEF FollowsOn
<1> QED
  BY <1>1, <1>2, <1>4, <1>5, <1>6, PublishFollows

\* Commands that are served are on the way no more.
LEMMA ServedFollows ==
    ASSUME Typed, Follow, NEW c \in Clients, NEW type, Serving(c, type),
           NEW events \in Seq(JournalEntry), NEW r \in Seq(Replies),
           \/ Publish(events, subs, Reply(c, r))
           \/ Publish(events, subs, NoReplies)
           \/ UNCHANGED <<journal, inbox>>,
           UNCHANGED <<link, session, subs>>
    PROVE  Follow'
<1>1. UNCHANGED <<link, phase, cursor, subs>> /\ subs' \subseteq subs
  BY DEF session
<1>2. \A d \in Clients :
         Command("attach") \in ToSet(outbox'[d]) => Command("attach") \in ToSet(outbox[d])
  BY ServingTyped
<1>3. NoReplies \in [Clients -> Seq(Replies)] /\ Reply(c, r) \in [Clients -> Seq(Replies)]
  <2>1. <<>> \in Seq(Replies)
    OBVIOUS
  <2> QED BY <2>1 DEF NoReplies, Reply
<1>4. ASSUME NEW replies \in [Clients -> Seq(Replies)], Publish(events, subs, replies)
      PROVE  Follow'
  BY <1>1, <1>2, <1>4, DaemonFollows
<1>5. CASE UNCHANGED <<journal, inbox>>
  BY <1>1, <1>2, <1>5, FollowsQuiet DEF Follow
<1> QED
  BY <1>3, <1>4, <1>5

\* A session.open is answered by a reply and brings the events it made.
LEMMA ServeOpenFollows == ASSUME Typed, Follow, NEW c \in Clients, ServeOpen(c) PROVE Follow'
<1>1. /\ <<Opened(TRUE)>> \in Seq(Replies) /\ <<Opened(FALSE)>> \in Seq(Replies)
      /\ <<Refused>> \in Seq(Replies)
  BY DEF Replies
<1>2. <<>> \in Seq(JournalEntry) /\ IssuedBetween(broker, broker') \in Seq(JournalEntry)
  BY JournaledTyped
<1>3. \/ Publish(<<>>, subs, Reply(c, <<Opened(TRUE)>>))
      \/ Publish(<<>>, subs, Reply(c, <<Refused>>))
      \/ Publish(IssuedBetween(broker, broker'), subs, Reply(c, <<Opened(FALSE)>>))
  BY DEF ServeOpen
<1>4. Serving(c, "open") /\ UNCHANGED <<link, session, subs>>
  BY DEF ServeOpen
<1> QED
  BY <1>1, <1>2, <1>3, <1>4, ServedFollows

\* The other commands of a client only publish what they caused.
LEMMA ServeOtherFollows ==
    ASSUME Typed, Follow, NEW c \in Clients,
           ServeControl(c) \/ ServeManifest(c) \/ ServeResult(c)
    PROVE  Follow'
<1> DEFINE b == Reconciled(broker, seat', owner)
<1>1. \/ Publish(IssuedBetween(broker, broker'), subs, NoReplies)
      \/ Publish(IssuedBetween(broker, b) \o CanceledOf(b, Open(b)), subs, NoReplies)
      \/ Publish(Entries("resolved", {Head(outbox[c]).call}), subs, NoReplies)
      \/ UNCHANGED <<journal, inbox>>
  BY DEF ServeControl, ServeManifest, ServeResult
<1>2. /\ IssuedBetween(broker, broker') \in Seq(JournalEntry) /\ <<>> \in Seq(JournalEntry)
      /\ IssuedBetween(broker, b) \o CanceledOf(b, Open(b)) \in Seq(JournalEntry)
  BY JournaledTyped
<1>3. Entries("resolved", {Head(outbox[c]).call}) \in Seq(JournalEntry)
  BY EntriesTyped DEF Names
<1> HIDE DEF b
<1>4. PICK type : Serving(c, type)
  BY DEF ServeControl, ServeManifest, ServeResult
<1>5. UNCHANGED <<link, session, subs>>
  BY DEF ServeControl, ServeManifest, ServeResult
<1>6. <<>> \in Seq(Replies)
  OBVIOUS
<1> QED
  BY <1>1, <1>2, <1>3, <1>4, <1>5, <1>6, ServedFollows

\* A client that attaches gets all that it lacks, and from then on every event.
LEMMA ServeAttachFollows ==
    ASSUME Typed, OnceEach(journal), Follow, NEW c \in Clients, ServeAttach(c)
    PROVE  Follow'
<1> DEFINE first == <<Attached(MayClaim(c))>>
           rest == Replay(c)
           frames == first \o rest
           replies == Reply(c, frames)
           n == Len(journal)
           events == IssuedBetween(broker, broker')
<1>1. first \in Seq(Replies) /\ first \in Seq(Frames(n)) /\ Len(first) = 1
  <2>1. Attached(MayClaim(c)) \in Replies
    BY DEF MayClaim, Replies, Attached
  <2> QED BY <2>1, OneReplyTyped
<1>2. rest \in Seq(Frames(n)) /\ inbox[c] \in Seq(Frames(n)) /\ n \in Nat
  BY ReplayTyped, SeqMonotonic, LenProperties DEF Frames, Typed, DaemonTyped, LinksTyped
<1>3. Publish(events, subs', replies) /\ events \in Seq(JournalEntry)
  BY JournaledTyped DEF ServeAttach
<1>4. /\ UNCHANGED <<link, phase, cursor>> /\ Serving(c, "attach") /\ link[c] \in conns
      /\ subs' = subs \cup {link[c]}
  BY DEF ServeAttach, Serving, session
<1>5. Command("attach") \in ToSet(outbox[c])
      /\ \A d \in Clients :
           Command("attach") \in ToSet(outbox'[d]) => Command("attach") \in ToSet(outbox[d])
  <2>1. Head(outbox[c]) = Command("attach")
    BY <1>4, ServingTyped DEF Command, Commands
  <2> QED BY <1>4, <2>1, ServingTyped
<1>6. phase[c] = "following" /\ FollowsOn(c)
  BY <1>5 DEF Follow, FollowsOn
<1>7. Continues(inbox[c], rest, cursor[c]) /\ ReopenedOpen(journal, rest)
      /\ \A t \in cursor[c] + 1 .. n : Has(rest, t)
  BY ReplayLine
<1> HIDE DEF first, rest, n, events
<1>8. /\ frames \in Seq(Frames(n)) /\ Len(frames) = 1 + Len(rest) /\ Len(rest) \in Nat
      /\ \A i \in 1 .. Len(frames) : (i = 1 /\ frames[i] = first[1]) \/ (i - 1 \in 1 .. Len(rest) /\ frames[i] = rest[i - 1])
      /\ \A i \in 1 .. Len(rest) : 1 + i \in 1 .. Len(frames) /\ frames[1 + i] = rest[i]
      /\ first[1].type # "event"
  <2>1. /\ frames \in Seq(Frames(n)) /\ Len(frames) = Len(first) + Len(rest) /\ Len(rest) \in Nat
        /\ \A i \in 1 .. Len(first) : frames[i] = first[i]
        /\ \A i \in 1 .. Len(first) + Len(rest) :
              i \in 1 .. Len(first) \/ (i - Len(first) \in 1 .. Len(rest) /\ frames[i] = rest[i - Len(first)])
        /\ \A i \in 1 .. Len(rest) :
              Len(first) + i \in 1 .. Len(first) + Len(rest) /\ frames[Len(first) + i] = rest[i]
    <3>1. first \in Seq(Frames(n)) /\ rest \in Seq(Frames(n))
      BY <1>1, <1>2
    <3> QED BY <3>1, Appended
  <2> HIDE DEF frames
  <2>2. first[1] \in Replies
    BY <1>1
  <2>3. first[1].type # "event"
    BY <2>2, FramesApart
  <2> QED BY <1>1, <2>1, <2>3
<1> HIDE DEF frames
<1>9. Continues(inbox[c], frames, cursor[c])
  <2> SUFFICES ASSUME NEW p \in 1 .. Len(frames), Fresh(frames[p]),
                      NEW t \in cursor[c] + 1 .. frames[p].seq - 1
               PROVE  Has(inbox[c], t) \/ \E q \in 1 .. p - 1 : Fresh(frames[q]) /\ frames[q].seq = t
    BY DEF Continues
  <2>1. p - 1 \in 1 .. Len(rest) /\ frames[p] = rest[p - 1]
    BY <1>8 DEF Fresh
  <2>2. Has(inbox[c], t) \/ \E q \in 1 .. (p - 1) - 1 : Fresh(rest[q]) /\ rest[q].seq = t
    BY <1>7, <2>1 DEF Continues
  <2>3. ASSUME NEW q \in 1 .. (p - 1) - 1, Fresh(rest[q]) /\ rest[q].seq = t
        PROVE  \E i \in 1 .. p - 1 : Fresh(frames[i]) /\ frames[i].seq = t
    <3>1. 1 + q \in 1 .. p - 1 /\ q \in 1 .. Len(rest)
      BY <1>8, <2>1
    <3>2. frames[1 + q] = rest[q]
      BY <1>8, <3>1
    <3> QED BY <2>3, <3>1, <3>2
  <2> QED BY <2>2, <2>3
<1>10. ReopenedOpen(journal, frames)
  <2> SUFFICES ASSUME NEW p \in 1 .. Len(frames), frames[p].type = "event" /\ frames[p].reopen
               PROVE  /\ journal[frames[p].seq].name = "call"
                      /\ \A i \in 1 .. Len(journal) : ~Closes(journal[i], journal[frames[p].seq].call)
    BY DEF ReopenedOpen
  <2>1. p - 1 \in 1 .. Len(rest) /\ frames[p] = rest[p - 1]
    BY <1>8
  <2> QED BY <1>7, <2>1 DEF ReopenedOpen
<1>11. \A t \in cursor[c] + 1 .. n : Has(inbox[c] \o frames, t)
  <2> SUFFICES ASSUME NEW t \in cursor[c] + 1 .. n PROVE Has(inbox[c] \o frames, t)
    OBVIOUS
  <2>1. PICK q \in 1 .. Len(rest) : Fresh(rest[q]) /\ rest[q].seq = t
    BY <1>7 DEF Has
  <2>2. 1 + q \in 1 .. Len(frames) /\ frames[1 + q] = rest[q]
    BY <1>8
  <2>3. Has(frames, t)
    BY <2>1, <2>2 DEF Has
  <2> QED BY <1>2, <1>8, <2>3, HasConcat
<1>12. /\ replies \in [Clients -> Seq(Frames(n))] /\ replies[c] = frames
       /\ \A d \in Clients : d # c => replies[d] = <<>>
  BY <1>8, ReplyTyped
<1> HIDE DEF replies
<1>13. FollowsOn(c)'
  <2>1. link[c] \in subs'
    BY <1>4
  <2> QED BY <1>3, <1>4, <1>6, <1>9, <1>10, <1>11, <1>12, <2>1, PublishFollows DEF n
<1>14. ASSUME NEW d \in Clients, d # c PROVE FollowsOn(d)'
  <2>1. FollowsOn(d) /\ inbox[d] \in Seq(Frames(n))
    BY DEF Follow, Typed, LinksTyped, n
  <2>2. link[d] \in subs' => link[d] \in subs
    <3>1. link[d] # link[c]
      BY <1>4, <1>14, NobodyApart DEF Typed, DaemonTyped, Linked
    <3> QED BY <1>4, <3>1
  <2>3. replies[d] = <<>> /\ <<>> \in Seq(Replies)
    BY <1>12, <1>14
  <2>4. Continues(inbox[d], replies[d], cursor[d]) /\ ReopenedOpen(journal, replies[d])
        /\ ~HasEvent(replies[d])
    BY <2>3, RepliesLine
  <2>5. inbox[d] \o replies[d] = inbox[d]
    BY <2>1, <2>3, ConcatEmptySeq
  <2>6. link[d] \in subs' =>
           phase[d] = "following" /\ \A t \in cursor[d] + 1 .. n : Has(inbox[d] \o replies[d], t)
    BY <2>1, <2>2, <2>5 DEF FollowsOn, n
  <2>7. Command("attach") \in ToSet(outbox'[d]) => phase[d] = "following"
    BY <1>5, <2>1 DEF FollowsOn
  <2> QED BY <1>3, <1>4, <1>12, <2>1, <2>4, <2>6, <2>7, PublishFollows DEF n
<1> QED
  BY <1>13, <1>14 DEF Follow

\* Steps of the broker, of the connections that die, and of the daemon that does.
LEMMA BrokerFollows ==
    ASSUME Typed, Follow,
           \/ \E k \in Calls : CallTool(k) \/ TimerFires(k) \/ AbortCall(k)
           \/ \E n \in conns : CleanUp(n)
           \/ Crash
    PROVE  Follow'
<1>1. NoReplies \in [Clients -> Seq(Replies)]
  <2>1. <<>> \in Seq(Replies)
    OBVIOUS
  <2> QED BY <2>1 DEF NoReplies
<1>2. UNCHANGED <<link, phase, cursor, outbox>>
  BY DEF CallTool, TimerFires, AbortCall, DaemonStep, CleanUp, Crash, session
<1>3. ASSUME NEW events \in Seq(JournalEntry), Publish(events, subs', NoReplies), subs' \subseteq subs
      PROVE  Follow'
  BY <1>1, <1>2, <1>3, DaemonFollows
<1>4. ASSUME NEW k \in Calls, CallTool(k) \/ TimerFires(k) \/ AbortCall(k) PROVE Follow'
  <2>1. PICK events \in Seq(JournalEntry) : \E b : DaemonStep(b, events)
    BY <1>4, JournaledTyped DEF CallTool, TimerFires, AbortCall
  <2>2. Publish(events, subs, NoReplies) /\ subs' = subs
    BY <2>1 DEF DaemonStep
  <2> QED BY <1>3, <2>2
<1>5. ASSUME NEW n \in conns, CleanUp(n) PROVE Follow'
  <2>1. Publish(IssuedBetween(broker, broker'), subs', NoReplies) /\ subs' \subseteq subs
    BY <1>5 DEF CleanUp
  <2> QED BY <1>3, <2>1, JournaledTyped
<1>6. CASE Crash
  <2>1. Publish(Entries("expired", OpenIn(journal)), subs', NoReplies) /\ subs' \subseteq subs
    BY <1>6 DEF Crash
  <2>2. Entries("expired", OpenIn(journal)) \in Seq(JournalEntry)
    BY EntriesTyped DEF Names
  <2> QED BY <1>3, <2>1, <2>2
<1> QED
  BY <1>4, <1>5, <1>6

\* A step of one plugin concerns no other's.
LEMMA PluginStepFollows ==
    ASSUME Follow, NEW c \in Clients, UNCHANGED <<journal, subs>>,
           \A d \in Clients \ {c} :
              /\ link'[d] = link[d] /\ inbox'[d] = inbox[d] /\ outbox'[d] = outbox[d]
              /\ phase'[d] = phase[d] /\ cursor'[d] = cursor[d],
           FollowsOn(c)'
    PROVE  Follow'
<1> SUFFICES ASSUME NEW d \in Clients, d # c PROVE FollowsOn(d)'
  BY DEF Follow
<1>1. FollowsOn(d)
  BY DEF Follow
<1> QED
  BY <1>1, FollowsQuiet

\* Steps of a plugin that send an attach only when it follows the thread.
LEMMA SendingFollows ==
    ASSUME Typed, Follow, NEW c \in Clients, UNCHANGED <<journal, subs, link, inbox, cursor>>,
           NEW commands \in Seq(Commands), Send(c, commands) \/ UNCHANGED outbox,
           Command("attach") \in ToSet(commands) => phase'[c] = "following",
           phase[c] = "following" => phase'[c] = "following",
           \A d \in Clients \ {c} : phase'[d] = phase[d]
    PROVE  Follow'
<1>1. /\ Command("attach") \in ToSet(outbox'[c])
            => Command("attach") \in ToSet(outbox[c]) \/ phase'[c] = "following"
      /\ \A d \in Clients \ {c} : outbox'[d] = outbox[d]
  <2>1. CASE Send(c, commands)
    BY <2>1, SendTyped
  <2> QED BY <2>1
<1>2. FollowsOn(c)
  BY DEF Follow
<1>3. FollowsOn(c)'
  BY <1>1, <1>2, FollowsQuiet
<1> QED
  BY <1>1, <1>3, PluginStepFollows

\* Sending anything but an attach asks for no attach.
LEMMA NoAttach ==
    /\ \A type \in {"open", "control", "manifest"} : Command("attach") \notin ToSet(<<Command(type)>>)
    /\ \A k \in Calls : Command("attach") \notin ToSet(<<Result(k)>>)
    /\ \A ks : Command("attach") \notin ToSet(Results(ks))
    /\ Command("attach") \notin ToSet(<<>>)
    /\ Command("attach") \notin ToSet(<<Command("manifest"), Command("control")>>)
<1>1. /\ \A type \in {"open", "control", "manifest"} : Command(type) # Command("attach")
      /\ \A k : Result(k) # Command("attach")
  BY DEF Command, Result
<1>2. ToSet(<<Command("manifest"), Command("control")>>)
         = {Command("manifest"), Command("control")}
  BY DEF ToSet
<1> QED
  BY <1>1, <1>2, InOne, InEmpty, ResultsTyped

\* A session that starts, ends or asks for the seat.
LEMMA StartFollows ==
    ASSUME Typed, Follow, NEW c \in Clients, Start(c, TRUE) \/ Start(c, FALSE) \/ Control(c)
    PROVE  Follow'
<1>1. UNCHANGED <<journal, subs, link, inbox, cursor>>
  BY DEF Start, Control, daemon, session
<1>2. /\ phase[c] = "following" => phase'[c] = "following"
      /\ \A d \in Clients \ {c} : phase'[d] = phase[d]
  BY DEF Start, Control, session, Typed, SessionsTyped
<1>3. \/ Send(c, <<Command("attach")>>) /\ phase'[c] = "following"
      \/ Send(c, <<>>) \/ Send(c, <<Command("open")>>) \/ Send(c, <<Command("control")>>)
  BY DEF Start, Control, Ask, Typed, SessionsTyped
<1> QED
  BY <1>1, <1>2, <1>3, CommandTyped, NoAttach, SendingFollows

\* The executor only sends answers.
LEMMA ExecutorFollows ==
    ASSUME Typed, Follow, NEW c \in Clients,
           FlushDeferred(c) \/ \E k \in Calls : Decide(c, k) \/ Return(c, k)
    PROVE  Follow'
<1>1. UNCHANGED <<journal, subs, link, inbox, cursor, phase>>
  BY DEF FlushDeferred, Decide, Return, daemon, session
<1>2. \/ UNCHANGED outbox \/ Send(c, <<>>) \/ \E k \in Calls : Send(c, <<Result(k)>>)
      \/ \E ks : Send(c, Results(ks))
  BY DEF FlushDeferred, Decide, Return, Finished, HandleCalls
<1>3. <<>> \in Seq(Commands) /\ (\A ks : Results(ks) \in Seq(Commands))
      /\ \A k \in Calls : <<Result(k)>> \in Seq(Commands)
  BY CommandTyped, ResultsTyped
<1> QED
  BY <1>1, <1>2, <1>3, NoAttach, SendingFollows

\* What a reply sets off.
LEMMA TellFollows == ASSUME Typed, Follow, NEW c \in Clients, Tell(c) PROVE Follow'
<1> DEFINE f == Head(told[c])
<1>1. /\ UNCHANGED <<daemon, link, inbox, cursor>>
      /\ ToldAttached(c, f) \/ ToldOpened(c, f) \/ ToldRefused(c, f)
  BY DEF Tell
<1> HIDE DEF f
<1>2. UNCHANGED <<journal, subs, link, inbox, cursor>>
  BY <1>1 DEF daemon
<1>3. /\ phase[c] = "following" => phase'[c] = "following"
      /\ \A d \in Clients \ {c} : phase'[d] = phase[d]
      /\ ToldOpened(c, f) => phase'[c] = "following"
  BY <1>1 DEF ToldAttached, ToldOpened, ToldRefused, Typed, SessionsTyped
<1> DEFINE attach == <<Command("attach")>> \o <<Command("manifest")>>
           manifest == <<>> \o <<Command("manifest")>>
<1>4. attach \in Seq(Commands) /\ manifest \in Seq(Commands) /\ manifest = <<Command("manifest")>>
  BY CommandTyped, ConcatProperties, ConcatEmptySeq
<1>5. \/ UNCHANGED outbox
      \/ Send(c, <<Command("manifest")>>) \/ Send(c, <<>>)
      \/ Send(c, <<Command("manifest"), Command("control")>>)
      \/ Send(c, attach) /\ ToldOpened(c, f)
      \/ Send(c, manifest)
  BY <1>1 DEF ToldAttached, ToldOpened, ToldRefused
<1> HIDE DEF attach, manifest
<1>6. /\ <<Command("manifest")>> \in Seq(Commands) /\ <<>> \in Seq(Commands)
      /\ <<Command("manifest"), Command("control")>> \in Seq(Commands)
  BY CommandTyped
<1> QED
  BY <1>2, <1>3, <1>4, <1>5, <1>6, NoAttach, SendingFollows

\* Steps that make, lose or give up a connection, or a command.
LEMMA LinkFollows ==
    ASSUME Typed, Follow, NEW c \in Clients,
           Connect(c) \/ Drop(c) \/ Quit(c) \/ CommandTimesOut(c)
    PROVE  Follow'
<1> USE DEF Typed, DaemonTyped, LinksTyped, SessionsTyped
<1>1. UNCHANGED <<journal, subs>>
  BY DEF Connect, Drop, Quit, CommandTimesOut, daemon
<1>2. \A d \in Clients \ {c} :
         /\ link'[d] = link[d] /\ inbox'[d] = inbox[d] /\ outbox'[d] = outbox[d]
         /\ phase'[d] = phase[d] /\ cursor'[d] = cursor[d]
  BY DEF Connect, Drop, Quit, CommandTimesOut, session
<1>3. FollowsOn(c) /\ outbox[c] \in Seq(Commands)
  BY DEF Follow
<1>4. ASSUME Connect(c) PROVE FollowsOn(c)'
  <2>1. link'[c].id = opens + 1 /\ opens \in Nat
    BY <1>4 DEF Connect
  <2>2. link'[c] \notin subs
    BY <2>1 DEF Conn
  <2>3. inbox'[c] = inbox[c] /\ cursor'[c] = cursor[c] /\ phase'[c] = phase[c]
    BY <1>4 DEF Connect, session
  <2>4. Command("attach") \in ToSet(outbox'[c])
           => Command("attach") \in ToSet(outbox[c]) \/ phase'[c] = "following"
    <3>1. phase[c] # "following" => outbox'[c] = <<>> \o outbox[c]
      BY <1>4 DEF Connect
    <3>2. <<>> \o outbox[c] = outbox[c]
      BY <1>3, ConcatEmptySeq
    <3> QED BY <2>3, <3>1, <3>2
  <2> QED BY <1>1, <1>3, <2>2, <2>3, <2>4, FollowsQuiet
<1>5. ASSUME Drop(c) PROVE FollowsOn(c)'
  <2>1. inbox'[c] = <<>> /\ link'[c] \notin subs' /\ phase'[c] = phase[c]
    BY <1>1, <1>5, NobodyApart DEF Drop, session
  <2>2. Command("attach") \in ToSet(outbox'[c]) => Command("attach") \in ToSet(outbox[c])
    <3> DEFINE kept == WithoutAttach(outbox[c])
               ask == <<Command("open")>>
    <3>1. outbox'[c] = ask \o kept \/ outbox'[c] = <<>> \o kept
      BY <1>5 DEF Drop
    <3>2. kept \in Seq(Commands) /\ ToSet(kept) \subseteq ToSet(outbox[c])
          /\ ask \in Seq(Commands) /\ Command("attach") \notin ToSet(ask)
      BY <1>3, CommandTyped, WithoutAttachTyped, NoAttach
    <3> HIDE DEF kept, ask
    <3>3. ToSet(ask \o kept) = ToSet(ask) \cup ToSet(kept)
      BY <3>2, InConcat
    <3>4. <<>> \o kept = kept
      BY <3>2, ConcatEmptySeq
    <3> QED BY <3>1, <3>2, <3>3, <3>4
  <2> QED BY <1>3, <2>1, <2>2, FollowsReset DEF FollowsOn
<1>6. ASSUME Quit(c) PROVE FollowsOn(c)'
  <2>1. inbox'[c] = <<>> /\ link'[c] \notin subs' /\ outbox'[c] = <<>>
    BY <1>1, <1>6, NobodyApart DEF Quit
  <2> QED BY <2>1, InEmpty, FollowsReset
<1>7. ASSUME CommandTimesOut(c) PROVE FollowsOn(c)'
  <2>1. /\ inbox'[c] = inbox[c] /\ cursor'[c] = cursor[c] /\ link'[c] = link[c]
        /\ outbox[c] # <<>> /\ outbox'[c] = Tail(outbox[c])
        /\ phase[c] = "following" => phase'[c] = "following"
    BY <1>7 DEF CommandTimesOut
  <2>2. ToSet(outbox'[c]) \subseteq ToSet(outbox[c])
    BY <1>3, <2>1, InHeadTail
  <2> QED BY <1>1, <1>3, <2>1, <2>2, FollowsQuiet
<1> HIDE DEF Typed, DaemonTyped, LinksTyped, SessionsTyped
<1> QED
  BY <1>1, <1>2, <1>4, <1>5, <1>6, <1>7, PluginStepFollows

\* What a frame does: it brings the next event of the journal, or it reopens a call, or it
\* changes nothing the session knows.
Advances(c, f) ==
    /\ Fresh(f) /\ f.seq = cursor[c] + 1
    /\ cursor' = [cursor EXCEPT ![c] = f.seq]
    /\ IF journal[f.seq].name = "call" THEN OnToolCall(c, journal[f.seq].call, f)
       ELSE OnClosed(c, journal[f.seq])

Reopens(c, f) ==
    /\ f.type = "event" /\ f.reopen
    /\ cursor' = cursor
    /\ journal[f.seq].name = "call" /\ OnToolCall(c, journal[f.seq].call, f)
    /\ \A n \in 1 .. cursor[c] : ~Closes(journal[n], journal[f.seq].call)

Skips(c, f) ==
    /\ Fresh(f) => f.seq <= cursor[c]
    /\ UNCHANGED <<cursor, deferred, ignored, exec, aborted, outbox>>

\* A frame is the next event, a reopened call that is not closed, or changes nothing.
LEMMA ReceiveApplies ==
    ASSUME Typed, Follow, NEW c \in Clients, Receive(c), NEW f, f = Head(inbox[c])
    PROVE  /\ Advances(c, f) \/ Reopens(c, f) \/ Skips(c, f)
           /\ f.type = "event" => f \in EventFrames(Len(journal))
<1>1. /\ inbox[c] \in Seq(Frames(Len(journal))) /\ inbox[c] # <<>> /\ Len(inbox[c]) \in Nat
      /\ f = inbox[c][1] /\ 1 \in 1 .. Len(inbox[c])
      /\ cursor[c] \in 0 .. Len(journal) /\ Len(journal) \in Nat /\ cursor[c] \in Nat
  <2>1. inbox[c] \in Seq(Frames(Len(journal))) /\ inbox[c] # <<>>
    BY DEF Receive, Typed, LinksTyped
  <2>2. Len(inbox[c]) \in Nat /\ Len(inbox[c]) # 0 /\ Head(inbox[c]) = inbox[c][1]
    BY <2>1, LenProperties, EmptySeq, HeadTailProperties
  <2>3. cursor[c] \in 0 .. Len(journal) /\ Len(journal) \in Nat
    BY LenProperties DEF Typed, DaemonTyped, SessionsTyped
  <2> QED BY <2>1, <2>2, <2>3
<1>2. /\ f.type = "event" => f \in EventFrames(Len(journal))
      /\ f.type # "event" => ~Fresh(f)
  BY <1>1, FramesApart DEF Frames, Fresh
<1>3. CASE f.type # "event"
  <2>1. Skips(c, f)
    BY <1>2, <1>3 DEF Receive, Skips
  <2> QED BY <1>3, <2>1
<1>4. CASE f.type = "event"
  <2>1. f.seq \in 1 .. Len(journal) /\ f.reopen \in BOOLEAN
    BY <1>2, <1>4 DEF EventFrames
  <2>2. FollowsOn(c)
    BY DEF Follow
  <2>3. phase[c] = "following"
    BY <1>1, <1>4, <2>2 DEF FollowsOn, HasEvent
  <2>4. OnEvent(c, f)
    BY <1>4 DEF Receive
  <2>5. CASE f.reopen
    <3>1. journal[f.seq].name = "call"
          /\ \A n \in 1 .. Len(journal) : Closes(journal[n], journal[f.seq].call) => n > cursor[c]
      BY <1>1, <1>4, <2>2, <2>5 DEF FollowsOn, Line, ReopensOpen
    <3>2. \A n \in 1 .. cursor[c] : ~Closes(journal[n], journal[f.seq].call)
      BY <1>1, <3>1
    <3>3. cursor' = cursor
      BY <2>3, <2>4, <2>5 DEF OnEvent, Typed, SessionsTyped
    <3>4. Reopens(c, f)
      BY <1>4, <2>3, <2>4, <2>5, <3>1, <3>2, <3>3 DEF OnEvent, Reopens
    <3> QED BY <1>2, <3>4
  <2>6. CASE ~f.reopen /\ f.seq <= cursor[c]
    <3>1. Skips(c, f)
      BY <2>4, <2>6 DEF OnEvent, Skips
    <3> QED BY <1>2, <3>1
  <2>7. CASE ~f.reopen /\ ~(f.seq <= cursor[c])
    <3>1. Fresh(f)
      BY <1>4, <2>7 DEF Fresh
    <3>2. \A t \in cursor[c] + 1 .. f.seq - 1 : \E q \in 1 .. 1 - 1 : Fresh(inbox[c][q])
      BY <1>1, <2>2, <3>1 DEF FollowsOn, Line, InLine
    <3>3. f.seq = cursor[c] + 1
      <4>1. cursor[c] + 1 \notin cursor[c] + 1 .. f.seq - 1
        BY <3>2
      <4> QED BY <1>1, <2>1, <2>7, <4>1
    <3>4. Advances(c, f)
      BY <2>3, <2>4, <2>7, <3>1, <3>3 DEF OnEvent, Advances
    <3> QED BY <1>2, <3>4
  <2> QED BY <2>1, <2>5, <2>6, <2>7
<1> QED
  BY <1>3, <1>4

\* A call that arrives makes the session send answers at the most.
LEMMA OnToolCallSends ==
    ASSUME Typed, NEW c \in Clients, NEW k, NEW f,
           OnToolCall(c, k, f) \/ (\E e : OnClosed(c, e)) \/ UNCHANGED outbox
    PROVE  /\ Command("attach") \in ToSet(outbox'[c]) => Command("attach") \in ToSet(outbox[c])
           /\ \A d \in Clients \ {c} : outbox'[d] = outbox[d]
<1>1. UNCHANGED outbox \/ Send(c, <<>>) \/ \E ks : Send(c, Results(ks))
  BY DEF OnToolCall, OnClosed, HandleCalls
<1>2. <<>> \in Seq(Commands) /\ \A ks : Results(ks) \in Seq(Commands)
  BY CommandTyped, ResultsTyped
<1> QED
  BY <1>1, <1>2, NoAttach, SendTyped

\* A frame that is handled leaves the rest in line.
LEMMA ReceiveFollows == ASSUME Typed, Follow, NEW c \in Clients, Receive(c) PROVE Follow'
<1> DEFINE f == Head(inbox[c])
           s == inbox[c]
<1>1. /\ s \in Seq(Frames(Len(journal))) /\ s # <<>> /\ f = s[1] /\ cursor[c] \in Nat
      /\ inbox'[c] = Tail(s) /\ \A d \in Clients \ {c} : inbox'[d] = inbox[d]
      /\ cursor \in [Clients -> 0 .. Len(journal)]
  <2>1. s \in Seq(Frames(Len(journal))) /\ s # <<>> /\ cursor \in [Clients -> 0 .. Len(journal)]
        /\ inbox'[c] = Tail(s) /\ \A d \in Clients \ {c} : inbox'[d] = inbox[d]
    BY DEF Receive, Typed, LinksTyped, SessionsTyped
  <2>2. Head(s) = s[1]
    BY <2>1, HeadTailProperties
  <2>3. cursor[c] \in 0 .. Len(journal) /\ Len(journal) \in Nat
    BY <2>1, LenProperties DEF Typed, DaemonTyped
  <2> QED BY <2>1, <2>2, <2>3
<1>2. UNCHANGED <<journal, subs, link, phase>>
  BY DEF Receive, daemon
<1>3. (Advances(c, f) \/ Reopens(c, f) \/ Skips(c, f))
      /\ (f.type = "event" => f \in EventFrames(Len(journal)))
  BY ReceiveApplies
<1>4. FollowsOn(c)
  BY DEF Follow
<1> HIDE DEF f, s
<1>5. /\ Command("attach") \in ToSet(outbox'[c]) => Command("attach") \in ToSet(outbox[c])
      /\ \A d \in Clients \ {c} : outbox'[d] = outbox[d]
  BY <1>3, OnToolCallSends DEF Advances, Reopens, Skips
<1>6. /\ \A d \in Clients \ {c} : cursor'[d] = cursor[d]
      /\ \/ cursor'[c] = cursor[c] + 1 /\ Fresh(s[1]) /\ s[1].seq = cursor'[c]
         \/ cursor'[c] = cursor[c] /\ (Fresh(s[1]) => s[1].seq <= cursor[c])
  BY <1>1, <1>3 DEF Advances, Reopens, Skips, Fresh
<1>7. /\ Line(journal, Tail(s), cursor'[c])
      /\ \A t : t > cursor'[c] /\ t \in Nat /\ Has(s, t) => Has(Tail(s), t)
      /\ HasEvent(Tail(s)) => HasEvent(s)
  <2>1. Line(journal, s, cursor[c])
    BY <1>4 DEF FollowsOn, s
  <2> QED BY <1>1, <1>6, <2>1, LineTail
<1>8. ASSUME link[c] \in subs, NEW t \in cursor'[c] + 1 .. Len(journal) PROVE Has(Tail(s), t)
  <2>1. cursor'[c] \in Nat /\ cursor[c] <= cursor'[c] /\ Len(journal) \in Nat
    BY <1>1, <1>6, LenProperties DEF Typed, DaemonTyped
  <2>2. t \in cursor[c] + 1 .. Len(journal) /\ t > cursor'[c] /\ t \in Nat
    BY <1>1, <2>1
  <2>3. Has(s, t)
    BY <1>4, <1>8, <2>2 DEF FollowsOn, s
  <2> QED BY <1>7, <2>2, <2>3
<1>9. FollowsOn(c)'
  BY <1>1, <1>2, <1>4, <1>5, <1>7, <1>8 DEF FollowsOn, s
<1> QED
  BY <1>1, <1>2, <1>5, <1>6, <1>9, PluginStepFollows

\* At first nobody follows anything.
LEMMA InitFollow == Init => Follow
<1> SUFFICES ASSUME Init, NEW c \in Clients PROVE FollowsOn(c)
  BY DEF Follow
<1>1. inbox[c] = <<>> /\ outbox[c] = <<>> /\ subs = {}
  BY DEF Init
<1>2. Line(journal, inbox[c], cursor[c]) /\ ~HasEvent(inbox[c])
  BY <1>1, LineEmpty
<1> QED
  BY <1>1, <1>2, InEmpty DEF FollowsOn

\* However connections, replays and crashes interleave, a client gets every event in order.
LEMMA NextFollow == Typed /\ OnceEach(journal) /\ Follow /\ [Next]_vars => Follow'
<1> SUFFICES ASSUME Typed, OnceEach(journal), Follow, [Next]_vars PROVE Follow'
  OBVIOUS
<1>1. CASE \/ \E k \in Calls : CallTool(k) \/ TimerFires(k) \/ AbortCall(k)
           \/ \E n \in conns : CleanUp(n)
           \/ Crash
  BY <1>1, BrokerFollows
<1>2. ASSUME NEW c \in Clients,
             \/ ServeAttach(c) \/ ServeOpen(c) \/ ServeControl(c)
             \/ ServeManifest(c) \/ ServeResult(c)
      PROVE Follow'
  BY <1>2, ServeAttachFollows, ServeOpenFollows, ServeOtherFollows
<1>3. ASSUME NEW c \in Clients,
             \/ Connect(c) \/ Drop(c) \/ CommandTimesOut(c)
             \/ Start(c, TRUE) \/ Start(c, FALSE) \/ Control(c) \/ Quit(c)
      PROVE Follow'
  BY <1>3, LinkFollows, StartFollows
<1>4. ASSUME NEW c \in Clients,
             \/ Receive(c) \/ Tell(c) \/ FlushDeferred(c)
             \/ \E k \in Calls : Decide(c, k) \/ Return(c, k)
      PROVE Follow'
  BY <1>4, ReceiveFollows, TellFollows, ExecutorFollows
<1>5. CASE UNCHANGED vars
  BY <1>5, FollowsQuiet DEF vars, daemon, network, session, Follow
<1> QED
  BY <1>1, <1>2, <1>3, <1>4, <1>5 DEF Next

\* Steps of the daemon only add to the journal.
LEMMA DaemonJournals ==
    ASSUME NEW c \in Clients,
           \/ \E k \in Calls : CallTool(k) \/ TimerFires(k) \/ AbortCall(k)
           \/ \E n \in conns : CleanUp(n)
           \/ Crash
           \/ ServeAttach(c) \/ ServeOpen(c) \/ ServeControl(c)
           \/ ServeManifest(c) \/ ServeResult(c)
    PROVE  /\ \E e \in Seq(JournalEntry) : journal' = journal \o e \/ journal' = journal
           /\ UNCHANGED <<cursor, deferred, exec, aborted, controller>>
<1>1. UNCHANGED <<cursor, deferred, exec, aborted, controller>>
  BY DEF CallTool, TimerFires, AbortCall, DaemonStep, CleanUp, Crash, ServeAttach, ServeOpen,
         ServeControl, ServeManifest, ServeResult, session, executor
<1> DEFINE b == Reconciled(broker, seat', owner)
           issued == IssuedBetween(broker, b)
           canceled == CanceledOf(b, Open(b))
<1>2. /\ IssuedBetween(broker, broker') \in Seq(JournalEntry) /\ <<>> \in Seq(JournalEntry)
      /\ issued \o canceled \in Seq(JournalEntry)
  BY JournaledTyped
<1>3. /\ Entries("resolved", {Head(outbox[c]).call}) \in Seq(JournalEntry)
      /\ Entries("expired", OpenIn(journal)) \in Seq(JournalEntry)
  BY EntriesTyped DEF Names
<1>4. \/ journal' = journal
      \/ journal' = journal \o <<>>
      \/ journal' = journal \o IssuedBetween(broker, broker')
      \/ journal' = journal \o (issued \o canceled)
      \/ journal' = journal \o Entries("resolved", {Head(outbox[c]).call})
      \/ journal' = journal \o Entries("expired", OpenIn(journal))
      \/ \E k \in Calls : journal' = journal \o CanceledOf(broker, {k})
  BY DEF CallTool, TimerFires, AbortCall, DaemonStep, CleanUp, Crash, ServeAttach, ServeOpen,
         ServeControl, ServeManifest, ServeResult, Publish
<1> HIDE DEF b, issued, canceled
<1>5. \A k \in Calls : CanceledOf(broker, {k}) \in Seq(JournalEntry)
  BY JournaledTyped
<1> QED
  BY <1>1, <1>2, <1>3, <1>4, <1>5

\* What a session has seen of the journal does not change.
LEMMA WorksGrow ==
    ASSUME Typed, Work, NEW e \in Seq(JournalEntry), journal' = journal \o e \/ journal' = journal,
           UNCHANGED <<cursor, deferred, exec, aborted, controller>>
    PROVE  Work'
<1> SUFFICES ASSUME NEW c \in Clients PROVE WorksOn(c)'
  BY DEF Work
<1>1. WorksOn(c)
  BY DEF Work
<1>2. \A n \in 1 .. cursor[c] : journal'[n] = journal[n]
  <2>1. cursor[c] \in 0 .. Len(journal) /\ Len(journal) \in Nat /\ journal \in Seq(JournalEntry)
    BY LenProperties DEF Typed, DaemonTyped, SessionsTyped
  <2>2. \A n \in 1 .. Len(journal) : (journal \o e)[n] = journal[n]
    BY <2>1, Appended
  <2> QED BY <2>1, <2>2
<1> QED
  BY <1>1, <1>2 DEF WorksOn, Running

\* A step of one plugin concerns no other's work.
LEMMA PluginStepWorks ==
    ASSUME Work, NEW c \in Clients, UNCHANGED journal,
           \A d \in Clients \ {c} :
              /\ cursor'[d] = cursor[d] /\ deferred'[d] = deferred[d] /\ exec'[d] = exec[d]
              /\ aborted'[d] = aborted[d] /\ controller'[d] = controller[d],
           WorksOn(c)'
    PROVE  Work'
<1> SUFFICES ASSUME NEW d \in Clients, d # c PROVE WorksOn(d)'
  BY DEF Work
<1>1. WorksOn(d)
  BY DEF Work
<1> QED
  BY <1>1 DEF WorksOn, Running

\* handleCall sets a controller to work on calls that were not closed.
LEMMA HandleCallsWorks ==
    ASSUME Typed, NEW c \in Clients, NEW ks, NEW reopened, HandleCalls(c, ks, reopened),
           UNCHANGED <<journal, aborted, controller>>, controller[c],
           \A k \in Running(c) \ aborted[c], n \in 1 .. cursor'[c] :
              journal[n] # [name |-> "canceled", call |-> k],
           \A k \in ks, n \in 1 .. cursor'[c] : ~Closes(journal[n], k)
    PROVE  \A k \in Running(c)' \ aborted'[c] :
              /\ controller'[c]
              /\ \A n \in 1 .. cursor'[c] : journal'[n] # [name |-> "canceled", call |-> k]
<1> SUFFICES ASSUME NEW k \in Running(c)', k \notin aborted[c], NEW n \in 1 .. cursor'[c]
             PROVE  journal[n] # [name |-> "canceled", call |-> k]
  OBVIOUS
<1>1. k \in Calls /\ (k \in ks \/ k \in Running(c))
  BY DEF Running, HandleCalls, StartNew, Typed, SessionsTyped
<1>2. CASE k \in ks
  <2>1. ~Closes(journal[n], k)
    BY <1>2
  <2> QED BY <2>1 DEF Closes
<1>3. CASE k \in Running(c)
  BY <1>3
<1> QED
  BY <1>1, <1>2, <1>3

\* The calls that were kept for later start with a controller only.
LEMMA FlushWorks == ASSUME Typed, Work, NEW c \in Clients, FlushDeferred(c) PROVE Work'
<1>1. /\ UNCHANGED <<journal, cursor, aborted, controller>>
      /\ deferred'[c] = {}
  BY DEF FlushDeferred, daemon, Typed, SessionsTyped
<1>2. \A d \in Clients \ {c} : exec'[d] = exec[d] /\ deferred'[d] = deferred[d]
  BY DEF FlushDeferred, HandleCalls, StartNew, Typed, SessionsTyped
<1>3. WorksOn(c)
  BY DEF Work
<1>4. CASE UNCHANGED exec
  <2>1. WorksOn(c)'
    BY <1>1, <1>3, <1>4 DEF WorksOn, Running
  <2> QED BY <1>1, <1>2, <2>1, PluginStepWorks
<1>5. CASE controller[c] /\ HandleCalls(c, deferred[c], TRUE)
  <2>1. /\ \A k \in Running(c) \ aborted[c], n \in 1 .. cursor'[c] :
              journal[n] # [name |-> "canceled", call |-> k]
        /\ \A k \in deferred[c], n \in 1 .. cursor'[c] : ~Closes(journal[n], k)
    BY <1>1, <1>3 DEF WorksOn
  <2>2. \A k \in Running(c)' \ aborted'[c] :
           /\ controller'[c]
           /\ \A n \in 1 .. cursor'[c] : journal'[n] # [name |-> "canceled", call |-> k]
    BY <1>1, <1>5, <2>1, HandleCallsWorks
  <2>3. WorksOn(c)'
    BY <1>1, <2>2 DEF WorksOn
  <2> QED BY <1>1, <1>2, <2>3, PluginStepWorks
<1> QED
  BY <1>4, <1>5 DEF FlushDeferred

\* The gates, the user and a tool that returns only take work away or go on with it.
LEMMA ExecutorWorks ==
    ASSUME Typed, Work, NEW c \in Clients, NEW k \in Calls, Decide(c, k) \/ Return(c, k)
    PROVE  Work'
<1>1. UNCHANGED <<journal, cursor, deferred, aborted, controller>>
  BY DEF Decide, Return, daemon, session
<1>2. exec' = [exec EXCEPT ![c][k] = "done"] \/ exec' = [exec EXCEPT ![c][k] = "invoking"]
  BY DEF Decide, Return, Finished
<1>3. exec[c][k] \in {"asking", "invoking"} /\ exec \in [Clients -> [Calls -> ExecState]]
  BY DEF Decide, Return, Typed, SessionsTyped
<1>4. \A d \in Clients \ {c} : exec'[d] = exec[d]
  BY <1>2, <1>3
<1>5. Running(c)' \subseteq Running(c)
  BY <1>2, <1>3 DEF Running
<1>6. WorksOn(c)'
  <2>1. WorksOn(c)
    BY DEF Work
  <2> QED BY <1>1, <1>5, <2>1 DEF WorksOn
<1> QED
  BY <1>1, <1>4, <1>6, PluginStepWorks

\* A plugin that ends works on nothing.
LEMMA QuitWorks == ASSUME Typed, Work, NEW c \in Clients, Quit(c) PROVE Work'
<1>1. UNCHANGED journal /\ deferred'[c] = {} /\ \A k \in Calls : exec'[c][k] = "none"
  BY DEF Quit, daemon, Typed, SessionsTyped
<1>2. \A d \in Clients \ {c} :
         /\ cursor'[d] = cursor[d] /\ deferred'[d] = deferred[d] /\ exec'[d] = exec[d]
         /\ aborted'[d] = aborted[d] /\ controller'[d] = controller[d]
  BY DEF Quit, Typed, SessionsTyped
<1>3. Running(c)' = {}
  BY <1>1 DEF Running
<1>4. WorksOn(c)'
  BY <1>1, <1>3 DEF WorksOn
<1> QED
  BY <1>1, <1>2, <1>4, PluginStepWorks

\* A session that hears it is not the controller drops its work.
LEMMA TellWorks == ASSUME Typed, Work, NEW c \in Clients, Tell(c) PROVE Work'
<1> DEFINE f == Head(told[c])
<1>1. /\ UNCHANGED <<daemon, cursor, deferred, exec>> /\ f \in Replies
      /\ ToldAttached(c, f) \/ ToldOpened(c, f) \/ ToldRefused(c, f)
  BY HeadOfTold DEF Tell
<1> HIDE DEF f
<1>2. UNCHANGED journal
  BY <1>1 DEF daemon
<1>3. \A d \in Clients \ {c} : controller'[d] = controller[d] /\ aborted'[d] = aborted[d]
  BY <1>1 DEF ToldAttached, ToldOpened, ToldRefused, Typed, SessionsTyped
<1>4. Running(c)' = Running(c)
  BY <1>1 DEF Running
<1>5. \/ controller'[c] /\ aborted'[c] = aborted[c]
      \/ Running(c) \subseteq aborted'[c]
      \/ controller'[c] = controller[c] /\ aborted'[c] = aborted[c]
  <2>1. CASE ToldAttached(c, f)
    <3>1. f.controller \in BOOLEAN /\ controller'[c] = f.controller
      BY <1>1, <2>1, RepliesApart DEF ToldAttached, Typed, SessionsTyped
    <3>2. aborted'[c] = IF f.controller THEN aborted[c] ELSE AbortAll(c)
      BY <2>1 DEF ToldAttached, Typed, SessionsTyped
    <3> QED BY <3>1, <3>2 DEF AbortAll
  <2>2. CASE ToldOpened(c, f)
    BY <2>2 DEF ToldOpened, Typed, SessionsTyped
  <2>3. CASE ToldRefused(c, f)
    BY <2>3 DEF ToldRefused
  <2> QED BY <1>1, <2>1, <2>2, <2>3
<1>6. WorksOn(c)
  BY DEF Work
<1>7. WorksOn(c)'
  BY <1>1, <1>2, <1>4, <1>5, <1>6 DEF WorksOn
<1> QED
  BY <1>1, <1>2, <1>3, <1>7, PluginStepWorks

\* A call that is made has not been closed before.
LEMMA MadeUnclosed ==
    ASSUME NEW j \in Seq(JournalEntry), OnceEach(j), NEW m \in 1 .. Len(j), j[m].name = "call",
           NEW n \in 1 .. m
    PROVE  ~Closes(j[n], j[m].call)
<1> SUFFICES ASSUME j[n].call = j[m].call, j[n].name # "call" PROVE FALSE
  BY DEF Closes
<1>1. n # m /\ n < m /\ n \in 1 .. Len(j)
  BY LenProperties
<1> QED
  BY <1>1 DEF OnceEach

\* A session drops the work on a call when the event that cancels it comes.
LEMMA ReceiveWorks ==
    ASSUME Typed, OnceEach(journal), Follow, Work, NEW c \in Clients, Receive(c)
    PROVE  Work'
<1> DEFINE f == Head(inbox[c])
           e == journal[f.seq]
           k == e.call
<1>1. /\ Advances(c, f) \/ Reopens(c, f) \/ Skips(c, f)
      /\ f.type = "event" => f \in EventFrames(Len(journal))
  BY ReceiveApplies
<1> HIDE DEF f
<1>2. UNCHANGED <<journal, controller>>
  BY DEF Receive, daemon
<1>3. /\ journal \in Seq(JournalEntry) /\ Len(journal) \in Nat
      /\ cursor[c] \in 0 .. Len(journal) /\ cursor \in [Clients -> 0 .. Len(journal)]
  BY LenProperties DEF Typed, DaemonTyped, SessionsTyped
<1>4. WorksOn(c)
  BY DEF Work
<1>5. \A d \in Clients \ {c} :
         /\ cursor'[d] = cursor[d] /\ deferred'[d] = deferred[d] /\ exec'[d] = exec[d]
         /\ aborted'[d] = aborted[d] /\ controller'[d] = controller[d]
  BY <1>1, <1>2, <1>3 DEF Advances, Reopens, Skips, OnToolCall, OnClosed, HandleCalls, StartNew,
                          Typed, SessionsTyped
<1>6. ASSUME OnToolCall(c, k, f), \A n \in 1 .. cursor'[c] : ~Closes(journal[n], k),
             \A j \in deferred[c], n \in 1 .. cursor'[c] : ~Closes(journal[n], j),
             \A j \in Running(c) \ aborted[c], n \in 1 .. cursor'[c] :
                journal[n] # [name |-> "canceled", call |-> j]
      PROVE  WorksOn(c)'
  <2> HIDE DEF e, k
  <2>1. UNCHANGED aborted
    BY <1>6 DEF OnToolCall
  <2>2. deferred'[c] \subseteq deferred[c] \cup {k}
    BY <1>6 DEF OnToolCall, Typed, SessionsTyped
  <2>3. \A j \in deferred'[c], n \in 1 .. cursor'[c] : ~Closes(journal'[n], j)
    BY <1>2, <1>6, <2>2
  <2>4. CASE UNCHANGED exec
    <3>1. Running(c)' = Running(c)
      BY <2>4 DEF Running
    <3> QED BY <1>2, <1>4, <1>6, <2>1, <2>3, <3>1 DEF WorksOn
  <2>5. CASE controller[c] /\ HandleCalls(c, {k}, f.reopen)
    <3>1. \A j \in {k}, n \in 1 .. cursor'[c] : ~Closes(journal[n], j)
      BY <1>6
    <3>2. \A j \in Running(c)' \ aborted'[c] :
             /\ controller'[c]
             /\ \A n \in 1 .. cursor'[c] : journal'[n] # [name |-> "canceled", call |-> j]
      BY <1>2, <1>6, <2>1, <2>5, <3>1, HandleCallsWorks
    <3> QED BY <2>3, <3>2 DEF WorksOn
  <2> QED BY <1>6, <2>4, <2>5 DEF OnToolCall
<1>7. CASE Skips(c, f)
  <2>1. WorksOn(c)'
    BY <1>2, <1>4, <1>7 DEF Skips, WorksOn, Running
  <2> QED BY <1>2, <1>5, <2>1, PluginStepWorks
<1>8. CASE Reopens(c, f)
  <2>1. OnToolCall(c, k, f) /\ cursor' = cursor /\ \A n \in 1 .. cursor[c] : ~Closes(journal[n], k)
    BY <1>8 DEF Reopens
  <2>2. /\ \A j \in deferred[c], n \in 1 .. cursor'[c] : ~Closes(journal[n], j)
        /\ \A j \in Running(c) \ aborted[c], n \in 1 .. cursor'[c] :
              journal[n] # [name |-> "canceled", call |-> j]
    BY <1>4, <2>1 DEF WorksOn
  <2>3. WorksOn(c)'
    BY <1>6, <2>1, <2>2
  <2> QED BY <1>2, <1>5, <2>3, PluginStepWorks
<1>9. CASE Advances(c, f)
  <2>1. /\ f.seq \in 1 .. Len(journal) /\ f.seq = cursor[c] + 1 /\ cursor'[c] = f.seq
        /\ \A n \in 1 .. f.seq : n \in 1 .. cursor[c] \/ n = f.seq
    <3>1. f \in EventFrames(Len(journal))
      BY <1>1, <1>9 DEF Advances, Fresh
    <3>2. f.seq \in 1 .. Len(journal)
      BY <3>1 DEF EventFrames
    <3> QED BY <1>3, <1>9, <3>2 DEF Advances
  <2>2. CASE e.name = "call"
    <3>1. OnToolCall(c, k, f)
      BY <1>9, <2>2 DEF Advances
    <3>2. \A n \in 1 .. cursor'[c] : ~Closes(journal[n], k)
      BY <1>3, <2>1, <2>2, MadeUnclosed
    <3>3. \A j : ~Closes(journal[f.seq], j) /\ journal[f.seq] # [name |-> "canceled", call |-> j]
      BY <2>2 DEF Closes
    <3>4. /\ \A j \in deferred[c], n \in 1 .. cursor'[c] : ~Closes(journal[n], j)
          /\ \A j \in Running(c) \ aborted[c], n \in 1 .. cursor'[c] :
                journal[n] # [name |-> "canceled", call |-> j]
      BY <1>4, <2>1, <3>3 DEF WorksOn
    <3>5. WorksOn(c)'
      BY <1>6, <3>1, <3>2, <3>4
    <3> QED BY <1>2, <1>5, <3>5, PluginStepWorks
  <2>3. CASE e.name # "call"
    <3>1. OnClosed(c, e)
      BY <1>9, <2>3 DEF Advances
    <3>2. /\ deferred'[c] = deferred[c] \ {k} /\ UNCHANGED exec
          /\ aborted'[c] = IF e.name = "canceled" THEN Cancel(c, k) ELSE aborted[c]
      BY <3>1 DEF OnClosed, Typed, SessionsTyped
    <3>3. Running(c)' = Running(c)
      BY <3>2 DEF Running
    <3>4. ASSUME NEW j \in deferred'[c], NEW n \in 1 .. cursor'[c] PROVE ~Closes(journal[n], j)
      <4>1. CASE n \in 1 .. cursor[c]
        BY <1>4, <3>2, <4>1 DEF WorksOn
      <4>2. CASE n = f.seq
        BY <3>2, <4>2 DEF Closes
      <4> QED BY <2>1, <4>1, <4>2
    <3>5. ASSUME NEW j \in Running(c) \ aborted'[c]
          PROVE  /\ controller[c]
                 /\ \A n \in 1 .. cursor'[c] : journal[n] # [name |-> "canceled", call |-> j]
      <4>1. j \in Running(c) \ aborted[c]
        BY <3>2, <3>5 DEF Cancel
      <4>2. /\ controller[c]
            /\ \A n \in 1 .. cursor[c] : journal[n] # [name |-> "canceled", call |-> j]
        BY <1>4, <4>1 DEF WorksOn
      <4>3. journal[f.seq] # [name |-> "canceled", call |-> j]
        BY <3>2, <3>5, <4>1, <4>2 DEF Cancel
      <4> QED BY <2>1, <4>2, <4>3
    <3>6. WorksOn(c)'
      BY <1>2, <3>3, <3>4, <3>5 DEF WorksOn
    <3> QED BY <1>2, <1>5, <3>6, PluginStepWorks
  <2> QED BY <2>2, <2>3
<1> QED
  BY <1>1, <1>7, <1>8, <1>9

\* At first nobody works.
LEMMA InitWork == Init => Work
BY DEF Init, Work, WorksOn, Running

\* No step puts a session to work on what was canceled.
LEMMA NextWork == Typed /\ OnceEach(journal) /\ Follow /\ Work /\ [Next]_vars => Work'
<1> SUFFICES ASSUME Typed, OnceEach(journal), Follow, Work, [Next]_vars PROVE Work'
  OBVIOUS
<1>1. ASSUME NEW c \in Clients,
             \/ \E k \in Calls : CallTool(k) \/ TimerFires(k) \/ AbortCall(k)
             \/ \E n \in conns : CleanUp(n)
             \/ Crash
             \/ ServeAttach(c) \/ ServeOpen(c) \/ ServeControl(c)
             \/ ServeManifest(c) \/ ServeResult(c)
      PROVE Work'
  <2>1. /\ \E e \in Seq(JournalEntry) : journal' = journal \o e \/ journal' = journal
        /\ UNCHANGED <<cursor, deferred, exec, aborted, controller>>
    BY <1>1, DaemonJournals
  <2> QED BY <2>1, WorksGrow
<1>2. CASE UNCHANGED <<journal, cursor, deferred, exec, aborted, controller>>
  <2>1. <<>> \in Seq(JournalEntry)
    OBVIOUS
  <2> QED BY <1>2, <2>1, WorksGrow
<1>3. CASE Clients = {}
  BY <1>3 DEF Work
<1>4. CASE \/ \E k \in Calls : CallTool(k) \/ TimerFires(k) \/ AbortCall(k)
           \/ \E n \in conns : CleanUp(n)
           \/ Crash
  BY <1>1, <1>3, <1>4
<1>5. ASSUME NEW c \in Clients,
             \/ Connect(c) \/ Drop(c) \/ CommandTimesOut(c)
             \/ Start(c, TRUE) \/ Start(c, FALSE) \/ Control(c)
      PROVE Work'
  <2>1. UNCHANGED <<journal, cursor, deferred, exec, aborted, controller>>
    BY <1>5 DEF Connect, Drop, CommandTimesOut, Start, Control, daemon, session, executor
  <2> QED BY <1>2, <2>1
<1>6. ASSUME NEW c \in Clients,
             \/ Quit(c) \/ Receive(c) \/ Tell(c) \/ FlushDeferred(c)
             \/ \E k \in Calls : Decide(c, k) \/ Return(c, k)
      PROVE Work'
  BY <1>6, QuitWorks, ReceiveWorks, TellWorks, FlushWorks, ExecutorWorks
<1>7. CASE UNCHANGED vars
  <2>1. UNCHANGED <<journal, cursor, deferred, exec, aborted, controller>>
    BY <1>7 DEF vars, daemon, session, executor
  <2> QED BY <1>2, <2>1
<1> QED
  BY <1>1, <1>4, <1>5, <1>6, <1>7 DEF Next

-----------------------------------------------------------------------------
(* Theorems.                                                               *)

\* HostToolBroker "never hangs": every open call has the timers that end it, whatever
\* connections, seats, manifests, answers and crashes do.
THEOREM CallsNeverHang == Spec => []NeverHangs
<1>1. BrokerInv => NeverHangs
  BY DEF BrokerInv, NeverHangs, Sound, Attachable
<1> QED
  BY <1>1, InitBrokerInv, NextBrokerInv, PTL DEF Spec

\* The plugin's "controller" is true: with its connection up and nothing on the way to it,
\* a session that takes itself for the controller has the seat, whatever stale connections
\* close, and whoever else attaches.
THEOREM ControllersHaveSeat == Spec => []ControllerHasSeat
<1>1. Typed /\ Seats => ControllerHasSeat
  <2> SUFFICES ASSUME Typed, Seats, NEW c \in Clients, Settled(c), controller[c], ~recalled[c]
               PROVE  HasSeat(c)
    BY DEF ControllerHasSeat
  <2>1. SeatStands(c) /\ link[c] \in subs /\ link[c] # Nobody
    BY NobodyApart DEF Seats, Settled, Typed, DaemonTyped
  <2>2. ~AttachComing(c)
    BY SettledHearsNothing
  <2> QED BY <2>1, <2>2 DEF SeatStands, HasSeat
<1> QED
  BY <1>1, InitTyped, NextTyped, InitSeats, NextSeats, PTL DEF Spec

\* "Only the seat holder may run a tool.call": the executor of a settled session starts a
\* tool only while its connection has the seat, however long the user took to approve it.
THEOREM OnlySeatHoldersRun == Spec => OnlySeatHolderRuns
<1>1. Typed /\ Seats /\ AskingControls /\ [Next]_vars =>
         [\A c \in Clients, k \in Calls :
             exec[c][k] = "asking" /\ exec'[c][k] = "invoking" /\ Settled(c) /\ ~recalled[c]
                 => HasSeat(c)]_vars
  <2> SUFFICES ASSUME Typed, Seats, AskingControls, [Next]_vars, NEW c \in Clients, NEW k \in Calls,
                      exec[c][k] = "asking", exec'[c][k] = "invoking", Settled(c), ~recalled[c]
               PROVE  HasSeat(c)
    OBVIOUS
  <2>1. k \notin aborted[c]
    BY RunsUnaborted
  <2>2. controller[c]
    BY <2>1 DEF AskingControls
  <2>3. SeatStands(c) /\ link[c] \in subs /\ link[c] # Nobody
    BY NobodyApart DEF Seats, Settled, Typed, DaemonTyped
  <2>4. ~AttachComing(c)
    BY SettledHearsNothing
  <2> QED BY <2>2, <2>3, <2>4 DEF SeatStands, HasSeat
<1> QED
  BY <1>1, InitTyped, NextTyped, InitSeats, NextSeats, InitAsking, NextAsking, PTL
     DEF Spec, OnlySeatHolderRuns

\* What clients see open is what the daemon waits for, and every call is journaled once and
\* closed once, however answers, timers, interrupts, connections and crashes race.
THEOREM JournalsAgree == Spec => []JournalAgrees
<1> DEFINE Inv == Journaled(journal, broker)
<1>1. Inv => JournalAgrees
  BY DEF Journaled, OnceEach, JournalAgrees
<1>2. Init => Inv
  BY InitJournaled
<1>3. Typed /\ BrokerInv /\ Inv /\ [Next]_vars => Inv'
  BY NextJournaled
<1> HIDE DEF Inv
<1> QED
  BY <1>1, <1>2, <1>3, InitTyped, NextTyped, InitBrokerInv, NextBrokerInv, PTL DEF Spec

\* A settled controller is not at work on a call the daemon has canceled, whether the
\* cancel reached it as it happened or in a replay.
THEOREM CanceledStops == Spec => []CanceledIsAborted
<1> DEFINE Inv == Journaled(journal, broker)
<1>1. Work => CanceledIsAborted
  BY DEF Work, WorksOn, CanceledIsAborted
<1>2. Init => Inv
  BY InitJournaled
<1>3. Typed /\ BrokerInv /\ Inv /\ [Next]_vars => Inv'
  BY NextJournaled
<1>4. Typed /\ Inv /\ Follow /\ [Next]_vars => Follow'
  BY NextFollow DEF Journaled
<1>5. Typed /\ Inv /\ Follow /\ Work /\ [Next]_vars => Work'
  BY NextWork DEF Journaled
<1> HIDE DEF Inv
<1> QED
  BY <1>1, <1>2, <1>3, <1>4, <1>5, InitTyped, NextTyped, InitBrokerInv, NextBrokerInv,
     InitFollow, InitWork, PTL DEF Spec

\* The types of the daemon's, the network's and the plugins' state: a connection that
\* follows the thread is open, a cursor never passes the journal's end.
THEOREM TypesHold == Spec => []TypeOK
<1>1. Typed /\ BrokerInv => TypeOK
  <2> SUFFICES ASSUME Typed, BrokerInv PROVE TypeOK
    OBVIOUS
  <2> USE DEF Typed, DaemonTyped, LinksTyped, SessionsTyped, Linked
  <2>1. ASSUME NEW c \in Clients
        PROVE  /\ link[c] = Nobody \/ link[c].client = c
               /\ phase[c] \in {"none", "opening", "following"}
               /\ asked[c] \in {"none", "sent", "opened", "refused"}
               /\ opened[c] \in BOOLEAN /\ controller[c] \in BOOLEAN
               /\ cursor[c] \in 0 .. Len(journal)
               /\ deferred[c] \subseteq Calls /\ ignored[c] \subseteq Calls
               /\ aborted[c] \subseteq Calls /\ exec[c] \in [Calls -> ExecState]
    OBVIOUS
  <2> QED BY <2>1 DEF TypeOK, BrokerInv, Sound
<1> QED
  BY <1>1, InitTyped, NextTyped, InitBrokerInv, NextBrokerInv, PTL DEF Spec
=============================================================================

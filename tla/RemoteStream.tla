---------------------------- MODULE RemoteStream ----------------------------
(***************************************************************************)
(* One thread's event stream from the daemon to the plugin, end to end:    *)
(* the journal behind it (as its clients see it; DiskJournal has the       *)
(* writes), attach and live delivery (daemon/connection.ts), the client's  *)
(* subscription (DaemonClient.ts), the session that applies events         *)
(* (RemoteHarnessSession.ts) and the thread the plugin saves               *)
(* (persistAck.ts).  Either side may crash and the connection may drop.    *)
(*                                                                         *)
(* Frames leave the daemon in one order, commands arrive in the order they *)
(* were sent, and a dropped connection loses both.  A daemon that dies is  *)
(* one step with the next one's recovery: a client cannot tell it from a   *)
(* daemon that is slow to answer.                                          *)
(***************************************************************************)
EXTENDS Journal, Subsequences

CONSTANTS MaxSeq,     \* bound: sequence numbers
          MaxEpoch,   \* bound: daemon processes
          MaxChain,   \* MAX_EPOCH_HISTORY
          MaxLeaves   \* bound: connections that drop, and times the plugin quits or lets
                      \* go of the thread, together

ASSUME RemoteStreamAssumption ==
    /\ MaxSeq \in Nat /\ MaxEpoch \in Nat \ {0} /\ MaxChain \in Nat \ {0, 1}
    /\ MaxLeaves \in Nat

VARIABLES
    \* the daemon
    epoch, driver, turn, log, last, low, acked, checkpoint, flushed, sidecar, chain,
    timeline,     \* history: every event not lost in a crash, evicted or not
    \* the connection
    link, wire, live, asking, drops,
    \* the plugin
    phase, sub, remote, openFrom, awaiting, busy, transcript, stream, leaves,
    applied,      \* history: the events behind what the session shows
    unrewound,    \* history: a cursor was not sent back that may have to be: session.open
                  \* replaced its epoch first, or the chain no longer has its process
    \* the plugin's disk
    saved, snapshot

daemon == <<epoch, driver, turn, log, last, low, acked, checkpoint, flushed, sidecar, chain,
            timeline>>
connection == <<link, wire, live, asking, drops>>
session == <<phase, sub, remote, openFrom, awaiting, busy, transcript, stream, applied, unrewound>>
disk == <<saved, snapshot>>
vars == <<daemon, connection, session, leaves, disk>>

None == [none |-> TRUE]        \* no subscription, no command, no snapshot
Closed == 0 - 1                \* openFrom when no assistant message is being streamed

Attached(rs) == [kind |-> "attached", epoch |-> epoch, rewinds |-> rs]
Opened == [kind |-> "opened", epoch |-> epoch]
EventFrame(e) == [kind |-> "event", entry |-> e]
ResyncFrame == [kind |-> "resync", seq |-> last, checkpoint |-> checkpoint]

\* Entries of a set as a sequence, oldest first.
Numbered(es, n) == IF n \in Seqs(es) THEN CHOOSE e \in es : e.seq = n ELSE None

InOrder(es) == Picked([n \in 1 .. MaxSeq |-> Numbered(es, n)], Seqs(es))

EventFrames(es) == LET s == InOrder(es) IN [i \in 1 .. Len(s) |-> EventFrame(s[i])]

Messages(es) == {e \in es : e.role = "message"}
Tokens(es) == {e \in es : e.role = "token"}
TurnInFlightHere == awaiting \/ busy

Init ==
    /\ epoch = 1 /\ driver = FALSE /\ turn = "idle"
    /\ log = {} /\ last = 0 /\ low = 0 /\ acked = 0 /\ checkpoint = {}
    /\ flushed = 0 /\ sidecar = 0 /\ chain = <<[epoch |-> 1, startSeq |-> 0]>>
    /\ timeline = {}
    /\ link = FALSE /\ wire = <<>> /\ live = FALSE /\ asking = None /\ drops = 0
    /\ phase = "none" /\ sub = None /\ remote = [lastSeq |-> 0, epoch |-> 0]
    /\ openFrom = Closed /\ awaiting = FALSE /\ busy = FALSE
    /\ transcript = <<>> /\ stream = <<>> /\ leaves = 0
    /\ applied = {} /\ unrewound = FALSE
    /\ saved = [remote |-> remote, turnPending |-> FALSE, transcript |-> <<>>, applied |-> {}]
    /\ snapshot = None

-----------------------------------------------------------------------------
(* The daemon: events of the thread's session.                             *)

\* The journal takes these events one after the other; over its size limit it
\* drops finished acked tokens and then evicts up to w, and a boundary event or an
\* eviction forces everything to disk.
Record(roles) ==
    LET new == {Stamp(last + i, [role |-> roles[i], req |-> NoRequest], epoch) :
                   i \in 1 .. Len(roles)}
        all == log \cup new
    IN
    /\ last' = last + Len(roles) /\ last' <= MaxSeq
    /\ \/ log' = all /\ UNCHANGED low
       \/ \E w \in Seqs(log) :
             /\ log' = After(DropFinishedAckedTokens(all, acked), w)
             /\ low' = MaxOf(low, w)
    /\ checkpoint' = Live(checkpoint \cup new)
    /\ timeline' = timeline \cup new
    /\ IF low' # low \/ \E e \in new : IsBoundary(e)
       THEN flushed' = last' /\ sidecar' = last'
       ELSE UNCHANGED <<flushed, sidecar>>

\* A live subscriber is sent each event as it is appended.
Push == wire' = IF live THEN wire \o EventFrames(timeline' \ timeline) ELSE wire

\* session.send is accepted.  With no session running (reaped, or lost in a
\* restart) one is started first, which journals the state it starts in.
Send ==
    /\ live /\ phase = "following" /\ ~TurnInFlightHere /\ turn = "idle"
    /\ awaiting' = TRUE
    /\ driver' = TRUE /\ turn' = "busy"
    /\ Record(IF driver THEN <<"busy">> ELSE <<"idle", "busy">>)
    /\ Push
    /\ UNCHANGED <<epoch, acked, chain, link, live, asking, drops, phase, sub, remote, openFrom,
                   busy, transcript, stream, applied, unrewound, leaves, disk>>

\* What the running session emits, and when: output during a turn, then its end,
\* then (in a later callback) the idle state; anything else at any time.
Emit(role) ==
    /\ driver
    /\ \/ role = "other" /\ UNCHANGED turn
       \/ turn = "busy" /\ role \in {"token", "message"} /\ UNCHANGED turn
       \/ turn = "busy" /\ role = "turn_end" /\ turn' = "ended"
       \/ turn = "ended" /\ role = "idle" /\ turn' = "idle"
    /\ Record(<<role>>)
    /\ Push
    /\ UNCHANGED <<epoch, driver, acked, chain, link, live, asking, drops, session, leaves, disk>>

\* The retention timer: expired events up to w go, then finished acked tokens.
Compact(w) ==
    /\ w \in {0} \cup Seqs(log)
    /\ log' = DropFinishedAckedTokens(After(log, w), acked)
    /\ log' # log
    /\ low' = MaxOf(low, w)
    /\ flushed' = last /\ sidecar' = last
    /\ UNCHANGED <<epoch, driver, turn, last, acked, checkpoint, chain, timeline, connection,
                   session, leaves, disk>>

\* The daemon dies and the next one recovers.  The log holds what was forced to disk
\* and what the flush timer wrote since, through c; numbering resumes after it, the
\* new process joins the chain, and a turn that was running is closed out (onError
\* and onInterrupted are one turn_end here).
Restart(c) ==
    /\ epoch < MaxEpoch /\ c \in flushed .. last
    /\ LET kept == log \ After(log, c)
           from == MaxOf(c, sidecar)
           ends == IF TurnInFlight(Live(kept)) THEN <<"turn_end", "idle">> ELSE <<>>
           new == {Stamp(from + i, [role |-> ends[i], req |-> NoRequest], epoch + 1) :
                      i \in 1 .. Len(ends)}
       IN
       /\ log' = kept \cup new
       /\ last' = from + Len(ends) /\ last' <= MaxSeq
       /\ checkpoint' = Live(log')
       /\ timeline' = (timeline \ After(timeline, c)) \cup new
       /\ flushed' = IF ends = <<>> THEN c ELSE last'
       /\ sidecar' = last'
       /\ chain' = RecordEpoch(chain, epoch + 1, from, MaxChain)
    /\ epoch' = epoch + 1 /\ driver' = FALSE /\ turn' = "idle"
    /\ link' = FALSE /\ wire' = <<>> /\ live' = FALSE /\ asking' = None
    /\ UNCHANGED <<low, acked, drops, session, leaves, disk>>

-----------------------------------------------------------------------------
(* The connection.                                                         *)

AttachFrom(s) == [afterSeq |-> s.cursor, epoch |-> s.epoch]

\* Variant: a subscription attaches only when it is made.
AttachNothing == None

Reattach == IF sub = None THEN None ELSE AttachFrom(sub)

\* A socket opens and is welcomed; every subscription attaches again, from the
\* point the client has applied.
Connect ==
    /\ ~link /\ phase # "none"
    /\ link' = TRUE
    /\ asking' = Reattach
    /\ UNCHANGED <<daemon, wire, live, drops, session, leaves, disk>>

Drop ==
    /\ link /\ drops + leaves < MaxLeaves
    /\ drops' = drops + 1
    /\ link' = FALSE /\ wire' = <<>> /\ live' = FALSE /\ asking' = None
    /\ UNCHANGED <<daemon, session, leaves, disk>>

RewindFor(p, s) == RewindPoints(chain, epoch, p, s)

\* The chain's oldest links are dropped: of such a process nothing is known any more.
Forgotten(p, s) == s > 0 /\ \A i \in 1 .. Len(chain) : chain[i].epoch # p

\* Variant: the replay starts where the client asked.
ReplayFromCursor(a) == a.afterSeq

ReplayFrom(a) ==
    LET back == RewindFor(a.epoch, a.afterSeq) IN
    IF back = {} THEN a.afterSeq ELSE CHOOSE r \in back : TRUE

\* attach: the reply first, then the replay (or the checkpoint), then whatever is
\* appended from now on.  A cursor ahead of the journal is answered with the
\* checkpoint.  Frames of an earlier attach that were not yet sent are dropped.
ServeAttach ==
    /\ asking # None
    /\ LET from == ReplayFrom(asking)
           rewinds == RewindFor(asking.epoch, asking.afterSeq) IN
       \E n \in (IF live THEN 0 .. Len(wire) ELSE {Len(wire)}) :
          wire' = SubSeq(wire, 1, n)
                  \o <<Attached(rewinds)>>
                  \o (IF from > last \/ from < low
                      THEN <<ResyncFrame>>
                      ELSE EventFrames(After(log, from)))
    /\ live' = TRUE /\ asking' = None
    /\ unrewound' = (unrewound \/ Forgotten(asking.epoch, asking.afterSeq))
    /\ UNCHANGED <<daemon, link, drops, phase, sub, remote, openFrom, awaiting, busy, transcript,
                   stream, applied, leaves, disk>>

\* session.open: adopt the session, or start one.  A reply that was lost is asked
\* for again on the next connection.
ServeOpen ==
    /\ link /\ phase = "opening" /\ \A i \in 1 .. Len(wire) : wire[i].kind # "opened"
    /\ driver' = TRUE
    /\ IF driver
       THEN UNCHANGED <<log, last, low, checkpoint, flushed, sidecar, timeline>>
       ELSE Record(<<"idle">>)
    /\ wire' = wire \o <<Opened>>
    /\ UNCHANGED <<epoch, turn, acked, chain, link, live, asking, drops, session, leaves, disk>>

-----------------------------------------------------------------------------
(* The plugin: the session.                                                *)

\* subscribe: what lies below the cursor counts as acknowledged.
Following(cursor, p) ==
    [cursor |-> cursor, epoch |-> p, ackTarget |-> cursor, ackSent |-> cursor]

\* A rewind takes back what was to be acknowledged above it.
Rewound(s, to, p) ==
    [cursor |-> to, epoch |-> p,
     ackTarget |-> MinOf(s.ackTarget, to),
     ackSent |-> IF s.ackTarget > to THEN MinOf(s.ackSent, to) ELSE s.ackSent]

\* start: the session is opened on the daemon first, and only then followed.
Start ==
    /\ phase = "none"
    /\ phase' = "opening"
    /\ UNCHANGED <<daemon, connection, sub, remote, openFrom, awaiting, busy, transcript, stream,
                   applied, unrewound, leaves, disk>>

\* ensureOpen records the daemon's epoch, follow subscribes with it.
ReceiveOpened(f) ==
    /\ f.kind = "opened"
    /\ IF phase = "opening"
       THEN /\ phase' = "following"
            /\ remote' = [remote EXCEPT !.epoch = f.epoch]
            /\ sub' = Following(remote.lastSeq, f.epoch)
            /\ asking' = AttachFrom(sub')
            /\ unrewound' = (unrewound \/ RewindFor(remote.epoch, remote.lastSeq) # {}
                                         \/ Forgotten(remote.epoch, remote.lastSeq))
       ELSE UNCHANGED <<phase, remote, sub, asking, unrewound>>
    /\ UNCHANGED <<openFrom, awaiting, busy, transcript, stream, applied>>

\* Variant: the persisted cursor is left where it was.
KeptRemote(r, p) == [remote EXCEPT !.epoch = p]

RewoundRemote(r, p) == [lastSeq |-> MinOf(remote.lastSeq, r), epoch |-> p]

\* The reply to attach: a rewind lowers every cursor and drops the half-streamed text.
ReceiveAttached(f) ==
    /\ f.kind = "attached"
    /\ \/ sub = None /\ UNCHANGED <<sub, remote, openFrom, stream>>
       \/ \E r \in f.rewinds :
             /\ sub # None /\ r < sub.cursor
             /\ sub' = Rewound(sub, r, f.epoch)
             /\ remote' = RewoundRemote(r, f.epoch)
             /\ openFrom' = Closed /\ stream' = <<>>
       \/ /\ sub # None /\ \A r \in f.rewinds : r >= sub.cursor
          /\ sub' = [sub EXCEPT !.epoch = f.epoch]
          /\ remote' = [remote EXCEPT !.epoch = f.epoch]
          /\ UNCHANGED <<openFrom, stream>>
    /\ UNCHANGED <<phase, awaiting, busy, transcript, applied, unrewound, asking>>

\* trackStream: where the assistant message being streamed began, if one is.
StreamFrom(e) ==
    IF e.role = "token" THEN (IF openFrom = Closed THEN e.seq - 1 ELSE openFrom)
    ELSE IF e \in Finishers({e}) THEN Closed
    ELSE openFrom

\* advanceCursor: the persisted cursor stays before an unfinished message.
AdvancedCursor(e, from) == MaxOf(remote.lastSeq, IF from # Closed THEN from ELSE e.seq)

\* An event above the cursor is applied, any other is a duplicate.
ReceiveEvent(f) ==
    /\ f.kind = "event"
    /\ LET e == f.entry IN
       IF sub = None \/ (sub # None /\ e.seq <= sub.cursor)
       THEN UNCHANGED <<sub, remote, openFrom, awaiting, busy, transcript, stream, applied>>
       ELSE /\ sub' = [sub EXCEPT !.cursor = e.seq]
            /\ openFrom' = StreamFrom(e)
            /\ remote' = [remote EXCEPT !.lastSeq = AdvancedCursor(e, openFrom')]
            /\ transcript' = IF e.role = "message" THEN Append(transcript, e) ELSE transcript
            /\ stream' = IF e.role = "token" THEN Append(stream, e)
                         ELSE IF e \in Finishers({e}) THEN <<>> ELSE stream
            /\ busy' = (e.role = "busy" \/ (busy /\ e.role # "idle"))
            /\ awaiting' = (awaiting /\ e.role \notin {"busy", "turn_end"})
            /\ applied' = applied \cup {e}
    /\ UNCHANGED <<phase, unrewound, asking>>

\* Variant: every message of the checkpoint is added.
CheckpointMessagesOf(f) == Messages(f.checkpoint)

\* Those past what the transcript already covers.
MissedMessages(f) ==
    IF f.seq >= remote.lastSeq THEN After(Messages(f.checkpoint), remote.lastSeq) ELSE {}

\* Variant: the text streamed so far stays.
StreamContinued(f) == stream \o InOrder(Tokens(f.checkpoint))

StreamOf(f) == InOrder(Tokens(f.checkpoint))

\* onResync: the unfinished text is streamed again from the checkpoint, the messages
\* that were missed are added, and a turn that is no longer running is settled.
ReceiveResync(f) ==
    /\ f.kind = "resync"
    /\ IF sub = None
       THEN UNCHANGED <<sub, remote, openFrom, awaiting, busy, transcript, stream, applied>>
       ELSE LET states == {e \in f.checkpoint : e.role \in {"busy", "idle"}}
                until == IF Tokens(f.checkpoint) = {} THEN f.seq ELSE f.seq - 1
            IN
            /\ sub' = [sub EXCEPT !.cursor = f.seq]
            /\ remote' = [remote EXCEPT !.lastSeq = until]
            /\ openFrom' = IF until = f.seq THEN Closed ELSE until
            /\ stream' = StreamOf(f)
            /\ transcript' = transcript \o InOrder(MissedMessages(f))
            /\ busy' = IF states = {} THEN busy ELSE \E e \in states : e.role = "busy"
            /\ awaiting' = (awaiting /\ busy')
            /\ applied' = applied \cup {e \in timeline : e.seq <= f.seq}
    /\ UNCHANGED <<phase, unrewound, asking>>

Receive ==
    /\ wire # <<>>
    /\ wire' = Tail(wire)
    /\ LET f == Head(wire) IN
       \/ ReceiveOpened(f) \/ ReceiveAttached(f) \/ ReceiveEvent(f) \/ ReceiveResync(f)
    /\ UNCHANGED <<daemon, link, live, drops, leaves, disk>>

-----------------------------------------------------------------------------
(* The plugin: saving, acknowledging, leaving and coming back.             *)

\* A save of a thread that has changed.  saveThenAck: the cursor to acknowledge is
\* the one the save was requested with.
BeginSave ==
    /\ phase = "following" /\ snapshot = None
    /\ snapshot' = [remote |-> remote, turnPending |-> TurnInFlightHere,
                    transcript |-> transcript, applied |-> applied]
    /\ snapshot' # saved
    /\ UNCHANGED <<daemon, connection, session, leaves, saved>>

\* Variant: the cursor as it is once the save is done.
AckLiveCursor(s) == [s EXCEPT !.ackTarget = MaxOf(s.ackTarget, remote.lastSeq)]

\* ... never past the live cursor (notifyPersisted).
AckAfterSave(s) ==
    [s EXCEPT !.ackTarget = MaxOf(s.ackTarget, MinOf(snapshot.remote.lastSeq, remote.lastSeq))]

FinishSave ==
    /\ snapshot # None
    /\ saved' = snapshot
    /\ snapshot' = None
    /\ sub' = IF sub = None THEN None ELSE AckAfterSave(sub)
    /\ UNCHANGED <<daemon, connection, phase, remote, openFrom, awaiting, busy, transcript,
                   stream, applied, unrewound, leaves>>

\* The debounced ack reaches the daemon, which records it (clamped to its last seq)
\* in its sidecar; one that is lost is sent again.
SendAck ==
    /\ live /\ sub # None /\ sub.ackTarget > sub.ackSent
    /\ sub' = [sub EXCEPT !.ackSent = sub.ackTarget]
    /\ acked' = MaxOf(acked, MinOf(sub.ackTarget, last))
    /\ sidecar' = IF acked' > acked THEN last ELSE sidecar
    /\ UNCHANGED <<epoch, driver, turn, log, last, low, checkpoint, flushed, chain, timeline,
                   connection, phase, remote, openFrom, awaiting, busy, transcript, stream,
                   applied, unrewound, leaves, disk>>

\* detach: the plugin lets go of a thread; its cursor stays on the thread.
Detach ==
    /\ phase = "following" /\ ~TurnInFlightHere /\ drops + leaves < MaxLeaves
    /\ leaves' = leaves + 1
    /\ phase' = "none" /\ sub' = None /\ openFrom' = Closed /\ stream' = <<>>
    /\ live' = FALSE /\ asking' = None
    /\ UNCHANGED <<daemon, link, wire, drops, remote, awaiting, busy, transcript, applied,
                   unrewound, disk>>

\* The plugin ends, in an orderly way or not, and starts again from what it saved:
\* a thread whose turn was running is followed at once (resumeRemoteTurns).
Quit ==
    /\ drops + leaves < MaxLeaves
    /\ leaves' = leaves + 1
    /\ remote' = saved.remote /\ transcript' = saved.transcript /\ applied' = saved.applied
    /\ IF saved.turnPending
       THEN /\ phase' = "following"
            /\ sub' = Following(saved.remote.lastSeq, saved.remote.epoch)
       ELSE phase' = "none" /\ sub' = None
    /\ awaiting' = saved.turnPending /\ busy' = FALSE
    /\ openFrom' = Closed /\ stream' = <<>>
    /\ snapshot' = None
    /\ link' = FALSE /\ wire' = <<>> /\ live' = FALSE /\ asking' = None
    /\ UNCHANGED <<daemon, drops, unrewound, saved>>

-----------------------------------------------------------------------------

Next ==
    \/ Send
    \/ \E role \in {"token", "message", "turn_end", "idle", "other"} : Emit(role)
    \/ \E c \in 0 .. MaxSeq : Compact(c) \/ Restart(c)
    \/ Connect \/ Drop \/ ServeAttach \/ ServeOpen
    \/ Start \/ Receive
    \/ BeginSave \/ FinishSave \/ SendAck \/ Detach \/ Quit

Spec == Init /\ [][Next]_vars

\* Sockets reconnect by timers, the daemon serves what arrives and the plugin
\* handles what it is sent; nothing obliges the daemon's session to go on.
Fairness ==
    /\ WF_vars(Connect) /\ WF_vars(ServeAttach) /\ WF_vars(ServeOpen) /\ WF_vars(Receive)

FairSpec == Spec /\ Fairness

-----------------------------------------------------------------------------
(* Properties.                                                             *)

Frame(f) ==
    \/ f.kind \in {"attached", "opened"} /\ f.epoch \in Nat /\ (f.kind = "attached" => f.rewinds \subseteq Nat)
    \/ f.kind = "event" /\ f.entry \in Entry
    \/ f.kind = "resync" /\ f.seq \in Nat /\ f.checkpoint \subseteq Entry

TypeOK ==
    /\ epoch \in Nat /\ driver \in BOOLEAN /\ turn \in {"idle", "busy", "ended"}
    /\ log \subseteq Entry /\ timeline \subseteq Entry /\ checkpoint \subseteq Entry
    /\ last \in Nat /\ low \in 0 .. last /\ acked \in 0 .. last
    /\ flushed \in 0 .. last /\ sidecar \in 0 .. last
    /\ chain \in Seq(Epoch)
    /\ link \in BOOLEAN /\ live \in BOOLEAN /\ (live => link) /\ (asking # None => link)
    /\ \A i \in 1 .. Len(wire) : Frame(wire[i])
    /\ phase \in {"none", "opening", "following"} /\ (sub # None <=> phase = "following")
    /\ openFrom \in Nat \cup {Closed} /\ awaiting \in BOOLEAN /\ busy \in BOOLEAN
    /\ \A i \in 1 .. Len(transcript) : transcript[i] \in Messages(applied)
    /\ \A i \in 1 .. Len(stream) : stream[i] \in Entry /\ stream[i].role = "token"

\* "Can never double-apply": whatever is replayed, resent or recovered from a
\* checkpoint, no message is in the transcript twice and none precedes an older one.
InOrderOnce ==
    \A i, j \in 1 .. Len(transcript) : i < j =>
        \/ transcript[i].seq < transcript[j].seq
        \/ transcript[i].by < transcript[j].by

\* A client that has received all there is.
CaughtUp == live /\ wire = <<>> /\ asking = None /\ sub # None

\* What the cursor has passed, the session has applied; only tokens of a finished
\* message may be skipped.
NothingSkipped ==
    CaughtUp => \A e \in timeline :
        e.seq <= sub.cursor /\ e.role # "token" => e \in applied

\* ... and as long as every cursor that had to was sent back, nothing else is.
NothingSkippedWhenRewound == ~unrewound => NothingSkipped

\* In the saved transcript, or behind the point the daemon sends the saved cursor
\* back to, so that it is delivered again (if its chain still has the cursor's process).
SavedOrReplayed(e) ==
    \/ \E i \in 1 .. Len(saved.transcript) : saved.transcript[i] = e
    \/ \E r \in RewindFor(saved.remote.epoch, saved.remote.lastSeq) : r < e.seq
    \/ Forgotten(saved.remote.epoch, saved.remote.lastSeq)

\* The saved cursor never runs ahead of the saved transcript: a plugin that dies gets
\* every retained message its saved transcript lacks again.
SavedCursorCovered ==
    ~unrewound => \A e \in Messages(log) : e.seq <= saved.remote.lastSeq => SavedOrReplayed(e)

\* "The daemon may drop its replay buffer only once the transcript that buffer would
\* rebuild is safely on this side's disk": an ack that covers a message comes after a
\* save that has it.
AckedIsSaved ==
    [][~unrewound => \A e \in Messages(log) :
           acked < e.seq /\ e.seq <= acked' => SavedOrReplayed(e)]_vars

\* Once caught up, the half-streamed text has every token of the daemon's checkpoint.
StreamedWhole ==
    CaughtUp /\ ~unrewound =>
        \A e \in Tokens(checkpoint) : \E i \in 1 .. Len(stream) : stream[i] = e

\* "So nothing is shown twice": whatever is replayed or taken from a checkpoint, the
\* half-streamed text has each token once, in order, and until the plugin has been
\* restarted it lacks none.
StreamedOnce ==
    /\ \A i, j \in 1 .. Len(stream) : i < j => stream[i].seq < stream[j].seq
    /\ leaves = 0 => StreamedWhole

\* "Show it as running until the replay says otherwise": a client that has received
\* an idle state after the last busy one does not show a turn as running.
SettledWhenCaughtUp ==
    (CaughtUp /\ \E e \in timeline :
         e.role = "idle" /\ \A f \in timeline : f.role = "busy" => f.seq < e.seq)
    => ~TurnInFlightHere

\* Once nothing fails any more, a thread that is followed has been sent every event
\* the daemon still retains.
CatchesUp == <>[](sub # None => After(log, sub.cursor) = {})
=============================================================================

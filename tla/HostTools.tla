------------------------------ MODULE HostTools ------------------------------
(***************************************************************************)
(* Host tools of one remote thread: the agent on the daemon calls a tool   *)
(* that only exists in the plugin.  The seat of the thread                 *)
(* (daemon/controlRegistry.ts), the broker (HostToolBroker), attach and    *)
(* the commands that need the seat (daemon/connection.ts), the plugin's    *)
(* client (DaemonClient.ts), session (RemoteHarnessSession.ts) and         *)
(* executor (hostToolExecutor.ts).  Two installs of the plugin may follow  *)
(* the same thread; sockets die unnoticed by either side, the daemon may   *)
(* crash and a plugin may quit.                                            *)
(*                                                                         *)
(* Calls and their closing events are forced to disk as they are journaled *)
(* (DiskJournal), so the journal here survives a crash whole; events that  *)
(* have no part in host tools, and eviction, are left out.                 *)
(***************************************************************************)
EXTENDS HostToolBroker, SequencesExt

CONSTANTS Clients,      \* plugin installs, each with an instance id of its own
          MaxConn,      \* bound: connections, of all clients together
          MaxCrashes,   \* bound: daemon crashes
          MaxQuits,     \* bound: times a plugin quits
          MaxControls   \* bound: commands of users that need the seat

ASSUME HostToolsAssumption ==
    /\ MaxConn \in Nat /\ MaxCrashes \in Nat /\ MaxQuits \in Nat /\ MaxControls \in Nat

VARIABLES
    \* the daemon
    driver,      \* a session is running on the daemon
    conns, subs, \* connections it holds open, and those that follow the thread
    seat, owner, \* connection that has the seat, and the one whose manifest stands
    broker, journal, crashes,
    \* between them
    link, outbox, inbox, opens,
    asked,       \* each client's session.open without a reply, and what the daemon's cache has for it
    \* the plugins
    phase, opened, controller, told, cursor, deferred, exec, aborted, quits, controls,
    ignored,     \* history: calls a session ignored because it was not the controller
    recalled     \* history: controller is what a cached reply said, not this connection's

daemon == <<driver, conns, subs, seat, owner, broker, journal, crashes>>
network == <<link, outbox, inbox, opens, asked>>
session == <<phase, opened, controller, told, cursor, deferred, ignored, recalled>>
executor == <<exec, aborted>>
bounds == <<quits, controls>>
vars == <<daemon, network, session, executor, bounds>>

\* A connection carries the client it authenticated.
Conn == [client : Clients, id : Nat \ {0}]
Nobody == [id |-> 0]          \* no connection
NoCall == 0

Command(type) == [type |-> type, call |-> NoCall]
Result(k) == [type |-> "result", call |-> k]

Attached(c) == [type |-> "attached", controller |-> c]
EventFrame(i, reopen, replay) ==
    [type |-> "event", seq |-> i, reopen |-> reopen, replay |-> replay]

Init ==
    /\ driver = FALSE /\ conns = {} /\ subs = {} /\ seat = Nobody /\ owner = Nobody
    /\ broker = NewBroker /\ journal = <<>> /\ crashes = 0
    /\ link = [c \in Clients |-> Nobody] /\ opens = 0
    /\ asked = [c \in Clients |-> "none"] /\ recalled = [c \in Clients |-> FALSE]
    /\ outbox = [c \in Clients |-> <<>>] /\ inbox = [c \in Clients |-> <<>>]
    /\ phase = [c \in Clients |-> "none"] /\ opened = [c \in Clients |-> FALSE]
    /\ controller = [c \in Clients |-> FALSE] /\ told = [c \in Clients |-> <<>>]
    /\ cursor = [c \in Clients |-> 0] /\ deferred = [c \in Clients |-> {}]
    /\ ignored = [c \in Clients |-> {}]
    /\ exec = [c \in Clients |-> [k \in Calls |-> "none"]] /\ aborted = [c \in Clients |-> {}]
    /\ quits = 0 /\ controls = 0

-----------------------------------------------------------------------------
(* The daemon: the broker and its timers.                                  *)

\* Events are journaled and sent to every connection that follows the thread; replies
\* holds what each client is sent before them.
Publish(events, followers, replies) ==
    /\ journal' = journal \o events
    /\ inbox' = [c \in Clients |->
           inbox[c] \o replies[c] \o
           (IF link[c] \in followers
            THEN [i \in 1 .. Len(events) |-> EventFrame(Len(journal) + i, FALSE, FALSE)]
            ELSE <<>>)]

NoReplies == [c \in Clients |-> <<>>]

\* reconcile: calls can be served while the seat is with the connection whose
\* manifest stands.
Reconciled(b, s, m) == SetAttached(b, s # Nobody /\ s = m)

DaemonStep(b, events) ==
    /\ broker' = b
    /\ Publish(events, subs, NoReplies)
    /\ UNCHANGED <<driver, conns, subs, seat, owner, crashes, link, outbox, opens, asked, session,
                   executor, bounds>>

\* The agent calls a tool.
CallTool(k) ==
    /\ driver /\ MayCall(broker, k)
    /\ DaemonStep(Call(broker, k), IssuedBetween(broker, Call(broker, k)))

\* fail: nobody came in time, or nobody answered in time.
TimerFires(k) ==
    /\ k \in broker.grace \cup broker.answer
    /\ DaemonStep(Finish(broker, {k}), CanceledOf(broker, {k}))

\* cancel: the harness aborts the call.
AbortCall(k) ==
    /\ k \in Open(broker)
    /\ DaemonStep(Finish(broker, {k}), CanceledOf(broker, {k}))

-----------------------------------------------------------------------------
(* The daemon: connections and the seat.                                   *)

\* Variant: whoever closes empties the seat.
ReleaseAnyones(s, n) == Nobody

\* releaseAll: a connection gives up only its own seat.
Release(s, n) == IF s = n THEN Nobody ELSE s

\* The daemon notices that a connection is dead.
CleanUp(n) ==
    /\ n \in conns
    /\ conns' = conns \ {n} /\ subs' = subs \ {n}
    /\ seat' = Release(seat, n)
    /\ broker' = Reconciled(broker, seat', owner)
    /\ Publish(IssuedBetween(broker, broker'), subs', NoReplies)
    /\ UNCHANGED <<driver, owner, crashes, link, outbox, opens, asked, session, executor, bounds>>

\* The daemon dies, and its cache of replies with it; the next one closes the requests
\* its journal has open.
Crash ==
    /\ crashes < MaxCrashes /\ crashes' = crashes + 1
    /\ driver' = FALSE /\ conns' = {} /\ subs' = {} /\ seat' = Nobody /\ owner' = Nobody
    /\ broker' = LoseCalls(broker)
    /\ Publish(Entries("expired", OpenIn(journal)), {}, NoReplies)
    /\ asked' = [c \in Clients |-> IF asked[c] = "none" THEN "none" ELSE "sent"]
    /\ UNCHANGED <<link, outbox, opens, session, executor, bounds>>

\* Variant: the seat is taken whoever has it.
MayClaimAlways(c) == TRUE

\* claim: a free seat, or one this client holds through another connection.
MayClaim(c) == seat = Nobody \/ seat.client = c

\* The daemon serves the oldest command that reached it from c.
Serving(c, type) ==
    /\ link[c] \in conns /\ outbox[c] # <<>> /\ Head(outbox[c]).type = type
    /\ outbox' = [outbox EXCEPT ![c] = Tail(@)]

Reply(c, frames) == [NoReplies EXCEPT ![c] = frames]

FramesAfter(c) == [i \in 1 .. Len(journal) - cursor[c] |-> EventFrame(cursor[c] + i, FALSE, TRUE)]

\* Variant: a client that comes back is sent what it has not seen, and no more.
ReplayUnseen(c) == FramesAfter(c)

\* What attach replays to a client that has applied up to its cursor: open requests it
\* has seen, flagged, then the rest.
Replay(c) ==
    LET seen == {i \in 1 .. cursor[c] : journal[i].name = "call" /\ journal[i].call \in OpenIn(journal)}
    IN Picked([i \in 1 .. cursor[c] |-> EventFrame(i, TRUE, TRUE)], seen) \o FramesAfter(c)

\* attach: the reply, the replay, and from now on every event; the seat is claimed
\* last, and the reply tells whether it was given.
ServeAttach(c) ==
    /\ Serving(c, "attach")
    /\ subs' = subs \cup {link[c]}
    /\ seat' = IF MayClaim(c) THEN link[c] ELSE seat
    /\ broker' = Reconciled(broker, seat', owner)
    /\ Publish(IssuedBetween(broker, broker'), subs',
               Reply(c, <<Attached(MayClaim(c))>> \o Replay(c)))
    /\ UNCHANGED <<driver, conns, owner, crashes, link, opens, asked, session, executor, bounds>>

Opened(again) == [type |-> "opened", again |-> again]
Refused == [type |-> "refused"]

\* session.open: adopts the running session, or starts one with this manifest.  A command
\* that was served before gets the reply it got then, and nothing is claimed.
ServeOpen(c) ==
    /\ Serving(c, "open")
    /\ IF asked[c] \in {"opened", "refused"}
       THEN /\ Publish(<<>>, subs, Reply(c, <<IF asked[c] = "opened" THEN Opened(TRUE) ELSE Refused>>))
            /\ UNCHANGED <<seat, driver, owner, broker, asked>>
       ELSE IF MayClaim(c)
       THEN /\ seat' = link[c] /\ driver' = TRUE
            /\ owner' = IF driver THEN owner ELSE link[c]
            /\ broker' = Reconciled(Reconciled(broker, seat', owner), seat', owner')
            /\ asked' = [asked EXCEPT ![c] = "opened"]
            /\ Publish(IssuedBetween(broker, broker'), subs, Reply(c, <<Opened(FALSE)>>))
       ELSE /\ asked' = [asked EXCEPT ![c] = "refused"]
            /\ Publish(<<>>, subs, Reply(c, <<Refused>>))
            /\ UNCHANGED <<seat, driver, owner, broker>>
    /\ UNCHANGED <<conns, subs, crashes, link, opens, session, executor, bounds>>

\* Any other command that needs the seat: a setting, an interrupt (which cancels the
\* thread's open calls) or a message (which starts the session again if it is gone).
ServeControl(c) ==
    /\ Serving(c, "control")
    /\ IF MayClaim(c)
       THEN /\ seat' = link[c]
            /\ \/ /\ broker' = Reconciled(broker, seat', owner)
                  /\ driver' \in {driver, TRUE}
                  /\ Publish(IssuedBetween(broker, broker'), subs, NoReplies)
               \/ LET b == Reconciled(broker, seat', owner) IN
                  /\ broker' = Finish(b, Open(b))
                  /\ UNCHANGED driver
                  /\ Publish(IssuedBetween(broker, b) \o CanceledOf(b, Open(b)), subs, NoReplies)
       ELSE UNCHANGED <<driver, seat, broker, journal, inbox>>
    /\ UNCHANGED <<conns, subs, owner, crashes, link, opens, asked, session, executor, bounds>>

HasSeat(c) == seat # Nobody /\ seat = link[c]

\* tool.manifest: only over the connection that has the seat.
ServeManifest(c) ==
    /\ Serving(c, "manifest")
    /\ owner' = IF HasSeat(c) THEN link[c] ELSE owner
    /\ broker' = IF HasSeat(c) THEN Reconciled(broker, seat, owner') ELSE broker
    /\ Publish(IssuedBetween(broker, broker'), subs, NoReplies)
    /\ UNCHANGED <<driver, conns, subs, seat, crashes, link, opens, asked, session, executor, bounds>>

\* Variant: an answer is taken from whoever sends it, to a call in any state.
AcceptsAny(c, k) == broker.call[k] # "none"

\* tool.result: over the connection that has the seat, to a call that is issued.
Accepts(c, k) == HasSeat(c) /\ broker.call[k] = "issued"

ServeResult(c) ==
    /\ Serving(c, "result")
    /\ LET k == Head(outbox[c]).call IN
       IF Accepts(c, k)
       THEN /\ broker' = Finish(broker, {k})
            /\ Publish(Entries("resolved", {k}), subs, NoReplies)
       ELSE UNCHANGED <<broker, journal, inbox>>
    /\ UNCHANGED <<driver, conns, subs, seat, owner, crashes, link, opens, asked, session, executor,
                   bounds>>

-----------------------------------------------------------------------------
(* The plugin: connecting.                                                 *)

\* Callbacks of promises run after the frames that arrived together (ws hands over
\* every frame of a chunk at once) and before anything else the plugin does.
Idle(c) == told[c] = <<>>

Send(c, commands) == outbox' = [outbox EXCEPT ![c] = @ \o commands]

WithoutAttach(commands) == Picked(commands, {i \in DOMAIN commands : commands[i].type # "attach"})

\* A socket is welcomed: the subscription attaches, then the commands without a reply
\* are sent again.
Connect(c) ==
    /\ Idle(c) /\ link[c] = Nobody /\ opens < MaxConn
    /\ opens' = opens + 1
    /\ link' = [link EXCEPT ![c] = [client |-> c, id |-> opens']]
    /\ conns' = conns \cup {link'[c]}
    /\ outbox' = [outbox EXCEPT ![c] =
           (IF phase[c] = "following" THEN <<Command("attach")>> ELSE <<>>) \o @]
    /\ UNCHANGED <<driver, subs, seat, owner, broker, journal, crashes, inbox, asked, session,
                   executor, bounds>>

\* The client notices that its socket is dead; an attach dies with it, and an open that
\* was sent and not answered waits to be sent again.
Drop(c) ==
    /\ Idle(c) /\ link[c] # Nobody
    /\ link' = [link EXCEPT ![c] = Nobody]
    /\ inbox' = [inbox EXCEPT ![c] = <<>>]
    /\ outbox' = [outbox EXCEPT ![c] =
           (IF asked[c] # "none" /\ ~Contains(@, Command("open")) THEN <<Command("open")>> ELSE <<>>)
           \o WithoutAttach(@)]
    /\ UNCHANGED <<daemon, opens, asked, session, executor, bounds>>

\* A command without a reply is given up, long after the last frame came: its 30 s outlast
\* a connection that answers nothing.
CommandTimesOut(c) ==
    /\ Idle(c) /\ link[c] \notin conns /\ inbox[c] = <<>> /\ outbox[c] # <<>>
    /\ Head(outbox[c]).type # "attach"
    /\ outbox' = [outbox EXCEPT ![c] = Tail(@)]
    /\ IF Head(outbox[c]).type = "open"
       THEN /\ asked' = [asked EXCEPT ![c] = "none"]
            /\ phase' = [phase EXCEPT ![c] = IF @ = "opening" THEN "none" ELSE @]
       ELSE UNCHANGED <<asked, phase>>
    /\ UNCHANGED <<daemon, link, inbox, opens, opened, controller, told, cursor, deferred, ignored,
                   recalled, executor, bounds>>

Ask(c) ==
    /\ Send(c, <<Command("open")>>)
    /\ asked' = [asked EXCEPT ![c] = "sent"]

\* start: opens the session, or (attachOnly) only follows one that may be running.
Start(c, attachOnly) ==
    /\ Idle(c) /\ phase[c] = "none"
    /\ IF attachOnly
       THEN /\ phase' = [phase EXCEPT ![c] = "following"]
            /\ Send(c, IF link[c] # Nobody THEN <<Command("attach")>> ELSE <<>>)
            /\ UNCHANGED asked
       ELSE phase' = [phase EXCEPT ![c] = "opening"] /\ Ask(c)
    /\ UNCHANGED <<daemon, link, inbox, opens, opened, controller, told, cursor, deferred, ignored,
                   recalled, executor, bounds>>

\* The user does something that needs the seat: ensureOpen first, if this session has
\* never opened it.
Control(c) ==
    /\ Idle(c) /\ phase[c] = "following" /\ asked[c] = "none" /\ controls < MaxControls
    /\ controls' = controls + 1
    /\ IF opened[c] THEN Send(c, <<Command("control")>>) /\ UNCHANGED asked ELSE Ask(c)
    /\ UNCHANGED <<daemon, link, inbox, opens, session, executor, quits>>

\* The plugin ends and starts again from the cursor it last saved.
Quit(c) ==
    /\ Idle(c) /\ phase[c] # "none" /\ quits < MaxQuits
    /\ quits' = quits + 1
    /\ phase' = [phase EXCEPT ![c] = "none"] /\ opened' = [opened EXCEPT ![c] = FALSE]
    /\ controller' = [controller EXCEPT ![c] = FALSE]
    /\ \E saved \in 0 .. cursor[c] : cursor' = [cursor EXCEPT ![c] = saved]
    /\ deferred' = [deferred EXCEPT ![c] = {}] /\ ignored' = [ignored EXCEPT ![c] = {}]
    /\ asked' = [asked EXCEPT ![c] = "none"] /\ recalled' = [recalled EXCEPT ![c] = FALSE]
    /\ exec' = [exec EXCEPT ![c] = [k \in Calls |-> "none"]]
    /\ aborted' = [aborted EXCEPT ![c] = {}]
    /\ link' = [link EXCEPT ![c] = Nobody]
    /\ inbox' = [inbox EXCEPT ![c] = <<>>] /\ outbox' = [outbox EXCEPT ![c] = <<>>]
    /\ UNCHANGED <<daemon, opens, told, controls>>

-----------------------------------------------------------------------------
(* The plugin: the executor.                                               *)

\* asking: gates and the approval card; invoking: the tool runs.
ExecState == {"none", "asking", "invoking", "done"}

Running(c) == {k \in Calls : exec[c][k] \in {"asking", "invoking"}}

\* A call the executor does not know starts.
StartNew(c, ks) ==
    exec' = [exec EXCEPT ![c] =
        [k \in Calls |-> IF k \in ks /\ @[k] = "none" THEN "asking" ELSE @[k]]]

Results(ks) == Picked([k \in Calls |-> Result(k)], ks)

\* handleCall: a call that was reopened and is finished is answered again.  (A call that
\* is refused at once is one that is denied at once.)
HandleCalls(c, ks, reopened) ==
    /\ StartNew(c, ks)
    /\ Send(c, IF reopened THEN Results({k \in ks : exec[c][k] = "done"}) ELSE <<>>)

Finished(c, k) ==
    /\ exec' = [exec EXCEPT ![c][k] = "done"]
    /\ Send(c, <<Result(k)>>)

\* The gates and the user decide; a call aborted meanwhile is not run.
Decide(c, k) ==
    /\ Idle(c) /\ exec[c][k] = "asking"
    /\ \/ Finished(c, k)
       \/ /\ k \notin aborted[c]
          /\ exec' = [exec EXCEPT ![c][k] = "invoking"]
          /\ UNCHANGED outbox
    /\ UNCHANGED <<daemon, link, inbox, opens, asked, session, aborted, bounds>>

Return(c, k) ==
    /\ Idle(c) /\ exec[c][k] = "invoking"
    /\ Finished(c, k)
    /\ UNCHANGED <<daemon, link, inbox, opens, asked, session, aborted, bounds>>

\* flushDeferred, when its timer fires.
FlushDeferred(c) ==
    /\ Idle(c) /\ deferred[c] # {}
    /\ deferred' = [deferred EXCEPT ![c] = {}]
    /\ IF controller[c] THEN HandleCalls(c, deferred[c], TRUE) ELSE UNCHANGED <<exec, outbox>>
    /\ UNCHANGED <<daemon, link, inbox, opens, asked, phase, opened, controller, told, cursor,
                   ignored, recalled, aborted, bounds>>

-----------------------------------------------------------------------------
(* The plugin: frames.                                                     *)

\* onToolCall: only the controller runs a call, and one from the replayed history
\* waits for its closing event.
OnToolCall(c, k, f) ==
    /\ IF ~controller[c]
       THEN /\ ignored' = [ignored EXCEPT ![c] = @ \cup {k}]
            /\ UNCHANGED <<deferred, exec, outbox>>
       ELSE IF f.replay /\ ~f.reopen
       THEN /\ deferred' = [deferred EXCEPT ![c] = @ \cup {k}]
            /\ UNCHANGED <<ignored, exec, outbox>>
       ELSE HandleCalls(c, {k}, f.reopen) /\ UNCHANGED <<ignored, deferred>>
    /\ UNCHANGED aborted

\* Variant: a cancel only concerns a call that waits in the deferred ones.
CancelDeferredOnly(c, k) == aborted[c]

\* handleCancel.
Cancel(c, k) == IF controller[c] THEN aborted[c] \cup ({k} \cap Running(c)) ELSE aborted[c]

OnClosed(c, e) ==
    /\ deferred' = [deferred EXCEPT ![c] = @ \ {e.call}]
    /\ aborted' = [aborted EXCEPT ![c] = IF e.name = "canceled" THEN Cancel(c, e.call) ELSE @]
    /\ UNCHANGED <<ignored, exec, outbox>>

OnEvent(c, f) ==
    LET e == journal[f.seq] IN
    IF phase[c] # "following" \/ (f.seq <= cursor[c] /\ ~f.reopen)
    THEN UNCHANGED <<cursor, deferred, ignored, exec, aborted, outbox>>
    ELSE /\ cursor' = [cursor EXCEPT ![c] = IF f.reopen THEN @ ELSE f.seq]
         /\ IF e.name = "call" THEN OnToolCall(c, e.call, f) ELSE OnClosed(c, e)

\* A frame is handled; what a reply's promise sets off comes later.
Receive(c) ==
    /\ inbox[c] # <<>>
    /\ inbox' = [inbox EXCEPT ![c] = Tail(@)]
    /\ LET f == Head(inbox[c]) IN
       IF f.type = "event"
       THEN OnEvent(c, f) /\ UNCHANGED <<told, asked>>
       ELSE /\ told' = [told EXCEPT ![c] = Append(@, f)]
            /\ asked' = [asked EXCEPT ![c] = IF f.type = "attached" THEN @ ELSE "none"]
            /\ UNCHANGED <<cursor, deferred, ignored, exec, aborted, outbox>>
    /\ UNCHANGED <<daemon, link, opens, phase, opened, controller, recalled, bounds>>

\* abortAll.
AbortAll(c) == aborted[c] \cup Running(c)

\* onAttached: the seat was given, and the manifest is sent; or it was not.
ToldAttached(c, f) ==
    /\ f.type = "attached"
    /\ controller' = [controller EXCEPT ![c] = f.controller]
    /\ Send(c, IF f.controller THEN <<Command("manifest")>> ELSE <<>>)
    /\ aborted' = [aborted EXCEPT ![c] = IF f.controller THEN @ ELSE AbortAll(c)]
    /\ recalled' = [recalled EXCEPT ![c] = FALSE]
    /\ UNCHANGED <<phase, opened>>

\* ensureOpen: the seat came with the session; start then follows the thread, a user's
\* command goes on.
ToldOpened(c, f) ==
    /\ f.type = "opened"
    /\ opened' = [opened EXCEPT ![c] = TRUE] /\ controller' = [controller EXCEPT ![c] = TRUE]
    /\ recalled' = [recalled EXCEPT ![c] = f.again]
    /\ phase' = [phase EXCEPT ![c] = "following"]
    /\ Send(c, IF phase[c] = "following" THEN <<Command("manifest"), Command("control")>>
               ELSE (IF link[c] # Nobody THEN <<Command("attach")>> ELSE <<>>) \o <<Command("manifest")>>)
    /\ UNCHANGED aborted

ToldRefused(c, f) ==
    /\ f.type = "refused"
    /\ phase' = [phase EXCEPT ![c] = IF @ = "opening" THEN "none" ELSE @]
    /\ UNCHANGED <<opened, controller, recalled, outbox, aborted>>

Tell(c) ==
    /\ told[c] # <<>>
    /\ told' = [told EXCEPT ![c] = Tail(@)]
    /\ LET f == Head(told[c]) IN ToldAttached(c, f) \/ ToldOpened(c, f) \/ ToldRefused(c, f)
    /\ UNCHANGED <<daemon, link, inbox, opens, asked, cursor, deferred, ignored, exec, bounds>>

-----------------------------------------------------------------------------

Next ==
    \/ \E k \in Calls : CallTool(k) \/ TimerFires(k) \/ AbortCall(k)
    \/ \E n \in conns : CleanUp(n)
    \/ Crash
    \/ \E c \in Clients :
          \/ ServeAttach(c) \/ ServeOpen(c) \/ ServeControl(c)
          \/ ServeManifest(c) \/ ServeResult(c)
          \/ Connect(c) \/ Drop(c) \/ CommandTimesOut(c)
          \/ Start(c, TRUE) \/ Start(c, FALSE) \/ Control(c) \/ Quit(c)
          \/ Receive(c) \/ Tell(c) \/ FlushDeferred(c)
          \/ \E k \in Calls : Decide(c, k) \/ Return(c, k)

Spec == Init /\ [][Next]_vars

-----------------------------------------------------------------------------
(* Properties.                                                             *)

TypeOK ==
    /\ driver \in BOOLEAN /\ conns \subseteq Conn /\ subs \subseteq conns
    /\ seat \in conns \cup {Nobody} /\ owner \in Conn \cup {Nobody}
    /\ broker \in Broker /\ journal \in Seq(JournalEntry)
    /\ \A c \in Clients :
          /\ link[c] = Nobody \/ link[c].client = c
          /\ phase[c] \in {"none", "opening", "following"}
          /\ asked[c] \in {"none", "sent", "opened", "refused"}
          /\ opened[c] \in BOOLEAN /\ controller[c] \in BOOLEAN
          /\ cursor[c] \in 0 .. Len(journal)
          /\ deferred[c] \subseteq Calls /\ ignored[c] \subseteq Calls
          /\ aborted[c] \subseteq Calls /\ exec[c] \in [Calls -> ExecState]

\* "Never hangs": however the seat, the manifest, answers and crashes interleave, every open
\* call has the timers that will end it, and the broker counts a client as attached exactly
\* while the connection whose manifest stands has the seat.
NeverHangs ==
    /\ broker.attached <=> seat # Nobody /\ seat = owner
    /\ Timed(broker)

\* The requests clients see open are the calls the daemon still waits for, and however
\* answers, timers, interrupts and crashes race, a call is journaled once and closed
\* once.
JournalAgrees ==
    /\ OpenIn(journal) = With(broker, "issued")
    /\ \A i, j \in 1 .. Len(journal) :
          i < j /\ journal[i].call = journal[j].call =>
              journal[i].name = "call" /\ journal[j].name # "call"

\* Both sides of c's connection are up and c has handled everything it was sent, the
\* reply to its attach included.
Settled(c) ==
    /\ link[c] \in subs /\ inbox[c] = <<>> /\ told[c] = <<>>
    /\ \A i \in 1 .. Len(outbox[c]) : outbox[c][i].type # "attach"

\* "Whether the daemon gave THIS client the thread's read-write seat": a settled session
\* that takes itself for the controller has the seat.
ControllerIsSeatHolder == \A c \in Clients : Settled(c) /\ controller[c] => HasSeat(c)

\* ... whatever stale connections of the same or another install close meanwhile, unless
\* it was told so by the cached reply to an open that an earlier connection sent.
ControllerHasSeat ==
    \A c \in Clients : Settled(c) /\ controller[c] /\ ~recalled[c] => HasSeat(c)

\* "Only the seat holder may run a tool.call": a settled session starts a tool only
\* while it has the seat (again, cached replies to opens aside).
OnlySeatHolderRuns ==
    [][\A c \in Clients, k \in Calls :
          exec[c][k] = "asking" /\ exec'[c][k] = "invoking" /\ Settled(c) /\ ~recalled[c]
              => HasSeat(c)]_vars

\* A settled controller is not at work on a call the daemon has canceled.
CanceledIsAborted ==
    \A c \in Clients : Settled(c) /\ controller[c] =>
        \A k \in Running(c) \ aborted[c] :
            \A i \in 1 .. cursor[c] : journal[i] # [name |-> "canceled", call |-> k]

\* A settled controller is at work on every call the daemon waits for, or its answer is
\* on the way: no answer and no call is lost to a dropped connection.
InHand(c, k) ==
    \/ k \in deferred[c] \cup Running(c)
    \/ \E i \in 1 .. Len(outbox[c]) : outbox[c][i] = Result(k)

IssuedReachesController ==
    \A c \in Clients : Settled(c) /\ controller[c] =>
        \A k \in With(broker, "issued") : InHand(c, k)

\* ... except those it ignored because it had not been told yet.
NothingIssuedIsLost ==
    \A c \in Clients : Settled(c) /\ controller[c] =>
        \A k \in With(broker, "issued") \ ignored[c] : InHand(c, k)
=============================================================================

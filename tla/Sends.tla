-------------------------------- MODULE Sends --------------------------------
(***************************************************************************)
(* A user's messages on their way to a turn on the daemon:                  *)
(* src/src/remote/RemoteHarnessSession.ts (queue, attempts, retries),        *)
(* src/src/remote/DaemonClient.ts (commands that are sent again after a       *)
(* reconnect), daemon/connection.ts onCommand with daemon/cmdCache.ts, and    *)
(* daemon/threadHost.ts send.                                               *)
(*                                                                          *)
(* One thread and one client that holds its seat.  A message is the number   *)
(* of its send().  A command is [msg, try]: an attempt has an id of its own,  *)
(* a reconnect sends the same id again; msg = 0 is session.interrupt.  The    *)
(* socket carries commands one way and replies the other, and loses both when *)
(* it breaks.  The thread's events reach the client in order and once, also   *)
(* across a reconnect: that is what RemoteStream checks; a reply may overtake  *)
(* events, never the other way round (connection.ts sends control first).  Of  *)
(* an event only what it says of the turn is kept: "busy" and "idle" are       *)
(* session.state, "over" is onDone, onInterrupted or onError.                *)
(***************************************************************************)
EXTENDS Integers, Sequences, SequencesExt, FiniteSets, Subsequences

CONSTANTS MaxSends,    \* bound: messages the user sends
          MaxStops,    \* bound: times the user presses stop
          MaxTries,    \* attempts per message: 1 + the length of the retry delays
          SeenKept,    \* SEEN_SENDS_KEPT
          MaxFaults    \* bound: connections lost, restarts of the daemon, commands that
                       \* time out and sends refused for capacity, together

ASSUME BoundsAssumption ==
    /\ MaxSends \in Nat /\ MaxStops \in Nat /\ MaxTries \in Nat \ {0} /\ SeenKept \in Nat \ {0}
    /\ MaxFaults \in Nat

VARIABLES
    sent,      \* messages the user has sent so far
    stops,     \* times the user pressed stop
    queued,    \* RemoteHarnessSession.queued
    awaiting,  \* sendAwaitingState
    known,     \* state.turnInFlight, as the client last heard or decided
    opening,   \* attempts that wait for ensureOpen, in order
    retries,   \* attempts whose retry timer is armed
    commands,  \* DaemonClient.pending: commands without a reply, in order
    up,        \* the connection is up
    toDaemon,  \* the commands on the socket
    toClient,  \* the events the client has not applied and the replies on the socket
    turn,      \* the message whose turn runs on the daemon (0: none)
    said,      \* turnInFlight in the last session.state the daemon journaled
    seen,      \* seenSends: the ids of the accepted messages, oldest first
    cache,     \* the command cache: [cmd, reply]
    faults,
    ran,       \* history: the messages turns were started for, in order
    told,      \* history: messages the user was told had failed, or took back
    odd        \* history: what has gone wrong so far (see Oddities)

vars == <<sent, stops, queued, awaiting, known, opening, retries, commands, up, toDaemon, toClient,
          turn, said, seen, cache, faults, ran, told, odd>>
session == <<queued, awaiting, known, opening, retries>>
socket == <<up, toDaemon, toClient>>
daemon == <<turn, said, seen, cache, ran>>

Messages == 1..MaxSends
Attempts == [msg : Messages, try : 1..MaxTries]
Commands == Attempts \cup [msg : {0}, try : 1..MaxStops]
Replies == [what : {"ok", "conflict", "retryable"}, cmd : Commands]
Busy == awaiting \/ known     \* the getter turnInFlight

Nothing == [msg |-> 0, try |-> 0]
Event(what) == [what |-> what, cmd |-> Nothing]
IsEvent(f) == f.cmd = Nothing
IsReply(f) == f.cmd # Nothing
Happens(what) == toClient' = Append(toClient, Event(what))

-----------------------------------------------------------------------------
(* The session. *)

Dispatch(m) == awaiting' = TRUE /\ opening' = Append(opening, [msg |-> m, try |-> 1])

(* failTurn: the transcript shows an error; what was queued behind the message is dropped. *)
FailTurn(msgs) ==
    /\ awaiting' = FALSE /\ known' = FALSE /\ queued' = <<>>
    /\ told' = told \cup msgs \cup Range(queued)

(* DaemonClient.request: written at once when connected, kept until it is answered. *)
Request(c) ==
    /\ commands' = Append(commands, c)
    /\ toDaemon' = IF up THEN Append(toDaemon, c) ELSE toDaemon

(* A session that asks only what the daemon last said. *)
SendUnlessKnown ==
    /\ sent < MaxSends
    /\ sent' = sent + 1
    /\ IF known
       THEN queued' = Append(queued, sent') /\ UNCHANGED <<awaiting, opening>>
       ELSE Dispatch(sent') /\ UNCHANGED queued
    /\ UNCHANGED <<stops, known, retries, commands, socket, daemon, faults, told, odd>>

(* send(): held back while a turn is running or has been asked for. *)
Send ==
    /\ sent < MaxSends
    /\ sent' = sent + 1
    /\ IF Busy
       THEN queued' = Append(queued, sent') /\ UNCHANGED <<awaiting, opening>>
       ELSE Dispatch(sent') /\ UNCHANGED queued
    /\ UNCHANGED <<stops, known, retries, commands, socket, daemon, faults, told, odd>>

(* A stop that leaves the retry timer running. *)
StopKeepsTimer ==
    /\ stops < MaxStops /\ Busy
    /\ stops' = stops + 1
    /\ queued' = <<>>
    /\ told' = told \cup Range(queued) \cup {a.msg : a \in retries}
    /\ IF retries # {}
       THEN awaiting' = FALSE /\ UNCHANGED <<commands, toDaemon>>
       ELSE Request([msg |-> 0, try |-> stops']) /\ UNCHANGED awaiting
    /\ UNCHANGED <<sent, known, opening, retries, up, toClient, daemon, faults, odd>>

(* interrupt: the queue is dropped; a message that waits for its retry is taken back,  *)
(* and otherwise the daemon is asked to stop the turn.                                 *)
Stop ==
    /\ stops < MaxStops /\ Busy
    /\ stops' = stops + 1
    /\ queued' = <<>>
    /\ told' = told \cup Range(queued) \cup {a.msg : a \in retries}
    /\ IF retries # {}
       THEN retries' = {} /\ awaiting' = FALSE /\ UNCHANGED <<commands, toDaemon>>
       ELSE Request([msg |-> 0, try |-> stops']) /\ UNCHANGED <<retries, awaiting>>
    /\ UNCHANGED <<sent, known, opening, up, toClient, daemon, faults, odd>>

(* ensureOpen is done: the attempt becomes a command. *)
Opened ==
    /\ opening # <<>>
    /\ Request(Head(opening))
    /\ opening' = Tail(opening)
    /\ UNCHANGED <<sent, stops, queued, awaiting, known, retries, up, toClient, daemon,
                   faults, told, odd>>

RetryTimer(a) ==
    /\ a \in retries
    /\ retries' = retries \ {a}
    /\ opening' = Append(opening, [a EXCEPT !.try = @ + 1])
    /\ UNCHANGED <<sent, stops, queued, awaiting, known, commands, socket, daemon, faults, told, odd>>

Unanswered(c) == commands' = Picked(commands, {i \in DOMAIN commands : commands[i] # c})

(* The reply to a command.  Being at capacity is retried with the same message; any    *)
(* other refusal fails the turn.  A reply to a command that was given up is ignored.    *)
Reply ==
    /\ up
    /\ \E i \in DOMAIN toClient :
        /\ IsReply(toClient[i]) /\ \A j \in 1..(i - 1) : IsEvent(toClient[j])
        /\ toClient' = RemoveAt(toClient, i)
        /\ LET c == toClient[i].cmd
               reply == toClient[i].what
           IN  IF c \notin Range(commands)
               THEN UNCHANGED <<commands, session, told>>
               ELSE /\ Unanswered(c)
                    /\ IF reply = "ok"
                       THEN UNCHANGED <<session, told>>
                       ELSE IF reply = "retryable" /\ c.try < MaxTries
                       THEN retries' = retries \cup {c} /\ UNCHANGED <<queued, awaiting, known, opening, told>>
                       ELSE FailTurn({c.msg}) /\ UNCHANGED <<opening, retries>>
    /\ UNCHANGED <<sent, stops, up, toDaemon, daemon, faults, odd>>

Fault == faults < MaxFaults /\ faults' = faults + 1

(* 30 s without a reply.  What was written to the socket stays there. *)
Silence(c) ==
    /\ Fault
    /\ Unanswered(c)
    /\ IF c.msg = 0
       THEN UNCHANGED <<queued, awaiting, known, told>>
       ELSE FailTurn({c.msg})
    /\ odd' = odd \cup (IF c.msg = 0 THEN {} ELSE {"unconfirmed"})
    /\ UNCHANGED <<sent, stops, opening, retries, socket, daemon>>

(* An event: onState with the queue it releases, then settleSendFlag. *)
EventBusy ==
    /\ Head(toClient).what = "busy"
    /\ known' = TRUE /\ awaiting' = FALSE
    /\ UNCHANGED <<queued, opening>>

EventOver ==
    /\ Head(toClient).what = "over"
    /\ awaiting' = FALSE
    /\ UNCHANGED <<queued, known, opening>>

(* The end of a turn releases nothing. *)
EventIdleNoFlush ==
    /\ Head(toClient).what = "idle"
    /\ known' = FALSE
    /\ UNCHANGED <<queued, awaiting, opening>>

EventIdle ==
    /\ Head(toClient).what = "idle"
    /\ known' = FALSE
    /\ IF known /\ ~awaiting /\ queued # <<>>
       THEN Dispatch(Head(queued)) /\ queued' = Tail(queued)
       ELSE UNCHANGED <<queued, awaiting, opening>>

OnEvent ==
    /\ up /\ toClient # <<>>
    /\ EventBusy \/ EventOver \/ EventIdle
    /\ toClient' = Tail(toClient)
    /\ UNCHANGED <<sent, stops, retries, commands, up, toDaemon, daemon, faults, told, odd>>

-----------------------------------------------------------------------------
(* The daemon. *)

(* threadHost.send: a message is accepted once, one turn at a time.  The driver      *)
(* journals a session.state only when it says something new.                         *)
Accept(m) ==
    /\ turn' = m /\ said' = TRUE
    /\ seen' = IF Len(seen) = SeenKept THEN Append(Tail(seen), m) ELSE Append(seen, m)
    /\ ran' = Append(ran, m)

Refuse == UNCHANGED <<turn, said, seen, ran>>

(* A host that accepts whatever it is sent while it is idle. *)
HandleSendAgain(c, reply) ==
    \/ turn # 0 /\ reply = "conflict" /\ Refuse
    \/ turn = 0 /\ reply = "ok" /\ Accept(c.msg)

(* An idle thread may be refused its turn too: for now (at capacity), or for good (too *)
(* many sessions, a spec that is not valid any more, no session to resume).            *)
HandleSend(c, reply) ==
    IF c.msg \in Range(seen) THEN reply = "ok" /\ Refuse
    ELSE \/ reply = "conflict" /\ Refuse
         \/ turn = 0 /\ reply = "retryable" /\ Refuse
         \/ turn = 0 /\ reply = "ok" /\ Accept(c.msg)

(* session.interrupt: the turn there is ends. *)
HandleInterrupt(reply) ==
    /\ reply = "ok"
    /\ turn' = 0
    /\ UNCHANGED <<said, seen, ran>>

(* What the command did to the thread is journaled before its reply is queued. *)
Journaled ==
    (IF said' # said THEN <<Event("busy")>> ELSE <<>>)
        \o (IF turn # 0 /\ turn' = 0 THEN <<Event("over")>> ELSE <<>>)

(* connection.onCommand: a command whose reply is remembered gets that reply. *)
OnCommand ==
    /\ up /\ toDaemon # <<>>
    /\ toDaemon' = Tail(toDaemon)
    /\ LET c == Head(toDaemon)
           hits == {h \in cache : h.cmd = c}
       IN  \/ /\ \E h \in hits : toClient' = Append(toClient, h)
              /\ UNCHANGED <<cache, turn, said, seen, ran, faults>>
           \/ /\ hits = {}
              /\ \E reply \in {"ok", "conflict", "retryable"} :
                    /\ IF c.msg = 0 THEN HandleInterrupt(reply) ELSE HandleSend(c, reply)
                    /\ IF reply = "retryable" THEN Fault ELSE UNCHANGED faults
                    /\ cache' = cache \cup {[what |-> reply, cmd |-> c]}
                    /\ toClient' = Append(toClient \o Journaled, [what |-> reply, cmd |-> c])
    /\ UNCHANGED <<sent, stops, session, commands, up, told, odd>>

TurnEnds ==
    /\ turn # 0
    /\ turn' = 0
    /\ Happens("over")
    /\ UNCHANGED <<sent, stops, session, commands, up, toDaemon, said, seen, cache, ran, faults, told, odd>>

(* scheduleState: after the callback that ended the turn, unless another turn began. *)
SayIdle ==
    /\ said /\ turn = 0
    /\ said' = FALSE
    /\ Happens("idle")
    /\ UNCHANGED <<sent, stops, session, commands, up, toDaemon, turn, seen, cache, ran, faults, told, odd>>

(* The socket is gone with what was on it; the events stay in the journal. *)
Breaks == up' = FALSE /\ toDaemon' = <<>>
Events == Picked(toClient, {i \in DOMAIN toClient : IsEvent(toClient[i])})

ConnectionLost ==
    /\ up /\ Fault
    /\ Breaks
    /\ toClient' = Events
    /\ UNCHANGED <<sent, stops, session, commands, daemon, told, odd>>

(* A welcome after which only new commands are written. *)
ReconnectedSilently ==
    /\ ~up
    /\ up' = TRUE
    /\ UNCHANGED <<sent, stops, session, commands, toDaemon, toClient, daemon, faults, told, odd>>

(* onWelcome: every command without a reply is written again, in order. *)
Reconnected ==
    /\ ~up
    /\ up' = TRUE
    /\ toDaemon' = commands
    /\ UNCHANGED <<sent, stops, session, commands, toClient, daemon, faults, told, odd>>

(* The client's machine slept longer than the cache remembers; its timers did not run. *)
CacheExpires ==
    /\ ~up /\ cache # {}
    /\ cache' = {}
    /\ UNCHANGED <<sent, stops, session, commands, socket, turn, said, seen, ran, faults, told, odd>>

(* The journal closes the turn that was running; ids and replies are forgotten. *)
DaemonRestarts ==
    /\ Fault
    /\ Breaks
    /\ turn' = 0 /\ said' = FALSE /\ seen' = <<>> /\ cache' = {}
    /\ toClient' = Events
                     \o (IF said THEN <<Event("over"), Event("idle")>> ELSE <<>>)
    /\ odd' = odd \cup {"restarted"}
    /\ UNCHANGED <<sent, stops, session, commands, ran, told>>

Init ==
    /\ sent = 0 /\ stops = 0
    /\ queued = <<>> /\ awaiting = FALSE /\ known = FALSE /\ opening = <<>> /\ retries = {}
    /\ commands = <<>>
    /\ up = TRUE /\ toDaemon = <<>> /\ toClient = <<>>
    /\ turn = 0 /\ said = FALSE /\ seen = <<>> /\ cache = {}
    /\ faults = 0 /\ ran = <<>> /\ told = {} /\ odd = {}

Client == Opened \/ Reply \/ OnEvent \/ (\E a \in retries : RetryTimer(a))
Next ==
    \/ Send \/ Stop
    \/ Client
    \/ (\E c \in Range(commands) : Silence(c))
    \/ OnCommand \/ TurnEnds \/ SayIdle
    \/ ConnectionLost \/ Reconnected \/ CacheExpires \/ DaemonRestarts

(* Timers fire, the socket delivers while it is up and comes back when it is down, and a  *)
(* turn ends.  Nothing makes the user act or a fault happen.                              *)
Fairness ==
    /\ WF_vars(Opened) /\ WF_vars(Reply) /\ WF_vars(OnEvent)
    /\ WF_vars(\E a \in retries : RetryTimer(a))
    /\ WF_vars(OnCommand) /\ WF_vars(TurnEnds) /\ WF_vars(SayIdle) /\ WF_vars(Reconnected)

Spec == Init /\ [][Next]_vars /\ Fairness

-----------------------------------------------------------------------------
(* Properties.  Oddities: what has happened so far.                          *)
(*   unconfirmed  a send was given up while it may still be on its way        *)
(*   restarted    the daemon restarted                                        *)
Oddities == {"unconfirmed", "restarted"}

(* Every variable holds a value of its kind; a message is accepted or told about only *)
(* after it was sent.                                                                 *)
TypeOK ==
    /\ sent \in 0..MaxSends /\ stops \in 0..MaxStops
    /\ queued \in Seq(1..sent) /\ awaiting \in BOOLEAN /\ known \in BOOLEAN
    /\ opening \in Seq(Attempts) /\ retries \subseteq Attempts
    /\ commands \in Seq(Commands) /\ IsInjective(commands)
    /\ up \in BOOLEAN
    /\ toDaemon \in Seq(Commands)
    /\ toClient \in Seq({Event(e) : e \in {"busy", "over", "idle"}} \cup Replies)
    /\ turn \in 0..sent /\ said \in BOOLEAN
    /\ seen \in Seq(1..sent) /\ Len(seen) <= SeenKept
    /\ cache \subseteq Replies
    /\ faults \in 0..MaxFaults
    /\ ran \in Seq(1..sent) /\ told \subseteq 1..sent /\ odd \subseteq Oddities

(* docs/remote-daemon.md: the daemon ignores a repeat of a message it already accepted, *)
(* so a retry cannot run a turn twice.                                                  *)
RunsOnceEver == IsInjective(ran)

(* The same for the life of one daemon: whatever is sent again after a lost reply, a   *)
(* timeout or a refusal, a message has one turn.                                       *)
RunsOnce == "restarted" \in odd \/ IsInjective(ran)

(* Messages run in the order the user sent them, as long as no send was given up while *)
(* it was on its way and the daemon did not forget which it had.                       *)
InOrder ==
    \/ odd # {}
    \/ \A i, j \in DOMAIN ran : i < j => ran[i] < ran[j]

(* A message the user took back, or was told had failed, does not run later, unless it *)
(* was already on its way.                                                             *)
TakenBack ==
    [][Len(ran') > Len(ran) /\ odd \cap {"unconfirmed", "restarted"} = {}
         => ran'[Len(ran')] \notin told]_vars

(* When nothing is left to deliver, the client's idea of the turn is the daemon's, and *)
(* nothing waits in its queue for a turn that is over.                                  *)
AtRest ==
    up /\ opening = <<>> /\ retries = {} /\ commands = <<>> /\ toDaemon = <<>> /\ toClient = <<>>
       /\ (turn = 0 => ~said) /\ odd \cap {"unconfirmed", "restarted"} = {}
    => /\ ~awaiting
       /\ known = (turn # 0)
       /\ turn = 0 => queued = <<>>

(* Every message the user sends has a turn in the end, or the user is told; only after  *)
(* a send was given up on its way may a queued message wait for the user's next one.    *)
Settled ==
    \A m \in Messages : sent >= m ~> m \in Range(ran) \cup told \/ "unconfirmed" \in odd
=============================================================================

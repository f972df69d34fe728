------------------------------ MODULE LocalTurns ------------------------------
(***************************************************************************)
(* Turns of a thread whose agent runs beside the plugin:                    *)
(* src/src/ThreadManager.ts sendMessage and the callbacks of a session, and  *)
(* src/src/ThreadSession.ts, which owns one agent process (an SDK Query)     *)
(* with its input channel and the pump that reads its output.               *)
(*                                                                          *)
(* A message is the number of its sendMessage().  That call awaits an answer *)
(* of the agent process up to three times before the message is pushed into  *)
(* the channel, and sends, results, failures and stops of other messages     *)
(* come in between; the process answers in any order.  What was pushed is in  *)
(* `pipe' until the process reads it and in `work' until a result answers it. *)
(* Session options, transcript contents, tool calls, plan and goal gates and  *)
(* changes of the working directory are left out.                           *)
(***************************************************************************)
EXTENDS Integers, Sequences, SequencesExt, FiniteSets

CONSTANTS MaxSends,    \* bound: messages the user sends
          MaxStops,    \* bound: times the user presses stop
          MaxFaults,   \* bound: failures of the agent
          MaxRebuilds, \* bound: reasons to rebuild the session
          MaxCompacts, \* bound: times the context is found nearly full
          MaxDeletes,  \* bound: 1 if the thread may be deleted
          RateRetries, \* MAX_RATE_LIMIT_AUTO_RETRIES
          StreamRetries, \* MAX_TRANSPORT_ERROR_AUTO_RETRIES
          AuthRetries  \* MAX_AUTH_AUTO_RETRIES

ASSUME BoundsAssumption ==
    /\ MaxSends \in Nat \ {0} /\ MaxStops \in Nat /\ MaxFaults \in Nat /\ MaxRebuilds \in Nat
    /\ MaxCompacts \in Nat /\ MaxDeletes \in {0, 1}
    /\ RateRetries \in Nat /\ StreamRetries \in Nat /\ AuthRetries \in Nat

VARIABLES
    sent,      \* messages sent so far
    send,      \* per message: where its sendMessage() is, and with which session
    shown,     \* the user messages in the transcript
    pending,   \* pendingUserMessageIds
    id,        \* thread.sessionId: there is a conversation to resume
    current,   \* the thread's session in ThreadManager.sessions (0: none)
    made,      \* sessions created so far
    rebuild,   \* sessionRestartRequested
    gone,      \* the thread was deleted
    ses,       \* the ThreadSession objects with their agent processes
    stops, faults, rebuilds, compacts,
    answered,  \* history: messages a result of the agent answered
    told,      \* history: messages with an error shown behind them
    dropped,   \* history: messages a restart left behind
    odd        \* history: what has gone wrong so far (see Oddities)

vars == <<sent, send, shown, pending, id, current, made, rebuild, gone, ses, stops, faults,
          rebuilds, compacts, answered, told, dropped, odd>>
thread == <<shown, pending, id>>
manager == <<current, made, rebuild, gone>>
counts == <<stops, faults, rebuilds, compacts>>
history == <<answered, told, dropped, odd>>

Messages == 1..MaxSends
Compact == MaxSends + 1      \* the plugin's own /compact
Continue == MaxSends + 2     \* TRANSPORT_ERROR_CONTINUATION_PROMPT
Inputs == 1..Continue
Sessions == 1..(MaxRebuilds + 2)

(* The messages among some inputs. *)
Of(inputs) == Range(inputs) \cap Messages

-----------------------------------------------------------------------------
(* ThreadSession *)

NewSession ==
    [query    |-> "none",  \* the Query: "none", "live", or "dead" (it failed and is kept for a retry)
     chan     |-> FALSE,   \* ~channelEnded
     pipe     |-> <<>>,    \* pushed and not read by the agent
     work     |-> <<>>,    \* read by the agent and not answered
     inflight |-> FALSE,   \* _turnInFlight
     intr     |-> FALSE,   \* interrupted
     stop     |-> FALSE,   \* an interrupt is on its way to the agent
     comp     |-> 0,       \* internalCompactionResolve: whose sendMessage() it belongs to
     last     |-> 0,       \* lastUserTurn
     auth     |-> 0,       \* authRetryCount
     rate     |-> 0,       \* rateLimitRetryCount
     stream   |-> 0,       \* transportErrorRetryCount
     fallback |-> FALSE,   \* resumeFallbackUsed
     known    |-> FALSE,   \* lastKnownSessionId is there
     fresh    |-> FALSE,   \* this Query resumed a conversation and has shown no work yet
     silent   |-> FALSE,   \* terminalErrorReported of this Query's pump
     backoff  |-> FALSE,   \* a pump waits to retry after a rate limit ...
     turn     |-> 0,       \* ... the turn it captured
     replay   |-> 0,       \* a pump has restarted the session and sends this next
     held     |-> {},      \* messages in the resumed conversation that no result answered
     ending   |-> 0]       \* pumps of closed Queries that have not run their finally

(* start(): a Query of its own, an empty channel. *)
Opened(x, resume) ==
    [x EXCEPT !.query = "live", !.chan = TRUE, !.pipe = <<>>, !.work = <<>>, !.inflight = FALSE,
              !.intr = FALSE, !.stop = FALSE, !.known = resume, !.fresh = resume, !.silent = FALSE]

(* A session that forgets to settle its turn flag when it is closed. *)
ClosedInFlight(x) ==
    [x EXCEPT !.query = "none", !.chan = FALSE, !.pipe = <<>>, !.work = <<>>, !.held = {},
              !.stop = FALSE, !.comp = 0, !.ending = IF x.query = "live" THEN @ + 1 ELSE @]

(* close().  The pump of a live Query will see its end. *)
Closed(x) == [ClosedInFlight(x) EXCEPT !.inflight = FALSE]

(* The Query has failed and its pump is in the catch: a compaction is settled. *)
Failed(x) == [x EXCEPT !.query = "dead", !.comp = 0, !.stop = FALSE]

(* restart(): what the agent had read is in the conversation, if that is resumed. *)
Restarted(x, resume) ==
    [Opened(Closed(x), resume) EXCEPT !.held = IF resume THEN x.held \cup Of(x.work) ELSE {}]

(* Messages that restart() leaves behind; `next' is sent again. *)
Lost(x, next, resume) ==
    (Of(x.pipe) \cup (IF resume THEN {} ELSE x.held \cup Of(x.work))) \ {next}

(* The pump's finally when nothing superseded it. *)
TornDown(x) ==
    [x EXCEPT !.query = "none", !.chan = FALSE, !.pipe = <<>>, !.work = <<>>, !.held = {},
              !.inflight = FALSE, !.intr = FALSE, !.stop = FALSE]

(* A push that remembers only the first turn of the session. *)
PushedFirst(x, input) ==
    [x EXCEPT !.last = IF @ = 0 THEN input ELSE @, !.pipe = Append(@, input), !.inflight = TRUE]

(* sendInternal() *)
Pushed(x, input) ==
    [x EXCEPT !.last = input, !.pipe = Append(@, input), !.inflight = TRUE]

(* Settling internalCompactionResolve lets the sendMessage() that waits for it go on. *)
Compacted(calls, m) ==
    [n \in Messages |-> IF n = m /\ calls[n].at = "compact" THEN [calls[n] EXCEPT !.at = "ready"] ELSE calls[n]]

(* A failed getContextUsage() is no usage at all. *)
Unmeasured(calls, s) ==
    [n \in Messages |-> IF calls[n].at = "usage" /\ calls[n].ses = s
                        THEN [calls[n] EXCEPT !.at = "ready"] ELSE calls[n]]

(* When a Query ends, the control requests it has not answered fail, and a compaction ends. *)
HungUp(calls, s) == Compacted(Unmeasured(calls, s), ses[s].comp)

(* No continuation is waiting in the microtask queue: what is there runs first. *)
Quiet == /\ \A m \in Messages : send[m].at # "ready"
         /\ \A s \in Sessions : ses[s].replay = 0

-----------------------------------------------------------------------------
(* ThreadManager.sendMessage *)

(* A sendMessage() at an await, with the conversation its options would resume. *)
At(place, s) == [at |-> place, ses |-> s, resume |-> id]

(* A rebuild that does not look whether a turn is running. *)
ReplacesAlways(s, asked) == s = 0 \/ asked

(* A session is replaced only between turns. *)
Replaces(s, asked) == s = 0 \/ (asked /\ ~ses[s].inflight)

(* Get or create the session, then the next await: control requests for model and mode  *)
(* on a session that was there, the context usage of a new one.                         *)
Proceed(m, s, asked) ==
    IF Replaces(s, asked)
    THEN LET n == made + 1 IN
         /\ made' = n /\ current' = n /\ rebuild' = FALSE
         /\ ses' = [t \in Sessions |-> IF t = n THEN Opened(NewSession, id)
                                       ELSE IF t = s THEN Closed(ses[t]) ELSE ses[t]]
         /\ send' = [(IF s = 0 THEN send ELSE HungUp(send, s)) EXCEPT ![m] = At("usage", n)]
         /\ dropped' = IF s = 0 \/ ses[s].inflight THEN dropped
                       ELSE dropped \cup Of(ses[s].pipe) \cup Of(ses[s].work)
    ELSE /\ send' = [send EXCEPT ![m] = At("sync", s)]
         /\ UNCHANGED <<current, made, rebuild, ses, dropped>>

(* The message is shown and pending at once.  An idle session is first asked whether its *)
(* MCP servers still work.                                                               *)
SendMessage ==
    /\ Quiet /\ sent < MaxSends /\ ~gone
    /\ sent' = sent + 1
    /\ shown' = shown \cup {sent'} /\ pending' = pending \cup {sent'}
    /\ IF current # 0 /\ ~rebuild /\ ~ses[current].inflight
       THEN /\ send' = [send EXCEPT ![sent'] = At("probe", current)]
            /\ UNCHANGED <<current, made, rebuild, ses, dropped>>
       ELSE Proceed(sent', current, rebuild)
    /\ UNCHANGED <<id, gone, counts, answered, told, odd>>

(* sessionMcpStale: only a session found stale is looked up again. *)
Probed(m) ==
    /\ Quiet /\ send[m].at = "probe"
    /\ \/ /\ rebuilds < MaxRebuilds /\ rebuilds' = rebuilds + 1
          /\ Proceed(m, current, current = send[m].ses)
       \/ /\ Proceed(m, send[m].ses, FALSE)
          /\ UNCHANGED rebuilds
    /\ UNCHANGED <<sent, thread, gone, stops, faults, compacts, answered, told, odd>>

(* setModel and setPermissionMode are answered or fail; prepareForSend looks at the      *)
(* session as it is now.                                                                 *)
Synced(m) ==
    /\ Quiet /\ send[m].at = "sync"
    /\ LET x == ses[send[m].ses] IN
         send' = [send EXCEPT ![m].at = IF x.query = "none" \/ x.inflight \/ x.comp # 0
                                        THEN "ready" ELSE "usage"]
    /\ UNCHANGED <<sent, thread, manager, ses, counts, history>>

(* prepareForSend with the usage: go on, or run /compact first. *)
Usage(m) ==
    /\ Quiet /\ send[m].at = "usage"
    /\ LET s == send[m].ses IN
       \/ /\ send' = [send EXCEPT ![m].at = "ready"]
          /\ UNCHANGED <<ses, compacts, told, odd>>
       \/ /\ ses[s].query = "live"
          /\ compacts < MaxCompacts /\ compacts' = compacts + 1
          /\ IF ses[s].chan
             THEN /\ ses' = [ses EXCEPT ![s].comp = m, ![s].inflight = TRUE, ![s].pipe = Append(@, Compact)]
                  /\ send' = [send EXCEPT ![m].at = "compact"]
                  /\ UNCHANGED told
             ELSE /\ ses' = [ses EXCEPT ![s].comp = m]
                  /\ send' = [send EXCEPT ![m].at = "failed"]
                  /\ told' = told \cup {m}
          /\ odd' = odd \cup (IF ses[s].comp # 0 THEN {"overwritten"} ELSE {})
    /\ UNCHANGED <<sent, thread, manager, stops, faults, rebuilds, answered, dropped>>

(* session.send().  A session whose Query has ended is started again, whether or not it  *)
(* is still the thread's; one with a Query but no channel cannot be, and the caller gets  *)
(* the error.                                                                            *)
Push(m) ==
    /\ send[m].at = "ready"
    /\ LET s == send[m].ses
           x == [ses[s] EXCEPT !.auth = 0]
       IN  IF x.query = "none"
           THEN /\ ses' = [ses EXCEPT ![s] = Pushed(Opened(x, send[m].resume), m)]
                /\ send' = [send EXCEPT ![m].at = "done"]
                /\ odd' = odd \cup (IF s # current THEN {"revived"} ELSE {})
                /\ UNCHANGED told
           ELSE IF x.chan
           THEN /\ ses' = [ses EXCEPT ![s] = Pushed(x, m)]
                /\ send' = [send EXCEPT ![m].at = "done"]
                /\ UNCHANGED <<odd, told>>
           ELSE /\ ses' = [ses EXCEPT ![s] = [x EXCEPT !.last = m]]
                /\ send' = [send EXCEPT ![m].at = "failed"]
                /\ told' = told \cup {m}
                /\ UNCHANGED odd
    /\ UNCHANGED <<sent, thread, manager, counts, answered, dropped>>

-----------------------------------------------------------------------------
(* The callbacks of a session; a thread that was deleted does not hear them. *)

Heard(what) == IF gone THEN UNCHANGED <<shown, pending, id, told>> ELSE what

(* onDone with nothing queued: everything pending is settled. *)
OnDone ==
    /\ pending' = {} /\ id' = TRUE
    /\ UNCHANGED <<shown, told>>

(* onDone of one of several turns. *)
OnDoneOne(m) ==
    /\ pending' = pending \ {m} /\ id' = TRUE
    /\ UNCHANGED <<shown, told>>

(* onInterrupted: everything pending is taken out of the transcript. *)
OnInterrupted ==
    /\ shown' = shown \ pending /\ pending' = {}
    /\ UNCHANGED <<id, told>>

(* An error that takes the pending messages back, too. *)
OnErrorPops ==
    /\ shown' = shown \ pending /\ told' = told \cup shown /\ pending' = {}
    /\ UNCHANGED id

(* onError: the error is shown, the messages stay. *)
OnError ==
    /\ told' = told \cup shown /\ pending' = {}
    /\ UNCHANGED <<shown, id>>

-----------------------------------------------------------------------------
(* The agent, and the pump that reads what it says. *)

Live(s) == Quiet /\ ses[s].query = "live"

Reads(s) ==
    /\ Live(s) /\ ses[s].pipe # <<>>
    /\ ses' = [ses EXCEPT ![s].pipe = Tail(@), ![s].work = Append(@, Head(ses[s].pipe))]
    /\ UNCHANGED <<sent, send, thread, manager, counts, history>>

(* A result ends the turn of the oldest input, or of all of them as one; /compact is always *)
(* a turn of its own.                                                                       *)
Turn(work, k) ==
    \/ k = 1 /\ work # <<>>
    \/ k = Len(work) /\ k > 1 /\ Compact \notin Range(work)

Rest(work, k) == SubSeq(work, k + 1, Len(work))

Ended == {"unsent", "done", "failed"}

(* A result crosses a message that is on its way to the agent: the thread takes all of its *)
(* messages for answered, the session itself for idle.                                    *)
Crossed(x, k) ==
    IF x.pipe # <<>> \/ k < Len(x.work) \/ (x.comp = 0 /\ \E m \in Messages : send[m].at \notin Ended)
    THEN {"crossed"} ELSE {}

(* A result of something else is taken for the end of the compaction. *)
Swallowed(x, k) ==
    IF x.comp # 0 /\ Compact \notin Range(SubSeq(x.work, 1, k)) THEN {"swallowed"} ELSE {}

(* A stop ends the compaction for the user, not for the sendMessage() that waits for it. *)
Abandoned(x) == IF x.comp # 0 THEN {"abandoned"} ELSE {}

(* A result with more queued names the message of its own turn only. *)
Unnamed(x, k) == IF k < Len(x.work) /\ x.held # {} THEN {"unnamed"} ELSE {}

(* What a result answers of the resumed conversation: all of it, but /compact nothing. *)
Resumed(x, k) == IF x.work[k] = Compact THEN {} ELSE x.held

(* A successful result.  While a compaction is pending it is taken for its end.  What the *)
(* agent has already read counts as queued: the turn flag stays set for it.               *)
Answers(s) ==
    /\ Live(s)
    /\ LET x == ses[s] IN
       \E k \in DOMAIN x.work :
          /\ Turn(x.work, k)
          /\ ses' = [ses EXCEPT ![s] = [x EXCEPT !.work = Rest(x.work, k), !.inflight = k < Len(x.work),
                                                 !.comp = 0, !.rate = 0, !.stream = 0, !.fallback = FALSE,
                                                 !.known = TRUE, !.fresh = FALSE, !.held = @ \ Resumed(x, k)]]
          /\ send' = Compacted(send, x.comp)
          /\ answered' = answered \cup Of(SubSeq(x.work, 1, k)) \cup (Resumed(x, k) \ Of(x.pipe \o Rest(x.work, k)))
          /\ Heard(IF x.comp # 0 THEN UNCHANGED <<shown, pending, id, told>>
                   ELSE IF k < Len(x.work) THEN OnDoneOne(Head(x.work))
                   ELSE OnDone)
          /\ odd' = odd \cup (IF k = Len(x.work) THEN Crossed(x, k) ELSE {})
                        \cup Swallowed(x, k) \cup Unnamed(x, k)
    /\ UNCHANGED <<sent, manager, counts, dropped>>

(* Any other result: the turn was stopped, or failed. *)
Fails(s, k) ==
    LET x == ses[s]
        ended == [x EXCEPT !.work = Rest(x.work, k), !.inflight = FALSE, !.stop = FALSE]
    IN  /\ odd' = odd \cup Crossed(x, k) \cup (IF x.intr THEN Abandoned(x) ELSE Swallowed(x, k))
        /\ IF x.intr
           THEN /\ ses' = [ses EXCEPT ![s] = ended]
                /\ Heard(OnInterrupted)
                /\ UNCHANGED send
           ELSE IF x.comp # 0
           THEN /\ ses' = [ses EXCEPT ![s] = [ended EXCEPT !.comp = 0]]
                /\ send' = Compacted(send, x.comp)
                /\ UNCHANGED <<shown, pending, id, told>>
           ELSE /\ ses' = [ses EXCEPT ![s] = [ended EXCEPT !.silent = TRUE]]
                /\ Heard(OnError)
                /\ UNCHANGED send

(* The agent hears of a stop: it ends what it works on, and says nothing when idle. *)
Stops(s) ==
    /\ Live(s) /\ ses[s].stop
    /\ IF ses[s].work = <<>>
       THEN /\ ses' = [ses EXCEPT ![s].stop = FALSE]
            /\ UNCHANGED <<send, thread, told, odd>>
       ELSE Fails(s, Len(ses[s].work))
    /\ UNCHANGED <<sent, manager, counts, answered, dropped>>

Fault == faults < MaxFaults /\ faults' = faults + 1

(* A turn ends with an error result; the agent stays. *)
TurnFails(s) ==
    /\ Live(s) /\ Fault
    /\ \E k \in DOMAIN ses[s].work : Turn(ses[s].work, k) /\ Fails(s, k)
    /\ UNCHANGED <<sent, manager, stops, rebuilds, compacts, answered, dropped>>

(* The pump's catch.  Everything below settles a compaction first. *)
Throws(s) == Live(s) /\ Fault /\ send' = HungUp(send, s)

(* The API refuses a request only while the agent works. *)
Refused(s) == Throws(s) /\ ses[s].work # <<>> /\ ~ses[s].intr

(* The turn to be sent again, and what the restart leaves behind.  A failure of the       *)
(* plugin's own turn repeats a message nobody asked for again.                            *)
Again(x) == IF Of(x.pipe) \cup Of(x.work) \cup x.held = {} THEN {"again"} ELSE {}

RetryWith(s, x, next, resume) ==
    /\ ses' = [ses EXCEPT ![s] = [Restarted(x, resume) EXCEPT !.replay = next]]
    /\ dropped' = dropped \cup Lost(x, next, resume)

(* After a stop any failure is the end of the interrupted turn. *)
StoppedByFailure(s) ==
    /\ Throws(s) /\ ses[s].intr
    /\ ses' = [ses EXCEPT ![s] = TornDown(Failed(@))]
    /\ Heard(OnInterrupted)
    /\ UNCHANGED <<sent, manager, stops, rebuilds, compacts, answered, dropped, odd>>

(* The sign-in expired: the process is started again and the last turn sent again, once   *)
(* for each send().                                                                      *)
AuthRetried(s) ==
    /\ Refused(s) /\ ses[s].last # 0 /\ ses[s].auth < AuthRetries
    /\ LET x == [Failed(ses[s]) EXCEPT !.auth = @ + 1] IN
         RetryWith(s, x, x.last, x.known) /\ odd' = odd \cup Again(x)
    /\ UNCHANGED <<sent, thread, manager, stops, rebuilds, compacts, answered, told>>

(* The conversation cannot be resumed: a new one begins with the last turn. *)
ResumeRetried(s) ==
    /\ Throws(s)
    /\ LET x == [Failed(ses[s]) EXCEPT !.fallback = TRUE] IN
         /\ ~x.intr /\ x.fresh /\ ~ses[s].fallback /\ x.inflight /\ x.last # 0
         /\ RetryWith(s, x, x.last, FALSE) /\ odd' = odd \cup Again(x)
    /\ UNCHANGED <<sent, thread, manager, stops, rebuilds, compacts, answered, told>>

(* A rate limit: the failed Query and its channel are kept while the pump waits. *)
RateLimited(s) ==
    /\ Refused(s) /\ ses[s].rate < RateRetries /\ ~ses[s].backoff
    /\ LET x == Failed(ses[s]) IN
         /\ ses' = [ses EXCEPT ![s] = [x EXCEPT !.rate = @ + 1, !.backoff = TRUE, !.turn = x.last]]
         /\ odd' = odd \cup Again(x)
    /\ UNCHANGED <<sent, thread, manager, stops, rebuilds, compacts, answered, told, dropped>>

(* The process is gone in the middle of a turn: a new one is told to go on with what the  *)
(* conversation holds.                                                                   *)
StreamClosed(s) ==
    /\ Throws(s) /\ ~ses[s].intr /\ ses[s].stream < StreamRetries
    /\ LET x == [Failed(ses[s]) EXCEPT !.stream = @ + 1] IN RetryWith(s, x, Continue, x.known)
    /\ UNCHANGED <<sent, thread, manager, stops, rebuilds, compacts, answered, told, odd>>

(* Anything else, and every retry used up: an error, unless this pump has shown one. *)
Breaks(s) ==
    /\ Throws(s) /\ ~ses[s].intr
    /\ ses' = [ses EXCEPT ![s] = TornDown(Failed(@))]
    /\ IF ses[s].silent
       THEN UNCHANGED <<shown, pending, id, told>> /\ odd' = odd \cup {"silent"}
       ELSE Heard(OnError) /\ UNCHANGED odd
    /\ UNCHANGED <<sent, manager, stops, rebuilds, compacts, answered, dropped>>

(* The backoff is over.  After a stop nothing is restarted, and nothing closed either. *)
BackoffEnds(s) ==
    /\ Quiet /\ ses[s].backoff
    /\ LET x == [ses[s] EXCEPT !.backoff = FALSE, !.turn = 0]
           waited == ses[s].turn
       IN  \/ /\ x.intr
              /\ ses' = [ses EXCEPT ![s] = [x EXCEPT !.intr = FALSE]]
              /\ Heard(OnInterrupted)
              /\ odd' = odd \cup {"stuck"}
              /\ UNCHANGED <<send, dropped>>
           \/ /\ ~x.intr /\ ~x.chan
              /\ ses' = [ses EXCEPT ![s] = x]
              /\ UNCHANGED <<send, thread, told, dropped, odd>>
           \/ /\ ~x.intr /\ x.chan
              /\ RetryWith(s, x, waited, x.known)
              /\ send' = HungUp(send, s)
              /\ UNCHANGED <<thread, told, odd>>
    /\ UNCHANGED <<sent, manager, counts, answered>>

(* The retried turn is sent. *)
Replay(s) ==
    /\ ses[s].replay # 0
    /\ ses' = [ses EXCEPT ![s] = Pushed([@ EXCEPT !.replay = 0], ses[s].replay)]
    /\ UNCHANGED <<sent, send, thread, manager, counts, history>>

(* The pump of a closed Query sees its end: its finally settles the session's flags and   *)
(* ends the channel, whichever that is by now.                                            *)
Finalise(s) ==
    /\ Quiet /\ ses[s].ending > 0
    /\ ses' = [ses EXCEPT ![s] = [ses[s] EXCEPT !.ending = @ - 1, !.intr = FALSE, !.inflight = FALSE,
                                                !.chan = FALSE]]
    /\ UNCHANGED <<sent, send, thread, manager, counts, history>>

(* An agent whose channel has ended finishes its work and goes. *)
Exits(s) ==
    /\ Live(s) /\ ~ses[s].chan /\ ses[s].pipe = <<>> /\ ses[s].work = <<>>
    /\ ses' = [ses EXCEPT ![s] = TornDown(@)]
    /\ send' = Unmeasured(send, s)
    /\ UNCHANGED <<sent, thread, manager, counts, history>>

-----------------------------------------------------------------------------
(* What else happens to the thread. *)

(* interrupt(); the agent hears of it later. *)
Interrupt ==
    /\ Quiet /\ current # 0 /\ stops < MaxStops
    /\ stops' = stops + 1
    /\ ses' = [ses EXCEPT ![current].intr = TRUE, ![current].stop = ses[current].query = "live"]
    /\ UNCHANGED <<sent, send, thread, manager, faults, rebuilds, compacts, answered, told, dropped, odd>>

RequestSessionRestart ==
    /\ Quiet /\ current # 0 /\ ~rebuild /\ rebuilds < MaxRebuilds
    /\ rebuilds' = rebuilds + 1 /\ rebuild' = TRUE
    /\ UNCHANGED <<sent, send, thread, current, made, gone, ses, stops, faults, compacts, history>>

DeleteThread ==
    /\ Quiet /\ ~gone /\ current # 0 /\ MaxDeletes = 1
    /\ gone' = TRUE /\ current' = 0
    /\ ses' = [ses EXCEPT ![current] = Closed(@)]
    /\ send' = HungUp(send, current)
    /\ shown' = {} /\ pending' = {}
    /\ UNCHANGED <<sent, id, made, rebuild, counts, history>>

Init ==
    /\ sent = 0 /\ send = [m \in Messages |-> [at |-> "unsent", ses |-> 0, resume |-> FALSE]]
    /\ shown = {} /\ pending = {} /\ id \in BOOLEAN
    /\ current = 0 /\ made = 0 /\ rebuild = FALSE /\ gone = FALSE
    /\ ses = [s \in Sessions |-> NewSession]
    /\ stops = 0 /\ faults = 0 /\ rebuilds = 0 /\ compacts = 0
    /\ answered = {} /\ told = {} /\ dropped = {} /\ odd = {}

Sending == \E m \in Messages : Probed(m) \/ Synced(m) \/ Usage(m) \/ Push(m)
Working(s) == Reads(s) \/ Answers(s) \/ Stops(s)
Failing(s) == TurnFails(s) \/ StoppedByFailure(s) \/ AuthRetried(s) \/ ResumeRetried(s)
                 \/ RateLimited(s) \/ StreamClosed(s) \/ Breaks(s)
Settling(s) == BackoffEnds(s) \/ Replay(s) \/ Finalise(s) \/ Exits(s)

Next ==
    \/ SendMessage \/ Interrupt \/ RequestSessionRestart \/ DeleteThread
    \/ Sending
    \/ \E s \in Sessions : Working(s) \/ Failing(s) \/ Settling(s)

(* Continuations run, control requests are answered or fail, the agent reads, answers and  *)
(* hears of stops, timers fire and closed Queries end.                                     *)
Fairness ==
    /\ \A m \in Messages : WF_vars(Probed(m)) /\ WF_vars(Synced(m)) /\ WF_vars(Usage(m)) /\ WF_vars(Push(m))
    /\ \A s \in Sessions : WF_vars(Reads(s)) /\ WF_vars(Answers(s)) /\ WF_vars(Stops(s)) /\ WF_vars(Settling(s))

Spec == Init /\ [][Next]_vars /\ Fairness

-----------------------------------------------------------------------------
Oddities == {"overwritten", "revived", "again", "stuck", "silent", "crossed", "swallowed", "abandoned", "unnamed"}

SessionRecord ==
    [query: {"none", "live", "dead"}, chan: BOOLEAN, pipe: Seq(Inputs), work: Seq(Inputs),
     inflight: BOOLEAN, intr: BOOLEAN, stop: BOOLEAN, comp: Messages \cup {0}, last: Inputs \cup {0},
     auth: 0..AuthRetries, rate: 0..RateRetries, stream: 0..StreamRetries, fallback: BOOLEAN,
     known: BOOLEAN, fresh: BOOLEAN, silent: BOOLEAN, backoff: BOOLEAN, turn: Inputs \cup {0},
     replay: Inputs \cup {0}, held: SUBSET Messages, ending: Nat]

(* Every variable keeps its type. *)
TypeOK ==
    /\ sent \in 0..MaxSends
    /\ send \in [Messages -> [at: {"unsent", "probe", "sync", "usage", "compact", "ready", "done", "failed"},
                              ses: Sessions \cup {0}, resume: BOOLEAN]]
    /\ shown \subseteq Messages /\ pending \subseteq Messages /\ id \in BOOLEAN
    /\ current \in Sessions \cup {0} /\ made \in 0..Cardinality(Sessions)
    /\ rebuild \in BOOLEAN /\ gone \in BOOLEAN
    /\ ses \in [Sessions -> SessionRecord]
    /\ stops \in 0..MaxStops /\ faults \in 0..MaxFaults /\ rebuilds \in 0..MaxRebuilds /\ compacts \in 0..MaxCompacts
    /\ answered \subseteq Messages /\ told \subseteq Messages /\ dropped \subseteq Messages
    /\ odd \subseteq Oddities

(* Nothing is going on with the thread. *)
AtRest ==
    /\ Quiet /\ ~gone
    /\ \A m \in Messages : send[m].at \in Ended
    /\ \A s \in Sessions :
          /\ ~ses[s].backoff /\ ses[s].ending = 0
          /\ ses[s].query = "live" => ses[s].pipe = <<>> /\ ses[s].work = <<>>

(* At rest, every message in the transcript was answered or is followed by an error, except  *)
(* those that a retry left behind when it emptied the channel.  Excepted are a session that   *)
(* a stop left with a dead Query, one that was replaced under a send, a compaction that took   *)
(* another turn's result for its own, a second failure in one pump, and a stop after a result  *)
(* that settled messages it did not answer.                                                  *)
NothingForgotten ==
    AtRest /\ odd \cap {"stuck", "revived", "swallowed", "silent"} = {} /\ ~(stops > 0 /\ "crossed" \in odd) => shown \subseteq answered \cup told \cup dropped

(* isRunning() tells the truth: it is true only while an agent or a timer is going to settle   *)
(* it, and while an agent has something to do it is true.  Rebuilds, the idle reaper and the    *)
(* stop button rely on it.                                                                   *)
RunningIsReal ==
    \A s \in Sessions :
        LET busy == ses[s].pipe # <<>> \/ ses[s].work # <<>> IN
        Quiet =>
            /\ odd \cap {"stuck", "revived"} = {} /\ ses[s].inflight =>
                   ses[s].backoff \/ (ses[s].query = "live" /\ busy)
            /\ odd \cap {"crossed", "revived"} = {} /\ busy => ses[s].inflight

(* A retry repeats the turn that failed, never one that was answered before; except when what  *)
(* failed was the plugin's own turn.                                                          *)
ReplayedIsUnanswered ==
    odd \cap {"again"} = {} => \A s \in Sessions : ses[s].replay \notin answered

(* Messages leave the transcript only when the user has pressed stop or deletes the thread, and  *)
(* an answered one never does; except where a result was not told to the thread.               *)
OnlyStopPops ==
    [][\A m \in shown \ shown' : gone' \/ (stops > 0 /\ (m \notin answered \/ odd \cap {"swallowed", "unnamed"} # {}))]_vars

(* Every sendMessage() ends: the message reaches an agent or the caller gets an error.  Excepted  *)
(* are two sends that compact at once, and a stop during a compaction.                          *)
EverySendEnds ==
    \A m \in Messages : send[m].at \notin Ended ~>
        (send[m].at \in Ended \/ odd \cap {"overwritten", "abandoned"} # {})

(* What comments of the code say and the code does not do (README, section 5). *)

(* A turn that ends well has answered every message that was pending (onDone). *)
SettledIsAnswered ==
    [][pending' = {} /\ shown' = shown /\ told' = told => pending \subseteq answered']_vars

(* A thread that has reported a stop is not running (emitRunStateSettledWhenIdle). *)
SettledIsIdle ==
    [][shown \ shown' # {} /\ current' # 0 /\ "revived" \notin odd => ~ses'[current].inflight]_vars

(* "There is only ever one Query per thread" (ThreadSession). *)
OneQuery == Cardinality({s \in Sessions : ses[s].query = "live" /\ ses[s].chan}) <= 1
=============================================================================

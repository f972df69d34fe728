--------------------------- MODULE HostToolBroker ---------------------------
(***************************************************************************)
(* The daemon's broker of host tool calls for one thread                   *)
(* (daemon/hostTools.ts), as operators on its state: what each call has    *)
(* come to, whether a client that can serve calls is attached, and which   *)
(* timers are armed.  Calls are numbered in the order they are made.       *)
(***************************************************************************)
EXTENDS Subsequences, FiniteSets

CONSTANTS MaxCalls,    \* bound: host tool calls of the thread
          CallLimit    \* HOST_TOOL_LIMITS.maxConcurrentCallsPerThread

ASSUME BrokerAssumption == MaxCalls \in Nat /\ CallLimit \in Nat \ {0}

Calls == 1 .. MaxCalls

\* waiting: no client is attached; issued: a tool.call is journaled; done: the handler
\* has its outcome.
Status == {"none", "waiting", "issued", "done"}

Broker == [attached : BOOLEAN, call : [Calls -> Status],
           grace : SUBSET Calls, answer : SUBSET Calls]

NewBroker == [attached |-> FALSE, call |-> [k \in Calls |-> "none"], grace |-> {}, answer |-> {}]

With(b, status) == {k \in Calls : b.call[k] = status}
Open(b) == With(b, "waiting") \cup With(b, "issued")

\* Variant: the answer timer is left to the client.
IssueUntimed(b, ks) ==
    [b EXCEPT !.call = [k \in Calls |-> IF k \in ks THEN "issued" ELSE b.call[k]],
              !.grace = b.grace \ ks]

\* issue: the call is journaled and its answer timer armed.
Issue(b, ks) ==
    [b EXCEPT !.call = [k \in Calls |-> IF k \in ks THEN "issued" ELSE b.call[k]],
              !.grace = b.grace \ ks,
              !.answer = b.answer \cup ks]

\* setAttached: a client that came back stops the grace timers and is issued what was
\* waiting; one that went away starts them for what it has not answered.
SetAttached(b, on) ==
    IF on = b.attached THEN b
    ELSE IF on THEN [Issue(b, With(b, "waiting")) EXCEPT !.attached = TRUE, !.grace = {}]
    ELSE [b EXCEPT !.attached = FALSE, !.grace = b.grace \cup With(b, "issued")]

MayCall(b, k) ==
    /\ b.call[k] = "none" /\ \A j \in 1 .. k - 1 : b.call[j] # "none"
    /\ Cardinality(Open(b)) < CallLimit

\* call: issued at once, or given the grace period to find a client.
Call(b, k) ==
    IF b.attached THEN Issue(b, {k})
    ELSE [b EXCEPT !.call[k] = "waiting", !.grace = b.grace \cup {k}]

\* finish: the handler gets its outcome and no timer is left.
Finish(b, ks) ==
    [b EXCEPT !.call = [k \in Calls |-> IF k \in ks THEN "done" ELSE b.call[k]],
              !.grace = b.grace \ ks,
              !.answer = b.answer \ ks]

\* A daemon that dies takes the open calls with it.
LoseCalls(b) == [Finish(b, Open(b)) EXCEPT !.attached = FALSE, !.grace = {}, !.answer = {}]

\* A call that waits for a client has its grace timer, an issued one its answer timer and,
\* while no client can serve it, its grace timer too; no other call has one.
Timed(b) ==
    /\ With(b, "waiting") \subseteq b.grace
    /\ With(b, "issued") \subseteq b.answer
    /\ ~b.attached => With(b, "issued") \subseteq b.grace
    /\ b.attached => With(b, "waiting") = {}
    /\ b.grace \cup b.answer \subseteq Open(b)

-----------------------------------------------------------------------------
(* What an operation journals.                                             *)

Names == {"call", "resolved", "canceled", "expired"}
JournalEntry == [name : Names, call : Calls]

\* One entry for each of a set of calls, oldest call first.
Entries(name, ks) == Picked([k \in Calls |-> [name |-> name, call |-> k]], ks)

IssuedBetween(b, c) == Entries("call", With(c, "issued") \ With(b, "issued"))

\* Only an issued call is canceled in the journal; one that waited was never in it.
CanceledOf(b, ks) == Entries("canceled", With(b, "issued") \cap ks)

\* Requests the journal's checkpoint still has open.
OpenIn(journal) ==
    {k \in Calls : \E i \in 1 .. Len(journal) :
        /\ journal[i] = [name |-> "call", call |-> k]
        /\ \A j \in i + 1 .. Len(journal) : journal[j].call # k}
=============================================================================

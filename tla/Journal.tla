------------------------------- MODULE Journal -------------------------------
(***************************************************************************)
(* The in-memory journal of one thread (src/protocol/journal.ts), as       *)
(* operators on sets of entries.  An entry is one event with the sequence  *)
(* number the journal gave it.  Payloads are abstracted to the role the    *)
(* journal policy reads from them, the request they open or close, and the *)
(* daemon process that produced them; the two values of session.state that *)
(* the daemon tells apart, a turn running and no turn running, are roles   *)
(* of their own.                                                           *)
(***************************************************************************)
EXTENDS Integers, FiniteSets, Sequences

CONSTANTS Requests,            \* ids of blocking requests
          NoRequest,           \* what every other event carries instead of an id
          CheckpointMessages   \* how many messages a checkpoint carries

ASSUME JournalAssumption ==
    /\ NoRequest \notin Requests
    /\ CheckpointMessages \in Nat

Roles == {"token", "message", "turn_end", "request_open", "request_close",
          "busy", "idle", "other"}

Event == [role : Roles, req : Requests \cup {NoRequest}]

Entry == [seq : Nat \ {0}, role : Roles, req : Requests \cup {NoRequest}, by : Nat]

\* Variant: numbered before the counter is incremented.
StampBeforeIncrement(s, ev, p) == [seq |-> s - 1, role |-> ev.role, req |-> ev.req, by |-> p]

Stamp(s, ev, p) == [seq |-> s, role |-> ev.role, req |-> ev.req, by |-> p]

MaxOf(a, b) == IF a > b THEN a ELSE b
MinOf(a, b) == IF a < b THEN a ELSE b

Seqs(es) == {e.seq : e \in es}

Finishers(es) == {e \in es : e.role \in {"message", "turn_end"}}

After(es, s) == {e \in es : e.seq > s}

\* Variant: any acked token, its turn finished or not.
AckedTokens(es, acked) == {e \in es : e.role = "token" /\ e.seq <= acked}

\* Tokens that a finished turn made redundant, once the finisher is acked.
FinishedAckedTokens(es, acked) ==
    {e \in es : /\ e.role = "token"
                /\ \E f \in Finishers(es) : e.seq < f.seq /\ f.seq <= acked}

DropFinishedAckedTokens(es, acked) == es \ FinishedAckedTokens(es, acked)

-----------------------------------------------------------------------------
(* The checkpoint is kept as the set of entries it would carry.            *)

Superseded(e, es) ==
    \E f \in es :
        /\ f.seq > e.seq
        /\ \/ e.role = "token" /\ f.role \in {"message", "turn_end"}
           \/ e.role \in {"busy", "idle"} /\ f.role \in {"busy", "idle"}
           \/ /\ e.role = "request_open"
              /\ f.role \in {"request_open", "request_close"}
              /\ f.req = e.req

Recent(e, es) ==
    Cardinality({f \in es : f.role = "message" /\ f.seq > e.seq}) < CheckpointMessages

\* What a checkpoint of the history es carries.
Live(es) ==
    {e \in es : /\ e.role \in {"token", "message", "request_open", "busy", "idle"}
                /\ ~Superseded(e, es)
                /\ e.role = "message" => Recent(e, es)}

\* Variant: the fold forgets to clear what the event supersedes.
FoldWithoutClearing(cp, e) == cp \cup {e}

\* One event folded into a checkpoint.
Fold(cp, e) == Live(cp \cup {e})

OpenRequests(cp) == {e \in cp : e.role = "request_open"}
TurnInFlight(cp) == \E e \in cp : e.role \in {"busy", "token"}

\* Events that must be on stable storage before the daemon moves on.
IsBoundary(e) == e.role \in {"turn_end", "request_open", "request_close", "busy", "idle"}

-----------------------------------------------------------------------------
(* The chain of daemon processes, each with the seq its history resumed at. *)

Epoch == [epoch : Nat, startSeq : Nat]

\* recordEpoch: the chain with process p appended, its oldest links dropped.
RecordEpoch(chain, p, s, keep) ==
    LET longer == chain \o <<[epoch |-> p, startSeq |-> s]>>
        excess == MaxOf(0, Len(longer) - keep)
    IN SubSeq(longer, excess + 1, Len(longer))

\* rewindFor: the seq a client of process p must go back to from seq s, if any.
RewindPoints(chain, now, p, s) ==
    {chain[i + 1].startSeq :
        i \in {j \in 1 .. Len(chain) - 1 :
                 /\ chain[j].epoch = p /\ p # now
                 /\ s > chain[j + 1].startSeq}}
=============================================================================

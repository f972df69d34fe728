----------------------------- MODULE DiskJournal -----------------------------
(***************************************************************************)
(* The disk-backed journal of one thread (daemon/diskJournal.ts) across    *)
(* crashes and restarts of the daemon.  The code's file writes are         *)
(* synchronous, so nothing runs between them except a crash: pc names the  *)
(* write an operation has reached, and every operation that writes is      *)
(* followed by WriteFile and WriteIdx before the next one may begin.       *)
(***************************************************************************)
EXTENDS Journal

CONSTANTS Events,     \* what the thread's session may emit
          MaxSeq,     \* bound: sequence numbers
          MaxEpoch,   \* bound: daemon processes
          MaxChain,   \* MAX_EPOCH_HISTORY
          MaxFailures \* bound: writes to the log or its index that throw

ASSUME DiskJournalAssumption ==
    /\ Events \subseteq Event
    /\ MaxSeq \in Nat /\ MaxEpoch \in Nat
    /\ MaxChain \in Nat \ {0, 1}
    /\ MaxFailures \in Nat

VARIABLES
    pc,              \* "down", "run", or the step the running operation is at
    resume,          \* the pc an operation that writes continues with
    sync,            \* the argument of the flush that is running
    epoch,           \* this daemon process
    failures,        \* writes that have thrown
    entries, lastSeq, lowWater, ackedSeq, checkpoint,    \* InMemoryJournal
    buffer, timer, needsRewrite, fileLowWater, lastIdxLowWater, epochChain,
    file,            \* whole records of <id>.ndjson
    durable,         \* those a power loss cannot take
    idx,             \* <id>.idx
    timeline,        \* history: every event not lost in a crash, evicted or not
    shown,           \* history: every event a listener was given
    shed             \* history: evicted events the log file has let go of

memory == <<entries, lastSeq, lowWater, ackedSeq, checkpoint>>
writer == <<buffer, timer, needsRewrite, fileLowWater, lastIdxLowWater, epochChain>>
disk == <<file, durable, idx>>
history == <<timeline, shown, shed>>
control == <<pc, resume, sync, epoch, failures>>
vars == <<control, memory, writer, disk, history>>

Index == [lowWater : Nat, lastSeq : Nat, ackedSeq : Nat, epochs : Seq(Epoch)]

\* What a process that has ended leaves behind: nothing but the disk.
Forget ==
    /\ pc' = "down" /\ resume' = "run" /\ sync' = FALSE
    /\ entries' = {} /\ lastSeq' = 0 /\ lowWater' = 0 /\ ackedSeq' = 0 /\ checkpoint' = {}
    /\ buffer' = {} /\ timer' = FALSE /\ needsRewrite' = FALSE
    /\ fileLowWater' = 0 /\ lastIdxLowWater' = -1 /\ epochChain' = <<>>

Running == pc # "down"

Init ==
    /\ pc = "down" /\ resume = "run" /\ sync = FALSE /\ epoch = 0 /\ failures = 0
    /\ entries = {} /\ lastSeq = 0 /\ lowWater = 0 /\ ackedSeq = 0 /\ checkpoint = {}
    /\ buffer = {} /\ timer = FALSE /\ needsRewrite = FALSE
    /\ fileLowWater = 0 /\ lastIdxLowWater = -1 /\ epochChain = <<>>
    /\ file = {} /\ durable = {}
    /\ idx = [lowWater |-> 0, lastSeq |-> 0, ackedSeq |-> 0, epochs |-> <<>>]
    /\ timeline = {} /\ shown = {} /\ shed = {}

-----------------------------------------------------------------------------
(* Operations of the journal, while its daemon runs.                       *)

\* The operation goes on to flush: the file first, the index after it.
Flush(s, r) == pc' = "flush" /\ sync' = s /\ resume' = r /\ timer' = FALSE

\* ... and then returns to its caller, or to the step its caller has left.
Return == pc' = resume /\ resume' = "run" /\ sync' = FALSE

\* Over its size limit the journal drops finished acked tokens and then evicts
\* from the front, never the newest entry.  How many entries that takes depends
\* on sizes, which are not modelled: w is the last seq evicted.
EnforceBounds(es) ==
    \/ entries' = es /\ UNCHANGED lowWater
    \/ LET kept == DropFinishedAckedTokens(es, ackedSeq) IN
       \E w \in {0} \cup Seqs(kept) :
           /\ entries' = After(kept, w)
           /\ entries' # {}
           /\ lowWater' = MaxOf(lowWater, w)

\* Variant: the checkpoint is computed from what is retained.
CheckpointOfRetained(e) == Live(entries')

\* The checkpoint is folded at append time, so that it survives eviction.
CheckpointAfter(e) == Fold(checkpoint, e)

AppendEvent(ev) ==
    /\ pc = "run" /\ lastSeq < MaxSeq
    /\ LET e == Stamp(lastSeq + 1, ev, epoch) IN
       /\ lastSeq' = e.seq
       /\ EnforceBounds(entries \cup {e})
       /\ checkpoint' = CheckpointAfter(e)
       /\ buffer' = buffer \cup {e}
       /\ needsRewrite' = (needsRewrite \/ lowWater' > fileLowWater)
       /\ IF IsBoundary(e) \/ needsRewrite'
          THEN Flush(TRUE, "notify")
          ELSE pc' = "notify" /\ timer' = TRUE /\ UNCHANGED <<sync, resume>>
       /\ timeline' = timeline \cup {e}
    /\ UNCHANGED <<epoch, failures, ackedSeq, fileLowWater, lastIdxLowWater, epochChain, disk,
                   shown, shed>>

\* append's last act: hand the new entry to the subscribers.
Notify ==
    /\ pc = "notify"
    /\ pc' = "run"
    /\ shown' = shown \cup {e \in entries : e.seq = lastSeq}
    /\ UNCHANGED <<resume, sync, epoch, failures, memory, writer, disk, timeline, shed>>

FlushTimer ==
    /\ pc = "run" /\ timer
    /\ Flush(FALSE, "run")
    /\ UNCHANGED <<epoch, failures, memory, buffer, needsRewrite, fileLowWater, lastIdxLowWater,
                   epochChain, disk, history>>

\* An ack above lastSeq is clamped to it and a lower one is ignored.
Ack(s) ==
    /\ pc = "run" /\ s > ackedSeq /\ s <= lastSeq
    /\ ackedSeq' = s
    /\ pc' = "index"
    /\ UNCHANGED <<resume, sync, epoch, failures, entries, lastSeq, lowWater, checkpoint, writer, disk, history>>

\* Age eviction up to w (0 when nothing has expired), then acked tokens.
Compact(w) ==
    /\ pc = "run" /\ w \in {0} \cup Seqs(entries)
    /\ entries' = DropFinishedAckedTokens(After(entries, w), ackedSeq)
    /\ lowWater' = MaxOf(lowWater, w)
    /\ entries' # entries \/ lowWater' > fileLowWater
    /\ needsRewrite' = TRUE
    /\ Flush(TRUE, "run")
    /\ UNCHANGED <<epoch, failures, lastSeq, ackedSeq, checkpoint, buffer, fileLowWater,
                   lastIdxLowWater, epochChain, disk, history>>

\* A graceful stop flushes and then lets go of the file.
Close ==
    /\ pc = "run"
    /\ Flush(TRUE, "down")
    /\ UNCHANGED <<epoch, failures, memory, buffer, needsRewrite, fileLowWater, lastIdxLowWater,
                   epochChain, disk, history>>

-----------------------------------------------------------------------------
(* The writes of the running operation.                                    *)

\* All retained entries to a temporary file that is then renamed over the log.
Rewrite ==
    /\ file' = After(entries, lowWater)
    /\ durable' = file'
    /\ needsRewrite' = FALSE
    /\ fileLowWater' = lowWater
    /\ shed' = shed \cup {e \in timeline : e.seq <= lowWater}

\* Variant: no fsync after the write.
AppendBufferUnsynced ==
    /\ file' = file \cup buffer
    /\ UNCHANGED <<durable, needsRewrite, fileLowWater, shed>>

AppendBuffer ==
    /\ file' = file \cup buffer
    /\ durable' = IF sync /\ buffer # {} THEN file' ELSE durable
    /\ UNCHANGED <<needsRewrite, fileLowWater, shed>>

WriteFile ==
    /\ pc = "flush"
    /\ IF needsRewrite THEN Rewrite ELSE AppendBuffer
    /\ buffer' = {}
    /\ IF sync \/ lowWater # lastIdxLowWater
       THEN pc' = "index" /\ UNCHANGED <<resume, sync>>
       ELSE Return
    /\ UNCHANGED <<epoch, failures, memory, timer, lastIdxLowWater, epochChain, idx,
                   timeline, shown>>

WriteIdx ==
    /\ pc = "index"
    /\ idx' = [lowWater |-> lowWater, lastSeq |-> lastSeq, ackedSeq |-> ackedSeq,
               epochs |-> epochChain]
    /\ IF resume = "down"
       THEN Forget
       ELSE /\ lastIdxLowWater' = lowWater
            /\ Return
            /\ UNCHANGED <<memory, buffer, timer, needsRewrite,
                           fileLowWater, epochChain>>
    /\ UNCHANGED <<epoch, failures, file, durable, history>>

\* A write throws before it has changed its file: the operation ends there, its later steps (the index, the
\* subscribers) never run, and the daemon goes on serving.  While it opens the
\* journal or stops, a failed write ends the process, as a crash does.
WriteFails ==
    /\ failures < MaxFailures /\ pc \in {"flush", "index"}
    /\ resume # "down" /\ lastIdxLowWater # -1
    /\ failures' = failures + 1
    /\ pc' = "run" /\ resume' = "run" /\ sync' = FALSE
    /\ UNCHANGED <<epoch, memory, writer, disk, history>>

-----------------------------------------------------------------------------
(* Crash and restart.                                                      *)

\* What a crash leaves of the history, when only these lines are in the log: an
\* evicted event stays part of it while numbering will continue after its seq.
Surviving(lines) ==
    {e \in timeline :
        \/ e \in lines
        \/ /\ e \notin file \cup buffer
           /\ e.seq <= idx.lastSeq \/ \E f \in lines : e.seq <= f.seq}

\* The process dies.  Of a log write it was in, the first whole lines may stay.
Crash(k) ==
    /\ Running
    /\ file' = file \cup (IF pc = "flush" /\ ~needsRewrite
                          THEN buffer \ After(buffer, k) ELSE {})
    /\ timeline' = Surviving(file')
    /\ Forget
    /\ UNCHANGED <<epoch, failures, durable, idx, shown, shed>>

\* The machine goes down too: unsynced lines after k are lost with it.
PowerLoss(k) ==
    /\ Running
    /\ file' = durable \cup (file \ After(file, k))
    /\ durable' = file'
    /\ timeline' = Surviving(file')
    /\ Forget
    /\ UNCHANGED <<epoch, failures, idx, shown, shed>>

\* Variants: one of the two sources is ignored.
SidecarSeq(tail) == MaxOf(idx.lastSeq, idx.lowWater)
TailSeq(tail) == MaxOf(tail, idx.lowWater)

\* Numbering goes on after the sidecar's lastSeq or the log's tail, whichever is later.
RecoveredSeq(tail) == MaxOf(MaxOf(idx.lastSeq, tail), idx.lowWater)

\* Variant: the chain waits for the first flush that writes the sidecar.
LeaveChainInMemory == pc' = "run" /\ resume' = "run" /\ sync' = FALSE

\* recover's last act: persist the chain now, before anything is served.
PersistChain == pc' = "index" /\ resume' = "run" /\ sync' = FALSE

\* A new daemon process opens the journal and recovers it from disk.
Open ==
    /\ pc = "down" /\ epoch < MaxEpoch
    /\ epoch' = epoch + 1
    /\ entries' = After(file, idx.lowWater)
    /\ lowWater' = idx.lowWater
    /\ \E tail \in {0} \cup Seqs(file) :
          /\ \A e \in file : e.seq <= tail
          /\ lastSeq' = RecoveredSeq(tail)
    /\ ackedSeq' = MinOf(idx.ackedSeq, lastSeq')
    /\ checkpoint' = Live(entries')
    /\ needsRewrite' = (entries' # file)
    /\ fileLowWater' = IF needsRewrite' THEN 0 ELSE idx.lowWater
    /\ epochChain' = RecordEpoch(idx.epochs, epoch', lastSeq', MaxChain)
    /\ buffer' = {} /\ timer' = FALSE /\ lastIdxLowWater' = -1
    /\ PersistChain
    /\ UNCHANGED <<failures, disk, history>>

RewindFor(p, s) == RewindPoints(epochChain, epoch, p, s)

-----------------------------------------------------------------------------

Next ==
    \/ \E ev \in Events : AppendEvent(ev)
    \/ Notify \/ FlushTimer \/ Close
    \/ \E s \in 1 .. MaxSeq : Ack(s)
    \/ \E w \in 0 .. MaxSeq : Compact(w)
    \/ WriteFile \/ WriteIdx \/ WriteFails
    \/ \E k \in 0 .. MaxSeq : Crash(k) \/ PowerLoss(k)
    \/ Open

Spec == Init /\ [][Next]_vars

-----------------------------------------------------------------------------
(* Properties.                                                             *)

TypeOK ==
    /\ pc \in {"down", "run", "flush", "index", "notify"}
    /\ resume \in {"run", "notify", "down"}
    /\ sync \in BOOLEAN /\ timer \in BOOLEAN /\ needsRewrite \in BOOLEAN
    /\ epoch \in Nat /\ failures \in Nat
    /\ entries \subseteq Entry /\ checkpoint \subseteq Entry
    /\ lastSeq \in Nat /\ lowWater \in Nat /\ ackedSeq \in Nat
    /\ buffer \subseteq Entry
    /\ fileLowWater \in Nat /\ lastIdxLowWater \in Nat \cup {-1}
    /\ epochChain \in Seq(Epoch)
    /\ file \subseteq Entry /\ durable \subseteq file
    /\ idx \in Index
    /\ timeline \subseteq Entry /\ shown \subseteq Entry
    /\ shed \subseteq Entry

\* A journal never serves two events under one seq, nor an event that a crash
\* took back: what it retains is part of the one surviving history.
OneHistory ==
    /\ \A e, f \in timeline : e.seq = f.seq => e = f
    /\ Running => entries \subseteq timeline
    /\ Running => \A e \in entries : lowWater < e.seq /\ e.seq <= lastSeq

\* A token that the surviving history follows with the end of its turn.
Finished(e) == e.role = "token" /\ \E f \in Finishers(timeline) : e.seq < f.seq

\* Above the low-water mark nothing is missing but tokens of a finished turn and
\* evicted events the log file has let go of.
NoHoleAboveShed ==
    Running => \A e \in timeline :
        e \in entries \/ e.seq <= lowWater \/ e \in shed \/ Finished(e)

\* The promise of Journal.replay: a cursor at or above lowWater misses nothing.
NoSilentGap ==
    Running => \A e \in timeline :
        e \in entries \/ e.seq <= lowWater \/ Finished(e)

\* "An open request must outlive its own journal record": one that nothing closed
\* is in the checkpoint, whatever was evicted.
OpenRequestOutlivesRecord ==
    pc = "run" => OpenRequests(Live(timeline)) \subseteq checkpoint

\* "So a turn's outcome survives a crash": a boundary event that a client was
\* shown is never lost, whatever crash or power loss follows.
ShownBoundarySurvives == \A e \in shown : IsBoundary(e) => e \in timeline

\* An event that was shown, lost in a crash and had its seq given to another
\* event is one rewindFor sends a client of that process back behind.
RewindReachesReuse ==
    pc = "run" => \A e \in shown :
        /\ e \notin timeline /\ \E f \in timeline : f.seq = e.seq
        /\ \E i \in 1 .. Len(epochChain) : epochChain[i].epoch = e.by
        => RewindFor(e.by, e.seq) # {}

\* A seq whose ack was recorded is never given to a new event, and the record
\* never goes back, across crashes and restarts.
AckedSeqIsFinal ==
    [][/\ \A e \in timeline' \ timeline : e.seq > idx.ackedSeq
       /\ idx'.ackedSeq >= idx.ackedSeq]_vars

\* A checkpoint carries only what is live in the surviving history, and all of it
\* that is still retained.
CheckpointIsLive ==
    Running => /\ checkpoint \subseteq Live(timeline)
               /\ Live(timeline) \cap entries \subseteq checkpoint

\* While the process runs nothing leaves the checkpoint by eviction, only by what
\* supersedes it in the history.
CheckpointOutlivesEviction ==
    [][Running /\ Running' => \A e \in checkpoint \ checkpoint' :
           e.role = "message" \/ Superseded(e, timeline')]_vars

\* The journal on disk is one implementation of a thread's history: what is evicted,
\* buffered or rewritten along the way does not show.
History == INSTANCE EventHistory WITH known <- timeline, acked <- idx.ackedSeq
ImplementsHistory == History!Spec
=============================================================================

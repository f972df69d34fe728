------------------------- MODULE DiskJournal_proofs -------------------------
(***************************************************************************)
(* Theorems about the disk-backed journal, for every set of events and     *)
(* every value of the bounds, with their proofs.                           *)
(***************************************************************************)
EXTENDS DiskJournal, FiniteSetTheorems, TLAPS

-----------------------------------------------------------------------------
(* The operators of Journal.                                               *)

\* The greater and the lesser of two numbers (Math.max, Math.min) is one of them.
LEMMA MaxOfMinOf ==
    ASSUME NEW a \in Nat, NEW b \in Nat
    PROVE  /\ MaxOf(a, b) \in Nat /\ MaxOf(a, b) >= a /\ MaxOf(a, b) >= b
           /\ MaxOf(a, b) \in {a, b}
           /\ MinOf(a, b) \in Nat /\ MinOf(a, b) <= a /\ MinOf(a, b) <= b
           /\ MinOf(a, b) \in {a, b}
BY DEF MaxOf, MinOf

\* InMemoryJournal.append numbers an event: the stamped event is an entry.
LEMMA StampType ==
    ASSUME NEW s \in Nat \ {0}, NEW ev \in Event, NEW p \in Nat
    PROVE  /\ Stamp(s, ev, p) \in Entry
           /\ Stamp(s, ev, p).seq = s
BY DEF Stamp, Event, Entry

\* Evicting, compacting and folding make no entries.
LEMMA Subsets ==
    ASSUME NEW es, NEW s
    PROVE  /\ After(es, s) \subseteq es
           /\ DropFinishedAckedTokens(es, s) \subseteq es
           /\ Live(es) \subseteq es
BY DEF After, DropFinishedAckedTokens, Live

\* recordEpoch returns a chain of epochs, the new one last.
LEMMA RecordEpochType ==
    ASSUME NEW chain \in Seq(Epoch), NEW p \in Nat, NEW s \in Nat, NEW keep \in Nat \ {0}
    PROVE  RecordEpoch(chain, p, s, keep) \in Seq(Epoch)
<1> DEFINE longer == chain \o <<[epoch |-> p, startSeq |-> s]>>
           excess == MaxOf(0, Len(longer) - keep)
<1>1. longer \in Seq(Epoch) /\ Len(longer) = Len(chain) + 1
  <2>1. <<[epoch |-> p, startSeq |-> s]>> \in Seq(Epoch)
    BY DEF Epoch
  <2> QED BY <2>1
<1>2. excess \in Nat /\ excess + 1 <= Len(longer)
  BY <1>1 DEF MaxOf
<1> HIDE DEF longer, excess
<1>3. SubSeq(longer, excess + 1, Len(longer)) \in Seq(Epoch)
  BY <1>1, <1>2
<1> QED BY <1>3 DEF RecordEpoch, longer, excess

-----------------------------------------------------------------------------
(* Type correctness.                                                       *)

\* The chain of a journal that no process has opened.
LEMMA EmptyChain == <<>> \in Seq(Epoch)
OBVIOUS

LEMMA InitTypeOK == Init => TypeOK
<1> SUFFICES ASSUME Init PROVE TypeOK
  OBVIOUS
<1>1. idx \in Index
  BY EmptyChain DEF Init, Index
<1>2. epochChain \in Seq(Epoch)
  BY EmptyChain DEF Init
<1>3. lastIdxLowWater \in Nat \cup {-1}
  BY DEF Init
<1> QED
  BY <1>1, <1>2, <1>3 DEF Init, TypeOK

\* Forget leaves the volatile variables well typed.
LEMMA ForgetType ==
    ASSUME Forget
    PROVE  /\ pc' = "down" /\ resume' = "run" /\ sync' \in BOOLEAN /\ timer' \in BOOLEAN
           /\ needsRewrite' \in BOOLEAN
           /\ entries' = {} /\ checkpoint' = {} /\ buffer' = {}
           /\ lastSeq' \in Nat /\ lowWater' \in Nat /\ ackedSeq' \in Nat
           /\ fileLowWater' \in Nat /\ lastIdxLowWater' \in Nat \cup {-1}
           /\ epochChain' \in Seq(Epoch)
BY EmptyChain DEF Forget

LEMMA NextTypeOK == TypeOK /\ [Next]_vars => TypeOK'
<1> SUFFICES ASSUME TypeOK, [Next]_vars PROVE TypeOK'
  OBVIOUS
<1> USE DiskJournalAssumption
<1>1. ASSUME NEW ev \in Events, AppendEvent(ev) PROVE TypeOK'
  <2> DEFINE e == Stamp(lastSeq + 1, ev, epoch)
  <2>1. e \in Entry /\ e.seq = lastSeq + 1 /\ lastSeq' \in Nat
    BY <1>1, StampType DEF AppendEvent, TypeOK
  <2>2. entries' \subseteq entries \cup {e} /\ lowWater' \in Nat
    <3>1. CASE entries' = entries \cup {e} /\ UNCHANGED lowWater
      BY <3>1 DEF TypeOK
    <3>2. CASE \E w \in {0} \cup Seqs(DropFinishedAckedTokens(entries \cup {e}, ackedSeq)) :
                  /\ entries' = After(DropFinishedAckedTokens(entries \cup {e}, ackedSeq), w)
                  /\ lowWater' = MaxOf(lowWater, w)
      <4> DEFINE kept == DropFinishedAckedTokens(entries \cup {e}, ackedSeq)
      <4>1. PICK w \in {0} \cup Seqs(kept) :
                  entries' = After(kept, w) /\ lowWater' = MaxOf(lowWater, w)
        BY <3>2
      <4>2. kept \subseteq entries \cup {e}
        BY Subsets
      <4>3. w \in Nat
        <5>1. kept \subseteq Entry
          BY <4>2, <2>1 DEF TypeOK
        <5> HIDE DEF kept
        <5> QED BY <5>1 DEF Seqs, Entry
      <4> QED BY <4>1, <4>2, <4>3, Subsets, MaxOfMinOf DEF TypeOK
    <3> QED BY <1>1, <3>1, <3>2 DEF AppendEvent, EnforceBounds
  <2>3. checkpoint' \subseteq checkpoint \cup {e}
    BY <1>1, Subsets DEF AppendEvent, CheckpointAfter, Fold
  <2>4. /\ pc' \in {"flush", "notify"} /\ resume' \in {"run", "notify", "down"}
        /\ sync' \in BOOLEAN /\ timer' \in BOOLEAN
    BY <1>1 DEF AppendEvent, Flush, TypeOK
  <2>5. needsRewrite' \in BOOLEAN
    BY <1>1 DEF AppendEvent, TypeOK
  <2>6. buffer' = buffer \cup {e} /\ timeline' = timeline \cup {e}
    BY <1>1 DEF AppendEvent
  <2> QED BY <1>1, <2>1, <2>2, <2>3, <2>4, <2>5, <2>6 DEF AppendEvent, disk, TypeOK
<1>2. CASE Notify
  BY <1>2 DEF Notify, memory, writer, disk, TypeOK
<1>3. CASE FlushTimer
  BY <1>3 DEF FlushTimer, Flush, memory, disk, history, TypeOK
<1>4. CASE Close
  BY <1>4 DEF Close, Flush, memory, disk, history, TypeOK
<1>5. ASSUME NEW s \in 1 .. MaxSeq, Ack(s) PROVE TypeOK'
  BY <1>5 DEF Ack, writer, disk, history, TypeOK
<1>6. ASSUME NEW w \in 0 .. MaxSeq, Compact(w) PROVE TypeOK'
  <2>1. entries' \subseteq entries /\ lowWater' \in Nat
    BY <1>6, Subsets, MaxOfMinOf DEF Compact, TypeOK
  <2> QED BY <1>6, <2>1 DEF Compact, Flush, disk, history, TypeOK
<1>7. CASE WriteFile
  <2>1. pc' \in {"index", "run", "notify", "down"} /\ resume' \in {"run", "notify", "down"}
        /\ sync' \in BOOLEAN
    BY <1>7 DEF WriteFile, Return, TypeOK
  <2>2. /\ file' \subseteq Entry /\ durable' \subseteq file' /\ shed' \subseteq Entry
        /\ needsRewrite' \in BOOLEAN /\ fileLowWater' \in Nat
    <3>1. CASE needsRewrite
      <4>1. Rewrite
        BY <1>7, <3>1 DEF WriteFile
      <4>2. file' \subseteq entries
        BY <4>1, Subsets DEF Rewrite
      <4>3. needsRewrite' \in BOOLEAN
        BY <4>1 DEF Rewrite
      <4> QED BY <4>1, <4>2, <4>3 DEF Rewrite, TypeOK
    <3>2. CASE ~needsRewrite
      BY <1>7, <3>2 DEF WriteFile, AppendBuffer, TypeOK
    <3> QED BY <3>1, <3>2
  <2> QED BY <1>7, <2>1, <2>2 DEF WriteFile, memory, TypeOK
<1>8. CASE WriteIdx
  <2>1. idx' \in Index
    BY <1>8 DEF WriteIdx, Index, TypeOK
  <2>2. CASE resume = "down"
    BY <1>8, <2>1, <2>2, ForgetType DEF WriteIdx, history, TypeOK
  <2>3. CASE resume # "down"
    BY <1>8, <2>1, <2>3 DEF WriteIdx, Return, memory, history, TypeOK
  <2> QED BY <2>2, <2>3
<1>9. CASE WriteFails
  <2>1. UNCHANGED <<epoch, memory, writer, disk, history>> /\ failures' = failures + 1
    BY <1>9 DEF WriteFails
  <2>2. pc' = "run" /\ resume' = "run" /\ sync' \in BOOLEAN
    BY <1>9 DEF WriteFails
  <2> QED BY <2>1, <2>2 DEF memory, writer, disk, history, TypeOK
<1>10. ASSUME NEW k \in 0 .. MaxSeq, Crash(k) PROVE TypeOK'
  <2>1. file' \subseteq Entry /\ file \subseteq file' /\ timeline' \subseteq timeline
    BY <1>10 DEF Crash, Surviving, TypeOK
  <2> QED BY <1>10, <2>1, ForgetType DEF Crash, TypeOK
<1>11. ASSUME NEW k \in 0 .. MaxSeq, PowerLoss(k) PROVE TypeOK'
  <2>1. file' \subseteq Entry /\ timeline' \subseteq timeline
    BY <1>11 DEF PowerLoss, Surviving, TypeOK
  <2> QED BY <1>11, <2>1, ForgetType DEF PowerLoss, TypeOK
<1>12. CASE Open
  <2>1. PICK tail \in {0} \cup Seqs(file) : lastSeq' = RecoveredSeq(tail)
    BY <1>12 DEF Open
  <2>2. tail \in Nat /\ idx.lastSeq \in Nat /\ idx.lowWater \in Nat /\ idx.ackedSeq \in Nat
        /\ idx.epochs \in Seq(Epoch)
    BY DEF Seqs, Entry, Index, TypeOK
  <2>3. lastSeq' \in Nat
    BY <2>1, <2>2, MaxOfMinOf DEF RecoveredSeq
  <2>4. ackedSeq' \in Nat
    BY <1>12, <2>2, <2>3, MaxOfMinOf DEF Open
  <2>5. epochChain' \in Seq(Epoch)
    <3>1. epoch' \in Nat /\ MaxChain \in Nat \ {0}
      BY <1>12 DEF Open, TypeOK
    <3> QED BY <1>12, <2>2, <2>3, <3>1, RecordEpochType DEF Open
  <2>6. entries' \subseteq file /\ checkpoint' \subseteq file
    BY <1>12, Subsets DEF Open
  <2>7. sync' \in BOOLEAN /\ timer' \in BOOLEAN /\ needsRewrite' \in BOOLEAN
    BY <1>12 DEF Open, PersistChain
  <2>8. fileLowWater' \in Nat /\ lowWater' \in Nat /\ epoch' \in Nat
    BY <1>12, <2>2 DEF Open, TypeOK
  <2>9. pc' = "index" /\ resume' = "run"
    BY <1>12 DEF Open, PersistChain
  <2> QED BY <1>12, <2>3, <2>4, <2>5, <2>6, <2>7, <2>8, <2>9 DEF Open, disk, history, TypeOK
<1>13. CASE UNCHANGED vars
  BY <1>13 DEF vars, control, memory, writer, disk, history, TypeOK
<1> QED
  BY <1>1, <1>2, <1>3, <1>4, <1>5, <1>6, <1>7, <1>8, <1>9, <1>10, <1>11, <1>12, <1>13 DEF Next

\* The journal's variables keep their types, whatever is appended, evicted, written,
\* lost in a crash and recovered.
THEOREM TypeCorrect == Spec => []TypeOK
BY InitTypeOK, NextTypeOK, PTL DEF Spec

-----------------------------------------------------------------------------
(* One history.                                                            *)

\* One history: what memory, the log and the index each know of it.
HistoryInv ==
    /\ \A e, f \in timeline : e.seq = f.seq => e = f
    /\ file \subseteq timeline
    /\ Running =>
          /\ entries \subseteq timeline /\ buffer \subseteq timeline
          /\ \A e \in entries : lowWater < e.seq
          /\ \A e \in timeline : e.seq <= lastSeq
          /\ lowWater <= lastSeq /\ idx.lastSeq <= lastSeq
    /\ pc = "down" =>
          \A e \in timeline : e.seq <= idx.lastSeq \/ \E f \in file : e.seq <= f.seq
    /\ pc = "flush" /\ resume = "down" => sync = TRUE


\* A write that throws, and the steps that only move on, keep it.
LEMMA HistoryUntouched ==
    ASSUME HistoryInv, UNCHANGED <<entries, lastSeq, lowWater, buffer, disk, timeline>>,
           Running, Running', ~(pc' = "flush" /\ resume' = "down") \/ sync' = TRUE
    PROVE  HistoryInv'
BY DEF HistoryInv, Running, disk

\* Events are numbered past everything the history holds, and eviction only removes.
LEMMA HistoryAppend ==
    ASSUME TypeOK, HistoryInv, NEW ev \in Events, AppendEvent(ev)
    PROVE  HistoryInv'
<1> DEFINE e == Stamp(lastSeq + 1, ev, epoch)
<1>1. e \in Entry /\ e.seq = lastSeq + 1
  BY StampType, DiskJournalAssumption DEF TypeOK
<1> HIDE DEF e
<1>2. /\ lastSeq' = lastSeq + 1 /\ Running /\ Running'
      /\ timeline' = timeline \cup {e} /\ buffer' = buffer \cup {e}
      /\ UNCHANGED <<file, idx>>
  BY <1>1 DEF AppendEvent, Running, Flush, disk, e
<1>3. lastSeq \in Nat /\ lowWater \in Nat /\ idx.lastSeq \in Nat
  BY DEF TypeOK, Index
<1>4. /\ entries' \subseteq entries \cup {e}
      /\ \A f \in entries' : lowWater' < f.seq
      /\ lowWater' <= lastSeq'
  <2>1. CASE entries' = entries \cup {e} /\ UNCHANGED lowWater
    BY <1>1, <1>2, <1>3, <2>1 DEF HistoryInv
  <2>2. CASE \E w \in {0} \cup Seqs(DropFinishedAckedTokens(entries \cup {e}, ackedSeq)) :
                /\ entries' = After(DropFinishedAckedTokens(entries \cup {e}, ackedSeq), w)
                /\ lowWater' = MaxOf(lowWater, w)
    <3> DEFINE kept == DropFinishedAckedTokens(entries \cup {e}, ackedSeq)
    <3>1. PICK w \in {0} \cup Seqs(kept) :
                entries' = After(kept, w) /\ lowWater' = MaxOf(lowWater, w)
      BY <2>2
    <3>2. kept \subseteq entries \cup {e}
      BY Subsets
    <3> HIDE DEF kept
    <3>3. \A f \in kept : f.seq \in Nat /\ lowWater < f.seq /\ f.seq <= lastSeq'
      BY <1>1, <1>2, <1>3, <3>2 DEF HistoryInv, TypeOK, Entry
    <3>4. w \in Nat /\ w <= lastSeq'
      BY <1>2, <1>3, <3>3 DEF Seqs
    <3>5. lowWater' <= lastSeq'
      <4>1. lowWater <= lastSeq
        BY <1>2 DEF HistoryInv
      <4> QED BY <1>2, <1>3, <3>1, <3>4, <4>1 DEF MaxOf
    <3>6. \A f \in entries' : lowWater' < f.seq
      BY <1>3, <3>1, <3>3, <3>4 DEF After, MaxOf
    <3> QED BY <3>1, <3>2, <3>5, <3>6, Subsets
  <2> QED BY <2>1, <2>2 DEF AppendEvent, EnforceBounds, e
<1>5. \A f \in timeline' : f.seq <= lastSeq'
  BY <1>1, <1>2, <1>3 DEF HistoryInv, TypeOK, Entry
<1>6. \A f, g \in timeline' : f.seq = g.seq => f = g
  BY <1>1, <1>2, <1>3 DEF HistoryInv, TypeOK, Entry
<1>7. pc' = "flush" => resume' # "down"
  BY DEF AppendEvent, Flush
<1> QED
  BY <1>1, <1>2, <1>3, <1>4, <1>5, <1>6, <1>7 DEF HistoryInv, Running

LEMMA HistoryCompact ==
    ASSUME TypeOK, HistoryInv, NEW w \in 0 .. MaxSeq, Compact(w)
    PROVE  HistoryInv'
<1>1. /\ Running /\ Running' /\ resume' = "run"
      /\ UNCHANGED <<lastSeq, buffer, file, idx, timeline>>
  BY DEF Compact, Flush, Running, disk, history
<1>2. lowWater \in Nat /\ w \in Nat /\ lastSeq \in Nat /\ lowWater' = MaxOf(lowWater, w)
  BY DiskJournalAssumption DEF Compact, TypeOK
<1>3. entries' \subseteq After(entries, w)
  BY Subsets DEF Compact
<1>4. w <= lastSeq
  BY <1>1, <1>2 DEF Compact, HistoryInv, Seqs
<1>5. lowWater' <= lastSeq
  BY <1>1, <1>2, <1>4, MaxOfMinOf DEF HistoryInv
<1>6. \A e \in entries' : e \in entries /\ lowWater' < e.seq
  BY <1>1, <1>2, <1>3 DEF After, MaxOf, HistoryInv
<1> QED
  BY <1>1, <1>5, <1>6 DEF HistoryInv, Running

LEMMA HistoryWriteFile ==
    ASSUME TypeOK, HistoryInv, WriteFile
    PROVE  HistoryInv'
<1>1. Running /\ buffer' = {} /\ UNCHANGED <<entries, lastSeq, lowWater, idx, timeline>>
  BY DEF WriteFile, Running, memory
<1>2. file' \subseteq timeline
  BY <1>1, Subsets DEF WriteFile, Rewrite, AppendBuffer, HistoryInv
<1>3. pc' \in {"index", "run", "notify"}
  BY DEF WriteFile, Return, HistoryInv, TypeOK
<1> QED
  BY <1>1, <1>2, <1>3 DEF HistoryInv, Running

LEMMA HistoryWriteIdx ==
    ASSUME TypeOK, HistoryInv, WriteIdx
    PROVE  HistoryInv'
<1>1. Running /\ idx'.lastSeq = lastSeq /\ UNCHANGED <<file, timeline>>
  BY DEF WriteIdx, Running, history
<1>2. CASE resume = "down"
  <2>1. pc' = "down"
    BY <1>2, ForgetType DEF WriteIdx
  <2> QED BY <1>1, <2>1 DEF HistoryInv, Running
<1>3. CASE resume # "down"
  <2>1. pc' \in {"run", "notify"} /\ UNCHANGED <<entries, lastSeq, lowWater, buffer>>
    BY <1>3 DEF WriteIdx, Return, memory, TypeOK
  <2>2. lastSeq \in Nat
    BY DEF TypeOK
  <2> QED BY <1>1, <2>1, <2>2 DEF HistoryInv, Running
<1> QED BY <1>2, <1>3

\* A crash keeps of the history what the log or the index's numbering still reaches.
LEMMA HistoryCrash ==
    ASSUME TypeOK, HistoryInv, pc' = "down", UNCHANGED idx,
           file' \subseteq file \cup buffer, Running, timeline' = Surviving(file')
    PROVE  HistoryInv'
<1>1. file' \subseteq timeline /\ timeline' \subseteq timeline
  BY DEF HistoryInv, Surviving
<1>2. file' \subseteq timeline'
  BY <1>1 DEF Surviving
<1>3. \A e \in timeline' : e.seq <= idx.lastSeq \/ \E f \in file' : e.seq <= f.seq
  BY <1>1 DEF Surviving, TypeOK, Entry
<1> QED
  BY <1>1, <1>2, <1>3 DEF HistoryInv, Running

\* Numbering resumes at or after everything the index and the log's tail know of.
LEMMA HistoryOpenSeq ==
    ASSUME TypeOK, Open
    PROVE  /\ lastSeq' \in Nat /\ lastSeq' >= idx.lastSeq /\ lastSeq' >= idx.lowWater
           /\ \A e \in file : e.seq <= lastSeq'
<1>1. PICK tail \in {0} \cup Seqs(file) :
         (\A e \in file : e.seq <= tail) /\ lastSeq' = RecoveredSeq(tail)
  BY DEF Open
<1>2. /\ tail \in Nat /\ idx.lastSeq \in Nat /\ idx.lowWater \in Nat
      /\ \A e \in file : e.seq \in Nat
  BY DEF TypeOK, Seqs, Entry, Index
<1>3. /\ lastSeq' \in Nat /\ lastSeq' >= tail
      /\ lastSeq' >= idx.lastSeq /\ lastSeq' >= idx.lowWater
  BY <1>1, <1>2 DEF RecoveredSeq, MaxOf
<1> QED BY <1>1, <1>2, <1>3

\* A new process numbers on after everything that survived.
LEMMA HistoryOpen ==
    ASSUME TypeOK, HistoryInv, Open
    PROVE  HistoryInv'
<1>1. pc = "down" /\ pc' = "index" /\ UNCHANGED <<file, idx, timeline>> /\ buffer' = {}
  BY DEF Open, PersistChain, disk, history
<1>2. /\ lastSeq' \in Nat /\ lastSeq' >= idx.lastSeq /\ lastSeq' >= idx.lowWater
      /\ \A e \in file : e.seq <= lastSeq'
  BY HistoryOpenSeq
<1>3. idx.lastSeq \in Nat
  BY DEF TypeOK, Index
<1>4. \A e \in timeline : e.seq <= lastSeq'
  <2> SUFFICES ASSUME NEW e \in timeline PROVE e.seq <= lastSeq'
    OBVIOUS
  <2>1. e.seq \in Nat
    BY DEF TypeOK, Entry
  <2>2. CASE e.seq <= idx.lastSeq
    BY <1>3, <1>2, <2>1, <2>2
  <2>3. CASE \E f \in file : e.seq <= f.seq
    <3>1. PICK f \in file : e.seq <= f.seq
      BY <2>3
    <3>2. f.seq \in Nat /\ f.seq <= lastSeq'
      BY <1>2 DEF TypeOK, Entry
    <3> QED BY <1>3, <1>2, <2>1, <3>1, <3>2
  <2> QED BY <1>1, <2>2, <2>3 DEF HistoryInv
<1>5. entries' \subseteq file /\ (\A e \in entries' : lowWater' < e.seq) /\ lowWater' = idx.lowWater
  BY DEF Open, After
<1> QED
  BY <1>1, <1>2, <1>4, <1>5 DEF HistoryInv, Running

LEMMA InitHistory == Init => HistoryInv
BY DEF Init, HistoryInv, Running

LEMMA NextHistory == TypeOK /\ HistoryInv /\ [Next]_vars => HistoryInv'
<1> SUFFICES ASSUME TypeOK, HistoryInv, [Next]_vars PROVE HistoryInv'
  OBVIOUS
<1>1. ASSUME NEW ev \in Events, AppendEvent(ev) PROVE HistoryInv'
  BY <1>1, HistoryAppend
<1>2. CASE Notify
  BY <1>2, HistoryUntouched DEF Notify, memory, writer, Running
<1>3. CASE FlushTimer
  BY <1>3, HistoryUntouched DEF FlushTimer, Flush, memory, history, Running
<1>4. CASE Close
  BY <1>4, HistoryUntouched DEF Close, Flush, memory, history, Running
<1>5. ASSUME NEW s \in 1 .. MaxSeq, Ack(s) PROVE HistoryInv'
  BY <1>5, HistoryUntouched DEF Ack, writer, history, Running
<1>6. ASSUME NEW w \in 0 .. MaxSeq, Compact(w) PROVE HistoryInv'
  BY <1>6, HistoryCompact
<1>7. CASE WriteFile
  BY <1>7, HistoryWriteFile
<1>8. CASE WriteIdx
  BY <1>8, HistoryWriteIdx
<1>9. CASE WriteFails
  BY <1>9, HistoryUntouched DEF WriteFails, memory, writer, history, Running
<1>10. ASSUME NEW k \in 0 .. MaxSeq, Crash(k) PROVE HistoryInv'
  <2>1. file' \subseteq file \cup buffer
    BY <1>10 DEF Crash
  <2> QED BY <1>10, <2>1, HistoryCrash, ForgetType DEF Crash
<1>11. ASSUME NEW k \in 0 .. MaxSeq, PowerLoss(k) PROVE HistoryInv'
  <2>1. file' \subseteq file \cup buffer
    BY <1>11 DEF PowerLoss, TypeOK
  <2> QED BY <1>11, <2>1, HistoryCrash, ForgetType DEF PowerLoss
<1>12. CASE Open
  BY <1>12, HistoryOpen
<1>13. CASE UNCHANGED vars
  BY <1>13 DEF vars, control, memory, writer, disk, history, HistoryInv, Running
<1> QED
  BY <1>1, <1>2, <1>3, <1>4, <1>5, <1>6, <1>7, <1>8, <1>9, <1>10, <1>11, <1>12, <1>13 DEF Next

LEMMA HistoryInvariant == Spec => []HistoryInv
BY InitTypeOK, NextTypeOK, InitHistory, NextHistory, PTL DEF Spec

\* No seq is ever given to two events of the surviving history, and a journal that
\* runs serves only events of that history, numbered between its bounds.
THEOREM HistoryIsOne == Spec => []OneHistory
<1>1. HistoryInv => OneHistory
  BY DEF HistoryInv, OneHistory
<1> QED BY <1>1, HistoryInvariant, PTL

-----------------------------------------------------------------------------
(* Acknowledged seqs.                                                      *)

\* The recorded ack lies within the recorded numbering, and memory is never behind it.
AckInv ==
    /\ idx.ackedSeq <= idx.lastSeq
    /\ Running => idx.ackedSeq <= ackedSeq /\ ackedSeq <= lastSeq


LEMMA InitAck == Init => AckInv
BY DEF Init, AckInv, Running

LEMMA NextAck == TypeOK /\ TypeOK' /\ HistoryInv /\ AckInv /\ [Next]_vars => AckInv'
<1> SUFFICES ASSUME TypeOK, TypeOK', HistoryInv, AckInv, [Next]_vars PROVE AckInv'
  OBVIOUS
<1> USE DEF Running
<1>0. /\ idx.ackedSeq \in Nat /\ idx.lastSeq \in Nat /\ ackedSeq \in Nat /\ lastSeq \in Nat
      /\ lastSeq' \in Nat
  BY DEF TypeOK, Index
<1>1. ASSUME NEW ev \in Events, AppendEvent(ev) PROVE AckInv'
  <2>1. lastSeq' = lastSeq + 1 /\ UNCHANGED <<idx, ackedSeq>> /\ pc = "run"
    BY <1>1 DEF AppendEvent, Stamp, disk
  <2> QED BY <1>0, <2>1 DEF AckInv
<1>2. CASE Notify
  BY <1>2 DEF Notify, memory, disk, AckInv
<1>3. CASE FlushTimer
  BY <1>3 DEF FlushTimer, memory, disk, AckInv
<1>4. CASE Close
  BY <1>4 DEF Close, memory, disk, AckInv
<1>5. ASSUME NEW s \in 1 .. MaxSeq, Ack(s) PROVE AckInv'
  <2>1. ackedSeq' = s /\ s > ackedSeq /\ s <= lastSeq /\ UNCHANGED <<idx, lastSeq>> /\ pc = "run"
    BY <1>5 DEF Ack, disk
  <2> QED BY <1>0, <2>1, DiskJournalAssumption DEF AckInv
<1>6. ASSUME NEW w \in 0 .. MaxSeq, Compact(w) PROVE AckInv'
  BY <1>6 DEF Compact, disk, AckInv
<1>7. CASE WriteFile
  BY <1>7 DEF WriteFile, memory, AckInv
<1>8. CASE WriteIdx
  <2>1. idx'.ackedSeq = ackedSeq /\ idx'.lastSeq = lastSeq /\ ackedSeq <= lastSeq
    BY <1>8 DEF WriteIdx, AckInv
  <2>2. CASE resume = "down"
    BY <1>8, <2>1, <2>2, ForgetType DEF WriteIdx, AckInv
  <2>3. CASE resume # "down"
    BY <1>0, <1>8, <2>1, <2>3 DEF WriteIdx, memory, AckInv
  <2> QED BY <2>2, <2>3
<1>9. CASE WriteFails
  BY <1>9 DEF WriteFails, memory, disk, AckInv
<1>10. ASSUME NEW k \in 0 .. MaxSeq, Crash(k) PROVE AckInv'
  BY <1>10, ForgetType DEF Crash, AckInv
<1>11. ASSUME NEW k \in 0 .. MaxSeq, PowerLoss(k) PROVE AckInv'
  BY <1>11, ForgetType DEF PowerLoss, AckInv
<1>12. CASE Open
  <2>1. lastSeq' >= idx.lastSeq
    BY <1>12, HistoryOpenSeq
  <2>2. ackedSeq' = idx.ackedSeq /\ UNCHANGED idx
    BY <1>0, <1>12, <2>1 DEF Open, MinOf, AckInv, disk
  <2> QED BY <1>0, <2>1, <2>2 DEF AckInv
<1>13. CASE UNCHANGED vars
  BY <1>13 DEF vars, control, memory, disk, AckInv
<1> QED
  BY <1>1, <1>2, <1>3, <1>4, <1>5, <1>6, <1>7, <1>8, <1>9, <1>10, <1>11, <1>12, <1>13 DEF Next

\* A step that records an ack never lowers it, and one that adds an event numbers it
\* past everything that was recorded as acknowledged.
LEMMA AckStep ==
    ASSUME TypeOK, HistoryInv, AckInv, [Next]_vars
    PROVE  /\ \A e \in timeline' \ timeline : e.seq > idx.ackedSeq
           /\ idx'.ackedSeq >= idx.ackedSeq
<1>1. idx.ackedSeq \in Nat /\ idx.lastSeq \in Nat /\ ackedSeq \in Nat /\ lastSeq \in Nat
  BY DEF TypeOK, Index
<1>2. CASE WriteIdx
  BY <1>1, <1>2 DEF WriteIdx, history, AckInv, Running
<1>3. ASSUME NEW ev \in Events, AppendEvent(ev)
      PROVE  /\ \A e \in timeline' \ timeline : e.seq > idx.ackedSeq
             /\ idx'.ackedSeq >= idx.ackedSeq
  <2>1. /\ \A e \in timeline' \ timeline : e.seq = lastSeq + 1
        /\ UNCHANGED idx /\ Running
    BY <1>3 DEF AppendEvent, Stamp, disk, Running
  <2> QED BY <1>1, <2>1 DEF AckInv
<1>4. CASE UNCHANGED idx /\ timeline' \subseteq timeline
  BY <1>1, <1>4
<1>5. CASE Notify \/ FlushTimer \/ Close \/ WriteFile \/ WriteFails \/ Open
  BY <1>4, <1>5 DEF Notify, FlushTimer, Close, WriteFile, WriteFails, Open, disk, history
<1>6. ASSUME NEW s, Ack(s) \/ Compact(s)
      PROVE  UNCHANGED idx /\ timeline' \subseteq timeline
  BY <1>6 DEF Ack, Compact, disk, history
<1>7. ASSUME NEW k, Crash(k) \/ PowerLoss(k)
      PROVE  UNCHANGED idx /\ timeline' \subseteq timeline
  BY <1>7 DEF Crash, PowerLoss, Surviving
<1>8. CASE UNCHANGED vars
  BY <1>4, <1>8 DEF vars, disk, history
<1> QED
  BY <1>2, <1>3, <1>4, <1>5, <1>6, <1>7, <1>8 DEF Next

LEMMA AckInvariant == Spec => []AckInv
BY InitTypeOK, NextTypeOK, InitHistory, NextHistory, InitAck, NextAck, PTL DEF Spec

\* A client that was told its ack is recorded never meets that seq again on a new
\* event, and the record never goes back.
THEOREM AckedIsFinal == Spec => AckedSeqIsFinal
<1>1. TypeOK /\ HistoryInv /\ AckInv /\ [Next]_vars
      => [/\ \A e \in timeline' \ timeline : e.seq > idx.ackedSeq
          /\ idx'.ackedSeq >= idx.ackedSeq]_vars
  BY AckStep
<1> QED
  BY <1>1, TypeCorrect, HistoryInvariant, AckInvariant, PTL DEF Spec, AckedSeqIsFinal

-----------------------------------------------------------------------------
(* Boundary events.                                                        *)

\* The newest event, when it is retained and is a boundary.
NewBoundary == {e \in entries : e.seq = lastSeq /\ IsBoundary(e)}

\* A shown boundary event is on stable storage, under a recorded seq; it only leaves
\* the log by eviction.
ShownSafe ==
    \A e \in shown : IsBoundary(e) =>
        /\ e \in timeline /\ e.seq <= idx.lastSeq
        /\ e \in durable \/ e \notin file \cup buffer

\* ... and it got there before it was shown.
BoundaryInv ==
    /\ ShownSafe
    /\ pc \in {"run", "notify", "down"} => resume = "run"
    /\ pc = "flush" /\ resume = "notify" => NewBoundary \subseteq buffer
    /\ pc = "flush" /\ resume = "notify" /\ NewBoundary # {} => sync = TRUE
    /\ pc = "index" /\ resume = "notify" => NewBoundary \subseteq durable
    /\ pc = "notify" => NewBoundary \subseteq durable
    /\ pc = "notify" /\ NewBoundary # {} => lastSeq <= idx.lastSeq

LEMMA InitBoundary == Init => BoundaryInv
BY DEF Init, BoundaryInv, ShownSafe, NewBoundary

\* A shown boundary event stays safe while the log, its buffer and the index keep it so.
LEMMA ShownUntouched ==
    ASSUME BoundaryInv, shown' = shown, timeline' = timeline, idx' = idx,
           file' = file, durable' = durable, buffer' \subseteq buffer
    PROVE  ShownSafe'
BY DEF BoundaryInv, ShownSafe

\* append: the new event is not one that was shown, and it is flushed if a boundary.
LEMMA BoundaryAppend ==
    ASSUME TypeOK, HistoryInv, BoundaryInv, NEW ev \in Events, AppendEvent(ev)
    PROVE  BoundaryInv'
<1> DEFINE e == Stamp(lastSeq + 1, ev, epoch)
<1>1. e \in Entry /\ e.seq = lastSeq + 1
  BY StampType, DiskJournalAssumption DEF TypeOK
<1>2. /\ pc = "run" /\ lastSeq' = lastSeq + 1
      /\ timeline' = timeline \cup {e} /\ buffer' = buffer \cup {e}
      /\ UNCHANGED <<file, durable, idx, shown>>
      /\ EnforceBounds(entries \cup {e})
  BY <1>1 DEF AppendEvent, disk
<1>3. IF IsBoundary(e) \/ needsRewrite'
      THEN pc' = "flush" /\ sync' = TRUE /\ resume' = "notify"
      ELSE pc' = "notify" /\ UNCHANGED <<sync, resume>>
  BY DEF AppendEvent, Flush
<1>4. entries' \subseteq entries \cup {e}
  BY <1>2, Subsets DEF EnforceBounds
<1> HIDE DEF e
<1>5. Running /\ lastSeq \in Nat
  BY <1>2 DEF Running, TypeOK
<1>6. \A f \in timeline : f.seq <= lastSeq
  BY <1>5 DEF HistoryInv
<1>7. e \notin timeline
  BY <1>1, <1>5, <1>6
<1>8. NewBoundary' \subseteq {e}
  BY <1>1, <1>2, <1>4, <1>5, <1>6 DEF NewBoundary, HistoryInv
<1>9. NewBoundary' # {} => IsBoundary(e)
  BY <1>8 DEF NewBoundary
<1>10. ShownSafe'
  BY <1>2, <1>7 DEF BoundaryInv, ShownSafe
<1>11. resume = "run"
  BY <1>2 DEF BoundaryInv, ShownSafe
<1>12. CASE IsBoundary(e) \/ needsRewrite'
  <2>1. pc' = "flush" /\ sync' = TRUE /\ resume' = "notify"
    BY <1>3, <1>12
  <2>2. NewBoundary' \subseteq buffer'
    BY <1>2, <1>8
  <2> QED BY <1>10, <2>1, <2>2 DEF BoundaryInv, ShownSafe
<1>13. CASE ~(IsBoundary(e) \/ needsRewrite')
  <2>1. pc' = "notify" /\ resume' = "run" /\ NewBoundary' = {}
    BY <1>3, <1>9, <1>11, <1>13
  <2> QED BY <1>10, <2>1 DEF BoundaryInv, ShownSafe
<1> QED BY <1>12, <1>13

LEMMA BoundaryNotify ==
    ASSUME TypeOK, HistoryInv, BoundaryInv, Notify
    PROVE  BoundaryInv'
<1>1. /\ pc = "notify" /\ pc' = "run" /\ resume' = resume
      /\ shown' = shown \cup {e \in entries : e.seq = lastSeq}
      /\ UNCHANGED <<timeline, idx, file, durable, buffer>>
  BY DEF Notify, writer, disk
<1>2. Running
  BY <1>1 DEF Running
<1>3. \A e \in NewBoundary : e \in timeline /\ e \in durable /\ e.seq <= idx.lastSeq
  BY <1>1, <1>2 DEF BoundaryInv, ShownSafe, HistoryInv, NewBoundary
<1>4. \A e \in shown' : IsBoundary(e) => e \in NewBoundary \/ e \in shown
  BY <1>1 DEF NewBoundary
<1>5. resume' = "run"
  BY <1>1 DEF BoundaryInv, ShownSafe
<1> QED BY <1>1, <1>3, <1>4, <1>5 DEF BoundaryInv, ShownSafe

\* A synced append or a rewrite puts the newest boundary event on stable storage.
LEMMA BoundaryWriteFile ==
    ASSUME TypeOK, HistoryInv, BoundaryInv, WriteFile
    PROVE  BoundaryInv'
<1>1. /\ pc = "flush" /\ buffer' = {}
      /\ UNCHANGED <<shown, timeline, idx, entries, lastSeq>>
  BY DEF WriteFile, memory
<1>2. \/ pc' = "index" /\ resume' = resume
      \/ pc' = resume /\ resume' = "run" /\ sync # TRUE
  BY DEF WriteFile, Return
<1>3. NewBoundary' = NewBoundary
  BY <1>1 DEF NewBoundary
<1>4. /\ \/ durable' = file'
         \/ durable' = durable /\ file' = file \cup buffer
      /\ resume = "notify" => NewBoundary \subseteq durable'
  <2>1. CASE needsRewrite
    <3>1. Running /\ file' = After(entries, lowWater) /\ durable' = file'
      BY <1>1, <2>1 DEF WriteFile, Rewrite, Running
    <3>2. entries \subseteq file'
      BY <3>1 DEF HistoryInv, After
    <3> QED BY <3>1, <3>2 DEF NewBoundary
  <2>2. CASE ~needsRewrite
    <3>1. /\ file' = file \cup buffer
          /\ durable' = IF sync /\ buffer # {} THEN file' ELSE durable
      BY <2>2 DEF WriteFile, AppendBuffer
    <3>2. resume = "notify" /\ NewBoundary # {} => sync /\ buffer # {} /\ NewBoundary \subseteq buffer
      BY <1>1 DEF BoundaryInv, ShownSafe
    <3> QED BY <3>1, <3>2
  <2> QED BY <2>1, <2>2
<1>5. ShownSafe'
  BY <1>1, <1>4 DEF BoundaryInv, ShownSafe
<1>6. CASE pc' = "index" /\ resume' = resume
  BY <1>3, <1>4, <1>5, <1>6 DEF BoundaryInv, ShownSafe
<1>7. CASE pc' = resume /\ resume' = "run" /\ sync # TRUE
  <2>1. resume = "notify" => NewBoundary' = {}
    BY <1>1, <1>3, <1>7 DEF BoundaryInv, ShownSafe
  <2>2. resume \in {"run", "notify", "down"}
    BY DEF TypeOK
  <2> QED BY <1>5, <1>7, <2>1, <2>2 DEF BoundaryInv, ShownSafe
<1> QED BY <1>2, <1>6, <1>7

LEMMA BoundaryWriteIdx ==
    ASSUME TypeOK, HistoryInv, BoundaryInv, WriteIdx
    PROVE  BoundaryInv'
<1>1. /\ pc = "index" /\ idx'.lastSeq = lastSeq
      /\ UNCHANGED <<shown, timeline, file, durable>>
  BY DEF WriteIdx, history
<1>2. idx.lastSeq <= lastSeq /\ lastSeq \in Nat /\ idx.lastSeq \in Nat
  BY <1>1 DEF HistoryInv, Running, TypeOK, Index
<1>3. buffer' \subseteq buffer
  BY ForgetType DEF WriteIdx
<1>4. ShownSafe'
  BY <1>1, <1>2, <1>3 DEF BoundaryInv, ShownSafe, TypeOK, Entry
<1>5. CASE resume = "down"
  BY <1>4, <1>5, ForgetType DEF WriteIdx, BoundaryInv, ShownSafe
<1>6. CASE resume # "down"
  <2>1. pc' = resume /\ resume' = "run" /\ UNCHANGED <<entries, lastSeq>>
    BY <1>6 DEF WriteIdx, Return, memory
  <2>2. NewBoundary' = NewBoundary
    BY <2>1 DEF NewBoundary
  <2>3. resume = "notify" => NewBoundary' \subseteq durable' /\ lastSeq' <= idx'.lastSeq
    BY <1>1, <1>2, <2>1, <2>2 DEF BoundaryInv, ShownSafe
  <2>4. resume \in {"run", "notify"}
    BY <1>6 DEF TypeOK
  <2> QED BY <1>4, <2>1, <2>3, <2>4 DEF BoundaryInv, ShownSafe
<1> QED BY <1>5, <1>6

\* A crash cannot reach what is durable, nor what the log no longer holds.
LEMMA BoundaryCrash ==
    ASSUME TypeOK, HistoryInv, BoundaryInv, pc' = "down", resume' = "run", buffer' = {},
           UNCHANGED <<shown, idx>>, file' \subseteq file \cup buffer,
           durable \subseteq durable', durable' \subseteq file',
           timeline' = Surviving(file')
    PROVE  BoundaryInv'
<1>1. \A e \in shown : IsBoundary(e) /\ e \in durable => e \in durable' /\ e \in timeline'
  BY DEF BoundaryInv, ShownSafe, Surviving
<1>2. \A e \in shown : IsBoundary(e) /\ e \notin file \cup buffer
                       => e \notin file' /\ e \in timeline'
  BY DEF BoundaryInv, ShownSafe, Surviving
<1> QED BY <1>1, <1>2 DEF BoundaryInv, ShownSafe

LEMMA NextBoundary == TypeOK /\ HistoryInv /\ BoundaryInv /\ [Next]_vars => BoundaryInv'
<1> SUFFICES ASSUME TypeOK, HistoryInv, BoundaryInv, [Next]_vars PROVE BoundaryInv'
  OBVIOUS
<1>1. ASSUME NEW ev \in Events, AppendEvent(ev) PROVE BoundaryInv'
  BY <1>1, BoundaryAppend
<1>2. CASE Notify
  BY <1>2, BoundaryNotify
<1>3. CASE FlushTimer
  BY <1>3, ShownUntouched DEF FlushTimer, Flush, disk, history, BoundaryInv, ShownSafe
<1>4. CASE Close
  BY <1>4, ShownUntouched DEF Close, Flush, disk, history, BoundaryInv, ShownSafe
<1>5. ASSUME NEW s \in 1 .. MaxSeq, Ack(s) PROVE BoundaryInv'
  BY <1>5, ShownUntouched DEF Ack, writer, disk, history, BoundaryInv, ShownSafe
<1>6. ASSUME NEW w \in 0 .. MaxSeq, Compact(w) PROVE BoundaryInv'
  BY <1>6, ShownUntouched DEF Compact, Flush, disk, history, BoundaryInv, ShownSafe
<1>7. CASE WriteFile
  BY <1>7, BoundaryWriteFile
<1>8. CASE WriteIdx
  BY <1>8, BoundaryWriteIdx
<1>9. CASE WriteFails
  BY <1>9, ShownUntouched DEF WriteFails, writer, disk, history, BoundaryInv, ShownSafe
<1>10. ASSUME NEW k \in 0 .. MaxSeq, Crash(k) PROVE BoundaryInv'
  <2>1. file' \subseteq file \cup buffer /\ durable' = durable /\ durable \subseteq file'
    BY <1>10 DEF Crash, TypeOK
  <2> QED BY <1>10, <2>1, BoundaryCrash, ForgetType DEF Crash
<1>11. ASSUME NEW k \in 0 .. MaxSeq, PowerLoss(k) PROVE BoundaryInv'
  <2>1. file' \subseteq file \cup buffer /\ durable' = file' /\ durable \subseteq file'
    BY <1>11 DEF PowerLoss, TypeOK
  <2> QED BY <1>11, <2>1, BoundaryCrash, ForgetType DEF PowerLoss
<1>12. CASE Open
  <2>1. /\ pc' = "index" /\ resume' = "run" /\ buffer' = {}
        /\ UNCHANGED <<shown, timeline, idx, file, durable>>
    BY <1>12 DEF Open, PersistChain, disk, history
  <2> QED BY <2>1, ShownUntouched DEF BoundaryInv, ShownSafe
<1>13. CASE UNCHANGED vars
  BY <1>13 DEF vars, control, memory, writer, disk, history, BoundaryInv, ShownSafe, NewBoundary
<1> QED
  BY <1>1, <1>2, <1>3, <1>4, <1>5, <1>6, <1>7, <1>8, <1>9, <1>10, <1>11, <1>12, <1>13 DEF Next

\* The end of a turn, an opened or closed request and a changed session state that
\* a client was shown survive every crash and power loss that follows.
THEOREM BoundarySurvives == Spec => []ShownBoundarySurvives
<1>1. BoundaryInv => ShownBoundarySurvives
  BY DEF BoundaryInv, ShownSafe, ShownBoundarySurvives
<1>2. Spec => []BoundaryInv
  BY InitTypeOK, NextTypeOK, InitHistory, NextHistory, InitBoundary, NextBoundary, PTL DEF Spec
<1> QED BY <1>1, <1>2, PTL
-----------------------------------------------------------------------------
(* Rewinding.                                                              *)

\* Another event has been given this one's seq.
Reused(e) == \E f \in timeline : f.seq = e.seq

\* A chain of processes that sends a client of the event's process back behind it,
\* as long as it remembers that process.
Covers(chain, e) ==
    \A i \in 1 .. Len(chain) :
        chain[i].epoch = e.by => i < Len(chain) /\ e.seq > chain[i + 1].startSeq

\* No event comes from a process that has not started, and a running one has lost nothing.
ProducersInv ==
    /\ \A e \in timeline \cup shown : e.by <= epoch
    /\ Running => \A e \in shown : e.by = epoch => e \in timeline

\* A chain's links are of processes up to now, and start within the numbering so far.
LinksWithin(chain, s) ==
    \A i \in 1 .. Len(chain) : chain[i].epoch <= epoch /\ chain[i].startSeq <= s

\* Both chains, the recorded and the running process's own, cover what was reused.
RewindInv ==
    /\ ProducersInv
    /\ LinksWithin(idx.epochs, idx.lastSeq)
    /\ \A e \in shown \ timeline : Reused(e) => Covers(idx.epochs, e)
    /\ Running =>
          /\ LinksWithin(epochChain, lastSeq)
          /\ Len(epochChain) >= 1
          /\ \A i \in 1 .. Len(epochChain) : epochChain[i].epoch = epoch <=> i = Len(epochChain)
          /\ \A e \in shown \ timeline : Reused(e) => Covers(epochChain, e)
          /\ IF lastIdxLowWater = -1
             THEN pc = "index" /\ resume = "run"
             ELSE idx.epochs = epochChain

\* recordEpoch puts the new link last and moves the links it keeps to the front.
LEMMA Recorded ==
    ASSUME NEW c \in Seq(Epoch), NEW p \in Nat, NEW s \in Nat
    PROVE  LET d == RecordEpoch(c, p, s, MaxChain)
               gone == Len(c) + 1 - Len(d) IN
           /\ Len(d) \in Nat /\ Len(d) >= 1 /\ gone \in Nat
           /\ d[Len(d)] = [epoch |-> p, startSeq |-> s]
           /\ \A i \in 1 .. Len(d) : i < Len(d) => i + gone \in 1 .. Len(c) /\ d[i] = c[i + gone]
<1> DEFINE l == [epoch |-> p, startSeq |-> s]
           longer == c \o <<l>>
           excess == MaxOf(0, Len(longer) - MaxChain)
           d == RecordEpoch(c, p, s, MaxChain)
<1>1. MaxChain \in Nat /\ MaxChain >= 2 /\ Len(c) \in Nat /\ l \in Epoch
  BY DiskJournalAssumption DEF Epoch
<1>2. /\ longer \in Seq(Epoch) /\ Len(longer) = Len(c) + 1 /\ longer[Len(c) + 1] = l
      /\ \A i \in 1 .. Len(c) : longer[i] = c[i]
  <2> HIDE DEF l
  <2>1. <<l>> \in Seq(Epoch) /\ Len(<<l>>) = 1 /\ <<l>>[1] = l
    BY <1>1
  <2> QED BY <1>1, <2>1
<1>3. excess \in 0 .. Len(c)
  BY <1>1, <1>2 DEF MaxOf
<1>4. d = SubSeq(longer, excess + 1, Len(longer))
  BY DEF RecordEpoch
<1> HIDE DEF longer, excess, d, l
<1>5. /\ d \in Seq(Epoch) /\ Len(d) = Len(c) + 1 - excess
      /\ \A i \in 1 .. Len(d) : d[i] = longer[excess + i]
  BY <1>1, <1>2, <1>3, <1>4
<1>6. Len(c) + 1 - Len(d) = excess /\ Len(d) >= 1
  BY <1>1, <1>3, <1>5
<1>7. d[Len(d)] = l
  BY <1>1, <1>2, <1>3, <1>5
<1>8. ASSUME NEW i \in 1 .. Len(d), i < Len(d)
      PROVE  i + excess \in 1 .. Len(c) /\ d[i] = c[i + excess]
  <2>1. i + excess \in 1 .. Len(c) /\ excess + i = i + excess
    BY <1>1, <1>3, <1>5, <1>8
  <2> QED BY <1>2, <1>5, <2>1
<1> QED BY <1>1, <1>3, <1>5, <1>6, <1>7, <1>8 DEF d, l

\* The links of a chain are numbers.
LEMMA LinksOf ==
    ASSUME NEW c \in Seq(Epoch)
    PROVE  /\ Len(c) \in Nat
           /\ \A i \in 1 .. Len(c) : c[i].epoch \in Nat /\ c[i].startSeq \in Nat
<1>1. \A i \in 1 .. Len(c) : c[i] \in Epoch
  OBVIOUS
<1> QED BY <1>1 DEF Epoch

LEMMA InitRewind == Init => RewindInv
<1> SUFFICES ASSUME Init PROVE RewindInv
  OBVIOUS
<1>1. idx.epochs = <<>> /\ shown = {} /\ timeline = {} /\ ~Running
  BY DEF Init, Running
<1> QED BY <1>1 DEF RewindInv, ProducersInv, LinksWithin

\* Steps that leave the history, the chains and the numbering alone.
LEMMA RewindUntouched ==
    ASSUME RewindInv, Running,
           UNCHANGED <<epoch, lastSeq, lastIdxLowWater, epochChain, idx, timeline, shown>>,
           pc # "index" \/ lastIdxLowWater # -1
    PROVE  RewindInv'
BY DEF RewindInv, ProducersInv, LinksWithin, Covers, Reused, Running

\* append: an event that was lost has its seq given away only past every link's start.
LEMMA RewindAppend ==
    ASSUME TypeOK, HistoryInv, RewindInv, NEW ev \in Events, AppendEvent(ev)
    PROVE  RewindInv'
<1> DEFINE n == Stamp(lastSeq + 1, ev, epoch)
<1>1. n.seq = lastSeq + 1 /\ n.by = epoch /\ lastSeq \in Nat /\ epoch \in Nat
  BY DEF Stamp, TypeOK
<1>2. /\ pc = "run" /\ Running /\ lastSeq' = lastSeq + 1 /\ timeline' = timeline \cup {n}
      /\ UNCHANGED <<epoch, epochChain, lastIdxLowWater, idx, shown>>
  BY <1>1 DEF AppendEvent, disk, Running
<1> HIDE DEF n
<1>3. ProducersInv'
  BY <1>1, <1>2 DEF RewindInv, ProducersInv
<1>4. /\ epochChain \in Seq(Epoch) /\ idx.epochs = epochChain /\ lastIdxLowWater # -1
      /\ idx.lastSeq \in Nat
  BY <1>2 DEF RewindInv, TypeOK, Index
<1>5. LinksWithin(epochChain, lastSeq)' /\ LinksWithin(idx.epochs, idx.lastSeq)'
  <2>1. \A i \in 1 .. Len(epochChain) :
           epochChain[i].epoch <= epoch /\ epochChain[i].startSeq <= lastSeq + 1
    BY <1>1, <1>2, <1>4, LinksOf DEF RewindInv, LinksWithin
  <2> QED BY <1>2, <2>1 DEF RewindInv, LinksWithin
<1>6. ASSUME NEW e \in shown' \ timeline', Reused(e)' PROVE Covers(epochChain, e)
  <2>1. e \in shown \ timeline
    BY <1>2, <1>6
  <2>2. CASE Reused(e)
    BY <1>2, <2>1, <2>2 DEF RewindInv
  <2>3. CASE ~Reused(e)
    <3>1. e.seq = lastSeq + 1
      BY <1>1, <1>2, <1>6, <2>3 DEF Reused
    <3>2. e.by # epoch
      BY <1>2, <2>1 DEF RewindInv, ProducersInv
    <3> SUFFICES ASSUME NEW i \in 1 .. Len(epochChain), epochChain[i].epoch = e.by
                 PROVE  i < Len(epochChain) /\ e.seq > epochChain[i + 1].startSeq
      BY DEF Covers
    <3>3. Len(epochChain) \in Nat
      BY <1>4, LinksOf
    <3>4. i < Len(epochChain)
      BY <1>2, <3>2, <3>3 DEF RewindInv
    <3>5. i + 1 \in 1 .. Len(epochChain)
      BY <3>3, <3>4
    <3>6. epochChain[i + 1].startSeq \in Nat /\ epochChain[i + 1].startSeq <= lastSeq
      BY <1>2, <1>4, <3>5, LinksOf DEF RewindInv, LinksWithin
    <3> QED BY <1>1, <3>1, <3>4, <3>6
  <2> QED BY <2>2, <2>3
<1>7. \A e : Covers(epochChain, e)' <=> Covers(epochChain, e)
  BY <1>2 DEF Covers
<1>8. \A e : Covers(idx.epochs, e)' <=> Covers(epochChain, e)
  BY <1>2, <1>4 DEF Covers
<1> QED BY <1>2, <1>3, <1>4, <1>5, <1>6, <1>7, <1>8 DEF RewindInv

\* A listener is given an event of the history, of the process that runs or an earlier one.
LEMMA RewindNotify ==
    ASSUME HistoryInv, RewindInv, Notify
    PROVE  RewindInv'
<1>1. /\ Running /\ lastIdxLowWater # -1
      /\ UNCHANGED <<epoch, lastSeq, lastIdxLowWater, epochChain, idx, timeline>>
      /\ shown' \subseteq shown \cup timeline /\ shown' \ timeline' \subseteq shown \ timeline
  BY DEF Notify, RewindInv, HistoryInv, Running, memory, writer, disk
<1>2. ProducersInv'
  BY <1>1 DEF RewindInv, ProducersInv
<1> QED BY <1>1, <1>2 DEF RewindInv, LinksWithin, Covers, Reused

\* A process ends: what the end takes from the history has its seq to itself.
LEMMA RewindEnds ==
    ASSUME TypeOK, HistoryInv, RewindInv, pc' = "down", timeline' \subseteq timeline,
           UNCHANGED <<epoch, shown, idx>>
    PROVE  RewindInv'
<1>1. ASSUME NEW e \in shown' \ timeline', Reused(e)' PROVE Covers(idx.epochs, e)
  <2>1. Reused(e)
    BY <1>1 DEF Reused
  <2>2. e \notin timeline
    BY <1>1 DEF Reused, HistoryInv
  <2> QED BY <1>1, <2>1, <2>2 DEF RewindInv
<1>2. ProducersInv'
  BY DEF RewindInv, ProducersInv, Running
<1> QED BY <1>1, <1>2 DEF RewindInv, LinksWithin, Covers, Running

\* The index records the chain with the numbering its links lie within.
LEMMA RewindWriteIdx ==
    ASSUME TypeOK, HistoryInv, RewindInv, WriteIdx
    PROVE  RewindInv'
<1>1. /\ Running /\ idx'.epochs = epochChain /\ idx'.lastSeq = lastSeq
      /\ UNCHANGED <<epoch, timeline, shown>>
  BY DEF WriteIdx, Running, history
<1>2. /\ LinksWithin(idx.epochs, idx.lastSeq)'
      /\ \A e \in shown' \ timeline' : Reused(e)' => Covers(idx.epochs, e)'
  BY <1>1 DEF RewindInv, LinksWithin, Covers, Reused
<1>3. CASE resume = "down"
  <2>1. pc' = "down"
    BY <1>3, ForgetType DEF WriteIdx
  <2> QED BY <1>1, <1>2, <2>1 DEF RewindInv, ProducersInv, Running
<1>4. CASE resume # "down"
  <2>1. /\ lastIdxLowWater' = lowWater /\ lowWater \in Nat
        /\ UNCHANGED <<lastSeq, epochChain>>
    BY <1>4 DEF WriteIdx, memory, TypeOK
  <2>2. lastIdxLowWater' # -1
    BY <2>1
  <2>3. ProducersInv'
    BY <1>1 DEF RewindInv, ProducersInv
  <2> QED BY <1>1, <1>2, <2>1, <2>2, <2>3 DEF RewindInv, LinksWithin, Covers, Reused
<1> QED BY <1>3, <1>4

\* A new process adds its link after all others; the links that stay cover what they did.
LEMMA RewindOpen ==
    ASSUME TypeOK, HistoryInv, RewindInv, Open
    PROVE  RewindInv'
<1> DEFINE c == idx.epochs
           d == RecordEpoch(c, epoch', lastSeq', MaxChain)
           gone == Len(c) + 1 - Len(d)
<1>1. /\ pc = "down" /\ pc' = "index" /\ resume' = "run" /\ lastIdxLowWater' = -1
      /\ epoch' = epoch + 1 /\ epochChain' = d /\ UNCHANGED <<idx, timeline, shown>>
  BY DEF Open, PersistChain, disk, history
<1>2. /\ epoch \in Nat /\ epoch' \in Nat /\ lastSeq' \in Nat /\ lastSeq' >= idx.lastSeq
      /\ idx.lastSeq \in Nat /\ c \in Seq(Epoch)
  BY <1>1, HistoryOpenSeq DEF TypeOK, Index
<1>3. /\ Len(d) \in Nat /\ Len(d) >= 1 /\ gone \in Nat
      /\ d[Len(d)] = [epoch |-> epoch', startSeq |-> lastSeq']
      /\ \A i \in 1 .. Len(d) : i < Len(d) => i + gone \in 1 .. Len(c) /\ d[i] = c[i + gone]
  BY <1>2, Recorded, ZenonT(60)
<1>4. /\ Len(c) \in Nat
      /\ \A i \in 1 .. Len(c) : c[i].epoch \in Nat /\ c[i].startSeq \in Nat
  BY <1>2, LinksOf
<1>5. \A i \in 1 .. Len(c) : c[i].epoch <= epoch /\ c[i].startSeq <= idx.lastSeq
  BY DEF RewindInv, LinksWithin
<1>6. \A e \in timeline \cup shown : e.by \in Nat /\ e.by <= epoch
  BY DEF RewindInv, ProducersInv, TypeOK, Entry
<1>7. Len(c) = Len(d) + gone - 1
  BY <1>3, <1>4
<1> HIDE DEF c, d, gone
<1>8. ASSUME NEW i \in 1 .. Len(d)
      PROVE  /\ d[i].epoch = epoch' <=> i = Len(d)
             /\ d[i].epoch <= epoch' /\ d[i].startSeq <= lastSeq'
  <2>1. CASE i = Len(d)
    BY <1>2, <1>3, <2>1
  <2>2. CASE i # Len(d)
    <3>1. i + gone \in 1 .. Len(c) /\ d[i] = c[i + gone]
      BY <1>3, <2>2
    <3>2. /\ d[i].epoch \in Nat /\ d[i].startSeq \in Nat
          /\ d[i].epoch <= epoch /\ d[i].startSeq <= idx.lastSeq
      BY <1>4, <1>5, <3>1
    <3> QED BY <1>1, <1>2, <2>2, <3>2
  <2> QED BY <2>1, <2>2
<1>9. ASSUME NEW e \in shown \ timeline, Covers(c, e) PROVE Covers(d, e)
  <2> SUFFICES ASSUME NEW i \in 1 .. Len(d), d[i].epoch = e.by
               PROVE  i < Len(d) /\ e.seq > d[i + 1].startSeq
    BY DEF Covers
  <2>1. e.by # epoch'
    BY <1>1, <1>2, <1>6
  <2>2. i < Len(d)
    BY <1>3, <1>8, <2>1
  <2>3. i + gone \in 1 .. Len(c) /\ d[i] = c[i + gone]
    BY <1>3, <2>2
  <2>4. i + gone < Len(c) /\ e.seq > c[i + gone + 1].startSeq
    BY <1>9, <2>3 DEF Covers
  <2>5. i + 1 \in 1 .. Len(d) /\ i + 1 < Len(d) /\ (i + 1) + gone = i + gone + 1
    BY <1>3, <1>7, <2>2, <2>4
  <2>6. d[i + 1] = c[i + gone + 1]
    BY <1>3, <2>5
  <2> QED BY <2>2, <2>4, <2>6
<1>10. \A e \in shown \ timeline : Reused(e) => Covers(c, e) /\ Covers(d, e)
  BY <1>9 DEF RewindInv, c
<1>11. LinksWithin(idx.epochs, idx.lastSeq)' /\ LinksWithin(epochChain, lastSeq)'
  <2>1. \A i \in 1 .. Len(c) : c[i].epoch <= epoch'
    BY <1>1, <1>2, <1>4, <1>5
  <2> QED BY <1>1, <1>5, <1>8, <2>1 DEF LinksWithin, c
<1>12. ProducersInv'
  BY <1>1, <1>2, <1>6 DEF ProducersInv
<1>13. \A e \in shown' \ timeline' :
          Reused(e)' => Covers(idx.epochs, e)' /\ Covers(epochChain, e)'
  BY <1>1, <1>10 DEF Reused, Covers, c
<1> QED BY <1>1, <1>3, <1>8, <1>11, <1>12, <1>13 DEF RewindInv

LEMMA NextRewind == TypeOK /\ HistoryInv /\ RewindInv /\ [Next]_vars => RewindInv'
<1> SUFFICES ASSUME TypeOK, HistoryInv, RewindInv, [Next]_vars PROVE RewindInv'
  OBVIOUS
<1>1. ASSUME NEW ev \in Events, AppendEvent(ev) PROVE RewindInv'
  BY <1>1, RewindAppend
<1>2. CASE Notify
  BY <1>2, RewindNotify
<1>3. CASE FlushTimer
  BY <1>3, RewindUntouched DEF FlushTimer, Running, memory, disk, history
<1>4. CASE Close
  BY <1>4, RewindUntouched DEF Close, Running, memory, disk, history
<1>5. ASSUME NEW s \in 1 .. MaxSeq, Ack(s) PROVE RewindInv'
  BY <1>5, RewindUntouched DEF Ack, Running, writer, disk, history
<1>6. ASSUME NEW w \in 0 .. MaxSeq, Compact(w) PROVE RewindInv'
  BY <1>6, RewindUntouched DEF Compact, Running, disk, history
<1>7. CASE WriteFile
  BY <1>7, RewindUntouched DEF WriteFile, Running, memory
<1>8. CASE WriteIdx
  BY <1>8, RewindWriteIdx
<1>9. CASE WriteFails
  BY <1>9, RewindUntouched DEF WriteFails, Running, memory, writer, disk, history
<1>10. ASSUME NEW k \in 0 .. MaxSeq, Crash(k) \/ PowerLoss(k) PROVE RewindInv'
  BY <1>10, RewindEnds, ForgetType DEF Crash, PowerLoss, Surviving
<1>11. CASE Open
  BY <1>11, RewindOpen
<1>12. CASE UNCHANGED vars
  BY <1>12 DEF vars, control, memory, writer, disk, history,
               RewindInv, ProducersInv, LinksWithin, Covers, Reused, Running
<1> QED
  BY <1>1, <1>2, <1>3, <1>4, <1>5, <1>6, <1>7, <1>8, <1>9, <1>10, <1>11, <1>12 DEF Next

\* An event that a client was shown, that a crash took and whose seq another event was
\* given, is one rewindFor sends that client back behind, through every chain of
\* crashes and restarts that the chain of processes still remembers.
THEOREM RewindReaches == Spec => []RewindReachesReuse
<1>1. ASSUME TypeOK, RewindInv PROVE RewindReachesReuse
  <2> SUFFICES ASSUME pc = "run", NEW e \in shown, e \notin timeline, Reused(e),
                      NEW i \in 1 .. Len(epochChain), epochChain[i].epoch = e.by
               PROVE  RewindFor(e.by, e.seq) # {}
    BY DEF RewindReachesReuse, Reused
  <2>1. Running /\ Len(epochChain) \in Nat
    BY LinksOf DEF Running, TypeOK
  <2>2. i < Len(epochChain) /\ e.seq > epochChain[i + 1].startSeq
    BY <1>1, <2>1 DEF RewindInv, Covers
  <2>3. e.by # epoch
    BY <1>1, <2>1, <2>2 DEF RewindInv
  <2>4. i \in 1 .. Len(epochChain) - 1
    BY <2>1, <2>2
  <2> QED BY <2>2, <2>3, <2>4 DEF RewindFor, RewindPoints
<1>2. Spec => []RewindInv
  BY InitTypeOK, NextTypeOK, InitHistory, NextHistory, InitRewind, NextRewind, PTL DEF Spec
<1> QED BY <1>1, <1>2, TypeCorrect, PTL

-----------------------------------------------------------------------------
(***************************************************************************)
(* The journal on disk implements EventHistory: its initial states are     *)
(* initial states of the history, and each of its steps is a step of the   *)
(* history or none.                                                        *)
(***************************************************************************)

\* What a power loss may take: lines without fsync, and what is not written at all.
Unsynced == (file \ durable) \cup buffer

\* What may be lost is the end of the history, and so is what is not written yet.
SuffixInv ==
    /\ file \cap buffer = {}
    /\ pc = "down" => buffer = {}
    /\ pc = "index" /\ resume = "down" => buffer = {}
    /\ \A e \in buffer, f \in timeline \ buffer : f.seq < e.seq
    /\ \A e \in Unsynced, f \in timeline \ Unsynced : f.seq < e.seq

LEMMA InitSuffix == Init => SuffixInv
BY DEF Init, SuffixInv, Unsynced

\* Steps that leave log, buffer and history alone.
LEMMA SuffixUntouched ==
    ASSUME SuffixInv, UNCHANGED <<file, durable, buffer, timeline>>, pc' # "down",
           ~(pc' = "index" /\ resume' = "down")
    PROVE  SuffixInv'
BY DEF SuffixInv, Unsynced

\* What a process that ends leaves on disk keeps the order of what it had.
LEMMA SuffixEnds ==
    ASSUME TypeOK, HistoryInv, SuffixInv, buffer' = {},
           file' \ durable' \subseteq Unsynced, timeline' \subseteq timeline,
           timeline' \cap Unsynced \subseteq file' \ durable'
    PROVE  SuffixInv'
BY DEF SuffixInv, Unsynced

LEMMA SuffixAppend ==
    ASSUME TypeOK, HistoryInv, SuffixInv, NEW ev \in Events, AppendEvent(ev)
    PROVE  SuffixInv'
<1> DEFINE e == Stamp(lastSeq + 1, ev, epoch)
<1>1. e \in Entry /\ e.seq = lastSeq + 1 /\ lastSeq \in Nat
  BY StampType, DiskJournalAssumption DEF TypeOK
<1>2. /\ Running /\ pc' \in {"flush", "notify"}
      /\ timeline' = timeline \cup {e} /\ buffer' = buffer \cup {e}
      /\ UNCHANGED <<file, durable>>
  BY DEF AppendEvent, Running, Flush, disk
<1> HIDE DEF e
<1>3. \A f \in timeline : f.seq \in Nat /\ f.seq < e.seq
  BY <1>1, <1>2 DEF HistoryInv, TypeOK, Entry
<1>4. e \notin file
  BY <1>1, <1>3 DEF HistoryInv
<1>5. Unsynced' = Unsynced \cup {e}
  BY <1>2 DEF Unsynced
<1> QED BY <1>2, <1>3, <1>4, <1>5 DEF SuffixInv

LEMMA SuffixWriteFile ==
    ASSUME TypeOK, HistoryInv, SuffixInv, WriteFile
    PROVE  SuffixInv'
<1>1. /\ Running /\ pc = "flush" /\ buffer' = {} /\ timeline' = timeline
  BY DEF WriteFile, Running
<1>2. durable \subseteq file
  BY DEF TypeOK
<1>3. Unsynced' = {} \/ Unsynced' = Unsynced
  <2>1. CASE needsRewrite
    BY <1>1, <2>1 DEF WriteFile, Rewrite, Unsynced
  <2>2. CASE ~needsRewrite
    <3>1. /\ file' = file \cup buffer
          /\ durable' = IF sync /\ buffer # {} THEN file' ELSE durable
      BY <2>2 DEF WriteFile, AppendBuffer
    <3> QED BY <1>1, <1>2, <3>1 DEF Unsynced, SuffixInv
  <2> QED BY <2>1, <2>2
<1> QED BY <1>1, <1>3 DEF SuffixInv

LEMMA SuffixCrash ==
    ASSUME TypeOK, HistoryInv, SuffixInv, NEW k, Crash(k)
    PROVE  SuffixInv'
<1>1. /\ buffer' = {} /\ durable' = durable
      /\ timeline' = Surviving(file')
      /\ file \subseteq file' /\ file' \subseteq file \cup buffer
  BY ForgetType DEF Crash
<1>2. file' \ durable' \subseteq Unsynced
  BY <1>1 DEF Unsynced
<1>3. timeline' \cap Unsynced \subseteq file' \ durable'
  BY <1>1 DEF Unsynced, Surviving, SuffixInv, TypeOK
<1> QED BY <1>1, <1>2, <1>3, SuffixEnds DEF Surviving

LEMMA SuffixPowerLoss ==
    ASSUME TypeOK, HistoryInv, SuffixInv, NEW k, PowerLoss(k)
    PROVE  SuffixInv'
<1>1. /\ buffer' = {} /\ durable' = file'
      /\ timeline' \subseteq timeline
  BY ForgetType DEF PowerLoss, Surviving
<1> QED BY <1>1 DEF SuffixInv, Unsynced

LEMMA NextSuffix == TypeOK /\ HistoryInv /\ BoundaryInv /\ SuffixInv /\ [Next]_vars => SuffixInv'
<1> SUFFICES ASSUME TypeOK, HistoryInv, BoundaryInv, SuffixInv, [Next]_vars
                PROVE  SuffixInv'
  OBVIOUS
<1>1. ASSUME NEW ev \in Events, AppendEvent(ev) PROVE SuffixInv'
  BY <1>1, SuffixAppend
<1>2. CASE Notify \/ FlushTimer \/ Close \/ WriteFails
  BY <1>2, SuffixUntouched DEF Notify, FlushTimer, Close, WriteFails, Flush, writer, disk, history
<1>3. ASSUME NEW s, Ack(s) \/ Compact(s) PROVE SuffixInv'
  <2>1. Ack(s) => resume' = "run"
    BY DEF Ack, BoundaryInv
  <2> QED BY <1>3, <2>1, SuffixUntouched DEF Ack, Compact, Flush, writer, disk, history
<1>4. CASE WriteFile
  BY <1>4, SuffixWriteFile
<1>5. CASE WriteIdx
  <2>1. UNCHANGED <<file, durable, timeline>>
    BY <1>5 DEF WriteIdx, history
  <2>2. CASE resume = "down"
    <3>1. buffer' = {} /\ buffer \subseteq timeline
      BY <1>5, <2>2, ForgetType DEF WriteIdx, HistoryInv, Running
    <3>2. buffer = {}
      BY <1>5, <2>2 DEF WriteIdx, SuffixInv
    <3> QED BY <2>1, <3>1, <3>2 DEF SuffixInv, Unsynced
  <2>3. CASE resume # "down"
    <3>1. pc' \in {"run", "notify"} /\ buffer' = buffer
      BY <1>5, <2>3 DEF WriteIdx, Return, TypeOK
    <3> QED BY <2>1, <3>1, SuffixUntouched
  <2> QED BY <2>2, <2>3
<1>6. ASSUME NEW k, Crash(k) PROVE SuffixInv'
  BY <1>6, SuffixCrash
<1>7. ASSUME NEW k, PowerLoss(k) PROVE SuffixInv'
  BY <1>7, SuffixPowerLoss
<1>8. CASE Open
  <2>1. /\ pc' = "index" /\ resume' = "run" /\ buffer' = buffer
        /\ UNCHANGED <<file, durable, timeline>>
    BY <1>8 DEF Open, PersistChain, SuffixInv, disk, history
  <2> QED BY <2>1, SuffixUntouched
<1>9. CASE UNCHANGED vars
  BY <1>9 DEF vars, control, writer, disk, history, SuffixInv, Unsynced
<1> QED
  BY <1>1, <1>2, <1>3, <1>4, <1>5, <1>6, <1>7, <1>8, <1>9 DEF Next

LEMMA SuffixInvariant == Spec => [](TypeOK /\ HistoryInv /\ AckInv /\ BoundaryInv /\ SuffixInv)
BY InitTypeOK, NextTypeOK, InitHistory, NextHistory, InitAck, NextAck, InitBoundary, NextBoundary,
   InitSuffix, NextSuffix, PTL DEF Spec

-----------------------------------------------------------------------------
(* Each step of the journal as a step of the history.                      *)

LEMMA AppendHappens ==
    ASSUME TypeOK, HistoryInv, AckInv, NEW ev \in Events, AppendEvent(ev)
    PROVE  History!Happens
<1> DEFINE e == Stamp(lastSeq + 1, ev, epoch)
<1>1. e \in Entry /\ e.seq = lastSeq + 1 /\ lastSeq \in Nat
  BY StampType, DiskJournalAssumption DEF TypeOK
<1>2. Running /\ timeline' = timeline \cup {e} /\ UNCHANGED <<shown, idx>>
  BY DEF AppendEvent, Running, disk
<1> HIDE DEF e
<1>3. \A f \in timeline : f.seq \in Nat /\ f.seq < e.seq
  BY <1>1, <1>2 DEF HistoryInv, TypeOK, Entry
<1>4. idx.ackedSeq < e.seq
  BY <1>1, <1>2 DEF AckInv, TypeOK, Index
<1>5. e \in timeline' \ timeline
  BY <1>1, <1>2, <1>3
<1> QED BY <1>2, <1>3, <1>4, <1>5 DEF History!Happens

LEMMA NotifyShows ==
    ASSUME TypeOK, HistoryInv, Notify
    PROVE  History!Shows \/ UNCHANGED <<timeline, shown, idx>>
<1>1. /\ Running /\ UNCHANGED <<timeline, idx>>
      /\ shown' = shown \cup {e \in entries : e.seq = lastSeq}
  BY DEF Notify, Running, disk
<1>2. CASE {e \in entries : e.seq = lastSeq} = {}
  BY <1>1, <1>2
<1>3. ASSUME NEW e \in entries, e.seq = lastSeq PROVE History!Shows
  <2>1. e \in timeline /\ \A f \in timeline : f.seq <= e.seq
    BY <1>1, <1>3 DEF HistoryInv
  <2>2. {f \in entries : f.seq = lastSeq} = {e}
    BY <1>1, <1>3 DEF HistoryInv
  <2> QED BY <1>1, <2>1, <2>2 DEF History!Shows
<1> QED BY <1>2, <1>3

LEMMA IndexAcknowledges ==
    ASSUME TypeOK, AckInv, WriteIdx
    PROVE  History!Acknowledges \/ UNCHANGED <<timeline, shown, idx.ackedSeq>>
<1>1. Running /\ idx'.ackedSeq = ackedSeq /\ UNCHANGED <<timeline, shown>>
  BY DEF WriteIdx, Running, history
<1>2. idx.ackedSeq \in Nat /\ ackedSeq \in Nat /\ idx.ackedSeq <= ackedSeq
  BY <1>1 DEF AckInv, TypeOK, Index
<1> QED BY <1>1, <1>2 DEF History!Acknowledges

\* Whatever a crash takes is newer than what it leaves, and no boundary a client saw.
LEMMA CrashLoses ==
    ASSUME TypeOK, HistoryInv, SuffixInv, BoundaryInv', UNCHANGED <<shown, idx>>,
           file' \subseteq file \cup buffer, timeline' = Surviving(file'),
           \A e \in (file \cup buffer) \ file' : \A f \in file' : f.seq < e.seq,
           (file \cup buffer) \ file' \subseteq Unsynced
    PROVE  History!Loses
<1>1. timeline' \subseteq timeline
  BY DEF Surviving
<1>2. ASSUME NEW e \in timeline \ timeline', NEW f \in timeline'
      PROVE  f.seq < e.seq
  <2>1. e.seq \in Nat /\ f.seq \in Nat /\ idx.lastSeq \in Nat
    BY <1>1 DEF TypeOK, Entry, Index
  <2>2. \A g \in file' : g.seq \in Nat
    BY DEF TypeOK, Entry
  <2>3. e \notin file'
    BY DEF Surviving
  <2>4. CASE e \in file \cup buffer
    <3>1. CASE f \in file'
      BY <2>3, <2>4, <3>1
    <3>2. CASE f \notin file \cup buffer
      <4>1. e \in Unsynced /\ f \in timeline \ Unsynced
        BY <1>1, <2>3, <2>4, <3>2 DEF Unsynced
      <4> QED BY <4>1 DEF SuffixInv
    <3> QED BY <3>1, <3>2 DEF Surviving
  <2>5. CASE e \notin file \cup buffer
    <3>1. e.seq > idx.lastSeq /\ \A g \in file' : e.seq > g.seq
      BY <2>1, <2>2, <2>5 DEF Surviving
    <3>2. f \in file' \/ f.seq <= idx.lastSeq \/ \E g \in file' : f.seq <= g.seq
      BY DEF Surviving
    <3> QED BY <2>1, <2>2, <3>1, <3>2
  <2> QED BY <2>4, <2>5
<1>3. ASSUME NEW e \in timeline \ timeline', e \in shown
      PROVE  ~History!IsBoundary(e)
  <2>1. ~IsBoundary(e)
    BY <1>3 DEF BoundaryInv, ShownSafe
  <2> QED BY <2>1 DEF IsBoundary, History!IsBoundary
<1> QED BY <1>1, <1>2, <1>3 DEF History!Loses

LEMMA StepRefines ==
    ASSUME TypeOK, HistoryInv, AckInv, BoundaryInv, SuffixInv, BoundaryInv', [Next]_vars
    PROVE  [History!Next]_<<timeline, shown, idx.ackedSeq>>
<1>1. ASSUME NEW ev \in Events, AppendEvent(ev) PROVE History!Next
  BY <1>1, AppendHappens DEF History!Next
<1>2. CASE Notify
  BY <1>2, NotifyShows DEF History!Next
<1>3. CASE WriteIdx
  BY <1>3, IndexAcknowledges DEF History!Next
<1>4. ASSUME NEW k \in 0 .. MaxSeq, Crash(k) PROVE History!Next
  <2>1. /\ UNCHANGED <<shown, idx>> /\ timeline' = Surviving(file')
        /\ file' \subseteq file \cup buffer /\ file \subseteq file'
        /\ Running
    BY <1>4 DEF Crash
  <2>2. \A e \in (file \cup buffer) \ file' : \A f \in file' : f.seq < e.seq
    <3>1. TAKE e \in (file \cup buffer) \ file'
    <3>2. TAKE f \in file'
    <3>3. e \in buffer /\ f \in timeline /\ buffer \subseteq timeline
      BY <2>1 DEF HistoryInv
    <3>4. CASE f \in buffer
      <4>1. f \notin After(buffer, k) /\ e \in After(buffer, k)
        BY <1>4, <3>3, <3>4 DEF Crash, SuffixInv
      <4>2. e.seq \in Nat /\ f.seq \in Nat /\ k \in Nat
        BY <3>3, DiskJournalAssumption DEF TypeOK, Entry
      <4> QED BY <3>3, <3>4, <4>1, <4>2 DEF After
    <3>5. CASE f \notin buffer
      BY <3>3, <3>5 DEF SuffixInv
    <3> QED BY <3>4, <3>5
  <2>3. (file \cup buffer) \ file' \subseteq Unsynced
    BY <2>1 DEF Unsynced
  <2> QED BY <2>1, <2>2, <2>3, CrashLoses DEF History!Next
<1>5. ASSUME NEW k \in 0 .. MaxSeq, PowerLoss(k) PROVE History!Next
  <2>1. /\ UNCHANGED <<shown, idx>> /\ timeline' = Surviving(file')
        /\ file' = durable \cup (file \ After(file, k)) /\ durable \subseteq file
        /\ Running
    BY <1>5 DEF PowerLoss, TypeOK
  <2>2. (file \cup buffer) \ file' \subseteq Unsynced
    BY <2>1 DEF Unsynced
  <2>3. \A e \in (file \cup buffer) \ file' : \A f \in file' : f.seq < e.seq
    <3>1. TAKE e \in (file \cup buffer) \ file'
    <3>2. TAKE f \in file'
    <3>3. /\ e \in timeline /\ f \in timeline /\ f \in file /\ f \notin buffer
          /\ e.seq \in Nat /\ f.seq \in Nat /\ k \in Nat
      BY <2>1, DiskJournalAssumption DEF HistoryInv, SuffixInv, TypeOK, Entry
    <3>4. CASE e \in buffer
      BY <3>3, <3>4 DEF SuffixInv
    <3>5. CASE e \notin buffer /\ f \in durable
      BY <2>2, <3>3, <3>5 DEF SuffixInv, Unsynced
    <3>6. CASE e \notin buffer /\ f \notin durable
      BY <2>1, <3>3, <3>6 DEF After
    <3> QED BY <3>4, <3>5, <3>6
  <2> QED BY <2>1, <2>2, <2>3, CrashLoses DEF History!Next
<1>6. CASE FlushTimer \/ Close \/ WriteFile \/ WriteFails \/ Open
  BY <1>6 DEF FlushTimer, Close, WriteFile, WriteFails, Open, disk, history
<1>7. ASSUME NEW s, Ack(s) \/ Compact(s) PROVE UNCHANGED <<timeline, shown, idx.ackedSeq>>
  BY <1>7 DEF Ack, Compact, disk, history
<1>8. CASE UNCHANGED vars
  BY <1>8 DEF vars, disk, history
<1> QED
  BY <1>1, <1>2, <1>3, <1>4, <1>5, <1>6, <1>7, <1>8 DEF Next

\* The journal of daemon/diskJournal.ts, through evictions, failed writes, crashes and
\* power losses, is one history that only grows at its end and only loses from its end.
THEOREM Refines == Spec => ImplementsHistory
<1>1. Init => History!Init
  BY DEF Init, History!Init
<1> QED
  BY <1>1, StepRefines, SuffixInvariant, PTL DEF Spec, ImplementsHistory, History!Spec

-----------------------------------------------------------------------------
(***************************************************************************)
(* What the journal on disk retains: above its low-water mark only tokens  *)
(* of finished turns are missing, or what the log itself has let go of; and *)
(* its checkpoint is that of the history, evicted or not.                  *)
(***************************************************************************)

\* A token that one of these entries made redundant.
FinishedBy(e, es) == e.role = "token" /\ \E f \in Finishers(es) : e.seq < f.seq

\* What is missing in memory, and what is missing on disk, is missing for a reason that
\* a crash does not take away: its finisher is retained, and durable once the log lacks
\* the token.  What the log has let go of is a beginning of the history.
RetentionInv ==
    /\ Running => \A e \in timeline :
          e \in entries \/ e.seq <= lowWater \/ e \in shed \/ FinishedBy(e, entries)
    /\ \A e \in timeline : e \in file \cup buffer \/ e \in shed \/ FinishedBy(e, durable)

LEMMA InitRetention == Init => RetentionInv
BY DEF Init, RetentionInv, Running

LEMMA RetentionUntouched ==
    ASSUME RetentionInv, Running, UNCHANGED <<entries, lowWater, file, durable, buffer, timeline, shed>>
    PROVE  RetentionInv'
BY DEF RetentionInv, FinishedBy, Finishers, Running

\* Eviction up to w, after finished acked tokens went, leaves every gap explained.
LEMMA GapsExplained ==
    ASSUME NEW es, es \subseteq Entry, NEW a \in Nat, NEW w \in Nat, NEW old \in Nat, NEW gone,
           NEW e \in Entry,
           e \in es \/ e.seq <= old \/ e \in gone \/ FinishedBy(e, es)
    PROVE  LET kept == After(DropFinishedAckedTokens(es, a), w)
           IN  e \in kept \/ e.seq <= MaxOf(old, w) \/ e \in gone \/ FinishedBy(e, kept)
<1> DEFINE dropped == DropFinishedAckedTokens(es, a)
           kept == After(dropped, w)
<1>1. MaxOf(old, w) \in Nat /\ MaxOf(old, w) >= old /\ MaxOf(old, w) >= w
  BY MaxOfMinOf
<1>2. e.seq \in Nat /\ \A f \in es : f.seq \in Nat
  BY DEF Entry
<1>3. ASSUME FinishedBy(e, es) PROVE e.seq <= MaxOf(old, w) \/ FinishedBy(e, kept)
  <2>1. PICK f \in es : f.role \in {"message", "turn_end"} /\ e.seq < f.seq
    BY <1>3 DEF FinishedBy, Finishers
  <2>2. f \in dropped
    BY <2>1 DEF DropFinishedAckedTokens, FinishedAckedTokens
  <2>3. CASE f.seq > w
    BY <1>3, <2>1, <2>2, <2>3 DEF After, FinishedBy, Finishers
  <2>4. CASE f.seq <= w
    BY <1>1, <1>2, <2>1, <2>4
  <2> QED BY <1>2, <2>1, <2>3, <2>4
<1>4. CASE e \in es /\ e \notin dropped
  <2>1. FinishedBy(e, es)
    BY <1>4 DEF DropFinishedAckedTokens, FinishedAckedTokens, FinishedBy
  <2> QED BY <1>3, <2>1
<1>5. CASE e \in dropped
  BY <1>1, <1>2, <1>5 DEF After
<1>6. CASE e.seq <= old
  BY <1>1, <1>2, <1>6
<1> QED BY <1>3, <1>4, <1>5, <1>6

LEMMA RetentionAppend ==
    ASSUME TypeOK, RetentionInv, NEW ev \in Events, AppendEvent(ev)
    PROVE  RetentionInv'
<1> DEFINE e == Stamp(lastSeq + 1, ev, epoch)
           es == entries \cup {e}
<1>1. e \in Entry /\ es \subseteq Entry
  BY StampType, DiskJournalAssumption DEF TypeOK
<1>2. /\ Running /\ timeline' = timeline \cup {e} /\ buffer' = buffer \cup {e}
      /\ UNCHANGED <<file, durable, shed>> /\ EnforceBounds(es)
  BY DEF AppendEvent, Running, disk
<1> HIDE DEF e
<1>3. \A g \in timeline' :
         g \in es \/ g.seq <= lowWater \/ g \in shed \/ FinishedBy(g, es)
  BY <1>2 DEF RetentionInv, FinishedBy, Finishers
<1> HIDE DEF es
<1>4. timeline' \subseteq Entry /\ lowWater \in Nat /\ ackedSeq \in Nat
  BY <1>1, <1>2 DEF TypeOK
<1>5. \A g \in timeline' :
         g \in entries' \/ g.seq <= lowWater' \/ g \in shed' \/ FinishedBy(g, entries')
  <2>1. CASE entries' = es /\ UNCHANGED lowWater
    BY <1>2, <1>3, <2>1
  <2>2. CASE \E w \in {0} \cup Seqs(DropFinishedAckedTokens(es, ackedSeq)) :
                /\ entries' = After(DropFinishedAckedTokens(es, ackedSeq), w)
                /\ lowWater' = MaxOf(lowWater, w)
    <3>1. PICK w \in {0} \cup Seqs(DropFinishedAckedTokens(es, ackedSeq)) :
                /\ entries' = After(DropFinishedAckedTokens(es, ackedSeq), w)
                /\ lowWater' = MaxOf(lowWater, w)
      BY <2>2
    <3>2. w \in Nat
      BY <1>1, Subsets DEF Seqs, Entry
    <3> QED BY <1>1, <1>2, <1>3, <1>4, <3>1, <3>2, GapsExplained
  <2> QED BY <1>2, <2>1, <2>2 DEF EnforceBounds
<1>6. \A g \in timeline' :
         g \in file' \cup buffer' \/ g \in shed' \/ FinishedBy(g, durable')
  BY <1>2 DEF RetentionInv, FinishedBy
<1> QED BY <1>5, <1>6 DEF RetentionInv

LEMMA RetentionCompact ==
    ASSUME TypeOK, RetentionInv, NEW w \in 0 .. MaxSeq, Compact(w)
    PROVE  RetentionInv'
<1>1. /\ Running /\ UNCHANGED <<timeline, file, durable, buffer, shed>>
      /\ lowWater' = MaxOf(lowWater, w)
      /\ entries' = DropFinishedAckedTokens(After(entries, w), ackedSeq)
  BY DEF Compact, Running, disk, history
<1>2. w \in Nat /\ lowWater \in Nat /\ ackedSeq \in Nat /\ entries \subseteq Entry
      /\ timeline \subseteq Entry
  BY DiskJournalAssumption DEF TypeOK
<1>3. \A g \in timeline :
         \/ g \in After(entries, w) \/ g.seq <= lowWater' \/ g \in shed
         \/ FinishedBy(g, After(entries, w))
  <2>1. TAKE g \in timeline
  <2>2. g \in entries \/ g.seq <= lowWater \/ g \in shed \/ FinishedBy(g, entries)
    BY <1>1 DEF RetentionInv
  <2>3. /\ lowWater' \in Nat /\ lowWater' >= lowWater /\ lowWater' >= w
        /\ g.seq \in Nat /\ \A f \in entries : f.seq \in Nat
    BY <1>1, <1>2, MaxOfMinOf DEF Entry
  <2>4. ASSUME FinishedBy(g, entries)
        PROVE  g.seq <= lowWater' \/ FinishedBy(g, After(entries, w))
    <3>1. PICK f \in entries : f.role \in {"message", "turn_end"} /\ g.seq < f.seq
      BY <2>4 DEF FinishedBy, Finishers
    <3>2. CASE f.seq > w
      BY <2>4, <3>1, <3>2 DEF After, FinishedBy, Finishers
    <3>3. CASE f.seq <= w
      BY <1>2, <2>3, <3>1, <3>3
    <3> QED BY <1>2, <2>3, <3>2, <3>3
  <2> QED BY <1>2, <2>2, <2>3, <2>4 DEF After
<1>4. After(entries, w) \subseteq Entry
  BY <1>2, Subsets
<1>5. \A g \in timeline :
         g \in entries' \/ g.seq <= lowWater' \/ g \in shed \/ FinishedBy(g, entries')
  <2> DEFINE es == After(entries, w)
  <2> HIDE DEF es
  <2>1. TAKE g \in timeline
  <2>2. lowWater' \in Nat /\ g \in Entry
    BY <1>1, <1>2, MaxOfMinOf
  <2>3. After(DropFinishedAckedTokens(es, ackedSeq), 0) = DropFinishedAckedTokens(es, ackedSeq)
    BY <1>4, Subsets DEF After, Entry, es
  <2>4. MaxOf(lowWater', 0) = lowWater'
    BY <2>2 DEF MaxOf
  <2>5. LET kept == After(DropFinishedAckedTokens(es, ackedSeq), 0)
        IN  g \in kept \/ g.seq <= MaxOf(lowWater', 0) \/ g \in shed \/ FinishedBy(g, kept)
    BY <1>2, <1>3, <1>4, <2>2, GapsExplained DEF es
  <2> QED BY <1>1, <2>3, <2>4, <2>5 DEF es
<1> QED BY <1>1, <1>5 DEF RetentionInv, FinishedBy

LEMMA RetentionWriteFile ==
    ASSUME TypeOK, HistoryInv, RetentionInv, WriteFile
    PROVE  RetentionInv'
<1>1. /\ Running /\ buffer' = {} /\ UNCHANGED <<entries, lowWater, timeline>>
  BY DEF WriteFile, Running, memory
<1>2. CASE needsRewrite
  <2>1. /\ file' = entries /\ durable' = entries
        /\ shed' = shed \cup {e \in timeline : e.seq <= lowWater}
    BY <1>1, <1>2 DEF WriteFile, Rewrite, HistoryInv, After
  <2> QED BY <1>1, <2>1 DEF RetentionInv, FinishedBy
<1>3. CASE ~needsRewrite
  <2>1. /\ file' = file \cup buffer /\ shed' = shed
        /\ durable \subseteq durable'
    BY <1>3 DEF WriteFile, AppendBuffer, TypeOK
  <2> QED BY <1>1, <2>1 DEF RetentionInv, FinishedBy, Finishers
<1> QED BY <1>2, <1>3

\* A crash and a recovery: what neither the log nor the buffer held was already explained
\* by what no crash can take.
LEMMA RetentionCrash ==
    ASSUME TypeOK, HistoryInv, RetentionInv, pc' = "down", buffer' = {}, shed' = shed,
           timeline' = Surviving(file'), durable \subseteq durable'
    PROVE  RetentionInv'
BY DEF RetentionInv, Surviving, FinishedBy, Finishers, Running

LEMMA RetentionOpen ==
    ASSUME TypeOK, HistoryInv, SuffixInv, RetentionInv, Open
    PROVE  RetentionInv'
<1>1. /\ pc = "down" /\ entries' = After(file, idx.lowWater) /\ lowWater' = idx.lowWater
      /\ buffer' = {} /\ UNCHANGED <<file, durable, timeline, shed>>
  BY DEF Open, disk, history
<1>2. buffer = {} /\ durable \subseteq file /\ file \subseteq Entry /\ timeline \subseteq Entry
      /\ idx.lowWater \in Nat
  BY <1>1 DEF SuffixInv, TypeOK, Index
<1>3. \A e \in file : e.seq \in Nat
  BY <1>2 DEF Entry
<1>4. ASSUME NEW e \in timeline, FinishedBy(e, durable)
      PROVE  e.seq <= lowWater' \/ FinishedBy(e, entries')
  <2>1. PICK f \in durable : f.role \in {"message", "turn_end"} /\ e.seq < f.seq
    BY <1>4 DEF FinishedBy, Finishers
  <2>2. e.seq \in Nat /\ f.seq \in Nat
    BY <1>2, <1>3 DEF Entry
  <2>3. CASE f.seq > idx.lowWater
    BY <1>1, <1>2, <1>4, <2>1, <2>3 DEF After, FinishedBy, Finishers
  <2>4. CASE f.seq <= idx.lowWater
    BY <1>1, <1>2, <2>1, <2>2, <2>4
  <2> QED BY <1>2, <2>2, <2>3, <2>4
<1>5. \A e \in timeline : e \in file \/ e \in shed \/ FinishedBy(e, durable)
  BY <1>2 DEF RetentionInv
<1>6. \A e \in file : e \in entries' \/ e.seq <= lowWater'
  BY <1>1, <1>2, <1>3 DEF After
<1> QED BY <1>1, <1>2, <1>4, <1>5, <1>6 DEF RetentionInv, FinishedBy

LEMMA NextRetention ==
    TypeOK /\ HistoryInv /\ SuffixInv /\ RetentionInv /\ [Next]_vars => RetentionInv'
<1> SUFFICES ASSUME TypeOK, HistoryInv, SuffixInv, RetentionInv, [Next]_vars
             PROVE  RetentionInv'
  OBVIOUS
<1>1. ASSUME NEW ev \in Events, AppendEvent(ev) PROVE RetentionInv'
  BY <1>1, RetentionAppend
<1>2. CASE Notify \/ FlushTimer \/ Close \/ WriteFails
  BY <1>2, RetentionUntouched
  DEF Notify, FlushTimer, Close, WriteFails, memory, writer, disk, history, Running
<1>3. ASSUME NEW s, Ack(s) PROVE RetentionInv'
  BY <1>3, RetentionUntouched DEF Ack, writer, disk, history, Running
<1>4. ASSUME NEW w \in 0 .. MaxSeq, Compact(w) PROVE RetentionInv'
  BY <1>4, RetentionCompact
<1>5. CASE WriteFile
  BY <1>5, RetentionWriteFile
<1>6. CASE WriteIdx
  <2>1. Running /\ UNCHANGED <<file, durable, timeline, shed>>
    BY <1>6 DEF WriteIdx, history, Running
  <2>2. CASE resume = "down"
    <3>1. pc' = "down" /\ buffer' = buffer
      BY <1>6, <2>2, ForgetType DEF WriteIdx, SuffixInv
    <3> QED BY <2>1, <3>1 DEF RetentionInv, FinishedBy, Running
  <2>3. CASE resume # "down"
    BY <1>6, <2>1, <2>3, RetentionUntouched DEF WriteIdx, memory
  <2> QED BY <2>2, <2>3
<1>7. ASSUME NEW k, Crash(k) \/ PowerLoss(k) PROVE RetentionInv'
  BY <1>7, RetentionCrash, ForgetType DEF Crash, PowerLoss
<1>8. CASE Open
  BY <1>8, RetentionOpen
<1>9. CASE UNCHANGED vars
  BY <1>9 DEF vars, control, memory, writer, disk, history, RetentionInv, FinishedBy, Running
<1> QED
  BY <1>1, <1>2, <1>3, <1>4, <1>5, <1>6, <1>7, <1>8, <1>9 DEF Next

\* Above the low-water mark a replay of the journal (src/protocol/journal.ts) misses only
\* tokens of finished turns and events the log file itself has let go of, through every
\* sequence of evictions, compactions, failed writes, crashes and power losses.
THEOREM NothingElseMissing == Spec => []NoHoleAboveShed
<1>1. HistoryInv /\ RetentionInv => NoHoleAboveShed
  BY DEF HistoryInv, RetentionInv, NoHoleAboveShed, Finished, FinishedBy, Finishers
<1>2. Spec => []RetentionInv
  BY SuffixInvariant, InitRetention, NextRetention, PTL DEF Spec
<1> QED BY <1>1, <1>2, SuffixInvariant, PTL
-----------------------------------------------------------------------------
(* What the log has let go of.                                             *)

\* What the log has let go of was produced by a process that has started, and a running
\* process has lost none of its own.
ShedInv ==
    /\ \A e \in shed : e.by <= epoch
    /\ Running => \A e \in shed : e.by = epoch => e \in timeline
    /\ \A e \in entries \cup file \cup buffer, f \in timeline \cap shed : f.seq < e.seq


LEMMA InitShed == Init => ShedInv
BY DEF Init, ShedInv, Running

\* Steps that retain and let go of no more than before.
LEMMA ShedUntouched ==
    ASSUME ShedInv, Running, UNCHANGED <<epoch, timeline, shed>>,
           entries' \cup file' \cup buffer' \subseteq entries \cup file \cup buffer
    PROVE  ShedInv'
BY DEF ShedInv, Running

LEMMA ShedEnds ==
    ASSUME ShedInv, pc' = "down", UNCHANGED <<epoch, shed>>, timeline' \subseteq timeline,
           entries' \cup file' \cup buffer' \subseteq entries \cup file \cup buffer
    PROVE  ShedInv'
BY DEF ShedInv, Running

LEMMA ShedAppend ==
    ASSUME TypeOK, HistoryInv, ShedInv, NEW ev \in Events, AppendEvent(ev)
    PROVE  ShedInv'
<1> DEFINE n == Stamp(lastSeq + 1, ev, epoch)
<1>1. n.seq = lastSeq + 1 /\ n.by = epoch /\ lastSeq \in Nat
  BY DEF Stamp, TypeOK
<1>2. /\ Running /\ timeline' = timeline \cup {n} /\ buffer' = buffer \cup {n}
      /\ UNCHANGED <<file, shed, epoch>>
  BY DEF AppendEvent, Running, disk
<1>3. entries' \subseteq entries \cup {n}
  BY Subsets DEF AppendEvent, EnforceBounds
<1> HIDE DEF n
<1>4. \A f \in timeline : f.seq \in Nat /\ f.seq < n.seq
  BY <1>1, <1>2 DEF HistoryInv, TypeOK, Entry
<1>5. n \notin shed
  BY <1>1, <1>2, <1>4 DEF ShedInv
<1> QED BY <1>2, <1>3, <1>4, <1>5 DEF ShedInv

\* A rewrite lets go of what lies below everything it keeps.
LEMMA ShedWriteFile ==
    ASSUME TypeOK, HistoryInv, RewindInv, ShedInv, WriteFile
    PROVE  ShedInv'
<1>1. Running /\ buffer' = {} /\ UNCHANGED <<entries, lowWater, timeline, epoch>>
  BY DEF WriteFile, Running, memory
<1>2. CASE needsRewrite
  <2>1. /\ file' \subseteq entries
        /\ shed' = shed \cup {e \in timeline : e.seq <= lowWater}
    BY <1>2, Subsets DEF WriteFile, Rewrite
  <2>2. \A e \in entries, f \in timeline : f.seq <= lowWater => f.seq < e.seq
    <3>1. \A e \in entries : lowWater < e.seq /\ e.seq \in Nat
      BY <1>1 DEF HistoryInv, TypeOK, Entry
    <3>2. lowWater \in Nat /\ \A f \in timeline : f.seq \in Nat
      BY DEF TypeOK, Entry
    <3> QED BY <3>1, <3>2
  <2>3. \A f \in timeline : f.by <= epoch
    BY DEF RewindInv, ProducersInv
  <2> QED BY <1>1, <2>1, <2>2, <2>3 DEF ShedInv
<1>3. CASE ~needsRewrite
  <2>1. file' = file \cup buffer /\ shed' = shed
    BY <1>3 DEF WriteFile, AppendBuffer
  <2> QED BY <1>1, <2>1, ShedUntouched
<1> QED BY <1>2, <1>3

LEMMA ShedOpen ==
    ASSUME TypeOK, ShedInv, Open
    PROVE  ShedInv'
<1>1. /\ entries' \subseteq file /\ buffer' = {} /\ epoch' = epoch + 1
      /\ UNCHANGED <<file, shed, timeline>>
  BY Subsets DEF Open, disk, history
<1>2. epoch \in Nat /\ \A e \in shed : e.by \in Nat
  BY DEF TypeOK, Entry
<1> QED BY <1>1, <1>2 DEF ShedInv

LEMMA NextShed == TypeOK /\ HistoryInv /\ RewindInv /\ ShedInv /\ [Next]_vars => ShedInv'
<1> SUFFICES ASSUME TypeOK, HistoryInv, RewindInv, ShedInv, [Next]_vars PROVE ShedInv'
  OBVIOUS
<1>1. ASSUME NEW ev \in Events, AppendEvent(ev) PROVE ShedInv'
  BY <1>1, ShedAppend
<1>2. CASE Notify \/ FlushTimer \/ Close \/ WriteFails
  BY <1>2, ShedUntouched
  DEF Notify, FlushTimer, Close, WriteFails, memory, writer, disk, history, Running
<1>3. ASSUME NEW s, Ack(s) PROVE ShedInv'
  BY <1>3, ShedUntouched DEF Ack, writer, disk, history, Running
<1>4. ASSUME NEW w, Compact(w) PROVE ShedInv'
  <2>1. entries' \subseteq entries /\ UNCHANGED <<epoch, timeline, shed, file, buffer>> /\ Running
    BY <1>4, Subsets DEF Compact, disk, history, Running
  <2> QED BY <2>1, ShedUntouched
<1>5. CASE WriteFile
  BY <1>5, ShedWriteFile
<1>6. CASE WriteIdx
  <2>1. CASE resume = "down"
    BY <1>6, <2>1, ShedEnds, ForgetType DEF WriteIdx, history
  <2>2. CASE resume # "down"
    BY <1>6, <2>2, ShedUntouched DEF WriteIdx, memory, history, Running
  <2> QED BY <2>1, <2>2
<1>7. ASSUME NEW k, Crash(k) \/ PowerLoss(k) PROVE ShedInv'
  <2>1. /\ pc' = "down" /\ entries' = {} /\ buffer' = {} /\ UNCHANGED <<epoch, shed>>
        /\ file' \subseteq file \cup buffer /\ timeline' \subseteq timeline
    BY <1>7, ForgetType DEF Crash, PowerLoss, Surviving, TypeOK
  <2> QED BY <2>1, ShedEnds
<1>8. CASE Open
  BY <1>8, ShedOpen
<1>9. CASE UNCHANGED vars
  BY <1>9 DEF vars, control, memory, writer, disk, history, ShedInv, Running
<1> QED
  BY <1>1, <1>2, <1>3, <1>4, <1>5, <1>6, <1>7, <1>8, <1>9 DEF Next

-----------------------------------------------------------------------------
(* The checkpoint.                                                         *)

\* The messages of a set of entries after one of them.
Later(e, es) == {f \in es : f.role = "message" /\ f.seq > e.seq}

\* A checkpoint has every message of the history after the first one it has.
MessagesUpward(cp, es) ==
    \A k \in cp, f \in es :
        k.role = "message" /\ f.role = "message" /\ f.seq > k.seq => f \in cp

\* The checkpoint is that of the surviving history as far as it is retained.
CheckpointInv ==
    /\ IsFiniteSet(timeline)
    /\ CheckpointIsLive
    /\ Running => MessagesUpward(checkpoint, timeline)

\* What is live in a history is live in any part of it that holds it.
LEMMA LiveInPart ==
    ASSUME NEW es, IsFiniteSet(es), NEW part, part \subseteq es, NEW e \in part, e \in Live(es)
    PROVE  e \in Live(part)
<1>1. ~Superseded(e, part)
  BY DEF Live, Superseded
<1>2. ASSUME e.role = "message" PROVE Recent(e, part)
  <2>1. Later(e, part) \subseteq Later(e, es) /\ IsFiniteSet(Later(e, es))
    <3>1. Later(e, es) \subseteq es /\ Later(e, part) \subseteq Later(e, es)
      BY DEF Later
    <3> QED BY <3>1, FS_Subset
  <2>2. Cardinality(Later(e, part)) <= Cardinality(Later(e, es))
    BY <2>1, FS_Subset
  <2>3. Cardinality(Later(e, part)) \in Nat /\ Cardinality(Later(e, es)) \in Nat
    BY <2>1, FS_Subset, FS_CardinalityType
  <2>4. Cardinality(Later(e, es)) < CheckpointMessages
    BY <1>2 DEF Live, Recent, Later
  <2>5. Cardinality(Later(e, part)) < CheckpointMessages
    BY <2>2, <2>3, <2>4, JournalAssumption
  <2> QED BY <2>5 DEF Recent, Later
<1> QED BY <1>1, <1>2 DEF Live

\* A part of a history that holds what supersedes its entries, and the messages after
\* them, has the checkpoint of that history as far as it reaches.
LEMMA LiveOfPart ==
    ASSUME NEW es, IsFiniteSet(es), es \subseteq Entry, NEW part, part \subseteq es,
           \A e \in part : Superseded(e, es) => Superseded(e, part),
           MessagesUpward(part, es)
    PROVE  Live(part) \subseteq Live(es) /\ MessagesUpward(Live(part), es)
<1>1. ASSUME NEW k \in part, k.role = "message" PROVE Later(k, es) = Later(k, part)
  BY <1>1 DEF Later, MessagesUpward
<1>2. ASSUME NEW e \in Live(part) PROVE e \in Live(es)
  <2>1. e \in part /\ ~Superseded(e, es)
    BY <1>2 DEF Live
  <2>2. ASSUME e.role = "message" PROVE Recent(e, es)
    <3>1. Cardinality(Later(e, part)) < CheckpointMessages
      BY <1>2, <2>2 DEF Live, Recent, Later
    <3> QED BY <1>1, <2>1, <2>2, <3>1 DEF Recent, Later
  <2> QED BY <1>2, <2>1, <2>2 DEF Live
<1>3. ASSUME NEW k \in Live(part), NEW f \in es,
             k.role = "message", f.role = "message", f.seq > k.seq
      PROVE  f \in Live(part)
  <2>1. k \in part /\ f \in part
    BY <1>3 DEF Live, MessagesUpward
  <2>2. k.seq \in Nat /\ f.seq \in Nat /\ \A g \in es : g.seq \in Nat
    BY <2>1 DEF Entry
  <2>3. Later(f, part) \subseteq Later(k, part)
    BY <1>3, <2>2 DEF Later
  <2>4. IsFiniteSet(Later(k, part))
    <3>1. Later(k, part) \subseteq es
      BY DEF Later
    <3> QED BY <3>1, FS_Subset
  <2>5. /\ Cardinality(Later(f, part)) <= Cardinality(Later(k, part))
        /\ Cardinality(Later(f, part)) \in Nat /\ Cardinality(Later(k, part)) \in Nat
    BY <2>3, <2>4, FS_Subset, FS_CardinalityType
  <2>6. Cardinality(Later(k, part)) < CheckpointMessages
    BY <1>3 DEF Live, Recent, Later
  <2>7. Cardinality(Later(f, part)) < CheckpointMessages
    BY <2>5, <2>6, JournalAssumption
  <2>8. ~Superseded(f, part)
    BY <1>3 DEF Superseded
  <2> QED BY <1>3, <2>1, <2>7, <2>8 DEF Live, Recent, Later
<1> QED BY <1>2, <1>3 DEF MessagesUpward

LEMMA InitCheckpoint == Init => CheckpointInv
<1> SUFFICES ASSUME Init PROVE CheckpointInv
  OBVIOUS
<1>1. IsFiniteSet(timeline)
  BY FS_EmptySet DEF Init
<1> QED BY <1>1 DEF Init, CheckpointInv, CheckpointIsLive, Running

\* Steps that leave history and checkpoint alone, and retain no more than before.
LEMMA CheckpointUntouched ==
    ASSUME CheckpointInv, Running, UNCHANGED <<checkpoint, timeline>>, entries' \subseteq entries
    PROVE  CheckpointInv'
BY DEF CheckpointInv, CheckpointIsLive, MessagesUpward, Live, Superseded, Recent, Running

\* A process that has ended has no checkpoint; what it leaves of the history is finite.
LEMMA CheckpointEnds ==
    ASSUME CheckpointInv, pc' = "down", timeline' \subseteq timeline
    PROVE  CheckpointInv'
<1>1. IsFiniteSet(timeline')
  BY FS_Subset DEF CheckpointInv
<1> QED BY <1>1 DEF CheckpointInv, CheckpointIsLive, Running

\* append: the event folded into the checkpoint is the newest of the history.
LEMMA CheckpointAppend ==
    ASSUME TypeOK, HistoryInv, CheckpointInv, NEW ev \in Events, AppendEvent(ev)
    PROVE  CheckpointInv'
<1> DEFINE n == Stamp(lastSeq + 1, ev, epoch)
           part == checkpoint \cup {n}
<1>1. n \in Entry /\ n.seq = lastSeq + 1 /\ lastSeq \in Nat
  BY StampType, DiskJournalAssumption DEF TypeOK
<1>2. /\ Running /\ timeline' = timeline \cup {n}
      /\ checkpoint' = Live(part)
  BY DEF AppendEvent, Running, disk, CheckpointAfter, Fold
<1>3. entries' \subseteq entries \cup {n}
  BY Subsets DEF AppendEvent, EnforceBounds
<1> HIDE DEF n
<1>4. \A f \in timeline : f.seq \in Nat /\ f.seq < n.seq
  BY <1>1, <1>2 DEF HistoryInv, TypeOK, Entry
<1>5. IsFiniteSet(timeline')
  BY <1>2, FS_AddElement DEF CheckpointInv
<1>7. checkpoint \subseteq timeline /\ checkpoint \subseteq Live(timeline)
  BY <1>2, Subsets DEF CheckpointInv, CheckpointIsLive
<1>8. ASSUME NEW e \in part, Superseded(e, timeline') PROVE Superseded(e, part)
  <2>1. e \in timeline' /\ e.seq <= n.seq
    BY <1>1, <1>2, <1>4, <1>7
  <2>2. e \in checkpoint => ~Superseded(e, timeline)
    BY <1>7 DEF Live
  <2>3. PICK f \in timeline' :
           /\ f.seq > e.seq
           /\ \/ e.role = "token" /\ f.role \in {"message", "turn_end"}
              \/ e.role \in {"busy", "idle"} /\ f.role \in {"busy", "idle"}
              \/ /\ e.role = "request_open"
                 /\ f.role \in {"request_open", "request_close"}
                 /\ f.req = e.req
    BY <1>8 DEF Superseded
  <2>4. e # n
    BY <1>1, <1>2, <1>4, <2>3
  <2>5. f = n
    BY <1>2, <2>2, <2>3, <2>4 DEF Superseded
  <2> QED BY <2>3, <2>5 DEF Superseded
<1>9. MessagesUpward(part, timeline')
  BY <1>1, <1>2, <1>4 DEF CheckpointInv, MessagesUpward
<1>10. part \subseteq timeline' /\ timeline' \subseteq Entry
  BY <1>1, <1>2, <1>7 DEF TypeOK
<1> HIDE DEF part
<1>11. Live(part) \subseteq Live(timeline') /\ MessagesUpward(Live(part), timeline')
  BY <1>5, <1>8, <1>9, <1>10, LiveOfPart
<1>12. ASSUME NEW e \in entries', e \in Live(timeline') PROVE e \in Live(part)
  <2>1. e \in part
    <3>1. CASE e = n
      BY <3>1 DEF part
    <3>2. CASE e # n
      <4>1. e \in entries /\ e \in timeline
        BY <1>2, <1>3, <3>2 DEF HistoryInv
      <4>2. e \in Live(timeline)
        BY <1>2, <1>5, <1>12, <4>1, LiveInPart
      <4> QED BY <1>2, <4>1, <4>2 DEF CheckpointInv, CheckpointIsLive, part
    <3> QED BY <3>1, <3>2
  <2> QED BY <1>5, <1>10, <1>12, <2>1, LiveInPart
<1> QED BY <1>2, <1>5, <1>11, <1>12 DEF CheckpointInv, CheckpointIsLive

\* recover computes the checkpoint from the log: what is missing there above the
\* low-water mark is tokens of finished turns, and a beginning of the history.
LEMMA CheckpointOpen ==
    ASSUME TypeOK, HistoryInv, SuffixInv, RetentionInv, ShedInv, CheckpointInv, Open
    PROVE  CheckpointInv'
<1>1. /\ pc = "down" /\ entries' = After(file, idx.lowWater) /\ checkpoint' = Live(entries')
      /\ timeline' = timeline
  BY DEF Open, history
<1>2. /\ IsFiniteSet(timeline) /\ file \subseteq timeline /\ buffer = {}
      /\ timeline \subseteq Entry /\ idx.lowWater \in Nat /\ durable \subseteq file
      /\ entries' \subseteq timeline
  BY <1>1, Subsets DEF CheckpointInv, HistoryInv, SuffixInv, TypeOK, Index
<1>3. \A e \in timeline : e.seq \in Nat
  BY <1>2 DEF Entry
<1>4. ASSUME NEW e \in entries', NEW f \in timeline, f.seq > e.seq, f.role # "token"
      PROVE  f \in entries'
  <2>1. e \in file /\ e.seq > idx.lowWater
    BY <1>1, <1>4 DEF After
  <2>2. f \notin shed
    BY <1>2, <1>3, <1>4, <2>1 DEF ShedInv
  <2>3. f \in file
    BY <1>2, <1>4, <2>2 DEF RetentionInv, FinishedBy
  <2> QED BY <1>1, <1>2, <1>3, <1>4, <2>1, <2>3 DEF After
<1>5. \A e \in entries' : Superseded(e, timeline) => Superseded(e, entries')
  BY <1>4 DEF Superseded
<1>6. MessagesUpward(entries', timeline)
  BY <1>4 DEF MessagesUpward
<1>7. Live(entries') \subseteq Live(timeline) /\ MessagesUpward(Live(entries'), timeline)
  BY <1>2, <1>5, <1>6, LiveOfPart
<1>8. Live(timeline) \cap entries' \subseteq Live(entries')
  BY <1>2, LiveInPart
<1> QED BY <1>1, <1>2, <1>7, <1>8 DEF CheckpointInv, CheckpointIsLive

LEMMA NextCheckpoint ==
    /\ TypeOK /\ HistoryInv /\ SuffixInv /\ RetentionInv /\ ShedInv /\ CheckpointInv
    /\ [Next]_vars
    => CheckpointInv'
<1> SUFFICES ASSUME TypeOK, HistoryInv, SuffixInv, RetentionInv, ShedInv, CheckpointInv,
                    [Next]_vars
             PROVE  CheckpointInv'
  OBVIOUS
<1>1. ASSUME NEW ev \in Events, AppendEvent(ev) PROVE CheckpointInv'
  BY <1>1, CheckpointAppend
<1>2. CASE Notify \/ FlushTimer \/ Close \/ WriteFails
  BY <1>2, CheckpointUntouched DEF Notify, FlushTimer, Close, WriteFails, memory, history, Running
<1>3. ASSUME NEW s, Ack(s) PROVE CheckpointInv'
  BY <1>3, CheckpointUntouched DEF Ack, history, Running
<1>4. ASSUME NEW w, Compact(w) PROVE CheckpointInv'
  <2>1. entries' \subseteq entries /\ UNCHANGED <<checkpoint, timeline>> /\ Running
    BY <1>4, Subsets DEF Compact, history, Running
  <2> QED BY <2>1, CheckpointUntouched
<1>5. CASE WriteFile
  BY <1>5, CheckpointUntouched DEF WriteFile, memory, Running
<1>6. CASE WriteIdx
  <2>1. CASE resume = "down"
    BY <1>6, <2>1, CheckpointEnds, ForgetType DEF WriteIdx, history
  <2>2. CASE resume # "down"
    BY <1>6, <2>2, CheckpointUntouched DEF WriteIdx, memory, history, Running
  <2> QED BY <2>1, <2>2
<1>7. ASSUME NEW k, Crash(k) \/ PowerLoss(k) PROVE CheckpointInv'
  BY <1>7, CheckpointEnds, ForgetType DEF Crash, PowerLoss, Surviving
<1>8. CASE Open
  BY <1>8, CheckpointOpen
<1>9. CASE UNCHANGED vars
  BY <1>9 DEF vars, control, memory, history, CheckpointInv, CheckpointIsLive, Running
<1> QED
  BY <1>1, <1>2, <1>3, <1>4, <1>5, <1>6, <1>7, <1>8, <1>9 DEF Next

LEMMA CheckpointInvariant ==
    Spec => [](/\ TypeOK /\ HistoryInv /\ RewindInv /\ SuffixInv /\ RetentionInv
               /\ ShedInv /\ CheckpointInv)
BY SuffixInvariant, InitRetention, NextRetention, InitRewind, NextRewind, InitShed, NextShed,
   InitCheckpoint, NextCheckpoint, PTL DEF Spec

\* A checkpoint carries only what the surviving history has not superseded, and all of
\* it that is retained, whatever was evicted, lost and recovered before.
THEOREM CheckpointAgrees == Spec => []CheckpointIsLive
<1>1. CheckpointInv => CheckpointIsLive
  BY DEF CheckpointInv
<1> QED BY <1>1, CheckpointInvariant, PTL

\* Of what the checkpoint carries only a message leaves it without being superseded,
\* pushed out by later messages: eviction takes nothing from it.
THEOREM CheckpointOutlives == Spec => CheckpointOutlivesEviction
<1> DEFINE Step == Running /\ Running' => \A e \in checkpoint \ checkpoint' :
                      e.role = "message" \/ Superseded(e, timeline')
<1>1. ASSUME HistoryInv, CheckpointInv, [Next]_vars PROVE Step
  <2> SUFFICES ASSUME Running, Running', NEW e \in checkpoint, e \notin checkpoint'
               PROVE  e.role = "message" \/ Superseded(e, timeline')
    OBVIOUS
  <2>1. e \in Live(timeline) /\ checkpoint \subseteq timeline
    BY <1>1, Subsets DEF CheckpointInv, CheckpointIsLive
  <2>2. ASSUME NEW ev \in Events, AppendEvent(ev)
        PROVE  e.role = "message" \/ Superseded(e, timeline')
    <3> DEFINE n == Stamp(lastSeq + 1, ev, epoch)
    <3>1. checkpoint' = Live(checkpoint \cup {n}) /\ timeline' = timeline \cup {n}
      BY <2>2 DEF AppendEvent, CheckpointAfter, Fold
    <3> HIDE DEF n
    <3>2. e.role = "message" \/ Superseded(e, checkpoint \cup {n})
      BY <2>1, <3>1 DEF Live
    <3> QED BY <2>1, <3>1, <3>2 DEF Superseded
  <2>3. CASE UNCHANGED checkpoint
    BY <2>3
  <2>4. CASE Notify \/ FlushTimer \/ Close \/ WriteFile \/ WriteFails \/ UNCHANGED vars
    BY <2>3, <2>4 DEF Notify, FlushTimer, Close, WriteFile, WriteFails, memory, vars
  <2>5. CASE WriteIdx
    BY <2>3, <2>5, ForgetType DEF WriteIdx, memory, Running
  <2>6. ASSUME NEW s, Ack(s) \/ Compact(s) PROVE UNCHANGED checkpoint
    BY <2>6 DEF Ack, Compact
  <2>7. ASSUME NEW k, Crash(k) \/ PowerLoss(k) PROVE FALSE
    BY <2>7, ForgetType DEF Crash, PowerLoss, Running
  <2>8. ~Open
    BY DEF Open, Running
  <2> QED BY <1>1, <2>2, <2>3, <2>4, <2>5, <2>6, <2>7, <2>8 DEF Next
<1>2. HistoryInv /\ CheckpointInv /\ [Next]_vars => [Step]_vars
  BY <1>1
<1> QED BY <1>2, CheckpointInvariant, PTL DEF Spec, CheckpointOutlivesEviction
=============================================================================

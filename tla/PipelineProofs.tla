--------------------------- MODULE PipelineProofs ---------------------------
(***************************************************************************)
(* Proofs about the worker of Pipeline.tla, for every source, batch size   *)
(* and number of frames and keys: no event is lost on its way to the log,  *)
(* the recording and the last snapshot are complete when the worker is     *)
(* done, and no snapshot of a capture or a replay shows frames that were   *)
(* cleared away.                                                           *)
(*                                                                         *)
(* The three rest on where the worker is when it looks at a flag: events   *)
(* are pending only between a delivery and the drain that follows it, so   *)
(* the clear flag is always taken with nothing pending (PendingPlace); and *)
(* once the last flush has run, only the publication it asked for is left  *)
(* to do (WoundUp).                                                        *)
(***************************************************************************)
EXTENDS Pipeline, TLAPS

(* The counters count, and publish knows where it was called from *)
PipelineTypes ==
  /\ pkts \in Nat /\ pending \in Nat /\ emitted \in Nat
  /\ buffered \in Nat /\ durable \in Nat
  /\ left \in Nat /\ got \in Nat /\ got < Batch
  /\ snap.pkts \in Nat
  /\ ret \in {"top", "input", "readfocus", "flush", "final", "done"}

(* Only a capture makes events, and they are pending only between the      *)
(* delivery of a batch and the drain that follows it: not at the top of    *)
(* the loop, where the clear flag is taken, and not when a pipe ends       *)
(* without having delivered anything.                                      *)
PendingPlace ==
  /\ got # 0 => pc = "reading"
  /\ pending # 0 => pc = "drain" \/ (pc = "reading" /\ got # 0)

OnlyCaptureEmits ==
  mode # "capture" =>
    /\ emitted = 0 /\ pending = 0 /\ buffered = 0 /\ durable = 0
    /\ pc \notin {"reading", "eof", "drain"}

Publishing == pc \in {"hint", "store"}

(* After the last flush only its publication is left, and it is a full one *)
WoundUp ==
  /\ (mode # "jsonl" /\ (pc = "done" \/ (Publishing /\ ret = "done")))
       => durable = emitted
  /\ (Publishing /\ ret = "done") => full = TRUE
  /\ (pc = "done" /\ mode # "jsonl") => snap.full = TRUE /\ snap.pkts = pkts

PipelineInv ==
  /\ PipelineTypes
  /\ PendingPlace
  /\ OnlyCaptureEmits
  /\ EventsConserved
  /\ WoundUp
  /\ NoStaleCounts

-----------------------------------------------------------------------------

LEMMA InitPipeline == Init => PipelineInv
BY PipelineAssumption
   DEF Init, NoSnapshot, Imported, PipelineInv, PipelineTypes, PendingPlace, OnlyCaptureEmits,
       EventsConserved, WoundUp, Publishing, NoStaleCounts

(* Counting the frames of a batch wraps only when the batch is full *)
LEMMA BatchCount ==
  ASSUME NEW g \in Nat
  PROVE  /\ (g + 1) % Batch \in 0 .. Batch - 1
         /\ g + 1 < Batch => (g + 1) % Batch = g + 1
         /\ g + 1 = Batch => (g + 1) % Batch = 0
BY PipelineAssumption

LEMMA NextPipeline == PipelineInv /\ [Next]_vars => PipelineInv'
<1> SUFFICES ASSUME PipelineInv, [Next]_vars PROVE PipelineInv'
  OBVIOUS
<1> USE DEF PipelineInv, PipelineTypes, PendingPlace, OnlyCaptureEmits, EventsConserved,
            WoundUp, Publishing, NoStaleCounts, At, Goto, Publish,
            start, flags, corr, log, source, publication, control
<1>1. CASE PollSignal
  BY <1>1 DEF PollSignal
<1>2. CASE CheckQuit
  BY <1>2 DEF CheckQuit
<1>3. CASE CheckPause
  BY <1>3 DEF CheckPause
<1>4. CASE TakeClear
  <2> USE DEF TakeClear
  <2>1. CASE ~clear
    BY <1>4, <2>1
  <2>2. CASE clear /\ mode # "jsonl"
    BY <1>4, <2>2
  <2>3. CASE clear /\ mode = "jsonl"
    <3>1. /\ pc = "clear" /\ pc' = "input" /\ snap'.pkts = 0
          /\ UNCHANGED <<mode, pkts, pending, emitted, buffered, durable, left, got, ret>>
      BY <1>4, <2>3 DEF NoSnapshot
    <3> HIDE DEF TakeClear
    <3> QED
      BY <2>3, <3>1
  <2> QED
    BY <2>1, <2>2, <2>3
<1>5. CASE ReadHint
  BY <1>5 DEF ReadHint
<1>6. CASE StoreSnapshot
  <2>1. /\ pc = "store" /\ pc' = ret /\ ret' = ret
        /\ snap'.pkts = pkts /\ snap'.full = full
        /\ UNCHANGED <<mode, pkts, pending, emitted, buffered, durable, left, got>>
    BY <1>6 DEF StoreSnapshot
  <2>2. PipelineTypes' /\ PendingPlace' /\ OnlyCaptureEmits'
    BY <2>1
  <2>3. EventsConserved' /\ NoStaleCounts'
    BY <2>1
  <2>4. WoundUp'
    BY <2>1
  <2> QED
    BY <2>2, <2>3, <2>4
<1>7. CASE DeliverFrames
  <2> USE DEF DeliverFrames, Emit
  <2>1. pkts' \in Nat /\ pkts <= pkts' /\ left' \in Nat
    BY <1>7
  <2>2. \E e \in 0 .. 1 : pending' = pending + e /\ emitted' = emitted + e
    BY <1>7
  <2>3. /\ pc' = "drain" /\ pc = "input" /\ mode = "capture"
        /\ UNCHANGED <<mode, got, buffered, durable, snap, ret>>
    BY <1>7
  <2> HIDE DEF DeliverFrames, Emit
  <2> QED
    BY <2>1, <2>2, <2>3
<1>8. CASE Drain
  BY <1>8 DEF Drain
<1>9. CASE EnterStdin
  BY <1>9 DEF EnterStdin
<1>10. CASE StdinFrame
  <2> USE DEF StdinFrame, Emit
  <2>1. pkts' = pkts + 1 /\ left' \in Nat
    BY <1>10
  <2>2. \E e \in 0 .. 1 : pending' = pending + e /\ emitted' = emitted + e
    BY <1>10
  <2>3. /\ got' \in Nat /\ got' < Batch
        /\ (pc' = "drain" /\ got' = 0) \/ (pc' = "reading" /\ got' # 0)
    BY <1>10, BatchCount, PipelineAssumption
  <2>4. /\ pc = "reading" /\ UNCHANGED <<mode, buffered, durable, snap, ret>>
    BY <1>10
  <2>5. mode = "capture"
    BY <2>4
  <2> HIDE DEF StdinFrame, Emit
  <2> QED
    BY <2>1, <2>2, <2>3, <2>4, <2>5
<1>11. CASE StdinEof
  BY <1>11, PipelineAssumption DEF StdinEof
<1>12. CASE SourceEnds
  <2> USE DEF SourceEnds
  <2>1. /\ emitted' \in Nat /\ durable' \in Nat /\ buffered' \in Nat
        /\ pending = 0 /\ pending' = 0
        /\ emitted' = buffered' + durable'
    BY <1>12
  <2>2. /\ mode = "capture" /\ pc \in {"input", "eof"}
        /\ UNCHANGED <<mode, pkts, left, got, snap>>
    BY <1>12
  <2>3. /\ pc' \in {"readfocus", "final", "hint"}
        /\ IF pc' = "hint" THEN ret' \in {"readfocus", "final"} ELSE ret' = ret
    BY <1>12
  <2> HIDE DEF SourceEnds
  <2>4. PipelineTypes' /\ PendingPlace' /\ OnlyCaptureEmits'
    BY <2>1, <2>2, <2>3
  <2>5. EventsConserved' /\ NoStaleCounts'
    BY <2>1, <2>2, <2>3
  <2>6. WoundUp'
    BY <2>1, <2>2, <2>3
  <2> QED
    BY <2>4, <2>5, <2>6
<1>13. CASE ReadFocus
  BY <1>13 DEF ReadFocus
<1>14. CASE CompareAndPublish
  <2> USE DEF CompareAndPublish, AfterCompare
  <2>1. CASE ~Changed(search)
    BY <1>14, <2>1
  <2>2. CASE Changed(search) /\ mode = "jsonl"
    <3>1. /\ pc = "readsearch" /\ pc' \in {"top", "flush"} /\ snap'.pkts = MaxFrames
          /\ UNCHANGED <<mode, pkts, pending, emitted, buffered, durable, left, got, ret>>
      BY <1>14, <2>2 DEF ImportedWith, Imported
    <3> HIDE DEF CompareAndPublish
    <3> QED
      BY <2>2, <3>1, PipelineAssumption
  <2>3. CASE Changed(search) /\ mode # "jsonl"
    <3>1. /\ pc = "readsearch" /\ pc' = "hint" /\ ret' \in {"top", "flush"}
          /\ UNCHANGED <<mode, pkts, pending, emitted, buffered, durable, left, got, snap>>
      BY <1>14, <2>3
    <3> HIDE DEF CompareAndPublish
    <3> QED
      BY <3>1
  <2> QED
    BY <2>1, <2>2, <2>3
<1>15. CASE FlushRecorder
  BY <1>15 DEF FlushRecorder
<1>16. CASE ReplayRecord
  <2> USE DEF ReplayRecord
  <2>1. pkts' = pkts + 1 /\ left' \in Nat
    BY <1>16
  <2>2. CASE tui /\ due
    BY <1>16, <2>1, <2>2
  <2>3. CASE ~(tui /\ due)
    BY <1>16, <2>1, <2>3
  <2> QED
    BY <2>2, <2>3
<1>17. CASE ReplayEnds
  BY <1>17 DEF ReplayEnds
<1>18. CASE JsonlIdle
  BY <1>18 DEF JsonlIdle
<1>19. CASE WindUp
  <2> USE DEF WindUp
  <2>1. CASE mode = "capture"
    <3>1. /\ emitted' \in Nat /\ durable' \in Nat /\ durable' = emitted'
          /\ buffered' = 0 /\ pending' = 0 /\ emitted' = 0 + 0 + durable'
      BY <1>19, <2>1
    <3>2. /\ pc = "final" /\ pc' = "hint" /\ full' = TRUE /\ ret' = "done"
          /\ UNCHANGED <<mode, pkts, left, got, snap>>
      BY <1>19, <2>1
    <3> HIDE DEF WindUp
    <3> QED
      BY <2>1, <3>1, <3>2
  <2>2. CASE mode # "capture"
    BY <1>19, <2>2
  <2> QED
    BY <2>1, <2>2
<1>20. CASE Clock
  BY <1>20 DEF Clock
<1>21. CASE Signal
  BY <1>21 DEF Signal
<1>22. CASE PipeCloses
  BY <1>22 DEF PipeCloses
<1>23. CASE Key
  BY <1>23 DEF Key
<1>24. CASE LeaveUi
  BY <1>24 DEF LeaveUi
<1>25. CASE UiFails
  BY <1>25 DEF UiFails
<1>26. CASE JsonlHeadless
  BY <1>26 DEF JsonlHeadless
<1>27. CASE Join
  BY <1>27 DEF Join
<1>28. CASE UNCHANGED vars
  BY <1>28 DEF vars
<1> QED
  BY <1>1, <1>2, <1>3, <1>4, <1>5, <1>6, <1>7, <1>8, <1>9, <1>10, <1>11, <1>12, <1>13, <1>14, <1>15, <1>16, <1>17, <1>18, <1>19, <1>20, <1>21, <1>22, <1>23, <1>24, <1>25, <1>26, <1>27, <1>28 DEF Next, Worker

LEMMA PipelineInvariant == Spec => []PipelineInv
BY InitPipeline, NextPipeline, PTL DEF Spec

(* Every event the correlator made is pending, in the writer's buffer or   *)
(* on disk, at every step of the worker and however often the operator     *)
(* clears: Correlator::clear drops the pending events, but the worker only *)
(* takes the flag when there are none.                                     *)
THEOREM ClearLosesNoEvent == Spec => []EventsConserved
<1>1. PipelineInv => EventsConserved
  BY DEF PipelineInv
<1> QED
  BY <1>1, PipelineInvariant, PTL

(* When the worker of a capture or a replay is done, every event is on     *)
(* disk and the snapshot that reports and exports read is a full one of    *)
(* everything counted, whichever way the loop ended.                       *)
THEOREM CompleteWhenDone == Spec => []CompleteAtExit
<1>1. PipelineInv => CompleteAtExit
  BY DEF PipelineInv, WoundUp, CompleteAtExit
<1> QED
  BY <1>1, PipelineInvariant, PTL

(* In a capture or a replay the counts of a snapshot never exceed the      *)
(* correlator's, except while the publication of an emptied state is on    *)
(* its way (run_capture_loop, run_replay, publish).  The snapshot of a     *)
(* jsonl view is the imported one, which a clear does not empty for good.  *)
THEOREM SnapshotsNotStale == Spec => []NoStaleCounts
<1>1. PipelineInv => NoStaleCounts
  BY DEF PipelineInv
<1> QED
  BY <1>1, PipelineInvariant, PTL
=============================================================================

------------------------- MODULE RtpSequenceProofs -------------------------
(***************************************************************************)
(* For every number space, window and restart threshold: the reorder       *)
(* bitmap holds exactly the missing positions of the window, and the       *)
(* tracker implements RtpLoss.                                             *)
(***************************************************************************)
EXTENDS RtpSequence, FiniteSetTheorems, TLAPS

-----------------------------------------------------------------------------
(* A set of positions and its set of ages relative to h have the same      *)
(* number of elements (the age of a bit of the bitmap is a distance).      *)
LEMMA AgesCardinality ==
  ASSUME NEW h \in Int, NEW A \in SUBSET Int, IsFiniteSet(A)
  PROVE  /\ IsFiniteSet({h - a : a \in A})
         /\ Cardinality({h - a : a \in A}) = Cardinality(A)
<1> DEFINE T == {h - a : a \in A}
           f == [a \in A |-> h - a]
<1>1. f \in Bijection(A, T)
  <2>1. f \in [A -> T]
    OBVIOUS
  <2>2. \A x, y \in A : f[x] = f[y] => x = y
    OBVIOUS
  <2>3. \A t \in T : \E x \in A : f[x] = t
    OBVIOUS
  <2> HIDE DEF f, T
  <2> QED
    BY <2>1, <2>2, <2>3 DEF Bijection, Injection, Surjection, IsInjective
<1>2. ExistsBijection(A, T)
  BY <1>1 DEF ExistsBijection
<1> QED
  BY <1>2, FS_Bijection

(* Two disjoint finite sets: cardinalities add up. *)
LEMMA DisjointUnion ==
  ASSUME NEW S, IsFiniteSet(S), NEW T, IsFiniteSet(T), S \cap T = {}
  PROVE  /\ IsFiniteSet(S \cup T)
         /\ Cardinality(S \cup T) = Cardinality(S) + Cardinality(T)
<1>1. Cardinality(S) \in Nat /\ Cardinality(T) \in Nat
  BY FS_CardinalityType
<1> QED
  BY <1>1, FS_Union, FS_EmptySet

(* The bitmap fits its window, so it is finite, and so are its expired     *)
(* bits.                                                                   *)
LEMMA MaskFinite ==
  ASSUME NEW mask \in SUBSET (1 .. Window)
  PROVE  IsFiniteSet(mask) /\ Cardinality(mask) \in Nat
<1>1. IsFiniteSet(1 .. Window)
  BY FS_Interval, SequenceAssumption
<1> QED
  BY <1>1, FS_Subset, FS_CardinalityType

(* Missing positions form a finite set. *)
LEMMA MissingFinite ==
  ASSUME NEW lo \in Int, NEW up \in Int, NEW got
  PROVE  /\ IsFiniteSet(Loss!Missing(lo, up, got))
         /\ Cardinality(Loss!Missing(lo, up, got)) \in Nat
<1>1. IsFiniteSet(lo .. up)
  BY FS_Interval
<1>2. Loss!Missing(lo, up, got) \in SUBSET (lo .. up)
  BY DEF Loss!Missing
<1> QED
  BY <1>1, <1>2, FS_Subset, FS_CardinalityType

-----------------------------------------------------------------------------
(* Init establishes the invariant: nothing arrived, nothing lost. *)
LEMMA InitEstablishes == Init => IInv
<1> SUFFICES ASSUME Init PROVE IInv
  OBVIOUS
<1> USE SequenceAssumption DEF Init
<1>1. TypeOK
  <2>1. 0 \in Seqs
    BY DEF Seqs, Modulus
  <2>2. started \in BOOLEAN
    BY Zenon
  <2>3. /\ pending \subseteq 1 .. Window
        /\ arrived \subseteq Int
    BY Zenon
  <2> QED
    BY <2>1, <2>2, <2>3 DEF TypeOK
<1>2. Epoch
  BY DEF Epoch
<1>3. PendingIsMissing
  BY DEF PendingIsMissing
<1>4. SettledLoss
  <2>1. Loss!Missing(base, hi - Window - 1, arrived) = {}
    BY DEF Loss!Missing
  <2> QED
    BY <2>1, FS_EmptySet DEF SettledLoss
<1> QED
  BY <1>1, <1>2, <1>3, <1>4 DEF IInv

-----------------------------------------------------------------------------
(* The arithmetic of a forward step: the positions that leave the window   *)
(* are the ones already outside, the expired bits and the part of the gap  *)
(* the window cannot hold.                                                 *)
LEMMA ForwardSettles ==
  ASSUME IInv, started, NEW d \in Int, d >= 1
  PROVE  Cardinality(Loss!Missing(base, hi + d - Window - 1, arrived \cup {hi + d}))
           = Cardinality(Loss!Missing(base, hi - Window - 1, arrived))
               + Cardinality(Expired(pending, d)) + (d - 1 - Buffered(d))
<1> DEFINE Old == Loss!Missing(base, hi - Window - 1, arrived)
           Exp == {hi - a : a \in Expired(pending, d)}
           Skip == (hi + 1) .. (hi + d - Window - 1)
           New == Loss!Missing(base, hi + d - Window - 1, arrived \cup {hi + d})
<1> USE SequenceAssumption
<1>0. TypeOK /\ Epoch /\ PendingIsMissing
  BY DEF IInv
<1>1. New = (Old \cup Exp) \cup Skip
  <2>1. Exp = {p \in (hi - Window) .. (hi - 1) :
                 p <= hi + d - Window - 1 /\ p >= base /\ p \notin arrived}
    <3>1. ASSUME NEW p \in Exp
          PROVE  /\ p \in (hi - Window) .. (hi - 1)
                 /\ p <= hi + d - Window - 1 /\ p >= base /\ p \notin arrived
      BY <1>0, <3>1 DEF TypeOK, PendingIsMissing, Expired
    <3>2. ASSUME NEW p \in (hi - Window) .. (hi - 1),
                 p <= hi + d - Window - 1, p >= base, p \notin arrived
          PROVE  p \in Exp
      <4>1. hi - p \in Expired(pending, d)
        BY <1>0, <3>2 DEF TypeOK, PendingIsMissing, Expired
      <4>2. p = hi - (hi - p)
        BY <1>0 DEF TypeOK
      <4> QED
        BY <4>1, <4>2
    <3> QED
      BY <3>1, <3>2
  <2> HIDE DEF Exp
  <2>2. hi \in Int /\ base \in Int /\ arrived \subseteq Int /\ hi \in arrived
        /\ base <= hi /\ \A p \in arrived : p <= hi
    BY <1>0 DEF TypeOK, Epoch
  <2>3. ASSUME NEW p \in New PROVE p \in (Old \cup Exp) \cup Skip
    BY <2>1, <2>2, <2>3 DEF Loss!Missing
  <2>4. ASSUME NEW p \in (Old \cup Exp) \cup Skip PROVE p \in New
    BY <2>1, <2>2, <2>4 DEF Loss!Missing
  <2> QED
    BY <2>3, <2>4
<1>2. IsFiniteSet(Old) /\ Cardinality(Old) \in Nat
  BY <1>0, MissingFinite DEF TypeOK
<1>3. Expired(pending, d) \in SUBSET (1 .. Window)
  BY <1>0 DEF TypeOK, Expired
<1>4. /\ IsFiniteSet(Expired(pending, d))
      /\ Cardinality(Expired(pending, d)) \in Nat
  BY <1>3, MaskFinite
<1>5. IsFiniteSet(Exp) /\ Cardinality(Exp) = Cardinality(Expired(pending, d))
  <2>1. Expired(pending, d) \in SUBSET Int /\ hi \in Int
    BY <1>0, <1>3 DEF TypeOK
  <2> QED
    BY <2>1, <1>4, AgesCardinality
<1>6. IsFiniteSet(Skip) /\ Cardinality(Skip) = d - 1 - Buffered(d)
  <2> DEFINE lo == hi + 1
             up == hi + d - Window - 1
  <2>1. lo \in Int /\ up \in Int
    BY <1>0 DEF TypeOK
  <2>2. up - lo + 1 = d - 1 - Window
    BY <1>0 DEF TypeOK
  <2> HIDE DEF lo, up
  <2>3. /\ IsFiniteSet(lo .. up)
        /\ Cardinality(lo .. up) = IF lo > up THEN 0 ELSE up - lo + 1
    BY <2>1, FS_Interval
  <2>4. IsFiniteSet(lo .. up) /\ Cardinality(lo .. up) = d - 1 - Buffered(d)
    BY <2>1, <2>2, <2>3 DEF Buffered
  <2> QED
    BY <2>4 DEF lo, up
<1>7. Old \cap Exp = {}
  BY <1>0, <1>3 DEF TypeOK, Loss!Missing
<1>8. (Old \cup Exp) \cap Skip = {}
  BY <1>0, <1>3 DEF TypeOK, Loss!Missing
<1> HIDE DEF Old, Exp, Skip, New
<1>9. /\ IsFiniteSet(Old \cup Exp)
      /\ Cardinality(Old \cup Exp) = Cardinality(Old) + Cardinality(Exp)
  BY <1>2, <1>5, <1>7, DisjointUnion
<1>10. Cardinality((Old \cup Exp) \cup Skip)
         = Cardinality(Old \cup Exp) + Cardinality(Skip)
  BY <1>6, <1>8, <1>9, DisjointUnion
<1>11. Cardinality(New) = Cardinality(Old) + Cardinality(Expired(pending, d))
                            + (d - 1 - Buffered(d))
  BY <1>1, <1>2, <1>4, <1>5, <1>6, <1>9, <1>10
<1> QED
  BY <1>11 DEF Old, New

-----------------------------------------------------------------------------
(* One lemma per action of observe_sequence: the first packet opens an     *)
(* epoch with nothing missing.                                             *)
LEMMA FirstPacketStep ==
  ASSUME IInv, NEW seq \in Seqs, FirstPacket(seq)
  PROVE  IInv'
<1> USE SequenceAssumption
<1>0. TypeOK /\ Epoch /\ ~started
  BY DEF IInv, FirstPacket
<1>1. seq \in Int
  BY DEF Seqs, Modulus
<1>2. TypeOK'
  <2>1. started' \in BOOLEAN
    BY DEF FirstPacket
  <2>2. packet_count' \in Nat /\ lost_packets' \in Nat /\ restarts' \in Nat
    BY <1>0 DEF FirstPacket, Counted, TypeOK
  <2> QED
    BY <1>0, <1>1, <2>1, <2>2 DEF FirstPacket, TypeOK
<1>3. Epoch'
  BY <1>1 DEF Epoch, FirstPacket
<1>4. PendingIsMissing'
  BY <1>0, <1>1 DEF PendingIsMissing, FirstPacket, Epoch
<1>5. SettledLoss'
  <2>1. Loss!Missing(base', hi' - Window - 1, arrived') = {}
    BY <1>1 DEF Loss!Missing, FirstPacket
  <2>2. lost_packets' = 0 /\ closed' = 0
    BY <1>0 DEF FirstPacket, Epoch
  <2> QED
    BY <2>1, <2>2, FS_EmptySet DEF SettledLoss
<1> QED
  BY <1>2, <1>3, <1>4, <1>5 DEF IInv

(* A repeated newest packet changes only packet_count. *)
LEMMA DuplicateStep ==
  ASSUME IInv, NEW seq \in Seqs, Duplicate(seq)
  PROVE  IInv'
<1>1. UNCHANGED <<started, last, pending, lost_packets, restarts, base, hi, arrived, closed>>
  BY DEF Duplicate, history
<1>2. packet_count' \in Nat
  BY DEF Duplicate, Counted, IInv, TypeOK
<1>3. TypeOK'
  BY <1>1, <1>2 DEF IInv, TypeOK
<1> QED
  BY <1>1, <1>3 DEF IInv, Epoch, PendingIsMissing, SettledLoss, Loss!Missing

(* A forward step moves every age by diff and settles what leaves the      *)
(* window (ForwardSettles).                                                *)
LEMMA ForwardStep ==
  ASSUME IInv, NEW seq \in Seqs, Forward(seq)
  PROVE  IInv'
<1> USE SequenceAssumption
<1> DEFINE d == WrappingSub(seq, last)
<1>0. TypeOK /\ Epoch /\ PendingIsMissing /\ SettledLoss /\ started
  BY DEF IInv, Forward
<1>1. d \in Int /\ d >= 1
  BY DEF Forward
<1>2. /\ lost_packets' = lost_packets + Cardinality(Expired(pending, d))
                           + (d - 1 - Buffered(d))
      /\ pending' = Shifted(pending, d) \cup 1 .. Buffered(d)
      /\ last' = seq /\ started' = started /\ restarts' = restarts
      /\ hi' = hi + d /\ arrived' = arrived \cup {hi + d}
      /\ base' = base /\ closed' = closed
      /\ packet_count' = packet_count + 1
  BY DEF Forward, Counted
<1> HIDE DEF d
<1>3. Buffered(d) \in 0 .. Window /\ d - 1 - Buffered(d) \in Nat
  BY <1>1 DEF Buffered
<1>4. Expired(pending, d) \in SUBSET (1 .. Window)
  BY <1>0 DEF TypeOK, Expired
<1>5. Cardinality(Expired(pending, d)) \in Nat
  BY <1>4, MaskFinite
<1>6. TypeOK'
  <2>1. Shifted(pending, d) \subseteq 1 .. Window
    BY <1>0, <1>1 DEF TypeOK, Shifted
  <2>2. pending' \subseteq 1 .. Window
    BY <1>2, <1>3, <2>1
  <2>3. lost_packets' \in Nat
    BY <1>0, <1>2, <1>3, <1>5 DEF TypeOK
  <2> QED
    BY <1>0, <1>1, <1>2, <2>2, <2>3 DEF TypeOK
<1>7. Epoch'
  BY <1>0, <1>1, <1>2 DEF Epoch, TypeOK
<1>8. PendingIsMissing'
  <2>1. ASSUME NEW a \in 1 .. Window
        PROVE  a \in pending' <=> /\ (hi + d) - a >= base
                                  /\ (hi + d) - a \notin arrived \cup {hi + d}
    <3>1. CASE a < d
      <4>1. a \in 1 .. Buffered(d)
        BY <1>1, <2>1, <3>1 DEF Buffered
      <4> QED
        BY <1>0, <1>1, <1>2, <3>1, <4>1 DEF TypeOK, Epoch
    <3>2. CASE a = d
      <4>1. a \notin 1 .. Buffered(d)
        BY <1>1, <3>2 DEF Buffered
      <4>2. a \notin Shifted(pending, d)
        BY <1>0, <1>1, <3>2 DEF Shifted, TypeOK
      <4> QED
        BY <1>0, <1>1, <1>2, <3>2, <4>1, <4>2 DEF TypeOK, Epoch
    <3>3. CASE a > d
      <4>1. a \notin 1 .. Buffered(d)
        BY <1>1, <3>3 DEF Buffered
      <4>2. a \in Shifted(pending, d) <=> a - d \in pending
        BY <1>0, <1>1, <2>1, <3>3 DEF Shifted, TypeOK
      <4>3. a - d \in pending <=> hi - (a - d) >= base /\ hi - (a - d) \notin arrived
        BY <1>0, <1>1, <2>1, <3>3 DEF PendingIsMissing, TypeOK
      <4>4. hi - (a - d) = (hi + d) - a /\ (hi + d) - a # hi + d
        BY <1>0, <1>1 DEF TypeOK
      <4> QED
        BY <1>2, <4>1, <4>2, <4>3, <4>4
    <3> QED
      BY <1>1, <3>1, <3>2, <3>3
  <2>2. pending' \subseteq 1 .. Window
    BY <1>6 DEF TypeOK
  <2> QED
    BY <1>2, <2>1, <2>2 DEF PendingIsMissing
<1>9. SettledLoss'
  <2>1. Cardinality(Loss!Missing(base, hi + d - Window - 1, arrived \cup {hi + d}))
           = Cardinality(Loss!Missing(base, hi - Window - 1, arrived))
               + Cardinality(Expired(pending, d)) + (d - 1 - Buffered(d))
    BY <1>0, <1>1, ForwardSettles
  <2>2. Cardinality(Loss!Missing(base, hi - Window - 1, arrived)) \in Nat
    BY <1>0, MissingFinite DEF TypeOK
  <2>3. lost_packets = closed + Cardinality(Loss!Missing(base, hi - Window - 1, arrived))
    BY <1>0 DEF SettledLoss
  <2>4. lost_packets' = closed'
          + Cardinality(Loss!Missing(base, hi + d - Window - 1, arrived \cup {hi + d}))
    BY <1>0, <1>2, <1>3, <1>5, <2>1, <2>2, <2>3 DEF TypeOK
  <2>5. Loss!Missing(base', hi' - Window - 1, arrived')
          = Loss!Missing(base, hi + d - Window - 1, arrived \cup {hi + d})
    BY <1>0, <1>1, <1>2 DEF Loss!Missing, TypeOK
  <2> QED
    BY <2>4, <2>5 DEF SettledLoss
<1> QED
  BY <1>6, <1>7, <1>8, <1>9 DEF IInv

(* A sender restart opens an epoch with nothing missing. *)
LEMMA SenderRestartStep ==
  ASSUME IInv, NEW seq \in Seqs, SenderRestart(seq)
  PROVE  IInv'
<1> USE SequenceAssumption
<1> DEFINE d == WrappingSub(seq, last)
<1>0. TypeOK /\ Epoch /\ started
  BY DEF IInv, SenderRestart
<1>1. d \in Int /\ d >= 1
  BY DEF SenderRestart
<1>2. /\ lost_packets' = lost_packets /\ closed' = lost_packets
      /\ pending' = {}
      /\ last' = seq /\ started' = started /\ restarts' = restarts + 1
      /\ hi' = hi + d /\ base' = hi + d /\ arrived' = {hi + d}
      /\ packet_count' = packet_count + 1
  BY DEF SenderRestart, Counted
<1> HIDE DEF d
<1>3. TypeOK'
  BY <1>0, <1>1, <1>2 DEF TypeOK
<1>4. Epoch'
  BY <1>0, <1>1, <1>2 DEF Epoch, TypeOK
<1>5. PendingIsMissing'
  BY <1>0, <1>1, <1>2 DEF PendingIsMissing, TypeOK
<1>6. SettledLoss'
  <2>1. Loss!Missing(base', hi' - Window - 1, arrived') = {}
    BY <1>0, <1>1, <1>2 DEF Loss!Missing, TypeOK
  <2> QED
    BY <1>0, <1>2, <2>1, FS_EmptySet DEF SettledLoss, TypeOK
<1> QED
  BY <1>3, <1>4, <1>5, <1>6 DEF IInv

(* A late packet clears the bit of its own age and no other. *)
LEMMA ReorderedStep ==
  ASSUME IInv, NEW seq \in Seqs, Reordered(seq)
  PROVE  IInv'
<1> USE SequenceAssumption
<1> DEFINE age == WrappingSub(last, seq)
           inside == age > 0 /\ age <= Window
<1>0. TypeOK /\ Epoch /\ PendingIsMissing /\ SettledLoss /\ started
  BY DEF IInv, Reordered
<1>1. age \in Int
  BY <1>0 DEF WrappingSub, Seqs, Modulus, TypeOK
<1>2. /\ pending' = IF inside THEN pending \ {age} ELSE pending
      /\ arrived' = IF inside THEN arrived \cup {hi - age} ELSE arrived
      /\ UNCHANGED <<started, last, lost_packets, restarts, base, hi, closed>>
      /\ packet_count' = packet_count + 1
  BY DEF Reordered, Counted
<1> HIDE DEF age
<1>3. TypeOK'
  BY <1>0, <1>1, <1>2 DEF TypeOK
<1>4. Epoch'
  BY <1>0, <1>1, <1>2 DEF Epoch, TypeOK
<1>5. PendingIsMissing'
  BY <1>0, <1>1, <1>2 DEF PendingIsMissing, TypeOK
<1>6. SettledLoss'
  <2>1. Loss!Missing(base', hi' - Window - 1, arrived')
          = Loss!Missing(base, hi - Window - 1, arrived)
    BY <1>0, <1>1, <1>2 DEF Loss!Missing, TypeOK
  <2> QED
    BY <1>0, <1>2, <2>1 DEF SettledLoss
<1> QED
  BY <1>3, <1>4, <1>5, <1>6 DEF IInv

(* Every step keeps the invariant. *)
LEMMA NextPreserves == IInv /\ [Next]_vars => IInv'
<1> SUFFICES ASSUME IInv, [Next]_vars PROVE IInv'
  OBVIOUS
<1>1. CASE Next
  BY <1>1, FirstPacketStep, DuplicateStep, ForwardStep, SenderRestartStep,
     ReorderedStep DEF Next
<1>2. CASE UNCHANGED vars
  BY <1>2 DEF vars, code, history, IInv, TypeOK, Epoch, PendingIsMissing,
              SettledLoss, Loss!Missing
<1> QED
  BY <1>1, <1>2

(* The inductive invariant holds in every reachable state: bitmap and      *)
(* counter together account for every missing position exactly once.       *)
THEOREM SequenceInvariant == Spec => []IInv
<1> QED
  BY InitEstablishes, NextPreserves, PTL DEF Spec

(* Bit age-1 of pending_mask is set exactly when last-age is missing, for  *)
(* every window and every arrival order (media_stats.rs, pending_mask).    *)
THEOREM BitmapMeaning == Spec => []PendingIsMissing
<1>1. IInv => PendingIsMissing
  BY DEF IInv
<1> QED
  BY <1>1, SequenceInvariant, PTL

-----------------------------------------------------------------------------
(* The snapshot's lost_packets counts each missing position of the epoch   *)
(* once: settled ones in the counter, the others in the bitmap.            *)
Reported ==
  started => SnapshotLost = closed + Cardinality(Loss!Missing(base, hi, arrived))

(* What a snapshot reports, lost_packets plus the set bits, is the number  *)
(* of missing positions of the epoch on top of earlier epochs.             *)
LEMMA ReportedLoss == IInv => Reported
<1> SUFFICES ASSUME IInv, started
             PROVE  SnapshotLost = closed + Cardinality(Loss!Missing(base, hi, arrived))
  BY DEF Reported
<1> USE SequenceAssumption
<1> DEFINE Old == Loss!Missing(base, hi - Window - 1, arrived)
           Held == {hi - a : a \in pending}
           All == Loss!Missing(base, hi, arrived)
<1>0. TypeOK /\ Epoch /\ PendingIsMissing /\ SettledLoss
  BY DEF IInv
<1>1. hi \in Int /\ base \in Int /\ arrived \subseteq Int /\ hi \in arrived
  BY <1>0 DEF TypeOK, Epoch
<1>2. Held = {p \in (hi - Window) .. (hi - 1) : p >= base /\ p \notin arrived}
  <2>1. ASSUME NEW p \in Held
        PROVE  p \in (hi - Window) .. (hi - 1) /\ p >= base /\ p \notin arrived
    BY <1>0, <1>1, <2>1 DEF TypeOK, PendingIsMissing
  <2>2. ASSUME NEW p \in (hi - Window) .. (hi - 1), p >= base, p \notin arrived
        PROVE  p \in Held
    <3>1. hi - p \in pending
      BY <1>0, <1>1, <2>2 DEF PendingIsMissing
    <3>2. p = hi - (hi - p)
      BY <1>1
    <3> QED
      BY <3>1, <3>2
  <2> QED
    BY <2>1, <2>2
<1>3. /\ IsFiniteSet(pending) /\ Cardinality(pending) \in Nat
      /\ pending \in SUBSET Int
  <2>1. pending \in SUBSET (1 .. Window)
    BY <1>0 DEF TypeOK
  <2> QED
    BY <2>1, MaskFinite
<1>4. IsFiniteSet(Held) /\ Cardinality(Held) = Cardinality(pending)
  BY <1>1, <1>3, AgesCardinality
<1>5. IsFiniteSet(Old) /\ Cardinality(Old) \in Nat
  BY <1>1, MissingFinite
<1> HIDE DEF Held
<1>6. All = Old \cup Held /\ Old \cap Held = {}
  BY <1>1, <1>2 DEF Loss!Missing
<1> HIDE DEF Old, All
<1>7. Cardinality(All) = Cardinality(Old) + Cardinality(pending)
  BY <1>4, <1>5, <1>6, DisjointUnion
<1>8. lost_packets = closed + Cardinality(Old)
  BY <1>0 DEF SettledLoss, Old
<1>9. SnapshotLost = closed + Cardinality(All)
  BY <1>0, <1>3, <1>5, <1>7, <1>8 DEF SnapshotLost, TypeOK
<1> QED
  BY <1>9 DEF All

(* The cardinality of RtpLoss is the one of FiniteSets. *)
LEMMA SameCardinality == \A S : Loss!Cardinality(S) = Cardinality(S)
  BY Zenon DEF Cardinality, Loss!Cardinality

(* Every step of the bitmap tracker is a step of the set-based one, or     *)
(* leaves everything it reports alone.                                     *)
LEMMA StepRefines ==
  ASSUME IInv, Reported', Next
  PROVE  Loss!Next \/ UNCHANGED Loss!vars
<1> USE SequenceAssumption
<1>0. TypeOK
  BY DEF IInv
<1>1. started' => Loss!Report
  BY SameCardinality, Zenon DEF Reported, Loss!Report
<1>2. ASSUME NEW seq \in Seqs, FirstPacket(seq) PROVE Loss!First
  <2>1. started' /\ ~started /\ closed' = closed
    BY <1>2 DEF FirstPacket
  <2>2. seq \in 0 .. (2 * Half - 1)
    BY DEF Seqs, Modulus
  <2>3. base' = seq /\ hi' = seq /\ arrived' = {seq}
    BY <1>2 DEF FirstPacket
  <2> QED
    BY <1>1, <2>1, <2>2, <2>3 DEF Loss!First
<1>3. ASSUME NEW seq \in Seqs, Duplicate(seq) PROVE UNCHANGED Loss!vars
  <2>1. UNCHANGED <<started, base, hi, arrived, closed>>
    BY <1>3 DEF Duplicate, history
  <2>2. UNCHANGED <<lost_packets, pending>>
    BY <1>3 DEF Duplicate
  <2>3. UNCHANGED SnapshotLost
    BY <2>2 DEF SnapshotLost
  <2> QED
    BY <2>1, <2>3 DEF Loss!vars
<1>4. ASSUME NEW seq \in Seqs, Forward(seq) PROVE Loss!Advance
  <2> DEFINE d == WrappingSub(seq, last)
  <2>1. /\ d \in 1 .. RestartWindow
        /\ hi' = hi + d /\ arrived' = arrived \cup {hi + d}
        /\ started /\ started' = started /\ base' = base /\ closed' = closed
    BY <1>4 DEF Forward
  <2> HIDE DEF d
  <2>2. hi + d \in (hi + 1) .. (hi + RestartWindow)
    BY <1>0, <2>1 DEF TypeOK
  <2> QED
    BY <1>1, <2>1, <2>2 DEF Loss!Advance
<1>5. ASSUME NEW seq \in Seqs, SenderRestart(seq) PROVE Loss!Restart
  <2> DEFINE d == WrappingSub(seq, last)
  <2>1. /\ d \in (RestartWindow + 1) .. (Half - 1)
        /\ hi' = hi + d /\ base' = hi + d /\ arrived' = {hi + d}
        /\ started /\ started' = started /\ closed' = lost_packets
    BY <1>5 DEF SenderRestart
  <2> HIDE DEF d
  <2>2. hi + d \in (hi + RestartWindow + 1) .. (hi + Half - 1)
    BY <1>0, <2>1 DEF TypeOK
  <2>3. closed' = closed + Cardinality(Loss!Missing(base, hi - Window - 1, arrived))
    BY <2>1 DEF IInv, SettledLoss
  <2> QED
    BY <1>1, <2>1, <2>2, <2>3, SameCardinality DEF Loss!Restart
<1>6. ASSUME NEW seq \in Seqs, Reordered(seq)
      PROVE  Loss!InTime \/ UNCHANGED Loss!vars
  <2> DEFINE age == WrappingSub(last, seq)
  <2>1. age \in Int
    BY <1>0 DEF WrappingSub, Seqs, Modulus, TypeOK
  <2>2. /\ started
        /\ UNCHANGED <<started, base, hi, closed, lost_packets>>
        /\ IF age > 0 /\ age <= Window
             THEN arrived' = arrived \cup {hi - age}
             ELSE arrived' = arrived /\ pending' = pending
    BY <1>6 DEF Reordered
  <2> HIDE DEF age
  <2>3. CASE age > 0 /\ age <= Window
    <3>1. hi - age \in (hi - Window) .. (hi - 1)
      BY <1>0, <2>1, <2>3 DEF TypeOK
    <3> QED
      BY <1>1, <2>2, <2>3, <3>1 DEF Loss!InTime
  <2>4. CASE ~(age > 0 /\ age <= Window)
    <3>1. UNCHANGED SnapshotLost
      BY <2>2, <2>4 DEF SnapshotLost
    <3> QED
      BY <2>2, <2>4, <3>1 DEF Loss!vars
  <2> QED
    BY <2>3, <2>4
<1> QED
  BY <1>2, <1>3, <1>4, <1>5, <1>6 DEF Next, Loss!Next

(* The bitmap tracker implements the set-based tracker of RtpLoss: for     *)
(* every number space, window and threshold its reported loss is the       *)
(* number of positions an unbounded set would find missing.                *)
THEOREM BitmapImplementsSet == Spec => RefinesLoss
<1>1. Init => Loss!Init
  <2>1. ASSUME Init PROVE SnapshotLost = 0
    BY <2>1, FS_EmptySet DEF Init, SnapshotLost
  <2> QED
    BY <2>1 DEF Init, Loss!Init
<1>2. IInv /\ Reported' /\ [Next]_vars => [Loss!Next]_(Loss!vars)
  <2> SUFFICES ASSUME IInv, Reported', [Next]_vars
               PROVE  [Loss!Next]_(Loss!vars)
    OBVIOUS
  <2>1. CASE Next
    BY <2>1, StepRefines
  <2>2. CASE UNCHANGED vars
    BY <2>2 DEF vars, code, history, Loss!vars, SnapshotLost
  <2> QED
    BY <2>1, <2>2
<1> QED
  BY <1>1, <1>2, SequenceInvariant, ReportedLoss, PTL DEF Spec, RefinesLoss, Loss!Spec
=============================================================================

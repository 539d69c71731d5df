---------------------------- MODULE RtpSequence ----------------------------
(***************************************************************************)
(* The sequence-number half of MediaStatsAccumulator                       *)
(* (src/src/analyze/media_stats.rs): loss tracking over wrapping 16-bit    *)
(* sequence numbers with a 64-packet reorder bitmap.                       *)
(*                                                                         *)
(* The bitmap pending_mask is the set of the ages of its set bits (bit     *)
(* age-1 set <=> age \in pending).  Interarrival jitter (floating point)   *)
(* is not modelled.  The environment delivers any sequence number at any   *)
(* time, so loss, duplication, reordering and sender restarts are all      *)
(* behaviours.                                                             *)
(*                                                                         *)
(* base, hi, arrived and closed are history variables: the code does not   *)
(* keep them.  They hold the unwrapped position that the arithmetic of     *)
(* observe_sequence assigns to each arrival, and give `pending` and `lost` *)
(* their meaning.                                                          *)
(***************************************************************************)
EXTENDS Integers, FiniteSets

CONSTANTS Half,           \* 0x8000: half the u16 number space
          Window,         \* RTP_REORDER_WINDOW
          RestartWindow,  \* RTP_RESTART_WINDOW
          FirstSeqs,      \* sequence numbers a stream may begin with
          MaxPackets      \* bound on packet_count

Modulus == 2 * Half
Seqs == 0 .. (Modulus - 1)

ASSUME SequenceAssumption ==
  /\ Half \in Nat \ {0}
  /\ Window \in Nat \ {0}
  /\ RestartWindow \in Nat \ {0}
  /\ Window < Half
  /\ RestartWindow < Half
  /\ FirstSeqs \subseteq Seqs
  /\ MaxPackets \in Nat

VARIABLES started,       \* first_sequence.is_some()
          last,          \* last_sequence
          pending,       \* pending_mask, as the ages of its set bits
          lost_packets,
          restarts,
          packet_count,
          base, hi, arrived, closed   \* history

code == <<started, last, pending, lost_packets, restarts, packet_count>>
history == <<base, hi, arrived, closed>>
vars == <<code, history>>

-----------------------------------------------------------------------------

(* u16::wrapping_sub *)
WrappingSub(a, b) == (a - b) % Modulus

(* Mutants: the shift drops, and the expiry counts, one bit too many *)
ShiftedShort(mask, d) == {a + d : a \in {b \in mask : b + d < Window}}
ExpiredEarly(mask, d) == {b \in mask : b + d >= Window}

(* pending_mask <<= d, and the bits that fall off the window *)
Shifted(mask, d) == {a + d : a \in {b \in mask : b + d <= Window}}
Expired(mask, d) == {b \in mask : b + d > Window}

(* The gap of diff-1 packets: the part the window holds, as low bits *)
Buffered(diff) == IF diff - 1 <= Window THEN diff - 1 ELSE Window

(* Mutant: the snapshot ignores the window *)
SettledOnly == lost_packets

(* MediaStats::lost_packets of a snapshot *)
SnapshotLost == lost_packets + Cardinality(pending)

-----------------------------------------------------------------------------
Init ==
  /\ started = FALSE
  /\ last = 0
  /\ pending = {}
  /\ lost_packets = 0
  /\ restarts = 0
  /\ packet_count = 0
  /\ base = 0 /\ hi = 0 /\ arrived = {} /\ closed = 0

(* observe counts every packet before it looks at the header *)
Counted ==
  /\ packet_count < MaxPackets
  /\ packet_count' = packet_count + 1

(* first_sequence is None *)
FirstPacket(seq) ==
  /\ Counted
  /\ ~started
  /\ seq \in FirstSeqs
  /\ started' = TRUE
  /\ last' = seq
  /\ UNCHANGED <<pending, lost_packets, restarts>>
  /\ base' = seq /\ hi' = seq /\ arrived' = {seq} /\ closed' = closed

(* diff = 0: the newest packet again; a packet without an RTP header is    *)
(* only counted too                                                        *)
Duplicate(seq) ==
  /\ Counted
  /\ started
  /\ WrappingSub(seq, last) = 0
  /\ UNCHANGED <<started, last, pending, lost_packets, restarts, history>>

(* 0 < diff <= RTP_RESTART_WINDOW *)
Forward(seq) ==
  LET diff == WrappingSub(seq, last)
      buffered == Buffered(diff)
  IN /\ Counted
     /\ started
     /\ diff \in 1 .. (Half - 1)
     /\ diff <= RestartWindow
     /\ lost_packets' = lost_packets + Cardinality(Expired(pending, diff))
                          + (diff - 1 - buffered)
     /\ pending' = Shifted(pending, diff) \cup 1 .. buffered
     /\ last' = seq
     /\ UNCHANGED <<started, restarts>>
     /\ hi' = hi + diff
     /\ arrived' = arrived \cup {hi + diff}
     /\ UNCHANGED <<base, closed>>

(* RTP_RESTART_WINDOW < diff < 0x8000 *)
SenderRestart(seq) ==
  LET diff == WrappingSub(seq, last)
  IN /\ Counted
     /\ started
     /\ diff \in 1 .. (Half - 1)
     /\ diff > RestartWindow
     /\ pending' = {}
     /\ restarts' = restarts + 1
     /\ last' = seq
     /\ UNCHANGED <<started, lost_packets>>
     /\ base' = hi + diff /\ hi' = hi + diff /\ arrived' = {hi + diff}
     /\ closed' = lost_packets

(* diff >= 0x8000: an older packet; its bit is cleared inside the window,  *)
(* and nothing happens beyond it                                           *)
Reordered(seq) ==
  LET age == WrappingSub(last, seq)
  IN /\ Counted
     /\ started
     /\ WrappingSub(seq, last) >= Half
     /\ pending' = IF age > 0 /\ age <= Window THEN pending \ {age} ELSE pending
     /\ UNCHANGED <<started, last, lost_packets, restarts>>
     /\ arrived' = IF age > 0 /\ age <= Window THEN arrived \cup {hi - age}
                                               ELSE arrived
     /\ UNCHANGED <<base, hi, closed>>

Next == \E seq \in Seqs : \/ FirstPacket(seq)
                          \/ Duplicate(seq)
                          \/ Forward(seq)
                          \/ SenderRestart(seq)
                          \/ Reordered(seq)

Spec == Init /\ [][Next]_vars

-----------------------------------------------------------------------------
TypeOK ==
  /\ started \in BOOLEAN
  /\ last \in Seqs
  /\ pending \subseteq 1 .. Window
  /\ lost_packets \in Nat
  /\ restarts \in Nat
  /\ packet_count \in Nat
  /\ base \in Int /\ hi \in Int
  /\ arrived \subseteq Int
  /\ closed \in Nat

(* The meaning the comment on pending_mask gives it: bit age-1 is set      *)
(* exactly when position last-age belongs to the epoch and has not         *)
(* arrived, after any mixture of shifts, expiries and recoveries.          *)
PendingIsMissing ==
  started => pending = {a \in 1 .. Window : hi - a >= base /\ hi - a \notin arrived}

Loss == INSTANCE RtpLoss WITH loss <- SnapshotLost

(* lost_packets alone, without the window, counts exactly the positions    *)
(* that left the window without arriving: none is counted twice, none is   *)
(* skipped by a gap wider than the window.                                 *)
SettledLoss ==
  lost_packets = closed + Cardinality(Loss!Missing(base, hi - Window - 1, arrived))

(* The reported loss is what an unbounded set of received positions would  *)
(* report: the bitmap implements the set-based tracker it replaced.        *)
RefinesLoss == Loss!Spec

(* The inductive invariant behind PendingIsMissing and RefinesLoss.        *)
Epoch ==
  /\ ~started => /\ pending = {} /\ arrived = {}
                 /\ lost_packets = 0 /\ closed = 0
                 /\ base = 0 /\ hi = 0
  /\ started => base <= hi /\ base \in arrived /\ hi \in arrived
  /\ \A p \in arrived : p <= hi

IInv == TypeOK /\ Epoch /\ PendingIsMissing /\ SettledLoss
=============================================================================

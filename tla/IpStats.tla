------------------------------ MODULE IpStats -------------------------------
(***************************************************************************)
(* Per-address traffic statistics (src/src/store/ipstats.rs) as operators: *)
(* all-time totals and two rings of time buckets, one of fine and one of   *)
(* coarse width.  Bytes follow the packets everywhere and are left out;    *)
(* the concurrent-call counter is in Correlator.tla.                       *)
(***************************************************************************)
EXTENDS Sums

CONSTANTS FineWidth, FineRetain,      \* SEC1: width and buckets kept
          CoarseWidth, CoarseRetain   \* SEC60

ASSUME IpStatsAssumption ==
  /\ FineWidth \in Nat \ {0} /\ CoarseWidth \in Nat \ {0}
  /\ FineRetain \in Nat \ {0} /\ CoarseRetain \in Nat \ {0}

Dirs == {"tx", "rx"}
Kinds == {"pkts", "lost"}
NoTraffic == [d \in Dirs |-> [k \in Kinds |-> 0]]

NewIp == [total |-> NoTraffic, last_seen |-> -1, sec1 |-> <<>>, sec60 |-> <<>>]

(* bucket_mut: the ring reaches forward to the key, gaps filled with empty *)
(* buckets and the front dropped beyond the retention.                     *)
Reaching(ring, key, retain) ==
  IF ring = <<>> THEN <<[key |-> key, b |-> NoTraffic]>>
  ELSE LET last == ring[Len(ring)].key
           gap == IF key > last THEN key - last ELSE 0
           all == ring \o [i \in 1 .. gap |-> [key |-> last + i, b |-> NoTraffic]]
       IN IF Len(all) <= retain THEN all ELSE SubSeq(all, Len(all) - retain + 1, Len(all))

(* Mutant: a late time is counted in the newest bucket *)
SlotNewest(ring, key) == Len(ring)

(* A late time goes to its bucket, or to the oldest when its own is gone *)
Slot(ring, key) ==
  IF \E i \in DOMAIN ring : ring[i].key = key
    THEN CHOOSE i \in DOMAIN ring : ring[i].key = key ELSE 1

InBucket(ring, t, width, retain, d, k, n) ==
  LET r == Reaching(ring, t \div width, retain)
  IN [r EXCEPT ![Slot(r, t \div width)].b[d][k] = @ + n]

Counted(ip, t, d, k, n) ==
  [ip EXCEPT !.total[d][k] = @ + n,
             !.sec1 = InBucket(@, t, FineWidth, FineRetain, d, k, n),
             !.sec60 = InBucket(@, t, CoarseWidth, CoarseRetain, d, k, n)]

AddPackets(ip, t, n, d) ==
  IF n = 0 THEN ip ELSE [Counted(ip, t, d, "pkts", n) EXCEPT !.last_seen = t]

AddLost(ip, t, n, d) ==
  IF n = 0 THEN ip
  ELSE [Counted(ip, t, d, "lost", n) EXCEPT !.last_seen = IF @ = -1 THEN t ELSE @]

(* sum_ring: the newest n buckets *)
SumRing(ring, n, d, k) ==
  SumOver([i \in DOMAIN ring |-> ring[i].b[d][k]], {i \in DOMAIN ring : i > Len(ring) - n})

(* window: all time, the fine ring, or the coarse one *)
Window(ip, secs, d, k) ==
  IF secs = 0 THEN ip.total[d][k]
  ELSE IF secs <= FineRetain * FineWidth THEN SumRing(ip.sec1, secs \div FineWidth, d, k)
  ELSE SumRing(ip.sec60, (secs + CoarseWidth - 1) \div CoarseWidth, d, k)

(* Columns of the heatmap: the keys of a ring in groups.  The rate shown   *)
(* is losses over packets.                                                 *)
HeatmapRing(ip, secs) == IF secs <= FineRetain * 10 THEN ip.sec1 ELSE ip.sec60
HeatmapColumns(ip, secs, cols) ==
  LET ring == HeatmapRing(ip, secs)
      w == IF secs <= FineRetain * 10 THEN FineWidth ELSE CoarseWidth
      g == IF (secs \div w) \div cols > 1 THEN (secs \div w) \div cols ELSE 1
  IN [c \in {ring[i].key \div g : i \in DOMAIN ring} |-> [k \in Kinds |->
        SumOver([i \in DOMAIN ring |-> ring[i].b["tx"][k] + ring[i].b["rx"][k]],
                {i \in DOMAIN ring : ring[i].key \div g = c})]]
=============================================================================
